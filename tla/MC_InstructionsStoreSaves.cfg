SPECIFICATION Spec
CONSTANTS
    A = A
    B = B
    f1 = f1
    f2 = f2
    d = d
    e = e
    Sections = {A, B}
    Files = {f1, f2}
    Texts = {d, e}
    Empty = Empty
    None = None
    SectionOf <- MCSectionOf
    FirstFile <- MCFirstFile
    Assistant = A
    Disk <- MCDisk
    Written = {e}
    MaxVersions = 2
    MaxGestures = 4
    MaxElsewhere = 0
    MaxCopies = 1
    MaxInFlight = 1
PROPERTIES
    SavesDropOnlyWhatTheyWrote
CHECK_DEADLOCK FALSE
