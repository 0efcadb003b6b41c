SPECIFICATION Spec
CONSTANTS
    MaxJobs = 2
    Steps = 1
    Cancels = {c1}
    Streams = {s1}
CHECK_DEADLOCK FALSE
PROPERTIES
    SkippedOnlyForABuild
