SPECIFICATION Spec
CONSTANTS
    Requests = {r1, r2}
    MaxMessages = 6
SYMMETRY Symmetry
CHECK_DEADLOCK FALSE
INVARIANTS
    TypeOK
    PointersFollowEdges
    BranchesEndWithAnswers
    WalkVisitsWhatIsShown
    PreviewIsWhatASwitchShows
PROPERTIES
    UndisturbedSwitchesAreShown
    ImplementsShownBranch
