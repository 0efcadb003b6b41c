SPECIFICATION FairSpec
CONSTANTS
    MaxJobs = 2
    Steps = 2
    Cancels = {c1}
    Streams = {s1}
CHECK_DEADLOCK FALSE
INVARIANTS
    TypeOK
    BuildersOwnTheLock
    CancellationsAreObeyed
    LiveBuildsAreNotCleared
PROPERTIES
    OnlyLateCancelsReopen
    BuildsEnd
    FollowersAreTold
