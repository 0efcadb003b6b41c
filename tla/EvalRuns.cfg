SPECIFICATION FairSpec
CONSTANTS
    MaxRuns = 1
    MaxCases = 2
    Streams = {s1, s2}
INVARIANTS
    TypeOK
PROPERTIES
    ImplementsRunRecord
    StopsAreObeyed
    FollowersHear
