SPECIFICATION ServersSpec
CONSTANTS
    None = None
    i1 = i1
    k1 = k1
    k2 = k2
    e1 = e1
    e2 = e2
    t1 = t1
    t2 = t2
    s1 = s1
    s2 = s2
    s3 = s3
    Ids <- MCIds
    Keys <- MCKeys
    Endpoints <- MCEndpoints
    Tokens <- MCTokens
    Sources <- MCSources
    Ttl = 3
    SweepPeriod = 2
    Guard = 5
    MaxTime = 9
SYMMETRY ServersSymmetry
INVARIANTS
    StalenessBounded
    AttestsHolder
    IdleBounded
PROPERTIES
    NoTakeoverOfLiveId
    AnswersFresh
    LivePairStable
    ImplementsPairing
