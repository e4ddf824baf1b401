SPECIFICATION MCSpec
CONSTANTS
    f1 = f1
    f2 = f2
    FP = {f1,f2}
    Tables <- MCTables
    ActivationHeight = 1
    SigTimeout = 1
    MaxBatch = 10
    Honest = {f1, f2}
    Faulty = {f2}
    MaxHeight = 3
    MaxProposals = 1
    LastEpoch = 2
    BufferSize = 1
    Attempts = 2
    MaxPairs = 2
    MaxVersions = 2
    MaxSubFaults = 1
    MaxRestarts = 1
    MaxForgotten = 1
    MaxLost = 1
    ConfDepth = 2
    FinalTimeout = 1
    CacheSize = 9
    Segments <- MCSegments
    StartLengths = {3}
    MaxLength = 5
    MaxReorg = 2
    MaxReorgs = 1
    MaxRepFaults <- MCFaults
    d1 = d1
    x1 = x1
    NoStake = NoStake
    Stakes = {d1, x1}
    Expands <- MCExpands
    StakeDepth = 1
    StartStatus <- MCStarts
    MaxBTCTip = 4
    MaxCalls = 1
    NumDels = 5
    Unsignable = {1}
    NotMine = {3}
    Foreign = {5}
    CovQuorum = 2
    OtherMembers = 2
    DelegationLimit = 2
    MaxPagination = 1
    SigsBatchSize = 2
    BatchRetryLimit = 0
    MaxCovFaults = 1
    Parts = {"tally", "submit", "report", "watch", "sign"}
INVARIANTS FinalizedPrefix  FinalizedAreRewarded 
PROPERTIES HonestFinalize StoredIsNotRebuilt SealedReachesBitcoin  StakesAreFollowed
    PendingGetSigned
CHECK_DEADLOCK FALSE
