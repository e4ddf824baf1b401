SPECIFICATION MCSpec
CONSTANTS
    MaxHeight = 4
    ActivationHeight = 1
    PollSize = 3
    ChanSize = 2
    BatchSize = 3
    MaxRetries = 1
    PowerGaps = TRUE
    MaxJails = 1
    CanSlash = TRUE
    MaxFaults = 2
    MaxTip = 7
    Delay = 2
    NumPubRand = 3
    FirstHeight = 1
    MaxOffset = 20
    MaxCrashes = 2
    FileBackend = TRUE
    None = None
    Pk = {p1,p2}
    KeyName = {n1,n2}
    Chain = {c1}
    Height = {1,2}
    Msg = {m1,m2}
    Worker = {w1,w2}
    p1 = p1
    n1 = n1
    m1 = m1
    w1 = w1
    o1 = o1
    o2 = o2
    d1 = d1
    d2 = d2
    e1 = e1
    Offenders = {o1, o2}
    FpOf <- MCFpOf
    MaxEvidence = 2
    MaxFailures = 1
    MaxKills = 1
    Parts = {"steady","shaky","commit","sign","keys", "evidence", "selective"}
INVARIANTS  ProofsMatchCommits NoDoubleSign SignedByOwnKey
PROPERTIES AlwaysActiveVotes RandomnessCatchesUp OffendersAreSlashed
CHECK_DEADLOCK FALSE
