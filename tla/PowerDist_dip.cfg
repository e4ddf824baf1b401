SPECIFICATION MCSpec
CONSTANTS
    NoDel = NoDel
    d1 = d1
    d2 = d2
    x1 = x1
    FP = {1,2}
    Del = {d1,d2,x1}
    FpOf <- MCFp
    SatOf <- MCSat
    PrevOf <- MCPrev
    Members = 1
    Quorum = 1
    StakingTime = 6
    UnbondingTime = 1
    Depth = 3
    MaxActive = 1
    BaseTip = 4
    MaxTip = 8
    Faulty = {}
    Late = {}
    Dips = TRUE
    LateSigs = FALSE
INVARIANT BeginBlockNeverPanics
