SPECIFICATION MCSpec
CONSTANTS
    NoDel = NoDel
    d1 = d1
    d2 = d2
    x1 = x1
    FP = {1,2}
    Del = {d1,d2,x1}
    FpOf <- MCFp
    SatOf <- MCSat
    PrevOf <- MCPrev
    Members = 2
    Quorum = 1
    StakingTime = 4
    UnbondingTime = 1
    Depth = 1
    MaxActive = 1
    BaseTip = 2
    MaxTip = 7
    Faulty = {1}
    Late = {2}
    Dips = FALSE
    LateSigs = FALSE
INVARIANTS VotingPowerIffActive StakeCountedOnce BeginBlockNeverPanics ProvidersAgree
