SPECIFICATION MCSpec
CONSTANTS
    MaxOps = 2
    Parts = {"votes","btc","co","ntk"}
    Provider = {1,2}
    Staker = {"a","b"}
    Stake = {1,2,3}
    ProviderOf <- MCProviderOf
    StakerOf <- MCStakerOf
    SatsOf <- MCSats
    Fees = {0,40}
    One = 1000
    DecimalRewards = 100
    BtcStakingPortion = 400
    FpPortion = 100
    Commission <- MCCommission
    MaxBlock = 3
    MaxChanges = 2
    Validator = {1,2}
    GenesisNtk <- MCGenesisNtk
    SelfBond = 1
    GenesisSet = {1}
    Ratio = 1
    Ratios = {1,2}
    CostakingPortion = 500
    Amounts = {1,2}
    Burns = {1}
    FP = {f1}
    Canonical = canon
    ActivationHeight = 1
    MinPubRand = 1
    MaxOffset = 2
    Forks = {fork1,fork2}
    Word = 8
    MaxHeight = 4
    MaxEpoch = 3
    MaxCommits = 2
INVARIANTS OneRandomnessPerHeight SlashedIffEquivocated RewardingNeverPanics TrackerMatchesPower RewardsAreBacked SharesAreExact ScoresAreCurrent
CHECK_DEADLOCK FALSE
