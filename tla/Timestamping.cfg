SPECIFICATION MCSpec
CONSTANTS
    Base = Base
    NoBlock = NoBlock
    a2 = a2
    a3 = a3
    a4 = a4
    a5 = a5
    c2 = c2
    b3 = b3
    b4 = b4
    b5 = b5
    b6 = b6
    b7 = b7
    s1 = s1
    u1 = u1
    t1 = t1
    s2 = s2
    t2 = t2
    x1 = x1
    Parent <- TreeParent
    HeightOf <- TreeHeight
    TotalWork <- TreeWork
    EpochOf <- SubEpoch
    TxBlock <- SubBlock
    TxIndex <- SubIndex
    Verdict <- SubVerdict
    Block = {Base,a2,a3,a4,a5,c2,b3,b4,b5,b6,b7}
    MaxHeaders = 6
    Depths = {1,2}
    W = 3
    MaxEpoch = 2
    Sub = {s1,u1,t1,s2,t2,x1}
    Account = {1,2,3}
    Validator = {1,2,3}
    MaxValidators = 2
    MaxEntries = 1
    Coins = 2
    GenesisPower <- MCGenesis
    Intervals = {2,3}
    UnbondingTimes = {2}
    Kinds = {"Delegate","Undelegate","Redelegate","Cancel","Create","Params"}
    Faults = {"doublesign"}
    MaxHeight = 5
    MaxQueue = 2
    Member = {1,2,3,4}
    Power <- MCPower
    Hash = {"a","b"}
    Parts = {"funds","sets","seal","headers","submit"}
INVARIANTS FundsAccounted  SealedByQuorum   PanicsOnlyOnReorg
PROPERTIES  ReorgGuard PrefixGrows BuriedIsFinalized
CHECK_DEADLOCK FALSE
