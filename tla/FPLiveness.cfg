SPECIFICATION MCSpec
CONSTANTS
    f1 = f1
    f2 = f2
    FP = {f1,f2}
    Rank <- MCRank
    MaxActive = 1
    Windows = {1,2}
    MinSignedPct = 50
    SigTimeout = 1
    JailDuration = 1
    Faulty = {f1}
    MaxProposals = 1
    MaxHeight = 6
    LastHeight <- MCLastHeight
INVARIANTS LivenessNeverPanics
PROPERTIES JailsTheSluggish
CHECK_DEADLOCK FALSE
