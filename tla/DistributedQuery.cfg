SPECIFICATION Spec
CONSTANTS
    a = a
    b = b
    c = c
    g1 = g1
    g2 = g2
    g3 = g3
    Jobs = {a, b, c}
    Groups = {g1, g2, g3}
    JobGroups <- MCJobGroups
    Aggregates = {a, b}
    Hash <- MCHash
    NumExecutors = 3
    DefaultPartitions = 0
    ServerId <- OneServer
    ShuffleDir <- TwoHosts
    MaxCrashes = 1
INVARIANTS TypeOK StageOrder FinalInputsComplete AnswerMultiplicity SwallowedExactlyIfRemote
PROPERTIES FilesStableWhileRead JobsAnswerAlone
CHECK_DEADLOCK FALSE
