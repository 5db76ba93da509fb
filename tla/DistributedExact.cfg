SPECIFICATION Spec
CONSTANTS
    a = a
    b = b
    c = c
    g1 = g1
    g2 = g2
    g3 = g3
    Jobs = {a}
    Groups = {g1, g2, g3}
    JobGroups <- MCJobGroups
    Aggregates = {a}
    Hash <- MCHash
    NumExecutors = 1
    DefaultPartitions = 2
    ServerId <- OneServer
    ShuffleDir <- OneDir
    MaxCrashes = 0
INVARIANTS AnswerExact
CHECK_DEADLOCK FALSE
