SPECIFICATION FairSpec
CONSTANTS
    a = a
    b = b
    c = c
    g1 = g1
    g2 = g2
    g3 = g3
    Jobs = {a, c}
    Groups = {g1, g2, g3}
    JobGroups <- MCJobGroups
    Aggregates = {a}
    Hash <- MCHash
    NumExecutors = 2
    DefaultPartitions = 3
    ServerId <- OwnId
    ShuffleDir <- OwnDir
    MaxCrashes = 1
INVARIANT SwallowedExactlyIfRemote
PROPERTIES JobsEnd
CHECK_DEADLOCK FALSE
