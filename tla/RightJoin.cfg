SPECIFICATION Spec
CONSTANTS
    MaxExprDepth = 3
    MaxPlanDepth = 4
    Half = 128
    FileSchema <- MCFileSchema
    HeaderLines <- MCHeaderLines
    Alphabet <- MCAlphabet
    Literals <- MCLiterals
    Databases <- MCDatabases
    Sources <- OnlyT
    Projections <- None
    Predicates <- None
    Aggregates <- None
    Limits <- None
    Joins <- RightOnId
    MaxOps = 1
    MaxRemoteOps = 1
INVARIANT AnswersRightJoins
