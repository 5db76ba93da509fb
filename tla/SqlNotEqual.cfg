SPECIFICATION SqlSpec
CONSTANTS
    MaxExprDepth = 3
    MaxPlanDepth = 6
    Half = 128
    HalfInt = 8
    FileSchema <- MCFileSchema
    HeaderLines <- MCHeaderLines
    Alphabet <- MCAlphabet
    Literals <- MCLiterals
    Databases <- MCDatabases
    Sources <- Nothing
    Projections <- Nothing
    Predicates <- Nothing
    Aggregates <- Nothing
    Limits <- Nothing
    Joins <- Nothing
    MaxOps = 0
    MaxRemoteOps = 0
    Statements <- NotEqual
    OtherTexts <- Nothing
    Registrations <- MCRegistrations
INVARIANT ParsesEveryOperator
