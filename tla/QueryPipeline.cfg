SPECIFICATION Spec
CONSTANTS
    MaxExprDepth = 3
    MaxPlanDepth = 4
    Half = 128
    FileSchema <- MCFileSchema
    HeaderLines <- MCHeaderLines
    Alphabet <- MCAlphabet
    Literals <- MCLiterals
    Databases <- MCDatabases
    Sources <- MCSources
    Projections <- MCProjections
    Predicates <- MCPredicates
    Aggregates <- MCAggregates
    Limits <- MCLimits
    Joins <- MCJoins
    MaxOps = 3
    MaxRemoteOps = 2
INVARIANTS TypeOK AnswersTheQuery OnlyWellFormedAnswered ValidIsPlanned NoNeedlessPanic
