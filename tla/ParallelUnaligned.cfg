SPECIFICATION Spec
CONSTANTS
    MaxExprDepth = 3
    Half = 2
    Plans <- OtherPlans
    Inputs <- MCInputs
    InputTypes <- MCInputTypes
    Parallelisms = {1, 2, 3}
INVARIANT MatchesSequential
