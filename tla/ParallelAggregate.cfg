SPECIFICATION Spec
CONSTANTS
    MaxExprDepth = 3
    Half = 2
    Plans <- AlignedPlans
    Inputs <- MCInputs
    InputTypes <- MCInputTypes
    Parallelisms = {1, 2, 3}
INVARIANTS TypeOK AlignedIsGroupBy PanicsOnlyForAvg
