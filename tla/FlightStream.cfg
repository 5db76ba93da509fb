SPECIFICATION FairSpec
CONSTANTS
    BatchCount = 8
    Ends <- MCEnds
    Capacity = 4
    Window = 2
INVARIANTS TypeOK InOrder OkMeansComplete ErrOnlyFromStatus Backpressure PartialOkStopsAtPanic
PROPERTIES CallReturns ThreadReleased KeepsPromise
CHECK_DEADLOCK FALSE
