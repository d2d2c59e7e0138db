SPECIFICATION ShmSpec
CONSTANTS
    Pool = 2
    MaxFrames = 4
    Bells <- SomeBells
    Lens = {1, 2}
    Budget = 3
    MaxPending = 4
    Stale = {1}
    MaxTiles = 2
    MaxWaits = 1
    MaxErrors = 1
INVARIANTS JoinedMeansFlushed BuffersBounded Accounted
PROPERTIES ImplementsQueue TakenWhenItMust
