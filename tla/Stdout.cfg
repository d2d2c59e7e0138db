SPECIFICATION StdoutFairSpec
CONSTANTS
    NoOne = NoOne
    Sessions = 2
    Reconnect = TRUE
    PixelIoctl = FALSE
    Panics = TRUE
    MayStall = TRUE
INVARIANTS OneOwner
PROPERTIES TeardownWhole QuitExits
\* A panic or a geometry query may hang for good: see PanicRestores, QueryReturns.
CHECK_DEADLOCK FALSE
