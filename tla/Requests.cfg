SPECIFICATION FairSpec
CONSTANTS
    MayPush = TRUE
    MaxDamage = 1
    MaxCommands = 1
    MaxLost = 1
    MaxStops = 1
    MaxProbes = 1
    MaxWire = 2
INVARIANTS FramesAreComing
PROPERTIES PictureArrives
