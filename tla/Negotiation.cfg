SPECIFICATION FairSpec
CONSTANTS
    Sizes <- MCSizes
    None = None
    Windows <- MCWindows
    Plausible <- MCWindows
    Fits <- MCFits
    FirstRemote = 2
    FirstWindow = 3
    CanResize = {TRUE, FALSE}
    Grants <- Snapping
    MayRefuse = TRUE
    LateReasons <- AsReply
    MaxWindows = 2
    MaxCommands = 1
    MaxOthers = 1
INVARIANTS AskedOnce KeepsStep
PROPERTIES Settles
