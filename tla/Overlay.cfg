CONSTANTS
    Windows <- Sizes
    Spots <- Pointed
    Watched <- Looked
    Notes = {1, 3}
    Shapes = {arrow, hidden}
    Invisible = hidden
    EraseTakes = {TRUE, FALSE}
    MaxResizes = 1
    MaxEvents = 3
    MaxRefused = 1
SPECIFICATION Spec
INVARIANTS ChromeShown FollowsTheHand NoHoles
PROPERTIES NotesLeave
