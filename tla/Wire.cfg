SPECIFICATION Spec
CONSTANTS
    TileSide = 3
    ByteBits = 4
    RunMax = 2
    LenBase = 4
    TightMin = 4
    MaxChannel = 7
    MaxCutText = 6
    MaxPayload = 40
    MaxFence = 2
    Sizes <- MCSizes
    Parts <- MCParts
    Paints <- MCPaints
    Copies <- MCCopies
    Shapes <- MCShapes
    Texts <- MCTexts
    Fences <- MCFences
    Spoken <- MCSpoken
    MaxRects = 2
    MaxSaid = 2
    MaxSpoken = 2
    MaxFrame = 20
INVARIANTS Understood WholePicture
CHECK_DEADLOCK FALSE
