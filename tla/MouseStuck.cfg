SPECIFICATION Spec
CONSTANTS
    Devices = {"mouse"}
    Ctrl = Ctrl
    Prefix = Prefix
    Esc = Esc
    ViewKey = ViewKey
    MenuKey = MenuKey
    QuitKey = QuitKey
    Letter = Letter
    Unmapped = Unmapped
    Fingers = 3
    Places = {a, b, c}
    Cross = a
    Letterbox = Letterbox
    Nowhere = Nowhere
    Buttons = {left}
    Left = left
    MaxMoves = 3
    MaxModes = 0
    MaxPresses = 2
    MaxStrangers = 1
    MaxTurns = 2
    MaxQueued = 3
INVARIANT ButtonsReleased
