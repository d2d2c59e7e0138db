SPECIFICATION Spec
CONSTANTS
    Devices = {"keyboard", "mouse", "locks"}
    Ctrl = Ctrl
    Prefix = Prefix
    Esc = Esc
    ViewKey = ViewKey
    MenuKey = MenuKey
    QuitKey = QuitKey
    Letter = Letter
    Unmapped = Unmapped
    Fingers = 3
    Places = {a, b, c}
    Cross = a
    Letterbox = Letterbox
    Nowhere = Nowhere
    Buttons = {left, right}
    Left = left
    MaxMoves = 5
    MaxModes = 3
    MaxPresses = 2
    MaxStrangers = 1
    MaxTurns = 2
    MaxQueued = 3
INVARIANTS SentAsStruck NothingStuck AllLetGo
PROPERTIES PressesLand PendingLeaves LocksAgree
CHECK_DEADLOCK FALSE
