SPECIFICATION LayoutSpec
CONSTANTS
    Windows <- MCWindows
    Remotes <- MCRemotes
    TileTarget = 8
    Stride = 512
INVARIANTS TilesPartition DamageReaches ClickLands
