SPECIFICATION FairSpec
CONSTANTS
    Exact = Exact
    Grown = Grown
    GrownFit = GrownFit
    Narrow = Narrow
    Panned = Panned
    Cut = Cut
    NoGeo = NoGeo
    Nowhere = Nowhere
    Ids <- MCIds
    Regions <- MCRegions
    Geos <- MCGeos
    Cells <- MCCells
    Layouts <- AllLayouts
    FirstLayout = Exact
    Grid <- MCGrid
    Geo <- MCGeo
    Cell <- MCCell
    Src <- MCSrc
    Desktop <- MCDesktop
    Window <- MCWindow
    Scaled <- MCScaled
    ResampleFails = FALSE
    MaxRelayouts = 1
    MaxResizes = 2
    MaxGeneration = 1
    Colours = 1
INVARIANTS Fresh HeldIsSent NoGhosts OwingCounts
PROPERTIES CatchesUp
