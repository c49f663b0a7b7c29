SPECIFICATION Spec
CONSTANTS
    TileSize = 3
    PlayerSize = 2
    MapSizeX = 2
    StartBlocks = {1}
    Breakable = {1}
    BombTile = 0
    StartX = 1
    MaxPositionError = 2
    MaxUp = 1
    MaxDown = 2
    MaxTraps = 1
INVARIANT BombsBlockAlike
CHECK_DEADLOCK FALSE
