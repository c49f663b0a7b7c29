SPECIFICATION Spec
CONSTANTS
    TileSize = 2
    PlayerSize = 2
    MapSizeX = 2
    StartBlocks = {1}
    Breakable = {1}
    BombTile = 0
    StartX = 1
    MaxPositionError = 2
    MaxUp = 1
    MaxDown = 2
    MaxTraps = 2
INVARIANTS TypeOK NobodyInABlock AgreeAtRest
CHECK_DEADLOCK FALSE
