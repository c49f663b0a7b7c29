SPECIFICATION ChainSpec
CONSTANTS
    Players = {p1, p2}
    NoPlayer = NoPlayer
    MapSizeX = 2
    MapSizeY = 1
    InitMap <- PairMap
    SpawnPos <- PairSpawn
    Dirs = {"RIGHT"}
    Margin = 0
    ExplosionTicks = 2
    DeadTicks = 1
    EscapeTicks = 1
    MaxPositionError = 1
PROPERTY AtomicChains
CHECK_DEADLOCK FALSE
