SPECIFICATION BoardSpec
CONSTANTS
    Players = {p1, p2}
    NoPlayer = NoPlayer
    MapSizeX = 3
    MapSizeY = 2
    InitMap <- BoardMap
    SpawnPos <- BoardSpawn
    Dirs = {"RIGHT"}
    Margin = 0
    ExplosionTicks = 2
    DeadTicks = 2
    EscapeTicks = 1
    MaxPositionError = 1
INVARIANTS StackOfDistinctBombs NoBombForgotten
PROPERTIES ChainIsOneStep ChainsEnd
CHECK_DEADLOCK FALSE
