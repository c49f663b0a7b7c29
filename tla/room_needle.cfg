SPECIFICATION Spec
CONSTANTS
    Players = {p1, p2}
    NoPlayer = NoPlayer
    MapSizeX = 2
    MapSizeY = 1
    InitMap <- CorridorNeedle
    SpawnPos <- HallSpawn
    Dirs = {"RIGHT"}
    Margin = 0
    ExplosionTicks = 2
    DeadTicks = 2
    EscapeTicks = 1
    MaxPositionError = 2
SYMMETRY Symmetry
INVARIANTS TypeOK BombAccounting SlotsSettled
PROPERTIES MainStateRules BlastRules
CHECK_DEADLOCK FALSE
