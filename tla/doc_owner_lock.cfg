SPECIFICATION Spec
CONSTANTS
    Players = {p1, p2}
    NoPlayer = NoPlayer
    MapSizeX = 2
    MapSizeY = 1
    InitMap <- CorridorBubble
    SpawnPos <- CorridorSpawn
    Dirs = {"RIGHT"}
    Margin = 0
    ExplosionTicks = 2
    DeadTicks = 2
    EscapeTicks = 1
    MaxPositionError = 2
SYMMETRY Symmetry
INVARIANT OwnerCheckedByLock
CHECK_DEADLOCK FALSE
