SPECIFICATION FairSpec
CONSTANTS
    Players = {p1, p2}
    NoPlayer = NoPlayer
    MapSizeX = 2
    MapSizeY = 1
    InitMap <- CorridorNeedle
    SpawnPos <- HallSpawn
    Dirs = {}
    Margin = 0
    ExplosionTicks = 2
    DeadTicks = 2
    EscapeTicks = 1
    MaxPositionError = 2
PROPERTIES BombsGoOff TrapsResolve DoomedServerStops ShowsRoomFeed
CHECK_DEADLOCK FALSE
