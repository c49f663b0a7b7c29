SPECIFICATION Spec
CONSTANTS
    Players = {p1}
    NoPlayer = NoPlayer
    MapSizeX = 3
    MapSizeY = 2
    InitMap <- YardMap
    SpawnPos <- YardSpawn
    Dirs = {"DOWN", "RIGHT", "UP", "LEFT"}
    Margin = 0
    ExplosionTicks = 2
    DeadTicks = 2
    EscapeTicks = 1
    MaxPositionError = 1
PROPERTIES BlastRules WalkStaysClear ShowsRoomFeed
CHECK_DEADLOCK FALSE
