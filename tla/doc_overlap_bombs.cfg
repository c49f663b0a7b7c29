SPECIFICATION MirrorSpec
CONSTANTS
    Players = {me, other}
    Me = me
    Null = Null
    Tiles = {1, 2, 3}
    InitMap <- MirrorMap
    MaxPlants = 1
    MaxChanges = 3
    MaxRollers = 2
    MaxInFlight = 1
CHECK_DEADLOCK FALSE
INVARIANT OverlapBombsExist
