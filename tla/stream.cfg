SPECIFICATION FairSpec
CONSTANTS
    BufferSize = 5
    BufferCount = 3
    HeaderSize = 2
    MaxPacket = 4
    MaxSent = 4
INVARIANTS TypeOK BufferHolds RoomToReceive
PROPERTIES MoveIsDisjoint WholeAndInOrder EveryPacketHandled
CHECK_DEADLOCK FALSE
