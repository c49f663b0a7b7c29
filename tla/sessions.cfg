SPECIFICATION FairSpec
CONSTANTS
    Session = {s1, s2}
    MaxMoves = 1
    MaxFails = 2
INVARIANTS TypeOK NoLostWakeup OneOutstanding SentInOrder ClosedSessionsLeave GoneIsSilent
PROPERTY QueueDrains
