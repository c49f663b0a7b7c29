----------------------------- MODULE Prediction -----------------------------
(***************************************************************************)
(* One player on both sides of the wire: MyPlayer of its client, which     *)
(* walks at once and reports, and Player of the server, which walks in its *)
(* own ticks, takes the client's position when it is close to its own, and *)
(* corrects the client when it is not.                                     *)
(*                                                                         *)
(* Both queues are PacketChannels.  A frame of the client and a tick of    *)
(* the server move a walking player by one unit of length; the units of    *)
(* the runs are a few pixels.  The map is one row of tiles.  A bomb of     *)
(* another player may be planted on it, and blocks may be destroyed; that  *)
(* bombs go off and take the tile with them is ClientMirror's.             *)
(***************************************************************************)
EXTENDS Walking, Sequences, FiniteSets

CONSTANTS
    MapSizeX,          \* tiles of the row
    StartBlocks,       \* tiles with a block in the beginning
    Breakable,         \* those of them that a blast may destroy
    BombTile,          \* the tile on which a bomb may be planted
    StartX,            \* where the player enters
    MaxPositionError,  \* MAX_POSITION_ERROR
    MaxUp, MaxDown,    \* bounds: packets in flight, each way
    MaxTraps           \* bound: how often the player is trapped

Columns == 0 .. MapSizeX - 1
Tile(x) == <<x, 0>>
Row(x)  == <<x, TileSize \div 2>>
Dirs    == {"LEFT", "RIGHT"}
Heading == {"idle"} \cup Dirs

ASSUME PredictionAssumption ==
    /\ MapSizeX \in Nat \ {0}
    /\ Breakable \subseteq StartBlocks /\ StartBlocks \subseteq Columns
    /\ BombTile \in Columns
    /\ StartX \in Int /\ Clear(Row(StartX), {Tile(x) : x \in StartBlocks})
    /\ MaxPositionError \in Nat /\ MaxUp \in Nat /\ MaxDown \in Nat /\ MaxTraps \in Nat

VARIABLES
    myPos, myHeading, myState,  \* MyPlayer: _pos, _moveState and _dir, _mainState
    myBlocks,                   \* the client's map: tiles with a block,
    myBomb,                     \* none, or whether the bomb is passable, and
    myOverlap,                  \* whether the bomb is in _overlapBombs
    pos, heading, mainState,    \* Player of the server
    blocks, bomb,               \* its map; whether its bomb is passable for the player
    up,                         \* C_Move packets on their way to the server
    down,                       \* packets on their way to the client
    offMap,                     \* the client has read a tile that is not on the map
    traps,                      \* how often the player was trapped
    crossed,                    \* not in the code: the last correction was late
    ignored,                    \* not in the code: the last C_Move came to a dead player
    thrown                      \* not in the code: a player was pushed out of a bomb

clientVars == <<myPos, myHeading, myState, myBlocks, myBomb, myOverlap, offMap, crossed>>
serverVars == <<pos, heading, mainState, blocks, bomb, traps>>
vars       == <<clientVars, serverVars, up, down, ignored, thrown>>

BombState == {"none", "passable", "blocking"}

Init ==
    /\ myPos = StartX /\ pos = StartX
    /\ myHeading = "idle" /\ heading = "idle"
    /\ myState = "NORMAL" /\ mainState = "NORMAL"
    /\ myBlocks = StartBlocks /\ blocks = StartBlocks
    /\ myBomb = "none" /\ bomb = "none"
    /\ myOverlap = FALSE
    /\ up = <<>> /\ down = <<>>
    /\ offMap = FALSE /\ traps = 0
    /\ crossed = FALSE /\ ignored = FALSE /\ thrown = FALSE
-----------------------------------------------------------------------------
(* Walking, on either side *)

Ahead(x, d) == IF d = "LEFT" THEN x - 1 ELSE x + 1

\* the tiles that BlocksPlayer
Blocking(theBlocks, theBomb) ==
    {Tile(x) : x \in theBlocks \cup (IF theBomb = "blocking" THEN {BombTile} ELSE {})}

Walk(x, d, blocking) == TryMove(Row(x), Row(Ahead(x, d)), blocking)[1]

\* a step of a player who stands in what blocks it pushes it out
ThrownFrom(x, blocking) == thrown' = (thrown \/ ~Clear(Row(x), blocking))

\* the scan for x stays on the map
OnMap(x) == Scanned(Row(x)) \subseteq {Tile(c) : c \in Columns}

OnBombTile(x) == Overlaps(Row(x), Tile(BombTile))

\* a trapped player goes at a quarter of the speed: some steps are of no length
Steps(state, x, d, blocking) ==
    IF state = "TRAPPED" THEN {x, Walk(x, d, blocking)} ELSE {Walk(x, d, blocking)}
-----------------------------------------------------------------------------
(* The client *)

C_Move(h, x) == [heading |-> h, x |-> x]

Walks == ~offMap /\ myState \in {"NORMAL", "TRAPPED"}

SyncToServer(h, x) ==
    /\ Len(up) < MaxUp
    /\ up' = Append(up, C_Move(h, x))
    /\ crossed' = FALSE

\* HandleMoveInput_Idle: a key goes down
StartWalking(d) ==
    /\ Walks
    /\ myHeading = "idle"
    /\ myHeading' = d
    /\ SyncToServer(d, myPos)
    /\ UNCHANGED <<myPos, myState, myBlocks, myBomb, myOverlap, offMap, serverVars, down, ignored, thrown>>

\* Mutant: the bomb stays in the list after the player has left it.
KeepOverlap(x) ==
    IF myState = "NORMAL" /\ myOverlap /\ ~OnBombTile(x)
    THEN myBomb' = "blocking" /\ UNCHANGED myOverlap
    ELSE UNCHANGED <<myBomb, myOverlap>>

\* CheckOverlapBombs, of a NORMAL player only
DropOverlap(x) ==
    IF myState = "NORMAL" /\ myOverlap /\ ~OnBombTile(x)
    THEN myBomb' = "blocking" /\ myOverlap' = FALSE
    ELSE UNCHANGED <<myBomb, myOverlap>>

\* a frame of a walking player: it turns, or goes on, or its keys are released,
\* in which case it still takes the step of this frame
WalkOn(h) ==
    LET d == IF h = "idle" THEN myHeading ELSE h
    IN  /\ Walks
        /\ myHeading # "idle"
        /\ IF OnMap(Ahead(myPos, d))
           THEN /\ \E x \in Steps(myState, myPos, d, Blocking(myBlocks, myBomb)) :
                      /\ myPos' = x
                      /\ DropOverlap(x)
                      /\ ThrownFrom(myPos, Blocking(myBlocks, myBomb))
                      /\ \/ SyncToServer(h, x)
                         \/ h = myHeading /\ UNCHANGED <<up, crossed>>
                /\ myHeading' = h
                /\ UNCHANGED offMap
           ELSE /\ offMap' = TRUE
                /\ UNCHANGED <<myPos, myHeading, myBomb, myOverlap, up, crossed, thrown>>
        /\ UNCHANGED <<myState, myBlocks, serverVars, down, ignored>>

Frame ==
    \/ \E d \in Dirs : StartWalking(d)
    \/ \E h \in Heading : WalkOn(h)

Received == ~offMap /\ down # <<>>
Packet   == Head(down)

\* Mutant: the test of needsync is the wrong way round.
FollowedUnlessNeeded == ~Packet.needsync

\* the S_Move of the own player is followed when needsync is set
Followed == Packet.needsync

\* a later C_Move has been sent than the one this S_Move answers
Late == up # <<>> \/ \E n \in 2 .. Len(down) : down[n].type = "S_Move"

Handle_S_Move ==
    /\ Received
    /\ Packet.type = "S_Move"
    /\ IF Followed
       THEN myPos' = Packet.x /\ crossed' = Late
       ELSE UNCHANGED <<myPos, crossed>>
    /\ UNCHANGED <<myHeading, myState, myBlocks, myBomb, myOverlap, offMap>>

Handle_S_MainState ==
    /\ Received
    /\ Packet.type = "S_MainState"
    /\ myState' = Packet.state
    /\ UNCHANGED <<myPos, myHeading, myBlocks, myBomb, myOverlap, offMap, crossed>>

\* a new bomb is passable, and stays so unless this player overlaps it now
Handle_S_WaterBomb ==
    /\ Received
    /\ Packet.type = "S_WaterBomb"
    /\ myBomb' = "passable"
    /\ myOverlap' = OnBombTile(myPos)
    /\ UNCHANGED <<myPos, myHeading, myState, myBlocks, offMap, crossed>>

Handle_S_Explode ==
    /\ Received
    /\ Packet.type = "S_Explode"
    /\ myBlocks' = myBlocks \ {Packet.block}
    /\ UNCHANGED <<myPos, myHeading, myState, myBomb, myOverlap, offMap, crossed>>

Receive ==
    /\ Handle_S_Move \/ Handle_S_MainState \/ Handle_S_WaterBomb \/ Handle_S_Explode
    /\ down' = Tail(down)
    /\ UNCHANGED <<serverVars, up, ignored, thrown>>
-----------------------------------------------------------------------------
(* The server *)

Broadcast(packet) ==
    /\ Len(down) < MaxDown
    /\ down' = Append(down, packet)

S_Move(h, x, needsync) == [type |-> "S_Move", heading |-> h, x |-> x, needsync |-> needsync]

Close(x) == pos - x < MaxPositionError /\ x - pos < MaxPositionError

\* GameRoom::Handle_C_Move
Handle_C_Move ==
    /\ up # <<>>
    /\ up' = Tail(up)
    /\ ignored' = (mainState = "DEAD")
    /\ IF mainState = "DEAD"
       THEN UNCHANGED <<heading, pos, down>>
       ELSE /\ heading' = Head(up).heading
            /\ pos' = IF Close(Head(up).x) THEN Head(up).x ELSE pos
            /\ Broadcast(S_Move(heading', pos', ~Close(Head(up).x)))
    /\ UNCHANGED <<mainState, blocks, bomb, traps, clientVars, thrown>>

\* Player::Update of a tick: Move, and CheckOverlapBombs of a NORMAL player
Tick ==
    /\ heading # "idle"
    /\ mainState \in {"NORMAL", "TRAPPED"}
    /\ OnMap(Ahead(pos, heading))    \* bound: it is not followed off the map
    /\ \E x \in Steps(mainState, pos, heading, Blocking(blocks, bomb)) :
          /\ pos' = x
          /\ ThrownFrom(pos, Blocking(blocks, bomb))
          /\ bomb' = IF mainState = "NORMAL" /\ bomb = "passable" /\ ~OnBombTile(x)
                     THEN "blocking" ELSE bomb
    /\ UNCHANGED <<heading, mainState, blocks, traps, up, down, ignored, clientVars>>

\* Player::SetMainState, along the edges that GameRoom has
SetMainState(s) ==
    /\ \/ mainState # "TRAPPED" /\ s = "TRAPPED" /\ traps < MaxTraps
       \/ mainState = "TRAPPED" /\ s \in {"DEAD", "ESCAPE"}
       \/ mainState = "ESCAPE"  /\ s = "NORMAL"
    /\ mainState' = s
    /\ traps' = IF s = "TRAPPED" THEN traps + 1 ELSE traps
    /\ Broadcast([type |-> "S_MainState", state |-> s])
    /\ UNCHANGED <<pos, heading, blocks, bomb, up, ignored, clientVars, thrown>>

\* Handle_C_WaterBomb of another player: passable for those it overlaps
Plant ==
    /\ bomb = "none"
    /\ BombTile \notin blocks
    /\ bomb' = IF OnBombTile(pos) THEN "passable" ELSE "blocking"
    /\ Broadcast([type |-> "S_WaterBomb"])
    /\ UNCHANGED <<pos, heading, mainState, blocks, traps, up, ignored, clientVars, thrown>>

\* a blast destroys a block
Break(x) ==
    /\ x \in blocks \cap Breakable
    /\ blocks' = blocks \ {x}
    /\ Broadcast([type |-> "S_Explode", block |-> x])
    /\ UNCHANGED <<pos, heading, mainState, bomb, traps, up, ignored, clientVars, thrown>>

Serve ==
    \/ Handle_C_Move
    \/ Tick
    \/ \E s \in {"TRAPPED", "DEAD", "ESCAPE", "NORMAL"} : SetMainState(s)
    \/ Plant
    \/ \E x \in Columns : Break(x)
-----------------------------------------------------------------------------
Next == Frame \/ Receive \/ Serve

Spec == Init /\ [][Next]_vars
-----------------------------------------------------------------------------
(* Properties *)

\* The type invariant.
TypeOK ==
    /\ myPos \in Int /\ pos \in Int
    /\ myHeading \in Heading /\ heading \in Heading
    /\ myBlocks \subseteq Columns /\ blocks \subseteq myBlocks
    /\ myBomb \in BombState /\ bomb \in BombState
    /\ myOverlap \in BOOLEAN /\ (myOverlap => myBomb = "passable")
    /\ Len(up) <= MaxUp /\ Len(down) <= MaxDown

\* nothing is under way and neither side walks
AtRest == up = <<>> /\ down = <<>> /\ myHeading = "idle" /\ ~offMap

\* Handle_C_Move takes a position without a look at the map, and still neither
\* side has the player in a block that stands there: the client looked, with
\* the same TryMove and no fewer blocks.  It is lost once a bomb has pushed a
\* player out to its far side, where a block may stand.
NobodyInABlock ==
    ~thrown => /\ Clear(Row(pos), Blocking(blocks, "none"))
               /\ Clear(Row(myPos), Blocking(myBlocks, "none"))

\* When both are at rest they agree on where the player is, unless the last
\* thing the client did was to follow a correction that answered an older
\* C_Move than its last one, or its last C_Move came when the player was dead:
\* Handle_C_Move returns early then, and a blast may trap the player again.
AgreeAtRest ==
    AtRest => myPos = pos \/ crossed \/ ignored

-----------------------------------------------------------------------------
(* What the documents say and the code does not keep *)

\* "It was implemented in the same way on the server" (dev-log of 2026.03.12, on
\* which bombs a player passes): at rest, a bomb that blocks the player on the
\* server and that it stands clear of blocks it on the client too.
BombsBlockAlike ==
    AtRest /\ bomb = "blocking" /\ ~OnBombTile(pos) => myBomb = "blocking"
=============================================================================
