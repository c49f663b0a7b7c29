------------------------------ MODULE GameRoom ------------------------------
(***************************************************************************)
(* The authoritative game room of the server (Server/GameRoom.cpp,         *)
(* Player.cpp, WaterBomb.cpp and the items): players that walk, plant      *)
(* water bombs, are trapped, die or escape; a tile map of blocks, items    *)
(* and bombs; and the tick that updates every object in the arbitrary      *)
(* order of an unordered_map and then removes the objects flagged dead.    *)
(*                                                                         *)
(* The server has one thread (Server.cpp:33-50): packet handlers,          *)
(* EnterRoom and LeaveRoom run between ticks.  The one exception is that a *)
(* Broadcast inside a tick may fail to send, which disconnects a session   *)
(* and runs LeaveRoom in the middle of the tick.                           *)
(*                                                                         *)
(* Geometry is kept on the half-tile lattice: a position is a pair of      *)
(* integers, 20 pixels each, tile t covers [2t, 2t+2) and has its centre   *)
(* at 2t+1.  Two lattice steps apart nothing overlaps, one step apart      *)
(* everything does: a player is 32 pixels wide, an item 32, a tile 40.     *)
(*                                                                         *)
(* A process that dereferences a null pointer or leaves an array is dead:  *)
(* crashed records the first such error, and nothing happens after it.     *)
(***************************************************************************)
EXTENDS Integers, FiniteSets

CONSTANTS
    Players,          \* one Player object per accepted session
    NoPlayer,         \* the owner of a tile that holds no bomb
    MapSizeX,         \* width of _mapObjects in tiles
    MapSizeY,         \* height of _mapObjects in tiles
    InitMap,          \* what Init puts on each tile
    SpawnPos,         \* lattice position of EnterRoom's {100, 100}
    Dirs,             \* the directions the clients use
    Margin,           \* bound: lattice steps a player may be off the map
    ExplosionTicks,   \* EXPLOSION_TIME / TICK
    DeadTicks,        \* DEAD_TIME / TICK
    EscapeTicks,      \* 1 second / TICK
    MaxPositionError  \* MAX_POSITION_ERROR in lattice steps

Tiles == (0 .. MapSizeX - 1) \X (0 .. MapSizeY - 1)

Pos == (-Margin .. 2 * MapSizeX + Margin) \X (-Margin .. 2 * MapSizeY + Margin)

Items   == {"BUBBLE", "FLUID", "ROLLER", "NEEDLE"}
MapType == {"NONE", "BREAKABLE", "SOLID", "WATER_BOMB"} \cup Items

MainState == {"NORMAL", "TRAPPED", "DEAD", "ESCAPE"}

\* "idle" stands for MOVE_STATE_IDLE, a direction for MOVE_STATE_MOVE in it
AllDirs == {"UP", "DOWN", "LEFT", "RIGHT"}
Heading == {"idle"} \cup Dirs

\* out: no such object yet; in: in _objects; dead: in _objects with _isDead;
\* gone: erased and freed; null: the key is in _objects with a null pointer
Life == {"out", "in", "dead", "gone", "null"}

Crash == {"none", "ownerGone", "badCast", "badTile", "nullObject"}

ASSUME GameRoomAssumption ==
    /\ NoPlayer \notin Players
    /\ IsFiniteSet(Players)
    /\ Players \cap Tiles = {}
    /\ MapSizeX \in Nat \ {0} /\ MapSizeY \in Nat \ {0}
    /\ InitMap \in [Tiles -> MapType \ {"WATER_BOMB"}]
    /\ Margin \in Nat
    /\ SpawnPos \in Pos
    /\ Dirs \subseteq AllDirs
    /\ ExplosionTicks \in Nat \ {0}
    /\ DeadTicks \in Nat \ {0}
    /\ EscapeTicks \in Nat \ {0}
    /\ MaxPositionError \in Nat

VARIABLES
    life,        \* membership of each player in _objects, and its _isDead
    mainState,   \* _mainState
    stateTimer,  \* _trapTimer or _escapeTimer, in ticks
    pos,         \* _pos
    heading,     \* _moveState and _dir
    bombCount,   \* _bombCount
    kit,         \* _bubbleCount, _fluidCount, _rollerCount, _hasNeedle
    mapObj,      \* _mapObjects: the type of the object on each tile
    isDead,      \* tiles whose object has _isDead
    owner,       \* _owner of the bomb on each tile
    timer,       \* _explodeTimer of the bomb on each tile, in ticks
    exploded,    \* tiles whose bomb has _exploded
    passable,    \* _passablePlayers of each bomb, and so _overlapBombs
    phase,       \* "idle" between ticks, "update" inside GameRoom::Update
    toUpdate,    \* what the loop of GameRoom::Update has still to visit
    crashed

stateVars  == <<life, mainState, stateTimer>>
motionVars == <<pos, heading>>
kitVars    == <<bombCount, kit>>
mapVars    == <<mapObj, isDead>>
bombVars   == <<owner, timer, exploded, passable>>
tickVars   == <<phase, toUpdate>>
vars == <<stateVars, motionVars, kitVars, mapVars, bombVars, tickVars, crashed>>
-----------------------------------------------------------------------------
(* Geometry *)

Abs(n) == IF n < 0 THEN -n ELSE n

\* the integer division of C++ truncates toward zero
HalfToward0(n) == IF n < 0 THEN -((-n) \div 2) ELSE n \div 2

WorldToTile(q) == <<HalfToward0(q[1]), HalfToward0(q[2])>>
TileToWorld(t) == <<2 * t[1] + 1, 2 * t[2] + 1>>

\* IntersectRect of two objects centred at a and b
Touches(a, b) == Abs(a[1] - b[1]) <= 1 /\ Abs(a[2] - b[2]) <= 1

\* PtInRect of a position in the rectangle of tile t, on the map or off it
InTile(q, t) == q[1] \div 2 = t[1] /\ q[2] \div 2 = t[2]

DirVec == [UP |-> <<0, -1>>, DOWN |-> <<0, 1>>, LEFT |-> <<-1, 0>>, RIGHT |-> <<1, 0>>]

Along(a, d, j) == <<a[1] + j * DirVec[d][1], a[2] + j * DirVec[d][2]>>

DistanceSquared(a, b) ==
    (a[1] - b[1]) * (a[1] - b[1]) + (a[2] - b[2]) * (a[2] - b[2])

GetMapObjectAt(t) == IF t \in Tiles THEN mapObj[t] ELSE "NONE"

\* players a weak_ptr<Player> still locks to
Alive == {p \in Players : life[p] \in {"in", "dead"}}
-----------------------------------------------------------------------------
(* The initial room: LoadTilemap, then the four items of Init *)

NewKit == [bubble |-> 1, fluid |-> 1, roller |-> 1, needle |-> FALSE]

Init ==
    /\ life       = [p \in Players |-> "out"]
    /\ mainState  = [p \in Players |-> "NORMAL"]
    /\ stateTimer = [p \in Players |-> 0]
    /\ pos        = [p \in Players |-> SpawnPos]
    /\ heading    = [p \in Players |-> "idle"]
    /\ bombCount  = [p \in Players |-> 0]
    /\ kit        = [p \in Players |-> NewKit]
    /\ mapObj     = InitMap
    /\ isDead     = {}
    /\ owner      = [t \in Tiles |-> NoPlayer]
    /\ timer      = [t \in Tiles |-> 0]
    /\ exploded   = {}
    /\ passable   = [t \in Tiles |-> {}]
    /\ phase      = "idle"
    /\ toUpdate   = {}
    /\ crashed    = "none"

Running == crashed = "none"
Idle    == Running /\ phase = "idle"

\* the process dies; what its memory held no longer matters
CrashWith(cause) ==
    /\ crashed' = cause
    /\ UNCHANGED <<stateVars, motionVars, kitVars, mapVars, bombVars, tickVars>>
-----------------------------------------------------------------------------
(* Sessions come and go *)

\* GameRoom::EnterRoom, with SpawnPlayer and RegisterObject
EnterRoom(p) ==
    /\ Idle
    /\ life[p] = "out"
    /\ life' = [life EXCEPT ![p] = "in"]
    /\ UNCHANGED <<mainState, stateTimer, motionVars, kitVars, mapVars,
                   bombVars, tickVars, crashed>>

\* GameRoom::LeaveRoom: the flag only; the object goes at the end of a tick.
\* In a tick it runs when the Broadcast of some update fails to send.
LeaveRoom(p) ==
    /\ Running
    /\ life[p] = "in"
    /\ life' = [life EXCEPT ![p] = "dead"]
    /\ UNCHANGED <<mainState, stateTimer, motionVars, kitVars, mapVars,
                   bombVars, tickVars, crashed>>
-----------------------------------------------------------------------------
(* Packet handlers.  Each looks its player up with _objects[id], which     *)
(* inserts a null pointer when a receive that completed before the         *)
(* disconnect is dispatched after the player was removed.                  *)

HandleForMissing(p) ==
    /\ Idle
    /\ life[p] = "gone"
    /\ life' = [life EXCEPT ![p] = "null"]
    /\ UNCHANGED <<mainState, stateTimer, motionVars, kitVars, mapVars,
                   bombVars, tickVars, crashed>>

\* GameRoom::Handle_C_Move: the client's position is taken when it is close
\* to the server's, without a look at the map
Handle_C_Move(p, h, clientPos) ==
    /\ Idle
    /\ p \in Alive
    /\ mainState[p] # "DEAD"
    /\ heading' = [heading EXCEPT ![p] = h]
    /\ pos' = IF DistanceSquared(pos[p], clientPos) < MaxPositionError * MaxPositionError
              THEN [pos EXCEPT ![p] = clientPos]
              ELSE pos
    /\ UNCHANGED <<stateVars, kitVars, mapVars, bombVars, tickVars, crashed>>

\* Mutant: an off-by-one in the comparison.
CanSpawnBombOneMore(p) == bombCount[p] <= kit[p].bubble

CanSpawnBomb(p) == bombCount[p] < kit[p].bubble

\* GameRoom::Handle_C_WaterBomb.  The tile is the client's own tile: its
\* position may be a lattice step away from the server's.  The main state is
\* not looked at.
Handle_C_WaterBomb(p, t) ==
    /\ Idle
    /\ p \in Alive
    /\ CanSpawnBomb(p)
    /\ GetMapObjectAt(t) = "NONE"
    /\ IF t \notin Tiles
       THEN CrashWith("badTile")
       ELSE /\ mapObj'    = [mapObj EXCEPT ![t] = "WATER_BOMB"]
            /\ owner'     = [owner EXCEPT ![t] = p]
            /\ timer'     = [timer EXCEPT ![t] = 0]
            /\ passable'  = [passable EXCEPT ![t] =
                                {q \in Alive : Touches(pos[q], TileToWorld(t))}]
            /\ bombCount' = [bombCount EXCEPT ![p] = @ + 1]
            /\ UNCHANGED <<stateVars, motionVars, kit, isDead, exploded,
                           tickVars, crashed>>

\* Mutant: the needle is used in any state.
SkillInAnyState(p) ==
    /\ Idle
    /\ p \in Alive
    /\ kit[p].needle
    /\ kit' = [kit EXCEPT ![p].needle = FALSE]
    /\ mainState' = [mainState EXCEPT ![p] = "ESCAPE"]
    /\ stateTimer' = [stateTimer EXCEPT ![p] = 0]
    /\ UNCHANGED <<life, motionVars, bombCount, mapVars, bombVars, tickVars, crashed>>

\* GameRoom::Handle_C_Skill: the needle
Handle_C_Skill(p) ==
    /\ Idle
    /\ p \in Alive
    /\ kit[p].needle
    /\ mainState[p] = "TRAPPED"
    /\ kit' = [kit EXCEPT ![p].needle = FALSE]
    /\ mainState' = [mainState EXCEPT ![p] = "ESCAPE"]
    /\ stateTimer' = [stateTimer EXCEPT ![p] = 0]
    /\ UNCHANGED <<life, motionVars, bombCount, mapVars, bombVars, tickVars, crashed>>
-----------------------------------------------------------------------------
(* GameRoom::Update: visit every object of _objects, then remove the dead  *)

Bombs == {t \in Tiles : mapObj[t] = "WATER_BOMB"}

BeginUpdate ==
    /\ Idle
    /\ phase' = "update"
    /\ toUpdate' = Bombs \cup {p \in Players : life[p] \in {"in", "dead", "null"}}
    /\ UNCHANGED <<stateVars, motionVars, kitVars, mapVars, bombVars, crashed>>

\* Mutant: the timers stand still.
NotTicked(n) == n

\* timer += TICK
Ticked(n) == n + 1

Visit(o) ==
    /\ Running
    /\ phase = "update"
    /\ o \in toUpdate

\* Mutant: the loop skips a null pointer.
SkipNull(p) ==
    /\ Visit(p)
    /\ life[p] = "null"
    /\ toUpdate' = toUpdate \ {p}
    /\ UNCHANGED <<stateVars, motionVars, kitVars, mapVars, bombVars, phase, crashed>>

\* item.second->Update() on the null pointer a late packet left behind
UpdateNull(p) ==
    /\ Visit(p)
    /\ life[p] = "null"
    /\ CrashWith("nullObject")
-----------------------------------------------------------------------------
(* Player::Update *)

Blocks(p, t) ==
    CASE GetMapObjectAt(t) \in {"NONE"} \cup Items -> FALSE
      [] GetMapObjectAt(t) = "WATER_BOMB"          -> p \notin passable[t]
      [] OTHER                                     -> TRUE

\* tiles under a player centred at q, on which TryMove looks for an obstacle
Under(q) == {t \in Tiles : Touches(q, TileToWorld(t))}

\* t comes no later than u in TryMove's scan, row by row
ScanOrder(t, u) == t[2] < u[2] \/ (t[2] = u[2] /\ t[1] <= u[1])

\* Mutant: the map is not looked at.
MoveFreely(p, d) == Along(pos[p], d, 1)

\* GameRoom::TryMove: where p ends when it walks one step in direction d. The
\* first obstacle of the scan pushes it back flush with its near side, which
\* on the lattice is the centre of the neighbouring tile.
TryMove(p, d) ==
    LET next      == Along(pos[p], d, 1)
        obstacles == {t \in Under(next) : Blocks(p, t)}
        first     == CHOOSE t \in obstacles : \A u \in obstacles : ScanOrder(t, u)
        beside    == Along(TileToWorld(first), d, -2)
    IN  IF obstacles = {} THEN next
        ELSE IF d \in {"UP", "DOWN"} THEN <<next[1], beside[2]>>
        ELSE <<beside[1], next[2]>>

\* Player::Move at MOVE_SPEED_NORMAL or MOVE_SPEED_TRAPPED; the bound Margin
\* is the end of the world
Moved(p) ==
    IF heading[p] = "idle" \/ TryMove(p, heading[p]) \notin Pos
    THEN pos[p] ELSE TryMove(p, heading[p])

\* Player::CheckOverlapBombs
DropPassable(p, q) ==
    [t \in Tiles |-> IF Touches(q, TileToWorld(t)) THEN passable[t]
                     ELSE passable[t] \ {p}]

\* Player::CheckGetItem: every item touched, dead or not, is got
GotKit(p, got) ==
    LET has(i) == Cardinality({t \in got : mapObj[t] = i})
    IN  [bubble |-> kit[p].bubble + has("BUBBLE"),
         fluid  |-> kit[p].fluid  + has("FLUID"),
         roller |-> kit[p].roller + has("ROLLER"),
         needle |-> kit[p].needle \/ has("NEEDLE") > 0]

\* Player::UpdateNormal: Move, CheckOverlapBombs, CheckKillOtherPlayer, CheckGetItem
UpdateNormal(p) ==
    /\ Visit(p)
    /\ p \in Alive
    /\ mainState[p] = "NORMAL"
    /\ LET here   == Moved(p)
           killed == {q \in Alive \ {p} : mainState[q] = "TRAPPED" /\ Touches(here, pos[q])}
           got    == {t \in Tiles : mapObj[t] \in Items /\ Touches(here, TileToWorld(t))}
       IN  /\ pos'        = [pos EXCEPT ![p] = here]
           /\ passable'   = IF heading[p] = "idle" THEN passable ELSE DropPassable(p, here)
           /\ mainState'  = [q \in Players |-> IF q \in killed THEN "DEAD" ELSE mainState[q]]
           /\ stateTimer' = [q \in Players |-> IF q \in killed THEN 0 ELSE stateTimer[q]]
           /\ kit'        = [kit EXCEPT ![p] = GotKit(p, got)]
           /\ isDead'     = isDead \cup got
    /\ toUpdate' = toUpdate \ {p}
    /\ UNCHANGED <<life, heading, bombCount, mapObj, owner, timer, exploded, phase, crashed>>

\* Mutant: the time must be exceeded, not reached.
TrapTimeExceeded(p) == Ticked(stateTimer[p]) > DeadTicks

TrapTimeUp(p) == Ticked(stateTimer[p]) >= DeadTicks

\* Mutant: the timer of a trapped player stands still.
DriftOnly(p) ==
    /\ Visit(p)
    /\ p \in Alive
    /\ mainState[p] = "TRAPPED"
    /\ pos' = [pos EXCEPT ![p] = Moved(p)]
    /\ toUpdate' = toUpdate \ {p}
    /\ UNCHANGED <<stateVars, heading, kitVars, mapVars, bombVars, phase, crashed>>

\* Player::UpdateTrapped: drift, and die when the time is up
UpdateTrapped(p) ==
    /\ Visit(p)
    /\ p \in Alive
    /\ mainState[p] = "TRAPPED"
    /\ pos' = [pos EXCEPT ![p] = Moved(p)]
    /\ IF TrapTimeUp(p)
       THEN /\ mainState'  = [mainState EXCEPT ![p] = "DEAD"]
            /\ stateTimer' = [stateTimer EXCEPT ![p] = 0]
       ELSE /\ stateTimer' = [stateTimer EXCEPT ![p] = Ticked(stateTimer[p])]
            /\ UNCHANGED mainState
    /\ toUpdate' = toUpdate \ {p}
    /\ UNCHANGED <<life, heading, kitVars, mapVars, bombVars, phase, crashed>>

\* Player::UpdateEscape: back to NORMAL after a second
UpdateEscape(p) ==
    /\ Visit(p)
    /\ p \in Alive
    /\ mainState[p] = "ESCAPE"
    /\ IF Ticked(stateTimer[p]) >= EscapeTicks
       THEN /\ mainState'  = [mainState EXCEPT ![p] = "NORMAL"]
            /\ stateTimer' = [stateTimer EXCEPT ![p] = 0]
       ELSE /\ stateTimer' = [stateTimer EXCEPT ![p] = Ticked(stateTimer[p])]
            /\ UNCHANGED mainState
    /\ toUpdate' = toUpdate \ {p}
    /\ UNCHANGED <<life, motionVars, kitVars, mapVars, bombVars, phase, crashed>>

\* Player::UpdateDead does nothing
UpdateDead(p) ==
    /\ Visit(p)
    /\ p \in Alive
    /\ mainState[p] = "DEAD"
    /\ toUpdate' = toUpdate \ {p}
    /\ UNCHANGED <<stateVars, motionVars, kitVars, mapVars, bombVars, phase, crashed>>
-----------------------------------------------------------------------------
(* WaterBomb::Update and GameRoom::Explode *)

\* Mutant: the blast goes on behind a breakable block.
ArmThroughBreakable(t, d, range) ==
    {Along(t, d, j) : j \in {j \in 1 .. range :
        \A k \in 1 .. j : GetMapObjectAt(Along(t, d, k)) # "SOLID"}}

\* the tiles an arm of the blast covers: it ends before the first solid block
\* and on the first breakable one
Arm(t, d, range) ==
    LET At(j)      == GetMapObjectAt(Along(t, d, j))
        Covered(j) == \A k \in 1 .. j : /\ At(k) # "SOLID"
                                        /\ k < j => At(k) # "BREAKABLE"
    IN  {Along(t, d, j) : j \in {j \in 1 .. range : Covered(j)}}

\* the tiles, on the map or off it, that the bomb on t covers
BlastTiles(t) ==
    LET range == IF owner[t] \in Players THEN kit[owner[t]].fluid ELSE 0
    IN  {t} \cup UNION {Arm(t, d, range) : d \in AllDirs}

Unexploded == Bombs \ exploded

\* a set of bombs that contains every bomb its own blasts reach
BlastClosed(S) == \A t \in S : BlastTiles(t) \cap Unexploded \subseteq S

\* Mutant: a bomb in the blast does not go off.
ChainOfOne(t) == {t}

\* the bombs that go off with the one on t: the least closed set that holds it
\* (the recursion of GameRoom::Explode into WaterBomb::Explode)
Chain(t) ==
    {u \in Unexploded :
        \A S \in SUBSET Unexploded : t \in S /\ BlastClosed(S) => u \in S}

BlastOf(chain) == UNION {BlastTiles(t) : t \in chain}

\* players that SetMainState(TRAPPED) changes
Caught(chain) ==
    {p \in Alive : mainState[p] # "TRAPPED" /\ \E t \in BlastOf(chain) : InTile(pos[p], t)}

\* items and breakable blocks on the tiles of the blast
Broken(chain) == {t \in Tiles \cap BlastOf(chain) : mapObj[t] \in Items \cup {"BREAKABLE"}}

\* the chain of bombs goes off: GameRoom::Explode for each of them
Explode(chain) ==
    \/ \* GetOwner() of a bomb whose owner was removed is null
       /\ \E t \in chain : owner[t] \notin Alive
       /\ CrashWith("ownerGone")
    \/ \* an item or a block is read as a WaterBomb; what is found where
       \* _exploded would be is FALSE, and it is exploded like a bomb
       /\ Broken(chain) # {}
       /\ CrashWith("badCast")
    \/ /\ \A t \in chain : owner[t] \in Alive
       /\ exploded' = exploded \cup chain
       /\ isDead' = isDead \cup chain \cup Broken(chain)
       /\ bombCount' = [p \in Players |->
                          bombCount[p] - Cardinality({t \in chain : owner[t] = p})]
       /\ mainState' = [p \in Players |->
                          IF p \in Caught(chain) THEN "TRAPPED" ELSE mainState[p]]
       /\ stateTimer' = [p \in Players |-> IF p \in Caught(chain) THEN 0 ELSE stateTimer[p]]
       /\ UNCHANGED <<life, motionVars, kit, mapObj, owner, timer, passable, phase, crashed>>

\* WaterBomb::Update of a bomb whose time has not come, or that a chain took
UpdateBombWait(t) ==
    /\ Visit(t)
    /\ t \in Tiles
    /\ t \in exploded \/ Ticked(timer[t]) < ExplosionTicks
    /\ timer' = IF t \in exploded THEN timer ELSE [timer EXCEPT ![t] = Ticked(timer[t])]
    /\ toUpdate' = toUpdate \ {t}
    /\ UNCHANGED <<stateVars, motionVars, kitVars, mapVars, owner, exploded,
                   passable, phase, crashed>>

\* WaterBomb::Update of a bomb whose time is up
UpdateBombExplode(t) ==
    /\ Visit(t)
    /\ t \in Tiles
    /\ t \notin exploded
    /\ Ticked(timer[t]) >= ExplosionTicks
    /\ Explode(Chain(t))
    /\ toUpdate' = IF crashed' = "none" THEN toUpdate \ {t} ELSE toUpdate
-----------------------------------------------------------------------------
(* GameRoom::RemoveDeadObjects, with UnregisterObject.  The last reference *)
(* goes, so every weak_ptr to the object stops locking: the tile is free,  *)
(* and a freed player is in no list.                                       *)

\* Mutant: bombs stay registered.
ErasedWithoutBombs == isDead \ Bombs

\* the tiles whose object UnregisterObject drops the last reference to
Erased == isDead

RemoveDeadObjects ==
    LET freed == {p \in Players : life[p] = "dead"}
    IN  /\ Running
        /\ phase = "update"
        /\ toUpdate = {}
        /\ life'       = [p \in Players |-> IF p \in freed THEN "gone" ELSE life[p]]
        /\ mainState'  = [p \in Players |-> IF p \in freed THEN "NORMAL" ELSE mainState[p]]
        /\ stateTimer' = [p \in Players |-> IF p \in freed THEN 0 ELSE stateTimer[p]]
        /\ pos'        = [p \in Players |-> IF p \in freed THEN SpawnPos ELSE pos[p]]
        /\ heading'    = [p \in Players |-> IF p \in freed THEN "idle" ELSE heading[p]]
        /\ bombCount'  = [p \in Players |-> IF p \in freed THEN 0 ELSE bombCount[p]]
        /\ kit'        = [p \in Players |-> IF p \in freed THEN NewKit ELSE kit[p]]
        /\ mapObj'     = [t \in Tiles |-> IF t \in Erased THEN "NONE" ELSE mapObj[t]]
        /\ owner'      = [t \in Tiles |-> IF t \in Erased THEN NoPlayer ELSE owner[t]]
        /\ timer'      = [t \in Tiles |-> IF t \in Erased THEN 0 ELSE timer[t]]
        /\ passable'   = [t \in Tiles |-> IF t \in Erased THEN {} ELSE passable[t] \ freed]
        /\ exploded'   = exploded \ Erased
        /\ isDead'     = isDead \ Erased
        /\ phase'      = "idle"
        /\ UNCHANGED <<toUpdate, crashed>>
-----------------------------------------------------------------------------
UpdatePlayer(p) ==
    \/ UpdateNull(p)
    \/ UpdateNormal(p)
    \/ UpdateTrapped(p)
    \/ UpdateEscape(p)
    \/ UpdateDead(p)

UpdateBomb(t) == UpdateBombWait(t) \/ UpdateBombExplode(t)

Update ==
    \/ BeginUpdate
    \/ \E p \in Players : UpdatePlayer(p)
    \/ \E t \in Tiles : UpdateBomb(t)
    \/ RemoveDeadObjects

\* the positions an honest client may be in while the server has it at q
ClientPos(q) == Pos \cap ({q} \cup {Along(q, d, 1) : d \in Dirs})

Handle(p) ==
    \/ HandleForMissing(p)
    \/ \E h \in Heading, q \in ClientPos(pos[p]) : Handle_C_Move(p, h, q)
    \/ \E q \in ClientPos(pos[p]) : Handle_C_WaterBomb(p, WorldToTile(q))
    \/ Handle_C_Skill(p)

Next ==
    \/ \E p \in Players : EnterRoom(p) \/ LeaveRoom(p) \/ Handle(p)
    \/ Update

Spec == Init /\ [][Next]_vars

\* the main loop runs Update whenever the accumulator holds a TICK, and no
\* completion it dispatches in between can keep it from doing so
FairSpec == Spec /\ WF_vars(Update)
-----------------------------------------------------------------------------
(* Properties *)

\* the ticks a player may spend in a main state
StateTicks(s) ==
    IF s = "TRAPPED" THEN DeadTicks
    ELSE IF s = "ESCAPE" THEN EscapeTicks ELSE 1

\* The type invariant; no timer is ever at or past its limit.
TypeOK ==
    /\ life \in [Players -> Life]
    /\ mainState \in [Players -> MainState]
    /\ stateTimer \in [Players -> Nat]
    /\ \A p \in Players : stateTimer[p] < StateTicks(mainState[p])
    /\ pos \in [Players -> Pos]
    /\ heading \in [Players -> Heading]
    /\ bombCount \in [Players -> Int]
    /\ kit \in [Players -> [bubble : Nat, fluid : Nat, roller : Nat, needle : BOOLEAN]]
    /\ mapObj \in [Tiles -> MapType]
    /\ isDead \subseteq Tiles
    /\ owner \in [Tiles -> Players \cup {NoPlayer}]
    /\ timer \in [Tiles -> 0 .. ExplosionTicks - 1]
    /\ exploded \subseteq Tiles
    /\ passable \in [Tiles -> SUBSET Players]
    /\ phase \in {"idle", "update"}
    /\ toUpdate \subseteq Players \cup Tiles
    /\ crashed \in Crash

\* the bombs of p that have still to go off
OwnBombs(p) == {t \in Unexploded : owner[t] = p}

\* _bombCount, which AddBombCount and SubBombCount keep by hand from two
\* places, is the number of bombs of the player that have still to go off, so
\* it never wraps below zero and the player is never stuck without bombs.
BombAccounting ==
    \A p \in Alive :
        /\ bombCount[p] = Cardinality(OwnBombs(p))
        /\ bombCount[p] <= kit[p].bubble

\* Between two ticks no slot of the map holds a destroyed object or an
\* exploded bomb, and exactly the bombs have owners: a handler that finds a
\* slot taken has found an object that the next tick will still serve.
SlotsSettled ==
    phase = "idle" =>
        /\ isDead = {}
        /\ exploded = {}
        /\ \A t \in Tiles : mapObj[t] = "WATER_BOMB" <=> owner[t] # NoPlayer

\* tiles strictly between t and u, which lie in one row or one column
Between(t, u) ==
    {v \in Tiles : /\ v \notin {t, u}
                   /\ (t[1] - v[1]) * (v[1] - u[1]) >= 0 /\ (t[2] - v[2]) * (v[2] - u[2]) >= 0}

\* the rule of the game, without arms and steps: the bomb on t reaches u along
\* a row or a column, within the fluid of its owner, through nothing that
\* stops water
Reaches(t, u) ==
    LET distance == Abs(t[1] - u[1]) + Abs(t[2] - u[2])
    IN  /\ t[1] = u[1] \/ t[2] = u[2]
        /\ distance <= kit[owner[t]].fluid
        /\ GetMapObjectAt(u) # "SOLID"
        /\ \A v \in Between(t, u) : mapObj[v] \notin {"SOLID", "BREAKABLE"}

\* the tile a player stands on, on the map or off it
TileOf(p) == <<pos[p][1] \div 2, pos[p][2] \div 2>>

\* why the main state of p may change in a step
StateRule(p) ==
    \/ /\ mainState'[p] = "TRAPPED"
       /\ \E t \in exploded' \ exploded : Reaches(t, TileOf(p))
    \/ /\ mainState[p] = "TRAPPED" /\ mainState'[p] = "DEAD"
       /\ \/ stateTimer[p] + 1 = DeadTicks
          \/ \E q \in Alive \ {p} : mainState[q] = "NORMAL" /\ Touches(pos'[q], pos[p])
    \/ /\ mainState[p] = "TRAPPED" /\ mainState'[p] = "ESCAPE"
       /\ kit[p].needle /\ ~kit'[p].needle
    \/ /\ mainState[p] = "ESCAPE" /\ mainState'[p] = "NORMAL"
       /\ stateTimer[p] + 1 = EscapeTicks
    \/ life'[p] = "gone"

\* The main state of a player moves only along the edges of the rules, each
\* for its reason: a blast over the player traps it, whatever its state; a
\* trapped player dies by its own timer or by the touch of a NORMAL player in
\* that player's update; it escapes by using up a needle; an escape ends in
\* NORMAL.
MainStateRules == [][\A p \in Alive : mainState'[p] # mainState[p] => StateRule(p)]_vars

\* what the bombs that go off together do, and nothing else does
BlastRule(fired) ==
    LET Struck(u) == \E t \in fired : Reaches(t, u)
    IN  /\ \A u \in Bombs : Struck(u) => u \in exploded'
        /\ \A t \in fired : \/ timer[t] + 1 >= ExplosionTicks
                            \/ \E u \in fired \ {t} : Reaches(u, t)
        /\ \A p \in Alive : Struck(TileOf(p)) => mainState'[p] = "TRAPPED"
        /\ \A t \in Tiles : mapObj[t] \notin {"NONE", "SOLID"} =>
              (t \in isDead' <=> t \in isDead \/ Struck(t))

\* The four rules of an explosion (Docs/dev-log.md, 2026.03.16), over a whole
\* chain: every bomb that a bomb that goes off reaches goes off with it, and a
\* bomb goes off early only for that; everyone standing where water reaches is
\* trapped afterwards; items and the nearest breakable blocks that it reaches
\* are destroyed, and nothing out of reach is.
BlastRules ==
    [][exploded' \ exploded # {} => BlastRule(exploded' \ exploded)]_vars

\* p at q overlaps nothing that blocks it
ClearAt(p, q) == \A t \in Under(q) : ~Blocks(p, t)

\* A player that overlaps nothing that blocks it still overlaps nothing after
\* TryMove, whichever way it was pushed back.
WalkStaysClear ==
    [][\A p \in Alive : phase = "update" /\ phase' = "update" /\ ClearAt(p, pos[p])
          => ClearAt(p, pos'[p])]_vars

\* A planted bomb goes off, unless the server dies.
BombsGoOff ==
    \A t \in Tiles : t \in Unexploded ~> (t \notin Unexploded \/ ~Running)

\* Nobody stays trapped for ever: the player dies, escapes or leaves, unless
\* the server dies.  (The timer runs on while blasts keep hitting the player.)
TrapsResolve ==
    \A p \in Players : mainState[p] = "TRAPPED" ~> (mainState[p] # "TRAPPED" \/ ~Running)

\* Two states the server cannot come back from: a null pointer that a late
\* packet left in _objects, and a bomb whose owner has been removed.
DoomedServerStops ==
    \/ \E p \in Players : life[p] = "null"
    \/ \E t \in Unexploded : life[owner[t]] \notin {"in", "dead"}
    ~> ~Running

\* The feed of GameRoom for those it broadcasts to: a null pointer in _objects
\* is nobody.
Feed == INSTANCE RoomFeed WITH
    member <- [p \in Players |-> IF life[p] = "null" THEN "gone" ELSE life[p]]

\* The room keeps what ClientMirror builds on, whatever its players do and
\* whoever drops out in the middle of a tick: objects come and go only between
\* ticks and at the end of one, only on free slots, and a bomb goes off once.
ShowsRoomFeed == Feed!Spec
-----------------------------------------------------------------------------
(* What the documents say and the code does not keep *)

\* "It is enough to check validity with lock()" (dev-log 2026.03.17): no null
\* owner is ever dereferenced.
OwnerCheckedByLock == crashed # "ownerGone"
=============================================================================
