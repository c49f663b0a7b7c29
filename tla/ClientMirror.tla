---------------------------- MODULE ClientMirror ----------------------------
(***************************************************************************)
(* One client's picture of the room: ClientPacketHandler, ObjectManager    *)
(* and the removal of dead objects at the end of a frame (Scene::Update),  *)
(* fed by what the room broadcasts.                                        *)
(*                                                                         *)
(* The room is RoomFeed; the session between the two is a PacketChannel,   *)
(* packets whole and in order, and none of its sends fails.  The client    *)
(* has one thread: handlers run between frames, any number of them.        *)
(*                                                                         *)
(* A map object is named by its tile and by how many objects have lain     *)
(* there before it; this stands for its object id and, as the id never     *)
(* changes its meaning, for what and where the object is.                  *)
(***************************************************************************)
EXTENDS RoomFeed, Sequences, FiniteSets, SequencesExt

CONSTANTS
    Me,           \* the player of this client
    Null,         \* a null pointer in the client's tile map
    MaxPlants,    \* bound: bombs planted on one tile
    MaxChanges,   \* bound: S_MainState packets
    MaxRollers,   \* bound: _rollerCount of this client's player
    MaxInFlight   \* bound: packets in flight when the room goes on

ASSUME MirrorAssumption ==
    /\ Me \in Players
    /\ MaxPlants \in Nat /\ MaxChanges \in Nat /\ MaxInFlight \in Nat
    /\ MaxRollers \in Nat \ {0}

Id      == Tiles \X (0 .. MaxPlants)
Home(i) == i[1]

\* of players and tiles there are finitely many; a player is not a map object
ASSUME MirrorKinds ==
    /\ IsFiniteSet(Players) /\ IsFiniteSet(Tiles)
    /\ Players \cap Id = {}

Causes == {"none", "noMyPlayer", "noMap", "nullBlock", "dangling"}

VARIABLES
    layer,         \* per tile, the object there now or last
    changes,       \* S_MainState packets so far
    rollers,       \* _rollerCount of this client's player, which starts at 1
    inbox,         \* packets sent to the client and not handled
    scene,         \* objects in the scene, registered in _syncObjects
    flagged,       \* those of them that have _isDead
    shownState,    \* _mainState of the client's players
    speed,         \* MyPlayer::_normalSpeed as a count of rollers
    slots,         \* _mapObjects; no tile has a slot before S_Tilemap
    overlapBombs,  \* MyPlayer::_overlapBombs, raw pointers
    clientCrash,   \* why the client's process died
    history        \* not in the code: what the properties refer to

roomVars   == <<feedVars, layer, changes, rollers>>
sceneVars  == <<scene, flagged, shownState, speed, slots, overlapBombs>>
mirrorVars == <<inbox, sceneVars, clientCrash, history>>
vars       == <<roomVars, mirrorVars>>

\* the object that lies on t
ObjectAt(t) == <<t, layer[t]>>
OnMap       == {ObjectAt(t) : t \in {t \in Tiles : mapObj[t] # "NONE"}}

MirrorInit ==
    /\ Init
    /\ layer = [t \in Tiles |-> 0]
    /\ changes = 0
    /\ rollers = 1
    /\ inbox = <<>>
    /\ scene = {} /\ flagged = {}
    /\ shownState = [p \in Players |-> "NORMAL"]
    /\ speed = 0
    /\ slots = <<>>
    /\ overlapBombs = {}
    /\ clientCrash = "none"
    /\ history = [ghosts |-> {}, listed |-> {}, relisted |-> {}, missing |-> {},
                  overtaken |-> {}, twins |-> {}]
-----------------------------------------------------------------------------
(* Packets *)

S_MyPlayer             == [type |-> "S_MyPlayer", state |-> mainState[Me]]
S_OtherPlayers(who)    == [type |-> "S_OtherPlayers", infos |-> [p \in who |-> mainState[p]]]
S_Tilemap              == [type |-> "S_Tilemap", infos |-> OnMap]
S_PlayerLeave(p)       == [type |-> "S_PlayerLeave", player |-> p]
S_MainState(p, s)      == [type |-> "S_MainState", player |-> p, state |-> s]
S_WaterBomb(i)         == [type |-> "S_WaterBomb", id |-> i]
S_RemoveItem(i)        == [type |-> "S_RemoveItem", id |-> i]
S_PlayerNormalSpeed(n) == [type |-> "S_PlayerNormalSpeed", rollers |-> n]

\* Mutant: the items are left out of the packet.
ExplodeWithoutItems(i, destroyed) ==
    [type   |-> "S_Explode", id |-> i,
     blocks |-> {ObjectAt(t) : t \in {t \in destroyed : mapObj[t] = "BREAKABLE"}},
     items  |-> {}]

S_Explode(i, destroyed) ==
    [type   |-> "S_Explode", id |-> i,
     blocks |-> {ObjectAt(t) : t \in {t \in destroyed : mapObj[t] = "BREAKABLE"}},
     items  |-> {ObjectAt(t) : t \in {t \in destroyed : mapObj[t] \in Items}}]

\* GameRoom::Broadcast, as far as it concerns this client
Tell(packets) == inbox' = IF member'[Me] = "in" THEN inbox \o packets ELSE inbox

TellStates(who, s) == SetToSeq({S_MainState(p, s) : p \in who})

\* the rollers among the items that p gets, if p is the player of this client
MyRollers(p, got) == {t \in got : p = Me /\ mapObj[t] = "ROLLER"}

\* Mutant: the speed is read before the roller is counted.
SpeedsBefore(taken) == {rollers + n - 1 : n \in 1 .. Cardinality(taken)}

\* RollerItem::OnGet counts a roller, then sends the speed
Speeds(taken) == {rollers + n : n \in 1 .. Cardinality(taken)}

\* What Player::CheckGetItem sends of the items, in the order of _items: one
\* removal each, after what OnGet sends, to the session of the player alone.
GetNews(taken, got) ==
    {news \in SetToSeqs(   {S_PlayerNormalSpeed(n) : n \in Speeds(taken)}
                       \cup {S_RemoveItem(ObjectAt(t)) : t \in got}) :
       \A n \in DOMAIN news : news[n].type = "S_PlayerNormalSpeed" =>
          /\ n < Len(news)
          /\ news[n + 1] \in {S_RemoveItem(ObjectAt(t)) : t \in taken}
          /\ \A m \in 1 .. (n - 1) :
                news[m].type = "S_PlayerNormalSpeed" => news[m].rollers < news[n].rollers}
-----------------------------------------------------------------------------
(* The room, with what it sends *)

RoomMay == clientCrash = "none" /\ Len(inbox) <= MaxInFlight

\* Mutant: the list of the players goes out first.
EnterMeListFirst ==
    /\ Enter(Me)
    /\ inbox' = <<S_OtherPlayers(Alive \cup {Me}), S_MyPlayer, S_Tilemap, S_OtherPlayers({Me})>>
    /\ history' = [history EXCEPT !.ghosts = {p \in Players : member[p] = "dead"}]

\* GameRoom::EnterRoom of this client: the snapshot of the players holds
\* those that are flagged dead and have been announced to leave
EnterMe ==
    /\ Enter(Me)
    /\ inbox' = <<S_MyPlayer, S_OtherPlayers(Alive \cup {Me}), S_Tilemap, S_OtherPlayers({Me})>>
    /\ history' = [history EXCEPT !.ghosts = {p \in Players : member[p] = "dead"}]

EnterOther(p) ==
    /\ p # Me
    /\ Enter(p)
    /\ Tell(<<S_OtherPlayers({p})>>)
    /\ UNCHANGED history

\* the session of this client stays
LeaveOther(p) ==
    /\ p # Me
    /\ Leave(p)
    /\ Tell(<<S_PlayerLeave(p)>>)
    /\ UNCHANGED history

PlantAndTell(p, t) ==
    /\ layer[t] < MaxPlants
    /\ Plant(p, t)
    /\ layer' = [layer EXCEPT ![t] = @ + 1]
    /\ Tell(<<S_WaterBomb(<<t, layer'[t]>>)>>)
    /\ UNCHANGED history

UseNeedleAndTell(p) ==
    /\ UseNeedle(p)
    /\ Tell(<<S_MainState(p, "ESCAPE")>>)
    /\ UNCHANGED history

KillAndGetAndTell(p, killed, got) ==
    /\ killed \cup got # {}
    /\ KillAndGet(p, killed, got)
    /\ rollers' = rollers + Cardinality(MyRollers(p, got))
    /\ rollers' <= MaxRollers
    /\ \E news \in GetNews(MyRollers(p, got), got) : Tell(TellStates(killed, "DEAD") \o news)
    /\ UNCHANGED history

TimeUpAndTell(p) ==
    /\ TimeUp(p)
    /\ Tell(<<S_MainState(p, mainState'[p])>>)
    /\ UNCHANGED history

\* Every bomb of the chain sends the items and blocks of its own blast; two of
\* them may send the same one, as a slot is emptied at the end of the tick.
BlastAndTell(fired, caught, destroyed) ==
    LET broken == UNION {destroyed[t] : t \in fired}
        again  == {t \in broken : Cardinality({u \in fired : t \in destroyed[u]}) > 1}
    IN  /\ GoOff(fired, caught, broken)
        /\ \E order \in SetToSeqs(fired) :
              Tell(TellStates(caught, "TRAPPED")
                   \o [n \in 1 .. Len(order) |->
                         S_Explode(ObjectAt(order[n]), destroyed[order[n]])])
        /\ history' = [history EXCEPT
                         !.listed   = @ \cup broken,
                         !.relisted = @ \cup {ObjectAt(t) : t \in again \cup (broken \cap history.listed)}]

EndTickAndTell ==
    /\ EndTick
    /\ UNCHANGED inbox
    /\ history' = [history EXCEPT !.listed = {}]

RoomStep ==
    /\ RoomMay
    /\ \/ /\ \/ \E p \in Players : \/ EnterOther(p) \/ LeaveOther(p)
                                   \/ UseNeedleAndTell(p) \/ TimeUpAndTell(p)
             \/ EnterMe
             \/ BeginTick /\ UNCHANGED <<inbox, history>>
             \/ \E fired \in SUBSET (Bombs \ isDead), caught \in SUBSET (Alive \ Trapped) :
                   \E destroyed \in [fired -> SUBSET Of(Items \cup {"BREAKABLE"})] :
                      BlastAndTell(fired, caught, destroyed)
             \/ EndTickAndTell
          /\ UNCHANGED rollers
       \/ \E p \in Players, killed \in SUBSET Trapped, got \in SUBSET Of(Items) :
             KillAndGetAndTell(p, killed, got)
    /\ changes' = changes + IF phase' = phase
                            THEN Cardinality({p \in Players : mainState'[p] # mainState[p]})
                            ELSE 0
    /\ changes' <= MaxChanges
    /\ UNCHANGED <<layer, sceneVars, clientCrash>>

PlantStep ==
    /\ RoomMay
    /\ \E p \in Players, t \in Tiles : PlantAndTell(p, t)
    /\ UNCHANGED <<changes, rollers, sceneVars, clientCrash>>
-----------------------------------------------------------------------------
(* The handlers of the client: each takes the first packet of the inbox *)

Handles(type) == clientCrash = "none" /\ inbox # <<>> /\ Head(inbox).type = type
Packet        == Head(inbox)

\* Mutant: the pointer is not looked at.
FoundOrNot(ids) == ids

\* what ObjectManager::GetSyncObject finds, which the handlers check
Found(ids) == ids \cap scene

ClientDies(cause) == clientCrash' = cause /\ UNCHANGED <<sceneVars, history>>
ClientLives       == UNCHANGED clientCrash

\* SpawnMapObject and SetObjectId of one object per tile that has one
Handle_S_Tilemap ==
    /\ Handles("S_Tilemap")
    /\ slots' = [t \in Tiles |-> IF \E i \in Packet.infos : Home(i) = t
                                 THEN CHOOSE i \in Packet.infos : Home(i) = t
                                 ELSE Null]
    /\ scene' = scene \cup Packet.infos
    /\ UNCHANGED <<flagged, shownState, speed, overlapBombs, history>>
    /\ ClientLives

Handle_S_MyPlayer ==
    /\ Handles("S_MyPlayer")
    /\ scene' = scene \cup {Me}
    /\ shownState' = [shownState EXCEPT ![Me] = Packet.state]
    /\ UNCHANGED <<flagged, speed, slots, overlapBombs, history>>
    /\ ClientLives

\* Mutant: the client does not look for itself in the list.
EveryoneIn(infos) == DOMAIN infos

\* the players that Handle_S_OtherPlayers creates
Newcomers(infos) == DOMAIN infos \ {Me}

Handle_S_OtherPlayers ==
    /\ Handles("S_OtherPlayers")
    /\ IF Me \notin scene
       THEN ClientDies("noMyPlayer")
       ELSE LET new == Newcomers(Packet.infos)
            IN  /\ scene' = scene \cup new
                /\ shownState' = [p \in Players |->
                                    IF p \in new THEN Packet.infos[p] ELSE shownState[p]]
                /\ history' = [history EXCEPT !.twins = @ \cup (new \cap scene)]
                /\ UNCHANGED <<flagged, speed, slots, overlapBombs>>
                /\ ClientLives

Handle_S_PlayerLeave ==
    /\ Handles("S_PlayerLeave")
    /\ flagged' = flagged \cup Found({Packet.player})
    /\ UNCHANGED <<scene, shownState, speed, slots, overlapBombs, history>>
    /\ ClientLives

Handle_S_MainState ==
    /\ Handles("S_MainState")
    /\ shownState' = IF Packet.player \in scene
                     THEN [shownState EXCEPT ![Packet.player] = Packet.state]
                     ELSE shownState
    /\ UNCHANGED <<scene, flagged, speed, slots, overlapBombs, history>>
    /\ ClientLives

\* where this player stands decides whether it overlaps the new bomb
Handle_S_WaterBomb ==
    /\ Handles("S_WaterBomb")
    /\ IF Home(Packet.id) \notin DOMAIN slots THEN ClientDies("noMap")
       ELSE IF Me \notin scene THEN ClientDies("noMyPlayer")
       ELSE /\ scene' = scene \cup {Packet.id}
            /\ slots' = [slots EXCEPT ![Home(Packet.id)] = Packet.id]
            /\ \E touches \in BOOLEAN :
                  overlapBombs' = IF touches THEN overlapBombs \cup {Packet.id} ELSE overlapBombs
            /\ history' = [history EXCEPT !.overtaken =
                             IF \E i \in scene \cap Id : Home(i) = Home(Packet.id)
                             THEN @ \cup {Packet.id} ELSE @]
            /\ UNCHANGED <<flagged, shownState, speed>>
            /\ ClientLives

\* the bomb and the items are looked for, the blocks are destroyed unseen
Handle_S_Explode ==
    /\ Handles("S_Explode")
    /\ IF ~ (Packet.blocks \subseteq scene)
       THEN /\ clientCrash' = "nullBlock"
            /\ history' = [history EXCEPT !.missing = Packet.blocks \ scene]
            /\ UNCHANGED sceneVars
       ELSE /\ flagged' = flagged \cup Found({Packet.id} \cup Packet.blocks \cup Packet.items)
            /\ UNCHANGED <<scene, shownState, speed, slots, overlapBombs, history>>
            /\ ClientLives

Handle_S_RemoveItem ==
    /\ Handles("S_RemoveItem")
    /\ flagged' = flagged \cup Found({Packet.id})
    /\ UNCHANGED <<scene, shownState, speed, slots, overlapBombs, history>>
    /\ ClientLives

\* the packet names this client's player, as no other session gets it
Handle_S_PlayerNormalSpeed ==
    /\ Handles("S_PlayerNormalSpeed")
    /\ IF Me \notin scene
       THEN ClientDies("noMyPlayer")
       ELSE /\ speed' = Packet.rollers
            /\ UNCHANGED <<scene, flagged, shownState, slots, overlapBombs, history>>
            /\ ClientLives

Handle ==
    /\ \/ Handle_S_Tilemap  \/ Handle_S_MyPlayer  \/ Handle_S_OtherPlayers
       \/ Handle_S_PlayerLeave \/ Handle_S_MainState \/ Handle_S_WaterBomb
       \/ Handle_S_Explode  \/ Handle_S_RemoveItem \/ Handle_S_PlayerNormalSpeed
    /\ inbox' = Tail(inbox)
    /\ UNCHANGED roomVars
-----------------------------------------------------------------------------
(* A frame: the players and objects are updated, then the dead are removed *)

\* Mutant: an object that is released stays in the tile map.
ClearedNever == {}

\* MapObject::OnRelease: the slot of the tile, whatever it points to by then
Cleared == {Home(i) : i \in flagged \cap Id}

\* Scene::RemoveDeadObjects
RemoveDeadObjects ==
    /\ scene' = scene \ flagged
    /\ flagged' = {}
    /\ slots' = [t \in DOMAIN slots |-> IF t \in Cleared THEN Null ELSE slots[t]]

\* this player does not walk, or is not NORMAL: no bomb is looked at
FrameAtRest ==
    /\ clientCrash = "none"
    /\ flagged # {}
    /\ RemoveDeadObjects
    /\ UNCHANGED <<roomVars, inbox, shownState, speed, overlapBombs, clientCrash, history>>

\* MyPlayer::CheckOverlapBombs of a player that walks
FrameWalking ==
    /\ clientCrash = "none"
    /\ Me \in scene
    /\ shownState[Me] = "NORMAL"
    /\ IF overlapBombs \subseteq scene
       THEN /\ \E left \in SUBSET overlapBombs : overlapBombs' = overlapBombs \ left
            /\ RemoveDeadObjects
            /\ UNCHANGED <<shownState, speed, clientCrash, history>>
       ELSE ClientDies("dangling")
    /\ UNCHANGED <<roomVars, inbox>>

Frame == FrameAtRest \/ FrameWalking
-----------------------------------------------------------------------------
MirrorNext == RoomStep \/ PlantStep \/ Handle \/ Frame

MirrorSpec == MirrorInit /\ [][MirrorNext]_vars
-----------------------------------------------------------------------------
(* Properties *)

\* The type invariant.
TypeOK ==
    /\ layer \in [Tiles -> 0 .. MaxPlants]
    /\ rollers \in 1 .. MaxRollers
    /\ speed \in 0 .. MaxRollers
    /\ scene \subseteq Id \cup Players
    /\ flagged \subseteq scene
    /\ shownState \in [Players -> MainState]
    /\ DOMAIN slots \in {{}, Tiles}
    /\ \A t \in DOMAIN slots : slots[t] \in Id \cup {Null}
    /\ overlapBombs \subseteq Id
    /\ clientCrash \in Causes

\* all that was sent has been handled, the dead are removed, no tick is on
CaughtUp == /\ clientCrash = "none" /\ phase = "idle" /\ member[Me] = "in"
            /\ inbox = <<>> /\ flagged = {}

\* Whenever the client has caught up, it shows the room: the objects that lie
\* on the map, the players that are in, each in its main state.  Players that
\* were flagged dead when this client entered stay as ghosts.
ShowsTheRoom ==
    CaughtUp =>
        /\ scene \cap Id = OnMap
        /\ scene \cap Players = {p \in Players : member[p] = "in"} \cup history.ghosts
        /\ \A p \in (scene \cap Players) \ history.ghosts : shownState[p] = mainState[p]

\* The tile map of the client, which decides what its player runs into, never
\* points to a freed object or to one of another tile; and once the client has
\* caught up it lacks an object only if that was announced while the client
\* still had to remove the one before it on the tile.
SlotsTellTheTruth ==
    /\ \A t \in DOMAIN slots : slots[t] # Null => slots[t] \in scene /\ Home(slots[t]) = t
    /\ CaughtUp => \A i \in OnMap : slots[Home(i)] = i \/ i \in history.overtaken

\* No player is shown twice: snapshot and announcements never tell a client of
\* the same player.
NoTwins == history.twins = {}

\* Once this client's player has taken a roller and all is handled, the client
\* predicts with the speed that the room walks it with.  Until then it has
\* MOVE_SPEED_NORMAL, which the room never uses: it starts with one roller.
SpeedIsTold == CaughtUp /\ rollers > 1 => speed = rollers

\* What the client dereferences unchecked is there: its own player and the map
\* have arrived before anything that needs them, and a block that is missing
\* is one that two bombs of one tick have destroyed.
CrashesAreKnown ==
    /\ clientCrash \notin {"noMyPlayer", "noMap"}
    /\ history.missing \subseteq history.relisted
-----------------------------------------------------------------------------
(* What the documents say and the code does not keep *)

\* "The Player holds the bombs it overlaps at present" (dev-log 2026.03.12):
\* each is a bomb that exists.
OverlapBombsExist == clientCrash # "dangling"
=============================================================================
