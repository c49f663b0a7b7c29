------------------------------ MODULE RoomFeed ------------------------------
(***************************************************************************)
(* What the game room promises to those it broadcasts to: who is in it, in *)
(* which main state, what lies on which tile, and when each may change.    *)
(* Where players stand, what they carry and which bomb has how long to go  *)
(* is hidden; which bombs go off together and whom they catch is free.     *)
(*                                                                         *)
(* GameRoom implements it (GameRoom!ShowsRoomFeed); ClientMirror adds the  *)
(* packets that tell a client of each step.                                *)
(***************************************************************************)
EXTENDS Naturals

CONSTANTS
    Players,  \* one Player object per accepted session
    Tiles,    \* the tiles of the map
    InitMap   \* what GameRoom::Init puts on each tile

Items     == {"BUBBLE", "FLUID", "ROLLER", "NEEDLE"}
MapType   == {"NONE", "BREAKABLE", "SOLID", "WATER_BOMB"} \cup Items
MainState == {"NORMAL", "TRAPPED", "DEAD", "ESCAPE"}

\* out: not yet created; in: in _objects; dead: there with _isDead; gone: freed
Membership == {"out", "in", "dead", "gone"}

ASSUME RoomFeedAssumption == InitMap \in [Tiles -> MapType \ {"WATER_BOMB"}]

VARIABLES
    member,     \* membership of each player in _objects, and its _isDead
    mainState,  \* _mainState
    mapObj,     \* _mapObjects: the type of the object on each tile
    isDead,     \* tiles whose object has _isDead
    phase       \* "idle" between ticks, "update" inside GameRoom::Update

feedVars == <<member, mainState, mapObj, isDead, phase>>

Init ==
    /\ member    = [p \in Players |-> "out"]
    /\ mainState = [p \in Players |-> "NORMAL"]
    /\ mapObj    = InitMap
    /\ isDead    = {}
    /\ phase     = "idle"

\* the players that a loop over _players meets
Alive == {p \in Players : member[p] \in {"in", "dead"}}
Trapped == {p \in Alive : mainState[p] = "TRAPPED"}

\* the tiles on which an object of one of these types lies
Of(types) == {t \in Tiles : mapObj[t] \in types}
Bombs     == Of({"WATER_BOMB"})

SetStates(who, s) == mainState' = [p \in Players |-> IF p \in who THEN s ELSE mainState[p]]
-----------------------------------------------------------------------------
(* Between ticks *)

Enter(p) ==
    /\ phase = "idle"
    /\ member[p] = "out"
    /\ member' = [member EXCEPT ![p] = "in"]
    /\ UNCHANGED <<mainState, mapObj, isDead, phase>>

\* at any time: a failed send disconnects in the middle of a tick
Leave(p) ==
    /\ member[p] = "in"
    /\ member' = [member EXCEPT ![p] = "dead"]
    /\ UNCHANGED <<mainState, mapObj, isDead, phase>>

\* a bomb comes to lie on a tile whose slot is free
Plant(p, t) ==
    /\ phase = "idle"
    /\ p \in Alive
    /\ mapObj[t] = "NONE"
    /\ mapObj' = [mapObj EXCEPT ![t] = "WATER_BOMB"]
    /\ UNCHANGED <<member, mainState, isDead, phase>>

UseNeedle(p) ==
    /\ phase = "idle"
    /\ p \in Alive
    /\ mainState[p] = "TRAPPED"
    /\ SetStates({p}, "ESCAPE")
    /\ UNCHANGED <<member, mapObj, isDead, phase>>
-----------------------------------------------------------------------------
(* Inside a tick *)

BeginTick ==
    /\ phase = "idle"
    /\ phase' = "update"
    /\ UNCHANGED <<member, mainState, mapObj, isDead>>

\* a NORMAL player's update: it kills trapped players it touches, and gets
\* items, even those that a blast of this tick has destroyed
KillAndGet(p, killed, got) ==
    /\ phase = "update"
    /\ p \in Alive
    /\ mainState[p] = "NORMAL"
    /\ SetStates(killed, "DEAD")
    /\ isDead' = isDead \cup got
    /\ UNCHANGED <<member, mapObj, phase>>

\* the time of a state is over
TimeUp(p) ==
    /\ phase = "update"
    /\ p \in Alive
    /\ \/ mainState[p] = "TRAPPED" /\ SetStates({p}, "DEAD")
       \/ mainState[p] = "ESCAPE"  /\ SetStates({p}, "NORMAL")
    /\ UNCHANGED <<member, mapObj, isDead, phase>>

\* bombs that have not gone off go off in one chain; they catch players and
\* break items and blocks
GoOff(fired, caught, broken) ==
    /\ phase = "update"
    /\ fired # {}
    /\ SetStates(caught, "TRAPPED")
    /\ isDead' = isDead \cup fired \cup broken
    /\ UNCHANGED <<member, mapObj, phase>>

\* RemoveDeadObjects: the slots of all that was destroyed are free again
EndTick ==
    /\ phase = "update"
    /\ member'    = [p \in Players |-> IF member[p] = "dead" THEN "gone" ELSE member[p]]
    /\ mainState' = [p \in Players |-> IF member[p] = "dead" THEN "NORMAL" ELSE mainState[p]]
    /\ mapObj'    = [t \in Tiles |-> IF t \in isDead THEN "NONE" ELSE mapObj[t]]
    /\ isDead'    = {}
    /\ phase'     = "idle"
-----------------------------------------------------------------------------
Tick ==
    \/ BeginTick
    \/ \E p \in Players, killed \in SUBSET Trapped, got \in SUBSET Of(Items) :
          KillAndGet(p, killed, got)
    \/ \E p \in Players : TimeUp(p)
    \/ \E fired \in SUBSET (Bombs \ isDead), caught \in SUBSET (Alive \ Trapped),
          broken \in SUBSET Of(Items \cup {"BREAKABLE"}) :
          GoOff(fired, caught, broken)
    \/ EndTick

Next ==
    \/ \E p \in Players : Enter(p) \/ Leave(p) \/ UseNeedle(p)
    \/ \E p \in Players, t \in Tiles : Plant(p, t)
    \/ Tick

Spec == Init /\ [][Next]_feedVars
=============================================================================
