--------------------------- MODULE RoomFeed_proofs ---------------------------
(* GameRoom implements RoomFeed, for every number of players and every map. *)
(* Its bomb accounting is needed: that a bomb is flagged dead when it goes  *)
(* off, and for nothing else, is why no bomb goes off twice.                *)
EXTENDS GameRoom_proofs

\* the member function of the refinement mapping
Member == [p \in Players |-> IF life[p] = "null" THEN "gone" ELSE life[p]]

\* the tiles that the loop of a tick has still to visit hold bombs
VisitsBombs == toUpdate \cap Tiles \subseteq Bombs

LEMMA NextVisitsBombs == TypeOK /\ VisitsBombs /\ [Next]_vars => VisitsBombs'
<1> SUFFICES ASSUME TypeOK, VisitsBombs, [Next]_vars
             PROVE  VisitsBombs'
  OBVIOUS
<1>1. CASE toUpdate' \subseteq toUpdate /\ mapObj' = mapObj
  BY <1>1 DEF VisitsBombs, Bombs
<1>2. ASSUME NEW p \in Players, EnterRoom(p) \/ LeaveRoom(p) \/ Handle(p)
      PROVE  VisitsBombs'
  <2>1. toUpdate' = toUpdate
    BY <1>2 DEF EnterRoom, LeaveRoom, Handle, HandleForMissing, Handle_C_Move,
                Handle_C_WaterBomb, Handle_C_Skill, CrashWith, tickVars
  <2>2. \A t \in Tiles : mapObj[t] = "WATER_BOMB" => mapObj'[t] = "WATER_BOMB"
    <3>1. ASSUME NEW t, Handle_C_WaterBomb(p, t)
          PROVE  mapObj' = mapObj \/ mapObj' = [mapObj EXCEPT ![t] = "WATER_BOMB"]
      BY <3>1 DEF Handle_C_WaterBomb, CrashWith, mapVars
    <3>2. CASE mapObj' = mapObj
      BY <3>2
    <3>3. CASE \E t : mapObj' = [mapObj EXCEPT ![t] = "WATER_BOMB"]
      BY <3>3 DEF TypeOK
    <3> QED BY <1>2, <3>1, <3>2, <3>3
            DEF EnterRoom, LeaveRoom, Handle, HandleForMissing, Handle_C_Move,
                Handle_C_Skill, mapVars
  <2> QED BY <2>1, <2>2 DEF VisitsBombs, Bombs
<1>3. CASE BeginUpdate
  BY <1>3, GameRoomAssumption DEF BeginUpdate, VisitsBombs, Bombs, mapVars
<1>4. ASSUME NEW p \in Players, UpdatePlayer(p)
      PROVE  VisitsBombs'
  <2>1. toUpdate' \subseteq toUpdate /\ mapObj' = mapObj
    BY <1>4 DEF UpdatePlayer, UpdateNull, UpdateNormal, UpdateTrapped, UpdateEscape,
                UpdateDead, CrashWith, mapVars, tickVars
  <2> QED BY <1>1, <2>1
<1>5. ASSUME NEW t \in Tiles, UpdateBomb(t)
      PROVE  VisitsBombs'
  <2>1. toUpdate' \subseteq toUpdate /\ mapObj' = mapObj
    BY <1>5 DEF UpdateBomb, UpdateBombWait, UpdateBombExplode, Explode, CrashWith,
                mapVars, tickVars
  <2> QED BY <1>1, <2>1
<1>6. CASE RemoveDeadObjects
  BY <1>6 DEF RemoveDeadObjects, VisitsBombs
<1>7. CASE UNCHANGED vars
  BY <1>1, <1>7 DEF vars, mapVars, tickVars
<1> QED BY <1>2, <1>3, <1>4, <1>5, <1>6, <1>7 DEF Next, Update

LEMMA VisitsBombsHolds == Spec => []VisitsBombs
<1>1. Init => VisitsBombs
  BY DEF Init, VisitsBombs
<1> QED BY <1>1, NextVisitsBombs, TypeCorrect, PTL DEF Spec
-----------------------------------------------------------------------------
LEMMA SameAlive == Feed!Alive = Alive
BY DEF Feed!Alive, Alive

LEMMA SameTypes == Feed!Bombs = Bombs /\ Feed!Items = Items
BY DEF Feed!Bombs, Feed!Of, Bombs, Feed!Items, Items

\* a step that changes nothing the feed shows
LEMMA Stutter ==
  ASSUME UNCHANGED <<life, mainState, mapObj, isDead, phase>>
  PROVE  UNCHANGED Feed!feedVars
BY DEF Feed!feedVars

LEMMA InitFeed == Init => Feed!Init
<1> SUFFICES ASSUME Init
             PROVE  Feed!Init
  OBVIOUS
<1>1. Member = [p \in Players |-> "out"]
  BY DEF Init, Member
<1> QED BY <1>1 DEF Init, Feed!Init, Member

LEMMA HandleFeed ==
  ASSUME TypeOK, NEW p \in Players, EnterRoom(p) \/ LeaveRoom(p) \/ Handle(p)
  PROVE  Feed!Next \/ UNCHANGED Feed!feedVars
<1>0. \A q \in Players : life[q] \in Life
  BY DEF TypeOK
<1>1. CASE EnterRoom(p)
  <2>1. life[p] = "out" /\ life' = [life EXCEPT ![p] = "in"] /\ phase = "idle"
    BY <1>1 DEF EnterRoom, Idle
  <2>2. Member' = [Member EXCEPT ![p] = "in"] /\ Member[p] = "out"
    BY <2>1 DEF Member, TypeOK
  <2>3. Feed!Enter(p)
    BY <1>1, <2>1, <2>2 DEF EnterRoom, Feed!Enter, Member, mapVars, tickVars
  <2> QED BY <2>3 DEF Feed!Next
<1>2. CASE LeaveRoom(p)
  <2>1. life[p] = "in" /\ life' = [life EXCEPT ![p] = "dead"]
    BY <1>2 DEF LeaveRoom
  <2>2. Member' = [Member EXCEPT ![p] = "dead"] /\ Member[p] = "in"
    BY <2>1 DEF Member, TypeOK
  <2>3. Feed!Leave(p)
    BY <1>2, <2>1, <2>2 DEF LeaveRoom, Feed!Leave, Member, mapVars, tickVars
  <2> QED BY <2>3 DEF Feed!Next
<1>3. CASE HandleForMissing(p)
  <2>1. life[p] = "gone" /\ life' = [life EXCEPT ![p] = "null"]
    BY <1>3 DEF HandleForMissing
  <2>2. Member' = Member
    BY <2>1 DEF Member, TypeOK
  <2> QED BY <1>3, <2>2 DEF HandleForMissing, Feed!feedVars, Member, mapVars, tickVars
<1>4. ASSUME NEW h \in Heading, NEW q \in ClientPos(pos[p]), Handle_C_Move(p, h, q)
      PROVE  UNCHANGED Feed!feedVars
  BY <1>4, Stutter DEF Handle_C_Move, stateVars, mapVars, tickVars
<1>5. ASSUME NEW t, Handle_C_WaterBomb(p, t)
      PROVE  Feed!Next \/ UNCHANGED Feed!feedVars
  <2>1. CASE t \notin Tiles
    BY <1>5, <2>1, Stutter DEF Handle_C_WaterBomb, CrashWith, stateVars, mapVars, tickVars
  <2>2. CASE t \in Tiles
    <3>1. /\ phase = "idle" /\ p \in Alive /\ mapObj[t] = "NONE"
          /\ mapObj' = [mapObj EXCEPT ![t] = "WATER_BOMB"]
          /\ UNCHANGED <<life, mainState, isDead, phase>>
      BY <1>5, <2>2 DEF Handle_C_WaterBomb, Idle, GetMapObjectAt, stateVars, tickVars
    <3>2. Feed!Plant(p, t)
      BY <3>1, SameAlive DEF Feed!Plant
    <3> QED BY <2>2, <3>2 DEF Feed!Next
  <2> QED BY <2>1, <2>2
<1>6. CASE Handle_C_Skill(p)
  <2>1. /\ phase = "idle" /\ p \in Alive /\ mainState[p] = "TRAPPED"
        /\ mainState' = [mainState EXCEPT ![p] = "ESCAPE"]
        /\ UNCHANGED <<life, mapObj, isDead, phase>>
    BY <1>6 DEF Handle_C_Skill, Idle, mapVars, tickVars
  <2>2. Feed!SetStates({p}, "ESCAPE")
    BY <2>1 DEF Feed!SetStates, TypeOK
  <2>3. Feed!UseNeedle(p)
    BY <2>1, <2>2, SameAlive DEF Feed!UseNeedle
  <2> QED BY <2>3 DEF Feed!Next
<1> QED BY <1>1, <1>2, <1>3, <1>4, <1>5, <1>6 DEF Handle

LEMMA UpdatePlayerFeed ==
  ASSUME TypeOK, NEW p \in Players, UpdatePlayer(p)
  PROVE  Feed!Next \/ UNCHANGED Feed!feedVars
<1>1. CASE UpdateNull(p)
  BY <1>1, Stutter DEF UpdateNull, CrashWith, stateVars, mapVars, tickVars
<1>2. CASE UpdateNormal(p)
  <2> DEFINE here   == Moved(p)
             killed == {q \in Alive \ {p} : mainState[q] = "TRAPPED" /\ Touches(here, pos[q])}
             got    == {t \in Tiles : mapObj[t] \in Items /\ Touches(here, TileToWorld(t))}
  <2>1. /\ phase = "update" /\ p \in Alive /\ mainState[p] = "NORMAL"
        /\ mainState' = [q \in Players |-> IF q \in killed THEN "DEAD" ELSE mainState[q]]
        /\ isDead' = isDead \cup got
        /\ UNCHANGED <<life, mapObj, phase>>
    BY <1>2 DEF UpdateNormal, Visit
  <2>2. killed \in SUBSET Feed!Trapped
    BY SameAlive DEF Feed!Trapped
  <2>3. got \in SUBSET Feed!Of(Feed!Items)
    BY SameTypes DEF Feed!Of
  <2> HIDE DEF here, killed, got
  <2>4. Feed!KillAndGet(p, killed, got)
    BY <2>1, SameAlive DEF Feed!KillAndGet, Feed!SetStates
  <2> QED BY <2>2, <2>3, <2>4 DEF Feed!Next, Feed!Tick
<1>3. CASE UpdateTrapped(p)
  <2>1. CASE TrapTimeUp(p)
    <3>1. /\ phase = "update" /\ p \in Alive /\ mainState[p] = "TRAPPED"
          /\ mainState' = [mainState EXCEPT ![p] = "DEAD"]
          /\ UNCHANGED <<life, mapObj, isDead, phase>>
      BY <1>3, <2>1 DEF UpdateTrapped, Visit, mapVars
    <3>2. Feed!SetStates({p}, "DEAD")
      BY <3>1 DEF Feed!SetStates, TypeOK
    <3>3. Feed!TimeUp(p)
      BY <3>1, <3>2, SameAlive DEF Feed!TimeUp
    <3> QED BY <3>3 DEF Feed!Next, Feed!Tick
  <2>2. CASE ~TrapTimeUp(p)
    BY <1>3, <2>2, Stutter DEF UpdateTrapped, mapVars
  <2> QED BY <2>1, <2>2
<1>4. CASE UpdateEscape(p)
  <2>1. CASE Ticked(stateTimer[p]) >= EscapeTicks
    <3>1. /\ phase = "update" /\ p \in Alive /\ mainState[p] = "ESCAPE"
          /\ mainState' = [mainState EXCEPT ![p] = "NORMAL"]
          /\ UNCHANGED <<life, mapObj, isDead, phase>>
      BY <1>4, <2>1 DEF UpdateEscape, Visit, mapVars
    <3>2. Feed!SetStates({p}, "NORMAL")
      BY <3>1 DEF Feed!SetStates, TypeOK
    <3>3. Feed!TimeUp(p)
      BY <3>1, <3>2, SameAlive DEF Feed!TimeUp
    <3> QED BY <3>3 DEF Feed!Next, Feed!Tick
  <2>2. CASE ~ (Ticked(stateTimer[p]) >= EscapeTicks)
    BY <1>4, <2>2, Stutter DEF UpdateEscape, mapVars
  <2> QED BY <2>1, <2>2
<1>5. CASE UpdateDead(p)
  BY <1>5, Stutter DEF UpdateDead, stateVars, mapVars
<1> QED BY <1>1, <1>2, <1>3, <1>4, <1>5 DEF UpdatePlayer

\* The chain of a bomb that has not gone off holds the bomb, and none that is
\* flagged dead.
LEMMA ChainOfLive ==
  ASSUME BombInv, NEW t \in Bombs \ exploded
  PROVE  t \in Chain(t) /\ Chain(t) \in SUBSET (Bombs \ isDead)
<1>1. t \in Chain(t)
  BY DEF Chain, Unexploded
<1>2. exploded = isDead \cap Bombs
  BY DEF BombInv, DeadBombs
<1> QED BY <1>1, <1>2 DEF Chain, Unexploded

LEMMA UpdateBombFeed ==
  ASSUME TypeOK, BombInv, VisitsBombs, NEW t \in Tiles, UpdateBomb(t)
  PROVE  Feed!Next \/ UNCHANGED Feed!feedVars
<1>1. CASE UpdateBombWait(t)
  BY <1>1, Stutter DEF UpdateBombWait, stateVars, mapVars
<1>2. CASE UpdateBombExplode(t)
  <2>1. /\ t \in toUpdate /\ phase = "update" /\ t \notin exploded
        /\ Explode(Chain(t))
    BY <1>2 DEF UpdateBombExplode, Visit
  <2>2. t \in Bombs \ exploded
    BY <2>1 DEF VisitsBombs
  <2> DEFINE fired  == Chain(t)
             caught == Caught(fired)
             broken == Broken(fired)
  <2>3. fired # {} /\ fired \in SUBSET (Bombs \ isDead)
    BY <2>2, ChainOfLive
  <2>4. caught \in SUBSET (Feed!Alive \ Feed!Trapped)
    BY SameAlive DEF Caught, Feed!Trapped
  <2>5. broken \in SUBSET Feed!Of(Feed!Items \cup {"BREAKABLE"})
    BY SameTypes DEF Broken, Feed!Of
  <2>6. CASE CrashWith("ownerGone") \/ CrashWith("badCast")
    BY <1>2, <2>6, Stutter DEF CrashWith, stateVars, mapVars, tickVars
  <2>7. CASE ~ (CrashWith("ownerGone") \/ CrashWith("badCast"))
    <3>1. /\ isDead' = isDead \cup fired \cup broken
          /\ mainState' = [p \in Players |-> IF p \in caught THEN "TRAPPED" ELSE mainState[p]]
          /\ UNCHANGED <<life, mapObj, phase>>
      BY <2>1, <2>7 DEF Explode
    <3> HIDE DEF fired, caught, broken
    <3>2. Feed!GoOff(fired, caught, broken)
      BY <2>1, <2>3, <3>1 DEF Feed!GoOff, Feed!SetStates
    <3> QED BY <2>3, <2>4, <2>5, <3>2, SameTypes DEF Feed!Next, Feed!Tick
  <2> QED BY <2>6, <2>7
<1> QED BY <1>1, <1>2 DEF UpdateBomb

LEMMA RemoveFeed == RemoveDeadObjects => Feed!EndTick
<1> SUFFICES ASSUME RemoveDeadObjects
             PROVE  Feed!EndTick
  OBVIOUS
<1>1. /\ phase = "update" /\ phase' = "idle"
      /\ life' = [p \in Players |-> IF life[p] = "dead" THEN "gone" ELSE life[p]]
      /\ mainState' = [p \in Players |-> IF life[p] = "dead" THEN "NORMAL" ELSE mainState[p]]
      /\ mapObj' = [t \in Tiles |-> IF t \in isDead THEN "NONE" ELSE mapObj[t]]
      /\ isDead' = {}
  BY DEF RemoveDeadObjects, Erased
<1>2. Member' = [p \in Players |-> IF Member[p] = "dead" THEN "gone" ELSE Member[p]]
  BY <1>1 DEF Member
<1>3. mainState' = [p \in Players |-> IF Member[p] = "dead" THEN "NORMAL" ELSE mainState[p]]
  BY <1>1 DEF Member
<1> QED BY <1>1, <1>2, <1>3 DEF Feed!EndTick, Member

\* The game room implements the abstract room that its clients are told of:
\* in every room, objects appear only between ticks and on free slots, vanish
\* only at the end of a tick and only after they were destroyed, main states
\* change along the named edges, and no bomb goes off twice.
THEOREM RoomShowsFeed == Spec => ShowsRoomFeed
<1>1. Init => Feed!Init
  BY InitFeed
<1>2. TypeOK /\ BombInv /\ VisitsBombs /\ [Next]_vars => [Feed!Next]_(Feed!feedVars)
  <2> SUFFICES ASSUME TypeOK, BombInv, VisitsBombs, [Next]_vars
               PROVE  Feed!Next \/ UNCHANGED Feed!feedVars
    OBVIOUS
  <2>1. ASSUME NEW p \in Players, EnterRoom(p) \/ LeaveRoom(p) \/ Handle(p)
        PROVE  Feed!Next \/ UNCHANGED Feed!feedVars
    BY <2>1, HandleFeed
  <2>2. CASE BeginUpdate
    <3>1. Feed!BeginTick
      BY <2>2 DEF BeginUpdate, Idle, Feed!BeginTick, stateVars, mapVars
    <3> QED BY <3>1 DEF Feed!Next, Feed!Tick
  <2>3. ASSUME NEW p \in Players, UpdatePlayer(p)
        PROVE  Feed!Next \/ UNCHANGED Feed!feedVars
    BY <2>3, UpdatePlayerFeed
  <2>4. ASSUME NEW t \in Tiles, UpdateBomb(t)
        PROVE  Feed!Next \/ UNCHANGED Feed!feedVars
    BY <2>4, UpdateBombFeed
  <2>5. CASE RemoveDeadObjects
    BY <2>5, RemoveFeed DEF Feed!Next, Feed!Tick
  <2>6. CASE UNCHANGED vars
    BY <2>6, Stutter DEF vars, stateVars, mapVars, tickVars
  <2> QED BY <2>1, <2>2, <2>3, <2>4, <2>5, <2>6 DEF Next, Update
<1> QED BY <1>1, <1>2, TypeCorrect, BombInvHolds, VisitsBombsHolds, PTL
        DEF Spec, ShowsRoomFeed, Feed!Spec
=============================================================================
