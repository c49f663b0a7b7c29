--------------------------- MODULE GameRoom_proofs ---------------------------
(* Proofs about GameRoom, for every number of players, every map and every *)
(* value of the timing constants.                                          *)
EXTENDS GameRoom, FiniteSetTheorems, TLAPS

\* The map is finite, and so is every set of tiles.
LEMMA TilesFinite == IsFiniteSet(Tiles)
<1>1. IsFiniteSet(0 .. MapSizeX - 1) /\ IsFiniteSet(0 .. MapSizeY - 1)
  BY FS_Interval, GameRoomAssumption
<1> QED
  BY <1>1, FS_Product DEF Tiles

\* The number of tiles with any property is a natural number.
LEMMA TileCount ==
  ASSUME NEW S \in SUBSET Tiles
  PROVE  Cardinality(S) \in Nat
BY TilesFinite, FS_Subset, FS_CardinalityType

\* What a player gets by touching items is a kit again.
LEMMA GotKitType ==
  ASSUME TypeOK, NEW p \in Players, NEW got \in SUBSET Tiles
  PROVE  GotKit(p, got) \in [bubble : Nat, fluid : Nat, roller : Nat, needle : BOOLEAN]
<1> DEFINE has(i) == Cardinality({t \in got : mapObj[t] = i})
<1>1. \A i : has(i) \in Nat
  <2> TAKE i
  <2>1. {t \in got : mapObj[t] = i} \in SUBSET Tiles
    OBVIOUS
  <2> QED BY <2>1, TileCount
<1>2. kit[p] \in [bubble : Nat, fluid : Nat, roller : Nat, needle : BOOLEAN]
  BY DEF TypeOK
<1>3. GotKit(p, got) = [bubble |-> kit[p].bubble + has("BUBBLE"),
                        fluid  |-> kit[p].fluid  + has("FLUID"),
                        roller |-> kit[p].roller + has("ROLLER"),
                        needle |-> kit[p].needle \/ has("NEEDLE") > 0]
  BY DEF GotKit
<1> HIDE DEF has
<1> QED BY <1>1, <1>2, <1>3

-----------------------------------------------------------------------------
(* Type correctness.  TypeOK is inductive by itself: the limits it puts on *)
(* the timers are kept by the comparisons of the update actions.           *)

LEMMA InitTypeOK == Init => TypeOK
BY GameRoomAssumption DEF Init, TypeOK, Life, MainState, Heading, NewKit, Crash, StateTicks

LEMMA CrashTypeOK ==
  ASSUME TypeOK, NEW cause \in Crash, CrashWith(cause)
  PROVE  TypeOK'
BY DEF TypeOK, CrashWith, stateVars, motionVars, kitVars, mapVars, bombVars, tickVars

LEMMA HandleTypeOK ==
  ASSUME TypeOK, NEW p \in Players, EnterRoom(p) \/ LeaveRoom(p) \/ Handle(p)
  PROVE  TypeOK'
<1>1. CASE EnterRoom(p)
  BY <1>1 DEF EnterRoom, TypeOK, Life, motionVars, kitVars, mapVars, bombVars, tickVars
<1>2. CASE LeaveRoom(p)
  BY <1>2 DEF LeaveRoom, TypeOK, Life, motionVars, kitVars, mapVars, bombVars, tickVars
<1>3. CASE HandleForMissing(p)
  BY <1>3 DEF HandleForMissing, TypeOK, Life, motionVars, kitVars, mapVars, bombVars, tickVars
<1>4. ASSUME NEW h \in Heading, NEW q \in ClientPos(pos[p]), Handle_C_Move(p, h, q)
      PROVE  TypeOK'
  BY <1>4 DEF Handle_C_Move, ClientPos, TypeOK, stateVars, kitVars, mapVars, bombVars, tickVars
<1>5. ASSUME NEW t, Handle_C_WaterBomb(p, t)
      PROVE  TypeOK'
  <2>1. CASE t \notin Tiles
    BY <1>5, <2>1, CrashTypeOK DEF Handle_C_WaterBomb, Crash
  <2>2. CASE t \in Tiles
    <3> DEFINE under == {q \in Alive : Touches(pos[q], TileToWorld(t))}
    <3>1. /\ mapObj'    = [mapObj EXCEPT ![t] = "WATER_BOMB"]
          /\ owner'     = [owner EXCEPT ![t] = p]
          /\ timer'     = [timer EXCEPT ![t] = 0]
          /\ passable'  = [passable EXCEPT ![t] = under]
          /\ bombCount' = [bombCount EXCEPT ![p] = bombCount[p] + 1]
          /\ UNCHANGED <<stateVars, motionVars, kit, isDead, exploded, tickVars, crashed>>
      BY <1>5, <2>2 DEF Handle_C_WaterBomb
    <3>2. under \subseteq Players
      BY DEF Alive
    <3> HIDE DEF under
    <3> QED BY <2>2, <3>1, <3>2, GameRoomAssumption
            DEF TypeOK, MapType, stateVars, motionVars, tickVars
  <2> QED BY <2>1, <2>2
<1>6. CASE Handle_C_Skill(p)
  <2>1. kit' \in [Players -> [bubble : Nat, fluid : Nat, roller : Nat, needle : BOOLEAN]]
    BY <1>6 DEF Handle_C_Skill, TypeOK
  <2>2. /\ mainState' \in [Players -> MainState]
        /\ stateTimer' \in [Players -> Nat]
        /\ \A q \in Players : stateTimer'[q] < StateTicks(mainState'[q])
    BY <1>6, GameRoomAssumption DEF Handle_C_Skill, TypeOK, MainState, StateTicks
  <2> QED BY <1>6, <2>1, <2>2
          DEF Handle_C_Skill, TypeOK, motionVars, mapVars, bombVars, tickVars
<1> QED BY <1>1, <1>2, <1>3, <1>4, <1>5, <1>6 DEF Handle

LEMMA UpdateNormalTypeOK ==
  ASSUME TypeOK, NEW p \in Players, UpdateNormal(p)
  PROVE  TypeOK'
<1> DEFINE here   == Moved(p)
           killed == {q \in Alive \ {p} : mainState[q] = "TRAPPED" /\ Touches(here, pos[q])}
           got    == {t \in Tiles : mapObj[t] \in Items /\ Touches(here, TileToWorld(t))}
<1>1. here \in Pos
  BY DEF Moved, TypeOK
<1>2. GotKit(p, got) \in [bubble : Nat, fluid : Nat, roller : Nat, needle : BOOLEAN]
  BY GotKitType
<1>3. \A q : DropPassable(p, q) \in [Tiles -> SUBSET Players]
  BY DEF DropPassable, TypeOK
<1>4. /\ pos' = [pos EXCEPT ![p] = here]
      /\ passable' = IF heading[p] = "idle" THEN passable ELSE DropPassable(p, here)
      /\ mainState' = [q \in Players |-> IF q \in killed THEN "DEAD" ELSE mainState[q]]
      /\ stateTimer' = [q \in Players |-> IF q \in killed THEN 0 ELSE stateTimer[q]]
      /\ kit' = [kit EXCEPT ![p] = GotKit(p, got)]
      /\ isDead' = isDead \cup got
      /\ toUpdate' = toUpdate \ {p}
      /\ UNCHANGED <<life, heading, bombCount, mapObj, owner, timer, exploded, phase, crashed>>
  BY DEF UpdateNormal
<1>5. got \subseteq Tiles
  OBVIOUS
<1> HIDE DEF here, killed, got
<1>6. /\ mainState' \in [Players -> MainState]
      /\ stateTimer' \in [Players -> Nat]
      /\ \A q \in Players : stateTimer'[q] < StateTicks(mainState'[q])
  BY <1>4 DEF TypeOK, MainState, StateTicks
<1>7. pos' \in [Players -> Pos] /\ passable' \in [Tiles -> SUBSET Players]
  BY <1>1, <1>3, <1>4 DEF TypeOK
<1>8. kit' \in [Players -> [bubble : Nat, fluid : Nat, roller : Nat, needle : BOOLEAN]]
  BY <1>2, <1>4 DEF TypeOK
<1> QED BY <1>4, <1>5, <1>6, <1>7, <1>8 DEF TypeOK

LEMMA UpdatePlayerTypeOK ==
  ASSUME TypeOK, NEW p \in Players, UpdatePlayer(p)
  PROVE  TypeOK'
<1>1. CASE UpdateNull(p)
  BY <1>1, CrashTypeOK DEF UpdateNull, Crash
<1>2. CASE UpdateNormal(p)
  BY <1>2, UpdateNormalTypeOK
<1>3. CASE UpdateTrapped(p)
  <2>1. Moved(p) \in Pos
    BY DEF Moved, TypeOK
  <2>2. /\ mainState' \in [Players -> MainState]
        /\ stateTimer' \in [Players -> Nat]
        /\ \A q \in Players : stateTimer'[q] < StateTicks(mainState'[q])
    <3>1. CASE TrapTimeUp(p)
      <4>1. /\ mainState' = [mainState EXCEPT ![p] = "DEAD"]
            /\ stateTimer' = [stateTimer EXCEPT ![p] = 0]
        BY <1>3, <3>1 DEF UpdateTrapped
      <4> QED BY <4>1 DEF TypeOK, MainState, StateTicks
    <3>2. CASE ~TrapTimeUp(p)
      <4>1. mainState' = mainState /\ stateTimer' = [stateTimer EXCEPT ![p] = stateTimer[p] + 1]
        BY <1>3, <3>2 DEF UpdateTrapped, Ticked
      <4>2. mainState[p] = "TRAPPED" /\ stateTimer[p] + 1 < DeadTicks
        BY <1>3, <3>2, GameRoomAssumption DEF UpdateTrapped, TrapTimeUp, Ticked, TypeOK
      <4> QED BY <4>1, <4>2, GameRoomAssumption DEF TypeOK, StateTicks
    <3> QED BY <3>1, <3>2
  <2> QED BY <1>3, <2>1, <2>2 DEF UpdateTrapped, TypeOK, kitVars, mapVars, bombVars
<1>4. CASE UpdateEscape(p)
  <2>1. /\ mainState' \in [Players -> MainState]
        /\ stateTimer' \in [Players -> Nat]
        /\ \A q \in Players : stateTimer'[q] < StateTicks(mainState'[q])
    <3>1. CASE Ticked(stateTimer[p]) >= EscapeTicks
      <4>1. /\ mainState' = [mainState EXCEPT ![p] = "NORMAL"]
            /\ stateTimer' = [stateTimer EXCEPT ![p] = 0]
        BY <1>4, <3>1 DEF UpdateEscape
      <4> QED BY <4>1 DEF TypeOK, MainState, StateTicks
    <3>2. CASE ~ (Ticked(stateTimer[p]) >= EscapeTicks)
      <4>1. mainState' = mainState /\ stateTimer' = [stateTimer EXCEPT ![p] = stateTimer[p] + 1]
        BY <1>4, <3>2 DEF UpdateEscape, Ticked
      <4>2. mainState[p] = "ESCAPE" /\ stateTimer[p] + 1 < EscapeTicks
        BY <1>4, <3>2, GameRoomAssumption DEF UpdateEscape, Ticked, TypeOK
      <4> QED BY <4>1, <4>2, GameRoomAssumption DEF TypeOK, StateTicks
    <3> QED BY <3>1, <3>2
  <2> QED BY <1>4, <2>1 DEF UpdateEscape, TypeOK, motionVars, kitVars, mapVars, bombVars
<1>5. CASE UpdateDead(p)
  BY <1>5 DEF UpdateDead, TypeOK, stateVars, motionVars, kitVars, mapVars, bombVars
<1> QED BY <1>1, <1>2, <1>3, <1>4, <1>5 DEF UpdatePlayer

LEMMA ExplodeTypeOK ==
  ASSUME TypeOK, NEW chain \in SUBSET Unexploded, Explode(chain),
         toUpdate' \subseteq toUpdate
  PROVE  TypeOK'
<1>1. ASSUME CrashWith("ownerGone") \/ CrashWith("badCast")
      PROVE  TypeOK'
  BY <1>1, CrashTypeOK DEF Crash
<1>2. ASSUME ~ (CrashWith("ownerGone") \/ CrashWith("badCast"))
      PROVE  TypeOK'
  <2>1. /\ exploded' = exploded \cup chain
        /\ isDead' = isDead \cup chain \cup Broken(chain)
        /\ bombCount' = [p \in Players |->
                           bombCount[p] - Cardinality({t \in chain : owner[t] = p})]
        /\ mainState' = [p \in Players |->
                           IF p \in Caught(chain) THEN "TRAPPED" ELSE mainState[p]]
        /\ stateTimer' = [p \in Players |-> IF p \in Caught(chain) THEN 0 ELSE stateTimer[p]]
        /\ UNCHANGED <<life, motionVars, kit, mapObj, owner, timer, passable, phase, crashed>>
    BY <1>2 DEF Explode
  <2>2. /\ mainState' \in [Players -> MainState]
        /\ stateTimer' \in [Players -> Nat]
        /\ \A q \in Players : stateTimer'[q] < StateTicks(mainState'[q])
    BY <2>1, GameRoomAssumption DEF TypeOK, MainState, StateTicks
  <2>3. chain \subseteq Tiles /\ Broken(chain) \subseteq Tiles
    BY DEF Unexploded, Bombs, Broken
  <2>4. bombCount' \in [Players -> Int]
    <3>1. \A p \in Players : Cardinality({t \in chain : owner[t] = p}) \in Nat
      BY <2>3, TileCount
    <3> QED BY <2>1, <3>1 DEF TypeOK
  <2>5. isDead' \subseteq Tiles /\ exploded' \subseteq Tiles
    BY <2>1, <2>3 DEF TypeOK
  <2> QED BY <2>1, <2>2, <2>4, <2>5 DEF TypeOK, motionVars
<1> QED BY <1>1, <1>2

LEMMA UpdateBombTypeOK ==
  ASSUME TypeOK, NEW t \in Tiles, UpdateBomb(t)
  PROVE  TypeOK'
<1>1. CASE UpdateBombWait(t)
  BY <1>1, GameRoomAssumption
  DEF UpdateBombWait, Ticked, TypeOK, stateVars, motionVars, kitVars, mapVars
<1>2. CASE UpdateBombExplode(t)
  <2>1. Chain(t) \in SUBSET Unexploded
    BY DEF Chain
  <2>2. Explode(Chain(t)) /\ toUpdate' \subseteq toUpdate
    BY <1>2 DEF UpdateBombExplode
  <2> QED BY <2>1, <2>2, ExplodeTypeOK
<1> QED BY <1>1, <1>2 DEF UpdateBomb

LEMMA RemoveTypeOK == TypeOK /\ RemoveDeadObjects => TypeOK'
<1> SUFFICES ASSUME TypeOK, RemoveDeadObjects
             PROVE  TypeOK'
  OBVIOUS
<1>1. \A p \in Players : /\ life'[p] \in Life
                         /\ mainState'[p] \in MainState
                         /\ stateTimer'[p] \in Nat
                         /\ stateTimer'[p] < StateTicks(mainState'[p])
                         /\ pos'[p] \in Pos
                         /\ heading'[p] \in Heading
                         /\ bombCount'[p] \in Int
                         /\ kit'[p] \in [bubble : Nat, fluid : Nat, roller : Nat, needle : BOOLEAN]
  BY GameRoomAssumption
  DEF RemoveDeadObjects, TypeOK, Life, MainState, StateTicks, Heading, NewKit
<1>2. \A t \in Tiles : /\ mapObj'[t] \in MapType
                       /\ owner'[t] \in Players \cup {NoPlayer}
                       /\ timer'[t] \in 0 .. ExplosionTicks - 1
                       /\ passable'[t] \in SUBSET Players
  BY GameRoomAssumption DEF RemoveDeadObjects, TypeOK, MapType
<1>3. /\ life' = [p \in Players |-> life'[p]]
      /\ mainState' = [p \in Players |-> mainState'[p]]
      /\ stateTimer' = [p \in Players |-> stateTimer'[p]]
      /\ pos' = [p \in Players |-> pos'[p]]
      /\ heading' = [p \in Players |-> heading'[p]]
      /\ bombCount' = [p \in Players |-> bombCount'[p]]
      /\ kit' = [p \in Players |-> kit'[p]]
      /\ mapObj' = [t \in Tiles |-> mapObj'[t]]
      /\ owner' = [t \in Tiles |-> owner'[t]]
      /\ timer' = [t \in Tiles |-> timer'[t]]
      /\ passable' = [t \in Tiles |-> passable'[t]]
  BY DEF RemoveDeadObjects
<1>4. /\ isDead' \subseteq Tiles
      /\ exploded' \subseteq Tiles
      /\ phase' \in {"idle", "update"}
      /\ toUpdate' \subseteq Players \cup Tiles
      /\ crashed' \in Crash
  BY DEF RemoveDeadObjects, TypeOK
<1> QED BY <1>1, <1>2, <1>3, <1>4 DEF TypeOK

LEMMA NextTypeOK == TypeOK /\ [Next]_vars => TypeOK'
<1> SUFFICES ASSUME TypeOK, [Next]_vars
             PROVE  TypeOK'
  OBVIOUS
<1>1. ASSUME NEW p \in Players, EnterRoom(p) \/ LeaveRoom(p) \/ Handle(p)
      PROVE  TypeOK'
  BY <1>1, HandleTypeOK
<1>2. CASE BeginUpdate
  BY <1>2 DEF BeginUpdate, Bombs, TypeOK, stateVars, motionVars, kitVars, mapVars, bombVars
<1>3. ASSUME NEW p \in Players, UpdatePlayer(p)
      PROVE  TypeOK'
  BY <1>3, UpdatePlayerTypeOK
<1>4. ASSUME NEW t \in Tiles, UpdateBomb(t)
      PROVE  TypeOK'
  BY <1>4, UpdateBombTypeOK
<1>5. CASE RemoveDeadObjects
  BY <1>5, RemoveTypeOK
<1>6. CASE UNCHANGED vars
  BY <1>6 DEF TypeOK, vars, stateVars, motionVars, kitVars, mapVars, bombVars, tickVars
<1> QED BY <1>1, <1>2, <1>3, <1>4, <1>5, <1>6 DEF Next, Update

\* Every variable keeps its type, and no timer of a player or a bomb is ever
\* at or past its limit, in every room with any number of players.
THEOREM TypeCorrect == Spec => []TypeOK
<1>1. Init => TypeOK
  BY InitTypeOK
<1>2. TypeOK /\ [Next]_vars => TypeOK'
  BY NextTypeOK
<1> QED BY <1>1, <1>2, PTL DEF Spec

-----------------------------------------------------------------------------
(* Bomb accounting.  BombAccounting is not inductive: it says nothing of   *)
(* players that have not entered, and a bomb planted on a slot that is     *)
(* flagged dead or exploded, or taken off a slot without having gone off,  *)
(* would break it.  BombInv adds what rules those out.                     *)

\* exactly the bombs have owners
Owners == \A t \in Tiles : mapObj[t] = "WATER_BOMB" <=> owner[t] # NoPlayer

\* a bomb is flagged dead when it goes off, and for nothing else
DeadBombs == exploded = isDead \cap Bombs

\* a tick leaves nothing dead behind
Cleaned == phase = "idle" => isDead = {}

\* a player that has not entered has planted nothing
Newcomers == \A p \in Players : life[p] = "out" => bombCount[p] = 0 /\ OwnBombs(p) = {}

BombInv == Owners /\ DeadBombs /\ Cleaned /\ Newcomers /\ BombAccounting

LEMMA InitBombInv == Init => BombInv
<1> SUFFICES ASSUME Init
             PROVE  BombInv
  OBVIOUS
<1>1. Bombs = {} /\ Alive = {}
  BY GameRoomAssumption DEF Init, Bombs, Alive
<1>2. Owners
  BY GameRoomAssumption DEF Init, Owners
<1>3. \A p \in Players : bombCount[p] = 0 /\ OwnBombs(p) = {}
  BY <1>1 DEF Init, OwnBombs, Unexploded
<1>4. isDead = {} /\ exploded = {}
  BY DEF Init
<1>5. Newcomers
  BY <1>3 DEF Newcomers
<1>6. BombAccounting
  BY <1>1 DEF BombAccounting
<1> QED BY <1>1, <1>2, <1>4, <1>5, <1>6 DEF BombInv, DeadBombs, Cleaned

\* A step that touches no bomb keeps the accounts, whatever it does to the
\* other slots, if nobody loses a bubble and only newcomers enter.
LEMMA AccountsKept ==
  ASSUME TypeOK, BombInv,
         UNCHANGED <<bombCount, mapObj, owner, exploded>>,
         isDead' \cap Bombs = isDead \cap Bombs,
         phase' = "idle" => isDead' = {},
         \A p \in Players : life'[p] = "out" => life[p] = "out",
         \A p \in Players : life'[p] \in {"in", "dead"} => life[p] \in {"in", "dead", "out"},
         \A p \in Players : kit[p].bubble \in Nat /\ kit'[p].bubble \in Nat
                             /\ kit'[p].bubble >= kit[p].bubble
  PROVE  BombInv'
<1>1. Bombs' = Bombs /\ Unexploded' = Unexploded
  BY DEF Bombs, Unexploded
<1>2. \A p \in Players : OwnBombs(p)' = OwnBombs(p)
  BY <1>1 DEF OwnBombs
<1>3. Owners' /\ DeadBombs' /\ Cleaned'
  BY <1>1 DEF BombInv, Owners, DeadBombs, Cleaned
<1>4. Newcomers'
  BY <1>2 DEF BombInv, Newcomers
<1>5. ASSUME NEW p \in Players, life'[p] \in {"in", "dead"}
      PROVE  bombCount'[p] = Cardinality(OwnBombs(p)') /\ bombCount'[p] <= kit'[p].bubble
  <2>1. bombCount'[p] = bombCount[p] /\ bombCount[p] \in Int
    BY DEF TypeOK
  <2>2. CASE life[p] = "out"
    <3>1. bombCount[p] = 0 /\ OwnBombs(p) = {}
      BY <2>2 DEF BombInv, Newcomers
    <3>2. Cardinality(OwnBombs(p)') = 0
      BY <1>2, <3>1, FS_EmptySet
    <3> QED BY <2>1, <3>1, <3>2
  <2>3. CASE life[p] # "out"
    <3>1. bombCount[p] = Cardinality(OwnBombs(p)) /\ bombCount[p] <= kit[p].bubble
      BY <1>5, <2>3 DEF BombInv, BombAccounting, Alive
    <3> QED BY <1>2, <2>1, <3>1
  <2> QED BY <2>2, <2>3
<1>6. BombAccounting'
  BY <1>5 DEF BombAccounting, Alive
<1> QED BY <1>3, <1>4, <1>6 DEF BombInv

\* The server's crash changes no account.
LEMMA CrashBombInv ==
  ASSUME TypeOK, BombInv, NEW cause, CrashWith(cause)
  PROVE  BombInv'
<1>1. \A p \in Players : kit[p].bubble \in Nat
  BY DEF TypeOK
<1> QED BY <1>1, AccountsKept
        DEF CrashWith, BombInv, Cleaned, stateVars, kitVars, mapVars, bombVars, tickVars

\* A bomb is planted on a slot that is neither dead nor exploded, and counted.
LEMMA PlantBombInv ==
  ASSUME TypeOK, BombInv, NEW p \in Players, NEW t, Handle_C_WaterBomb(p, t)
  PROVE  BombInv'
<1>1. CASE t \notin Tiles
  BY <1>1, CrashBombInv DEF Handle_C_WaterBomb
<1>2. CASE t \in Tiles
  <2>1. /\ mapObj' = [mapObj EXCEPT ![t] = "WATER_BOMB"]
        /\ owner' = [owner EXCEPT ![t] = p]
        /\ bombCount' = [bombCount EXCEPT ![p] = bombCount[p] + 1]
        /\ UNCHANGED <<life, kit, isDead, exploded, phase>>
    BY <1>2 DEF Handle_C_WaterBomb, stateVars, tickVars
  <2>2. mapObj[t] = "NONE" /\ phase = "idle" /\ p \in Alive /\ bombCount[p] < kit[p].bubble
    BY <1>2 DEF Handle_C_WaterBomb, GetMapObjectAt, Idle, CanSpawnBomb
  <2>3. p # NoPlayer
    BY GameRoomAssumption
  <2>4. isDead = {} /\ exploded = {}
    BY <2>2 DEF BombInv, Cleaned, DeadBombs
  <2>5. Unexploded' = Unexploded \cup {t} /\ t \notin Unexploded
    BY <1>2, <2>1, <2>2, <2>4 DEF TypeOK, Unexploded, Bombs
  <2>6. OwnBombs(p)' = OwnBombs(p) \cup {t} /\ t \notin OwnBombs(p)
    BY <1>2, <2>1, <2>5 DEF TypeOK, OwnBombs, Unexploded, Bombs
  <2>7. \A q \in Players \ {p} : OwnBombs(q)' = OwnBombs(q)
    BY <1>2, <2>1, <2>5 DEF TypeOK, OwnBombs, Unexploded, Bombs
  <2>8. Owners'
    BY <1>2, <2>1, <2>3 DEF BombInv, Owners, TypeOK
  <2>9. DeadBombs' /\ Cleaned'
    BY <2>1, <2>4 DEF DeadBombs, Cleaned
  <2>10. Newcomers'
    <3> SUFFICES ASSUME NEW q \in Players, life'[q] = "out"
                 PROVE  bombCount'[q] = 0 /\ OwnBombs(q)' = {}
      BY DEF Newcomers
    <3>1. q # p /\ life[q] = "out"
      BY <2>1, <2>2 DEF Alive
    <3>2. bombCount'[q] = bombCount[q]
      BY <2>1, <3>1 DEF TypeOK
    <3> QED BY <2>7, <3>1, <3>2 DEF BombInv, Newcomers
  <2>11. BombAccounting'
    <3>1. Alive' = Alive
      BY <2>1 DEF Alive
    <3>2. ASSUME NEW q \in Alive, q # p
          PROVE  bombCount'[q] = Cardinality(OwnBombs(q)') /\ bombCount'[q] <= kit'[q].bubble
      <4>1. bombCount'[q] = bombCount[q] /\ q \in Players
        BY <2>1, <3>2 DEF TypeOK, Alive
      <4> QED BY <2>1, <2>7, <3>2, <4>1 DEF BombInv, BombAccounting
    <3>3. bombCount'[p] = Cardinality(OwnBombs(p)')
      <4>1. bombCount'[p] = bombCount[p] + 1
        BY <2>1 DEF TypeOK
      <4>2. bombCount[p] = Cardinality(OwnBombs(p))
        BY <2>2 DEF BombInv, BombAccounting
      <4>3. IsFiniteSet(OwnBombs(p))
        BY TilesFinite, FS_Subset DEF OwnBombs, Unexploded, Bombs
      <4>4. Cardinality(OwnBombs(p) \cup {t}) = Cardinality(OwnBombs(p)) + 1
        BY <2>6, <4>3, FS_AddElement
      <4> QED BY <2>6, <4>1, <4>2, <4>4
    <3>4. bombCount'[p] <= kit'[p].bubble
      <4>1. bombCount'[p] = bombCount[p] + 1 /\ bombCount[p] \in Int
        BY <2>1 DEF TypeOK
      <4>2. kit'[p].bubble = kit[p].bubble /\ kit[p].bubble \in Nat
        BY <2>1 DEF TypeOK
      <4> QED BY <2>2, <4>1, <4>2
    <3> QED BY <3>1, <3>2, <3>3, <3>4 DEF BombAccounting
  <2> QED BY <2>8, <2>9, <2>10, <2>11 DEF BombInv
<1> QED BY <1>1, <1>2

LEMMA HandleBombInv ==
  ASSUME TypeOK, BombInv, NEW p \in Players, EnterRoom(p) \/ LeaveRoom(p) \/ Handle(p)
  PROVE  BombInv'
<1>0. \A q \in Players : kit[q].bubble \in Nat
  BY DEF TypeOK
<1>1. CASE EnterRoom(p) \/ LeaveRoom(p) \/ HandleForMissing(p)
  <2>1. UNCHANGED <<kit, bombCount, mapObj, isDead, owner, exploded, phase>>
    BY <1>1 DEF EnterRoom, LeaveRoom, HandleForMissing, kitVars, mapVars, bombVars, tickVars
  <2>2. \A q \in Players : life'[q] = "out" => life[q] = "out"
    BY <1>1 DEF EnterRoom, LeaveRoom, HandleForMissing, TypeOK
  <2>3. \A q \in Players : life'[q] \in {"in", "dead"} => life[q] \in {"in", "dead", "out"}
    BY <1>1 DEF EnterRoom, LeaveRoom, HandleForMissing, TypeOK
  <2> QED BY <1>0, <2>1, <2>2, <2>3, AccountsKept DEF BombInv, Cleaned
<1>2. ASSUME NEW h \in Heading, NEW q \in ClientPos(pos[p]), Handle_C_Move(p, h, q)
      PROVE  BombInv'
  BY <1>0, <1>2, AccountsKept
  DEF Handle_C_Move, BombInv, Cleaned, stateVars, kitVars, mapVars, bombVars, tickVars
<1>3. ASSUME NEW t, Handle_C_WaterBomb(p, t)
      PROVE  BombInv'
  BY <1>3, PlantBombInv
<1>4. CASE Handle_C_Skill(p)
  <2>1. \A q \in Players : kit'[q].bubble = kit[q].bubble
    BY <1>4 DEF Handle_C_Skill, TypeOK
  <2>2. UNCHANGED <<life, bombCount, mapObj, isDead, owner, exploded, phase>>
    BY <1>4 DEF Handle_C_Skill, mapVars, bombVars, tickVars
  <2> QED BY <1>0, <2>1, <2>2, AccountsKept DEF BombInv, Cleaned
<1> QED BY <1>1, <1>2, <1>3, <1>4 DEF Handle

LEMMA UpdateNormalBombInv ==
  ASSUME TypeOK, BombInv, NEW p \in Players, UpdateNormal(p)
  PROVE  BombInv'
<1> DEFINE here   == Moved(p)
           got    == {t \in Tiles : mapObj[t] \in Items /\ Touches(here, TileToWorld(t))}
           has(i) == Cardinality({t \in got : mapObj[t] = i})
<1>1. /\ kit' = [kit EXCEPT ![p] = GotKit(p, got)]
      /\ isDead' = isDead \cup got
      /\ UNCHANGED <<life, bombCount, mapObj, owner, exploded, phase>>
      /\ phase = "update"
  BY DEF UpdateNormal, Visit
<1>2. got \cap Bombs = {}
  BY DEF Bombs, Items
<1>3. GotKit(p, got).bubble = kit[p].bubble + has("BUBBLE")
  BY DEF GotKit
<1>4. has("BUBBLE") \in Nat
  BY TileCount
<1> HIDE DEF got, has, here
<1>5. \A q \in Players : kit[q].bubble \in Nat
  BY DEF TypeOK
<1>6. ASSUME NEW q \in Players
      PROVE  kit'[q].bubble \in Nat /\ kit'[q].bubble >= kit[q].bubble
  <2>1. CASE q = p
    <3>1. kit'[q].bubble = kit[q].bubble + has("BUBBLE")
      BY <1>1, <1>3, <2>1 DEF TypeOK
    <3> QED BY <1>4, <1>5, <3>1
  <2>2. CASE q # p
    <3>1. kit'[q] = kit[q]
      BY <1>1, <2>2 DEF TypeOK
    <3> QED BY <1>5, <3>1
  <2> QED BY <2>1, <2>2
<1>7. isDead' \cap Bombs = isDead \cap Bombs
  BY <1>1, <1>2
<1> QED BY <1>1, <1>5, <1>6, <1>7, AccountsKept

LEMMA UpdatePlayerBombInv ==
  ASSUME TypeOK, BombInv, NEW p \in Players, UpdatePlayer(p)
  PROVE  BombInv'
<1>1. CASE UpdateNull(p)
  BY <1>1, CrashBombInv DEF UpdateNull
<1>2. CASE UpdateNormal(p)
  BY <1>2, UpdateNormalBombInv
<1>3. CASE UpdateTrapped(p) \/ UpdateEscape(p) \/ UpdateDead(p)
  <2>1. UNCHANGED <<life, kit, bombCount, mapObj, isDead, owner, exploded, phase>>
    BY <1>3 DEF UpdateTrapped, UpdateEscape, UpdateDead, stateVars, kitVars, mapVars, bombVars
  <2>2. \A q \in Players : kit[q].bubble \in Nat
    BY DEF TypeOK
  <2> QED BY <2>1, <2>2, AccountsKept DEF BombInv, Cleaned
<1> QED BY <1>1, <1>2, <1>3 DEF UpdatePlayer

\* A chain that goes off takes from every player exactly its own bombs.
LEMMA ExplodeBombInv ==
  ASSUME TypeOK, BombInv, NEW chain \in SUBSET Unexploded, Explode(chain),
         phase = "update"
  PROVE  BombInv'
<1>1. ASSUME CrashWith("ownerGone") \/ CrashWith("badCast")
      PROVE  BombInv'
  BY <1>1, CrashBombInv
<1>2. ASSUME ~ (CrashWith("ownerGone") \/ CrashWith("badCast"))
      PROVE  BombInv'
  <2> DEFINE lost(p) == {t \in chain : owner[t] = p}
  <2>1. /\ \A t \in chain : owner[t] \in Alive
        /\ exploded' = exploded \cup chain
        /\ isDead' = isDead \cup chain \cup Broken(chain)
        /\ \A p \in Players : bombCount'[p] = bombCount[p] - Cardinality(lost(p))
        /\ UNCHANGED <<life, kit, mapObj, owner, phase>>
    BY <1>2 DEF Explode
  <2>2. Broken(chain) \cap Bombs = {}
    BY DEF Broken, Bombs, Items
  <2>3. Bombs' = Bombs /\ Alive' = Alive
    BY <2>1 DEF Bombs, Alive
  <2>4. DeadBombs'
    BY <2>1, <2>2, <2>3 DEF BombInv, DeadBombs, Unexploded
  <2>5. Owners' /\ Cleaned'
    BY <2>1 DEF BombInv, Owners, Cleaned
  <2>6. \A p \in Players : OwnBombs(p)' = OwnBombs(p) \ lost(p)
    BY <2>1, <2>3 DEF OwnBombs, Unexploded
  <2>7. \A p \in Players : lost(p) \subseteq OwnBombs(p)
    BY DEF OwnBombs
  <2>8. \A p \in Players : lost(p) \in SUBSET Tiles /\ OwnBombs(p) \in SUBSET Tiles
    BY DEF OwnBombs, Unexploded, Bombs
  <2> HIDE DEF lost
  <2>9. Newcomers'
    <3> SUFFICES ASSUME NEW p \in Players, life[p] = "out"
                 PROVE  bombCount'[p] = 0 /\ OwnBombs(p)' = {}
      BY <2>1 DEF Newcomers
    <3>1. bombCount[p] = 0 /\ OwnBombs(p) = {}
      BY DEF BombInv, Newcomers
    <3>2. lost(p) = {} /\ OwnBombs(p)' = {}
      BY <2>6, <2>7, <3>1
    <3>3. Cardinality(lost(p)) = 0
      BY <3>2, FS_EmptySet
    <3> QED BY <2>1, <3>1, <3>2, <3>3
  <2>10. ASSUME NEW p \in Alive
         PROVE  bombCount'[p] = Cardinality(OwnBombs(p)') /\ bombCount'[p] <= kit'[p].bubble
    <3>1. p \in Players
      BY DEF Alive
    <3>2. bombCount[p] = Cardinality(OwnBombs(p)) /\ bombCount[p] <= kit[p].bubble
      BY DEF BombInv, BombAccounting
    <3>3. IsFiniteSet(OwnBombs(p))
      BY <2>8, <3>1, TilesFinite, FS_Subset
    <3>4. OwnBombs(p) \cap lost(p) = lost(p)
      BY <2>7, <3>1
    <3>5. Cardinality(OwnBombs(p)') = Cardinality(OwnBombs(p)) - Cardinality(lost(p))
      BY <2>6, <3>1, <3>3, <3>4, FS_Difference
    <3>6. Cardinality(lost(p)) \in Nat /\ bombCount[p] \in Int /\ kit[p].bubble \in Nat
      BY <2>8, <3>1, TileCount DEF TypeOK
    <3>7. bombCount'[p] = bombCount[p] - Cardinality(lost(p)) /\ kit'[p] = kit[p]
      BY <2>1, <3>1
    <3> QED BY <3>2, <3>5, <3>6, <3>7
  <2>11. BombAccounting'
    BY <2>3, <2>10 DEF BombAccounting
  <2> QED BY <2>4, <2>5, <2>9, <2>11 DEF BombInv
<1> QED BY <1>1, <1>2

LEMMA UpdateBombBombInv ==
  ASSUME TypeOK, BombInv, NEW t \in Tiles, UpdateBomb(t)
  PROVE  BombInv'
<1>1. CASE UpdateBombWait(t)
  <2>1. UNCHANGED <<life, kit, bombCount, mapObj, isDead, owner, exploded, phase>>
    BY <1>1 DEF UpdateBombWait, stateVars, kitVars, mapVars
  <2>2. \A q \in Players : kit[q].bubble \in Nat
    BY DEF TypeOK
  <2> QED BY <2>1, <2>2, AccountsKept DEF BombInv, Cleaned
<1>2. CASE UpdateBombExplode(t)
  <2>1. Chain(t) \in SUBSET Unexploded
    BY DEF Chain
  <2>2. Explode(Chain(t)) /\ phase = "update"
    BY <1>2 DEF UpdateBombExplode, Visit
  <2> QED BY <2>1, <2>2, ExplodeBombInv
<1> QED BY <1>1, <1>2 DEF UpdateBomb

\* What is erased with a bomb on it has gone off, so no account loses by it.
LEMMA RemoveBombInv ==
  ASSUME TypeOK, BombInv, RemoveDeadObjects
  PROVE  BombInv'
<1> DEFINE freed == {p \in Players : life[p] = "dead"}
<1>1. /\ life' = [p \in Players |-> IF p \in freed THEN "gone" ELSE life[p]]
      /\ bombCount' = [p \in Players |-> IF p \in freed THEN 0 ELSE bombCount[p]]
      /\ kit' = [p \in Players |-> IF p \in freed THEN NewKit ELSE kit[p]]
      /\ mapObj' = [t \in Tiles |-> IF t \in isDead THEN "NONE" ELSE mapObj[t]]
      /\ owner' = [t \in Tiles |-> IF t \in isDead THEN NoPlayer ELSE owner[t]]
      /\ exploded' = exploded \ isDead
      /\ isDead' = isDead \ isDead
  BY DEF RemoveDeadObjects, Erased
<1>2. exploded = isDead \cap Bombs
  BY DEF BombInv, DeadBombs
<1>3. isDead' = {} /\ exploded' = {}
  BY <1>1, <1>2
<1>4. Bombs' = Bombs \ isDead
  BY <1>1 DEF Bombs
<1>5. Unexploded' = Unexploded
  BY <1>2, <1>3, <1>4 DEF Unexploded
<1>6. \A p \in Players : OwnBombs(p)' = OwnBombs(p)
  <2> SUFFICES ASSUME NEW p \in Players
               PROVE  OwnBombs(p)' = OwnBombs(p)
    OBVIOUS
  <2>1. \A t \in Unexploded : t \in Tiles /\ t \notin isDead
    BY <1>2 DEF Unexploded, Bombs
  <2>2. \A t \in Unexploded : owner'[t] = owner[t]
    BY <1>1, <2>1
  <2> QED BY <1>5, <2>2 DEF OwnBombs
<1>7. Owners'
  BY <1>1 DEF BombInv, Owners
<1>8. DeadBombs' /\ Cleaned'
  BY <1>3 DEF DeadBombs, Cleaned
<1>9. \A p \in Players : life'[p] # "gone" =>
         life'[p] = life[p] /\ bombCount'[p] = bombCount[p] /\ kit'[p] = kit[p]
  BY <1>1
<1>10. Newcomers'
  BY <1>6, <1>9 DEF BombInv, Newcomers
<1>11. BombAccounting'
  BY <1>6, <1>9 DEF BombInv, BombAccounting, Alive
<1> QED BY <1>7, <1>8, <1>10, <1>11 DEF BombInv

LEMMA NextBombInv == TypeOK /\ BombInv /\ [Next]_vars => BombInv'
<1> SUFFICES ASSUME TypeOK, BombInv, [Next]_vars
             PROVE  BombInv'
  OBVIOUS
<1>1. ASSUME NEW p \in Players, EnterRoom(p) \/ LeaveRoom(p) \/ Handle(p)
      PROVE  BombInv'
  BY <1>1, HandleBombInv
<1>2. CASE BeginUpdate \/ UNCHANGED vars
  <2>1. /\ UNCHANGED <<life, kit, bombCount, mapObj, isDead, owner, exploded>>
        /\ phase' = phase \/ phase' = "update"
    BY <1>2 DEF BeginUpdate, vars, stateVars, kitVars, mapVars, bombVars, tickVars
  <2>2. \A q \in Players : kit[q].bubble \in Nat
    BY DEF TypeOK
  <2> QED BY <2>1, <2>2, AccountsKept DEF BombInv, Cleaned
<1>3. ASSUME NEW p \in Players, UpdatePlayer(p)
      PROVE  BombInv'
  BY <1>3, UpdatePlayerBombInv
<1>4. ASSUME NEW t \in Tiles, UpdateBomb(t)
      PROVE  BombInv'
  BY <1>4, UpdateBombBombInv
<1>5. CASE RemoveDeadObjects
  BY <1>5, RemoveBombInv
<1> QED BY <1>1, <1>2, <1>3, <1>4, <1>5 DEF Next, Update

LEMMA BombInvHolds == Spec => []BombInv
<1>1. Init => BombInv
  BY InitBombInv
<1>2. TypeOK /\ BombInv /\ [Next]_vars => BombInv'
  BY NextBombInv
<1> QED BY <1>1, <1>2, TypeCorrect, PTL DEF Spec

\* For every player in the room _bombCount is the number of its bombs that
\* have still to go off and at most _bubbleCount, whatever the order of
\* planting, chains, disconnects and removals.
THEOREM BombsCounted == Spec => []BombAccounting
<1>1. BombInv => BombAccounting
  BY DEF BombInv
<1> QED BY <1>1, BombInvHolds, PTL

\* Between two ticks no slot of the map holds anything destroyed, and exactly
\* the bombs have owners.
THEOREM SettledSlots == Spec => []SlotsSettled
<1>1. BombInv => SlotsSettled
  BY DEF BombInv, Cleaned, DeadBombs, Owners, SlotsSettled
<1> QED BY <1>1, BombInvHolds, PTL

=============================================================================
