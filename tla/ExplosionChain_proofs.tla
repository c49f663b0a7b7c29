----------------------- MODULE ExplosionChain_proofs -----------------------
(***************************************************************************)
(* Proofs about ExplosionChain, for every room: the recursion of           *)
(* GameRoom::Explode and WaterBomb::Explode implements the one step of     *)
(* GameRoom, never explodes a bomb inside its own explosion, and forgets   *)
(* none.                                                                   *)
(***************************************************************************)
EXTENDS ExplosionChain, RoomRules_proofs

-----------------------------------------------------------------------------
(* Outside of a chain GameRoom seen through the mapping is GameRoom: the   *)
(* operators of Atomic that no mapped variable occurs in are those of      *)
(* GameRoom, and so are its actions while no call is under way.            *)

LEMMA SameConstants ==
  /\ Atomic!Tiles = Tiles /\ Atomic!Pos = Pos /\ Atomic!Items = Items
  /\ Atomic!AllDirs = AllDirs /\ Atomic!Heading = Heading
  /\ Atomic!NewKit = NewKit /\ Atomic!DirVec = DirVec
BY DEF Atomic!Tiles, Tiles, Atomic!Pos, Pos, Atomic!Items, Items, Atomic!AllDirs, AllDirs,
       Atomic!Heading, Heading, Atomic!NewKit, NewKit, Atomic!DirVec, DirVec

LEMMA SameGeometry ==
  /\ \A q : Atomic!WorldToTile(q) = WorldToTile(q)
  /\ \A t : Atomic!TileToWorld(t) = TileToWorld(t)
  /\ \A a, c : Atomic!Touches(a, c) = Touches(a, c)
  /\ \A q, t : Atomic!InTile(q, t) = InTile(q, t)
  /\ \A a, d, j : Atomic!Along(a, d, j) = Along(a, d, j)
  /\ \A a, c : Atomic!DistanceSquared(a, c) = DistanceSquared(a, c)
  /\ \A t : Atomic!GetMapObjectAt(t) = GetMapObjectAt(t)
  /\ Atomic!Alive = Alive
BY DEF Atomic!WorldToTile, WorldToTile, Atomic!HalfToward0, HalfToward0, Atomic!TileToWorld,
       TileToWorld, Atomic!Touches, Touches, Atomic!Abs, Abs, Atomic!InTile, InTile,
       Atomic!Along, Along, Atomic!DirVec, DirVec, Atomic!DistanceSquared, DistanceSquared,
       Atomic!GetMapObjectAt, GetMapObjectAt, Atomic!Tiles, Tiles, Atomic!Alive, Alive

LEMMA SameMove == \A p, d : Atomic!TryMove(p, d) = TryMove(p, d)
BY DEF Atomic!Blocks, Blocks, Atomic!TryMove, TryMove, Atomic!Under, Under,
       Atomic!ScanOrder, ScanOrder,
       Atomic!TileToWorld, TileToWorld, Atomic!Touches, Touches, Atomic!Abs, Abs,
       Atomic!Along, Along, Atomic!DirVec, DirVec, Atomic!Pos, Pos, Atomic!Items, Items,
       Atomic!GetMapObjectAt, GetMapObjectAt, Atomic!Tiles, Tiles

LEMMA SameMoved == \A p : Atomic!Moved(p) = Moved(p)
BY SameMove, SameConstants DEF Atomic!Moved, Moved

LEMMA SameSessions ==
  ASSUME calls = <<>>, calls' = <<>>, NEW p
  PROVE  /\ EnterRoom(p) => Atomic!EnterRoom(p)
         /\ LeaveRoom(p) => Atomic!LeaveRoom(p)
         /\ HandleForMissing(p) => Atomic!HandleForMissing(p)
         /\ Handle_C_Skill(p) => Atomic!Handle_C_Skill(p)
<1>1. Atomic!Idle = Idle /\ Atomic!Running = Running
  BY DEF Atomic!Idle, Idle, Atomic!Running, Running
<1> QED BY <1>1, SameGeometry
  DEF Held, EnterRoom, Atomic!EnterRoom, LeaveRoom, Atomic!LeaveRoom,
      HandleForMissing, Atomic!HandleForMissing, Handle_C_Skill, Atomic!Handle_C_Skill,
      motionVars, kitVars, mapVars, bombVars, tickVars,
      Atomic!motionVars, Atomic!kitVars, Atomic!mapVars, Atomic!bombVars, Atomic!tickVars

LEMMA SameHandlers ==
  ASSUME calls = <<>>, calls' = <<>>, NEW p, NEW h, NEW q
  PROVE  /\ Handle_C_Move(p, h, q) => Atomic!Handle_C_Move(p, h, q)
         /\ Handle_C_WaterBomb(p, q) => Atomic!Handle_C_WaterBomb(p, q)
<1>1. Atomic!Idle = Idle /\ Atomic!CanSpawnBomb(p) = CanSpawnBomb(p)
      /\ \A c : Atomic!CrashWith(c) = CrashWith(c)
  BY DEF Held, Atomic!Idle, Idle, Atomic!Running, Running, Atomic!CanSpawnBomb, CanSpawnBomb,
      CrashWith, Atomic!CrashWith, stateVars,
      motionVars, kitVars, mapVars, bombVars, tickVars, Atomic!stateVars,
      Atomic!motionVars, Atomic!kitVars, Atomic!mapVars, Atomic!bombVars, Atomic!tickVars
<1> QED BY <1>1, SameGeometry, SameConstants
  DEF Held, Handle_C_Move, Atomic!Handle_C_Move, Handle_C_WaterBomb, Atomic!Handle_C_WaterBomb,
      stateVars, motionVars, kitVars, mapVars, bombVars, tickVars, Atomic!stateVars,
      Atomic!motionVars, Atomic!kitVars, Atomic!mapVars, Atomic!bombVars, Atomic!tickVars

LEMMA SameHandle ==
  ASSUME calls = <<>>, calls' = <<>>, NEW p, Handle(p)
  PROVE  Atomic!Handle(p)
<1>1. Atomic!ClientPos(pos[p]) = ClientPos(pos[p])
  BY SameGeometry, SameConstants DEF Atomic!ClientPos, ClientPos
<1> QED BY <1>1, SameSessions, SameHandlers, SameConstants, SameGeometry DEF Handle, Atomic!Handle

LEMMA SameCount == \A S : Atomic!Cardinality(S) = Cardinality(S)
BY DEF Atomic!Cardinality, Cardinality

LEMMA SameKit == \A p, got : Atomic!GotKit(p, got) = GotKit(p, got)
BY SameCount DEF Atomic!GotKit, GotKit

LEMMA SameVisit ==
  /\ \A o : Atomic!Visit(o) = Visit(o)
  /\ \A n : Atomic!Ticked(n) = Ticked(n)
  /\ Atomic!Bombs = Bombs
  /\ \A p, q : Atomic!DropPassable(p, q) = DropPassable(p, q)
BY SameGeometry, SameConstants
DEF Atomic!Visit, Visit, Atomic!Running, Running, Atomic!Ticked, Ticked, Atomic!Bombs, Bombs,
    Atomic!DropPassable, DropPassable

LEMMA SameUpdates ==
  ASSUME calls = <<>>, calls' = <<>>, NEW p
  PROVE  /\ UpdateNull(p) => Atomic!UpdateNull(p)
         /\ UpdateNormal(p) => Atomic!UpdateNormal(p)
         /\ UpdateTrapped(p) => Atomic!UpdateTrapped(p)
         /\ UpdateEscape(p) => Atomic!UpdateEscape(p)
         /\ UpdateDead(p) => Atomic!UpdateDead(p)
         /\ UpdateBombWait(p) => Atomic!UpdateBombWait(p)
<1>1. \A now, then : Held(now, then) = now
  BY DEF Held
<1>2. /\ Held(exploded, before.exploded)' = exploded'
      /\ Held(isDead, before.isDead)' = isDead'
      /\ Held(bombCount, before.bombCount)' = bombCount'
      /\ Held(mainState, before.mainState)' = mainState'
      /\ Held(stateTimer, before.stateTimer)' = stateTimer'
  BY DEF Held
<1>3. UpdateNull(p) => Atomic!UpdateNull(p)
  BY <1>1, <1>2, SameVisit DEF UpdateNull, Atomic!UpdateNull, CrashWith, Atomic!CrashWith,
      stateVars, motionVars, kitVars, mapVars, bombVars, tickVars, Atomic!stateVars,
      Atomic!motionVars, Atomic!kitVars, Atomic!mapVars, Atomic!bombVars, Atomic!tickVars
<1>4. UpdateNormal(p) => Atomic!UpdateNormal(p)
  <2> DEFINE killed == {q \in Alive \ {p} : mainState[q] = "TRAPPED" /\ Touches(Moved(p), pos[q])}
             got    == {t \in Tiles : mapObj[t] \in Items /\ Touches(Moved(p), TileToWorld(t))}
             killedA == {q \in Atomic!Alive \ {p} :
                           /\ Held(mainState, before.mainState)[q] = "TRAPPED"
                           /\ Atomic!Touches(Atomic!Moved(p), pos[q])}
             gotA    == {t \in Atomic!Tiles :
                           /\ mapObj[t] \in Atomic!Items
                           /\ Atomic!Touches(Atomic!Moved(p), Atomic!TileToWorld(t))}
  <2>1. killedA = killed /\ gotA = got /\ Atomic!Moved(p) = Moved(p)
    BY <1>1, SameMoved, SameGeometry, SameConstants
  <2>2. SUFFICES ASSUME UpdateNormal(p)
                 PROVE  Atomic!UpdateNormal(p)
    OBVIOUS
  <2>3. /\ pos'        = [pos EXCEPT ![p] = Moved(p)]
        /\ passable'   = IF heading[p] = "idle" THEN passable ELSE DropPassable(p, Moved(p))
        /\ mainState'  = [q \in Players |-> IF q \in killed THEN "DEAD" ELSE mainState[q]]
        /\ stateTimer' = [q \in Players |-> IF q \in killed THEN 0 ELSE stateTimer[q]]
        /\ kit'        = [kit EXCEPT ![p] = GotKit(p, got)]
        /\ isDead'     = isDead \cup got
    BY <2>2 DEF UpdateNormal
  <2> HIDE DEF killed, got
  <2>4. /\ pos'      = [pos EXCEPT ![p] = Atomic!Moved(p)]
        /\ passable' = IF heading[p] = "idle" THEN passable
                       ELSE Atomic!DropPassable(p, Atomic!Moved(p))
        /\ Held(mainState, before.mainState)' =
             [q \in Players |-> IF q \in killedA THEN "DEAD" ELSE Held(mainState, before.mainState)[q]]
        /\ Held(stateTimer, before.stateTimer)' =
             [q \in Players |-> IF q \in killedA THEN 0 ELSE Held(stateTimer, before.stateTimer)[q]]
        /\ kit' = [kit EXCEPT ![p] = Atomic!GotKit(p, gotA)]
        /\ Held(isDead, before.isDead)' = Held(isDead, before.isDead) \cup gotA
    <3>1. /\ Held(isDead, before.isDead) = isDead
          /\ Held(mainState, before.mainState) = mainState
          /\ Held(stateTimer, before.stateTimer) = stateTimer
      BY <1>1
    <3>2. Atomic!DropPassable(p, Atomic!Moved(p)) = DropPassable(p, Moved(p))
      BY <2>1, SameVisit
    <3>3. Atomic!GotKit(p, gotA) = GotKit(p, got)
      BY <2>1, SameKit
    <3> HIDE DEF killedA, gotA
    <3> QED BY <1>2, <2>1, <2>3, <3>1, <3>2, <3>3
  <2>5. /\ Atomic!Visit(p) /\ p \in Atomic!Alive
        /\ Held(mainState, before.mainState)[p] = "NORMAL"
        /\ toUpdate' = toUpdate \ {p}
        /\ UNCHANGED <<life, heading, Held(bombCount, before.bombCount), mapObj, owner, timer,
                       Held(exploded, before.exploded), phase, crashed>>
    BY <1>1, <1>2, <2>2, SameVisit, SameGeometry DEF UpdateNormal
  <2> QED BY <2>4, <2>5 DEF Atomic!UpdateNormal
<1>5. UpdateTrapped(p) => Atomic!UpdateTrapped(p)
  <2>1. Atomic!TrapTimeUp(p) = TrapTimeUp(p)
    BY <1>1, SameVisit DEF Atomic!TrapTimeUp, TrapTimeUp
  <2> QED BY <1>1, <1>2, <2>1, SameVisit, SameMoved, SameGeometry, SameConstants
      DEF UpdateTrapped, Atomic!UpdateTrapped, kitVars, mapVars, bombVars, Atomic!kitVars, Atomic!mapVars, Atomic!bombVars
<1>6. /\ UpdateEscape(p) => Atomic!UpdateEscape(p)
      /\ UpdateDead(p) => Atomic!UpdateDead(p)
  BY <1>1, <1>2, SameVisit, SameGeometry
  DEF UpdateEscape, UpdateDead, Atomic!UpdateEscape, Atomic!UpdateDead, 
      stateVars, motionVars, kitVars, mapVars, bombVars, tickVars, Atomic!stateVars,
      Atomic!motionVars, Atomic!kitVars, Atomic!mapVars, Atomic!bombVars, Atomic!tickVars
<1>7. UpdateBombWait(p) => Atomic!UpdateBombWait(p)
  BY <1>1, <1>2, SameVisit, SameConstants
  DEF UpdateBombWait, Atomic!UpdateBombWait,
      stateVars, motionVars, kitVars, mapVars, Atomic!stateVars,
      Atomic!motionVars, Atomic!kitVars, Atomic!mapVars
<1> QED BY <1>3, <1>4, <1>5, <1>6, <1>7

LEMMA SameRemove ==
  ASSUME calls = <<>>, calls' = <<>>, RemoveDeadObjects
  PROVE  Atomic!RemoveDeadObjects
BY SameConstants DEF Held, RemoveDeadObjects, Atomic!RemoveDeadObjects, Atomic!Erased, Erased,
   Atomic!Running, Running

LEMMA SameBegin ==
  ASSUME calls = <<>>, calls' = <<>>, BeginUpdate
  PROVE  Atomic!BeginUpdate
<1>1. Atomic!Idle = Idle
  BY DEF Atomic!Idle, Idle, Atomic!Running, Running
<1> QED BY <1>1, SameVisit DEF Held, BeginUpdate, Atomic!BeginUpdate,
      stateVars, motionVars, kitVars, mapVars, bombVars, Atomic!stateVars,
      Atomic!motionVars, Atomic!kitVars, Atomic!mapVars, Atomic!bombVars

\* outside of a chain, a step of ExplosionChain is a step of GameRoom
LEMMA ElsewhereIsNext == Elsewhere => calls = <<>> /\ calls' = <<>> /\ Next /\ Atomic!Next
<1> SUFFICES ASSUME Elsewhere
             PROVE  calls = <<>> /\ calls' = <<>> /\ Next /\ Atomic!Next
  OBVIOUS
<1>1. calls = <<>> /\ calls' = <<>>
  BY DEF Elsewhere, chainVars
<1>2. Next
  BY DEF Elsewhere, Next, Update, UpdateBomb
<1>3. ASSUME NEW p \in Players, EnterRoom(p) \/ LeaveRoom(p) \/ Handle(p)
      PROVE  Atomic!Next
  BY <1>1, <1>3, SameSessions, SameHandle DEF Atomic!Next
<1>4. ASSUME NEW p \in Players, UpdatePlayer(p)
      PROVE  Atomic!Next
  BY <1>1, <1>4, SameUpdates DEF UpdatePlayer, Atomic!UpdatePlayer, Atomic!Next, Atomic!Update
<1>5. ASSUME NEW t \in Tiles, UpdateBombWait(t)
      PROVE  Atomic!Next
  BY <1>1, <1>5, SameUpdates, SameConstants DEF Atomic!UpdateBomb, Atomic!Next, Atomic!Update
<1>6. BeginUpdate \/ RemoveDeadObjects => Atomic!Next
  BY <1>1, SameBegin, SameRemove DEF Atomic!Next, Atomic!Update
<1> QED BY <1>1, <1>2, <1>3, <1>4, <1>5, <1>6 DEF Elsewhere

\* what a bomb covers and destroys reads no mapped variable either
LEMMA SameBlast ==
  /\ \A t : Atomic!BlastTiles(t) = BlastTiles(t)
  /\ \A S : Atomic!BlastOf(S) = BlastOf(S)
  /\ \A S : Atomic!Broken(S) = Broken(S)
<1>1. \A t, d, r : Atomic!Arm(t, d, r) = Arm(t, d, r)
  BY DEF Atomic!Arm, Arm, Atomic!GetMapObjectAt, GetMapObjectAt, Atomic!Along, Along,
         Atomic!DirVec, DirVec, Atomic!Tiles, Tiles
<1>2. \A t : Atomic!BlastTiles(t) = BlastTiles(t)
  BY <1>1, SameConstants DEF Atomic!BlastTiles, BlastTiles
<1>3. \A S : Atomic!BlastOf(S) = BlastOf(S)
  BY <1>2 DEF Atomic!BlastOf, BlastOf
<1>4. \A S : Atomic!Broken(S) = Broken(S)
  BY <1>3, SameConstants DEF Atomic!Broken, Broken
<1> QED BY <1>2, <1>3, <1>4
-----------------------------------------------------------------------------
(* The call stack *)

CallRec == [bomb : Tiles, poses : Seq(Spots)]

\* in the calls s, the one of the bomb on t has still to look at q
Awaits(s, t, q) ==
    \E i \in 1 .. Len(s) : /\ s[i].bomb = t
                           /\ \E j \in 1 .. Len(s[i].poses) : s[i].poses[j] = q

\* a call is made
LEMMA PushCall ==
  ASSUME NEW s \in Seq(CallRec), NEW c \in CallRec
  PROVE  /\ <<c>> \o s \in Seq(CallRec) /\ Len(<<c>> \o s) = Len(s) + 1
         /\ (<<c>> \o s)[1] = c
         /\ \A i \in 1 .. Len(s) : (<<c>> \o s)[i + 1] = s[i]
         /\ \A t, q : Awaits(s, t, q) => Awaits(<<c>> \o s, t, q)
<1> DEFINE r == <<c>> \o s
<1>1. /\ r \in Seq(CallRec) /\ Len(r) = Len(s) + 1
      /\ r[1] = c
      /\ \A i \in 1 .. Len(s) : r[i + 1] = s[i]
  OBVIOUS
<1> HIDE DEF r
<1>2. ASSUME NEW t, NEW q, Awaits(s, t, q)
      PROVE  Awaits(r, t, q)
  <2>1. PICK i \in 1 .. Len(s) : /\ s[i].bomb = t
                                 /\ \E j \in 1 .. Len(s[i].poses) : s[i].poses[j] = q
    BY <1>2 DEF Awaits
  <2>2. i + 1 \in 1 .. Len(r) /\ r[i + 1] = s[i]
    BY <1>1
  <2> QED BY <2>1, <2>2 DEF Awaits
<1> QED BY <1>1, <1>2 DEF r

\* a call returns
LEMMA PopCall ==
  ASSUME NEW s \in Seq(CallRec), s # <<>>
  PROVE  /\ Tail(s) \in Seq(CallRec) /\ Len(Tail(s)) = Len(s) - 1
         /\ Head(s) = s[1] /\ s[1] \in CallRec /\ 1 \in 1 .. Len(s)
         /\ \A i \in 1 .. Len(Tail(s)) : Tail(s)[i] = s[i + 1]
         /\ \A t, q : Awaits(s, t, q) =>
              \/ Awaits(Tail(s), t, q)
              \/ t = s[1].bomb /\ \E j \in 1 .. Len(s[1].poses) : s[1].poses[j] = q
<1> DEFINE r == Tail(s)
<1>1. /\ r \in Seq(CallRec) /\ Len(r) = Len(s) - 1 /\ Len(s) \in Nat \ {0}
      /\ Head(s) = s[1] /\ s[1] \in CallRec /\ 1 \in 1 .. Len(s)
      /\ \A i \in 1 .. Len(r) : r[i] = s[i + 1]
  OBVIOUS
<1> HIDE DEF r
<1>2. ASSUME NEW t, NEW q, Awaits(s, t, q)
      PROVE  \/ Awaits(r, t, q)
             \/ t = s[1].bomb /\ \E j \in 1 .. Len(s[1].poses) : s[1].poses[j] = q
  <2>1. PICK i \in 1 .. Len(s) : /\ s[i].bomb = t
                                 /\ \E j \in 1 .. Len(s[i].poses) : s[i].poses[j] = q
    BY <1>2 DEF Awaits
  <2>2. CASE i = 1
    BY <2>1, <2>2
  <2>3. CASE i # 1
    <3>1. i - 1 \in 1 .. Len(r) /\ r[i - 1] = s[(i - 1) + 1] /\ (i - 1) + 1 = i
      BY <1>1, <2>3
    <3> QED BY <2>1, <3>1 DEF Awaits
  <2> QED BY <2>2, <2>3
<1> QED BY <1>1, <1>2 DEF r

LEMMA WithPoses ==
  ASSUME NEW c \in CallRec, NEW p \in Seq(Spots)
  PROVE  /\ [c EXCEPT !.poses = p] \in CallRec
         /\ [c EXCEPT !.poses = p].bomb = c.bomb
         /\ [c EXCEPT !.poses = p].poses = p
BY DEF CallRec

\* the innermost call goes on to its next tile
Stepped(s) == <<[Head(s) EXCEPT !.poses = Tail(@)]>> \o Tail(s)

\* the calls o are s after the innermost one went on
StepOf(s, o) ==
    /\ o \in Seq(CallRec) /\ Len(o) = Len(s) /\ o # <<>>
    /\ \A i \in 1 .. Len(s) : o[i].bomb = s[i].bomb
    /\ \A i \in 1 .. Len(s) : \A j \in 1 .. Len(o[i].poses) :
          \E m \in 1 .. Len(s[i].poses) : o[i].poses[j] = s[i].poses[m]
    /\ \A t, q : Awaits(s, t, q) => Awaits(o, t, q) \/ q = Head(s[1].poses)
    /\ \E m \in 1 .. Len(s[1].poses) : Head(s[1].poses) = s[1].poses[m]

\* the loop of a call goes on
LEMMA StepCall ==
  ASSUME NEW s \in Seq(CallRec), s # <<>>, Head(s).poses # <<>>
  PROVE  StepOf(s, Stepped(s))
<1> DEFINE o == Stepped(s)
<1> HIDE DEF o
<1> DEFINE c == s[1]
           d == [c EXCEPT !.poses = Tail(@)]
           r == Tail(s)
<1>1. /\ r \in Seq(CallRec) /\ Len(r) = Len(s) - 1 /\ Len(s) \in Nat \ {0}
      /\ Head(s) = c /\ c \in CallRec
      /\ \A i \in 1 .. Len(r) : r[i] = s[i + 1]
      /\ \A t, q : Awaits(s, t, q) =>
              \/ Awaits(r, t, q)
              \/ t = c.bomb /\ \E j \in 1 .. Len(c.poses) : c.poses[j] = q
  BY PopCall
<1>2. c.poses \in Seq(Spots) /\ c.poses # <<>> /\ c.bomb \in Tiles
  BY <1>1 DEF CallRec
<1> HIDE DEF c, r
<1>3. d \in CallRec /\ d.bomb = c.bomb /\ d.poses = Tail(c.poses)
  <2>1. Tail(c.poses) \in Seq(Spots)
    BY <1>2
  <2> QED BY <1>1, <2>1, WithPoses
<1> HIDE DEF d
<1> DEFINE ps == c.poses
           tl == Tail(ps)
<1>4. /\ Len(ps) \in Nat \ {0} /\ Len(tl) = Len(ps) - 1
      /\ Head(ps) = ps[1]
      /\ \A j \in 1 .. Len(tl) : tl[j] = ps[j + 1]
  BY <1>2
<1>5. /\ o \in Seq(CallRec) /\ Len(o) = Len(r) + 1
      /\ o[1] = d
      /\ \A i \in 1 .. Len(r) : o[i + 1] = r[i]
      /\ \A t, q : Awaits(r, t, q) => Awaits(o, t, q)
  <2>1. o = <<d>> \o r
    BY <1>1 DEF o, d, r, Stepped
  <2>2. /\ <<d>> \o r \in Seq(CallRec) /\ Len(<<d>> \o r) = Len(r) + 1
        /\ (<<d>> \o r)[1] = d
        /\ \A i \in 1 .. Len(r) : (<<d>> \o r)[i + 1] = r[i]
        /\ \A t, q : Awaits(r, t, q) => Awaits(<<d>> \o r, t, q)
    BY <1>1, <1>3, PushCall
  <2> QED BY <2>1, <2>2, Zenon
<1>6. Len(o) = Len(s) /\ o # <<>>
  BY <1>1, <1>5
<1>7. \A i \in 1 .. Len(s) : i # 1 => o[i] = s[i]
  <2> SUFFICES ASSUME NEW i \in 1 .. Len(s), i # 1
               PROVE  o[i] = s[i]
    OBVIOUS
  <2>1. i - 1 \in 1 .. Len(r) /\ (i - 1) + 1 = i
    BY <1>1
  <2>2. o[(i - 1) + 1] = r[i - 1] /\ r[i - 1] = s[(i - 1) + 1]
    BY <1>1, <1>5, <2>1
  <2> QED BY <2>1, <2>2
<1>8. \A i \in 1 .. Len(s) : o[i].bomb = s[i].bomb
  BY <1>3, <1>5, <1>7 DEF c
<1>9. ASSUME NEW i \in 1 .. Len(s), NEW j \in 1 .. Len(o[i].poses)
      PROVE  \E m \in 1 .. Len(s[i].poses) : o[i].poses[j] = s[i].poses[m]
  <2>1. CASE i # 1
    BY <1>7, <2>1
  <2>2. CASE i = 1
    <3>1. o[i].poses = tl /\ s[i].poses = ps
      BY <1>3, <1>5, <2>2 DEF c
    <3> HIDE DEF ps, tl
    <3>2. j + 1 \in 1 .. Len(ps) /\ tl[j] = ps[j + 1]
      BY <1>4, <1>9, <3>1
    <3> QED BY <3>1, <3>2
  <2> QED BY <2>1, <2>2
<1>10. ASSUME NEW t, NEW q, Awaits(s, t, q), q # Head(c.poses)
       PROVE  Awaits(o, t, q)
  <2>1. CASE Awaits(r, t, q)
    BY <1>5, <2>1
  <2>2. ASSUME t = c.bomb, NEW j \in 1 .. Len(c.poses), c.poses[j] = q
        PROVE  Awaits(o, t, q)
    <3>1. j # 1
      BY <1>4, <1>10, <2>2
    <3>3. 1 \in 1 .. Len(o) /\ o[1].bomb = t /\ o[1].poses = tl
      <4>1. o[1].bomb = t /\ o[1].poses = tl
        BY <1>3, <1>5, <2>2
      <4>2. Len(o) = Len(s) /\ Len(s) \in Nat \ {0}
        BY <1>1, <1>6
      <4> HIDE DEF ps, tl
      <4> QED BY <4>1, <4>2
    <3>4. j \in 1 .. Len(ps) /\ ps[j] = q
      BY <2>2
    <3> HIDE DEF ps, tl
    <3>2. j - 1 \in 1 .. Len(tl) /\ tl[j - 1] = ps[(j - 1) + 1] /\ (j - 1) + 1 = j
      BY <1>4, <3>1, <3>4
    <3> QED BY <3>2, <3>3, <3>4 DEF Awaits
  <2> QED BY <1>1, <1>10, <2>1, <2>2
<1>11. \E m \in 1 .. Len(c.poses) : Head(c.poses) = c.poses[m]
  BY <1>4
<1>12. StepOf(s, o)
  BY <1>5, <1>6, <1>8, <1>9, <1>10, <1>11 DEF c, StepOf
<1> QED BY <1>12 DEF o

\* the tiles of an arm are one behind the other
LEMMA ArmIsPrefix ==
  ASSUME TypeOK, NEW t \in Spots, NEW d \in AllDirs, NEW range \in Nat
  PROVE  \E n \in Nat : /\ Arm(t, d, range) = {Along(t, d, j) : j \in 1 .. n}
                        /\ Cardinality(Arm(t, d, range)) = n
<1> DEFINE Met(k) == GetMapObjectAt(Along(t, d, k))
           Cov(j) == \A k \in 1 .. j : Met(k) # "SOLID" /\ (k < j => Met(k) # "BREAKABLE")
           Js == {j \in 1 .. range : Cov(j)}
<1>1. Arm(t, d, range) = {Along(t, d, j) : j \in Js}
  BY DEF Arm
<1>2. ASSUME NEW j \in 1 .. range, Cov(j), NEW i \in 1 .. j
      PROVE  Cov(i)
  <2>1. \A k \in 1 .. i : k \in 1 .. j /\ (k < i => k < j)
    OBVIOUS
  <2> QED BY <1>2, <2>1
<1> HIDE DEF Cov
<1>3. PICK n \in Nat : Js = 1 .. n
  <2> DEFINE out == {j \in Nat \ {0} : j \notin Js}
  <2>1. range + 1 \in out
    OBVIOUS
  <2>2. PICK f \in out : \A j \in out : f <= j
    BY <2>1, LeastOf
  <2>3. f - 1 \in Nat
    OBVIOUS
  <2>4. \A j \in 1 .. f - 1 : j \in Js
    BY <2>2
  <2>5. ASSUME NEW j \in Js
        PROVE  j \in 1 .. f - 1
    <3>1. ~ (f <= j)
      <4> SUFFICES ASSUME f <= j
                   PROVE  FALSE
        OBVIOUS
      <4>1. j \in 1 .. range /\ Cov(j) /\ f \in 1 .. j
        OBVIOUS
      <4>2. Cov(f) /\ f \in 1 .. range
        BY <1>2, <4>1
      <4> QED BY <4>2
    <3> QED BY <3>1
  <2>6. Js = 1 .. f - 1
    BY <2>4, <2>5
  <2> QED BY <2>3, <2>6
<1>4. Arm(t, d, range) = {Along(t, d, j) : j \in 1 .. n}
  BY <1>1, <1>3
<1> HIDE DEF Js
<1>5. \A i, j \in 1 .. n : Along(t, d, i) = Along(t, d, j) => i = j
  <2> SUFFICES ASSUME NEW i \in 1 .. n, NEW j \in 1 .. n, Along(t, d, i) = Along(t, d, j)
               PROVE  i = j
    OBVIOUS
  <2>1. t[1] \in Int /\ t[2] \in Int /\ i \in Int /\ j \in Int
    BY DEF Spots
  <2>2. CASE d = "UP"
    <3>1. <<t[1], t[2] - i>> = <<t[1], t[2] - j>>
      BY <2>1, <2>2, AlongDirs
    <3> QED BY <2>1, <3>1
  <2>3. CASE d = "DOWN"
    <3>1. <<t[1], t[2] + i>> = <<t[1], t[2] + j>>
      BY <2>1, <2>3, AlongDirs
    <3> QED BY <2>1, <3>1
  <2>4. CASE d = "LEFT"
    <3>1. <<t[1] - i, t[2]>> = <<t[1] - j, t[2]>>
      BY <2>1, <2>4, AlongDirs
    <3> QED BY <2>1, <3>1
  <2>5. CASE d = "RIGHT"
    <3>1. <<t[1] + i, t[2]>> = <<t[1] + j, t[2]>>
      BY <2>1, <2>5, AlongDirs
    <3> QED BY <2>1, <3>1
  <2> QED BY <2>2, <2>3, <2>4, <2>5 DEF AllDirs
<1>6. Cardinality(Arm(t, d, range)) = n
  <2> DEFINE f == [j \in 1 .. n |-> Along(t, d, j)]
             T == {Along(t, d, j) : j \in 1 .. n}
  <2>1. f \in Bijection(1 .. n, T)
    BY <1>5 DEF Bijection, Injection, Surjection, IsInjective
  <2>2. ExistsBijection(1 .. n, T)
    BY <2>1 DEF ExistsBijection
  <2>3. IsFiniteSet(1 .. n) /\ Cardinality(1 .. n) = n
    BY FS_Interval
  <2> QED BY <1>4, <2>2, <2>3, FS_Bijection
<1> QED BY <1>4, <1>6

Listed(s, q) == \E j \in 1 .. Len(s) : s[j] = q

LEMMA ListedInBoth ==
  ASSUME NEW a \in Seq(Spots), NEW c \in Seq(Spots)
  PROVE  /\ a \o c \in Seq(Spots)
         /\ \A q : Listed(a \o c, q) <=> Listed(a, q) \/ Listed(c, q)
<1> DEFINE r == a \o c
<1>1. /\ r \in Seq(Spots) /\ Len(r) = Len(a) + Len(c) /\ Len(a) \in Nat /\ Len(c) \in Nat
      /\ \A j \in 1 .. Len(a) : r[j] = a[j]
      /\ \A j \in 1 .. Len(c) : r[j + Len(a)] = c[j]
  OBVIOUS
<1> HIDE DEF r
<1>2. ASSUME NEW q, Listed(a, q)
      PROVE  Listed(r, q)
  BY <1>1, <1>2 DEF Listed
<1>3. ASSUME NEW q, Listed(c, q)
      PROVE  Listed(r, q)
  <2>1. PICK j \in 1 .. Len(c) : c[j] = q
    BY <1>3 DEF Listed
  <2>2. j + Len(a) \in 1 .. Len(r)
    BY <1>1
  <2> QED BY <1>1, <2>1, <2>2 DEF Listed
<1>4. ASSUME NEW q, Listed(r, q)
      PROVE  Listed(a, q) \/ Listed(c, q)
  <2>1. PICK j \in 1 .. Len(r) : r[j] = q
    BY <1>4 DEF Listed
  <2>2. CASE j \in 1 .. Len(a)
    BY <1>1, <2>1, <2>2 DEF Listed
  <2>3. CASE j \notin 1 .. Len(a)
    <3>1. j - Len(a) \in 1 .. Len(c) /\ (j - Len(a)) + Len(a) = j
      BY <1>1, <2>3
    <3>2. c[j - Len(a)] = q
      BY <1>1, <2>1, <3>1
    <3> QED BY <3>1, <3>2 DEF Listed
  <2> QED BY <2>2, <2>3
<1> QED BY <1>1, <1>2, <1>3, <1>4 DEF r

\* an arm as a list holds the tiles of the arm
LEMMA PosesOfArm ==
  ASSUME TypeOK, NEW t \in Tiles, owner[t] \in Players, NEW d \in AllDirs
  PROVE  /\ ArmPoses(t, d) \in Seq(Spots)
         /\ \A q : Listed(ArmPoses(t, d), q) <=> q \in Arm(t, d, kit[owner[t]].fluid)
<1>1. t \in Spots /\ kit[owner[t]].fluid \in Nat
  BY PosAndTiles DEF TypeOK
<1>2. PICK n \in Nat : /\ Arm(t, d, kit[owner[t]].fluid) = {Along(t, d, j) : j \in 1 .. n}
                      /\ Cardinality(Arm(t, d, kit[owner[t]].fluid)) = n
  BY <1>1, ArmIsPrefix
<1>3. ArmPoses(t, d) = [j \in 1 .. n |-> Along(t, d, j)]
  BY <1>2 DEF ArmPoses, Count
<1>4. \A j \in 1 .. n : Along(t, d, j) \in Spots
  <2> SUFFICES ASSUME NEW j \in 1 .. n
               PROVE  Along(t, d, j) \in Spots
    OBVIOUS
  <2>1. j \in Int /\ t[1] \in Int /\ t[2] \in Int
    BY <1>1 DEF Spots
  <2>2. Along(t, d, j) \in {<<t[1], t[2] - j>>, <<t[1], t[2] + j>>, <<t[1] - j, t[2]>>, <<t[1] + j, t[2]>>}
    BY <1>1, <2>1, AlongDirs DEF AllDirs
  <2> QED BY <2>1, <2>2 DEF Spots
<1> DEFINE s == [j \in 1 .. n |-> Along(t, d, j)]
<1>5. s \in Seq(Spots) /\ Len(s) = n /\ \A j \in 1 .. n : s[j] = Along(t, d, j)
  BY <1>4
<1> HIDE DEF s
<1>6. \A q : Listed(s, q) <=> q \in {Along(t, d, j) : j \in 1 .. n}
  BY <1>5 DEF Listed
<1>7. ArmPoses(t, d) = s
  BY <1>3 DEF s
<1> QED BY <1>2, <1>5, <1>6, <1>7

\* the loop of GameRoom::Explode looks at the tiles of the blast
LEMMA PosesOfBlast ==
  ASSUME TypeOK, NEW t \in Tiles, owner[t] \in Players
  PROVE  /\ ExplodePoses(t) \in Seq(Spots)
         /\ \A q : Listed(ExplodePoses(t), q) <=> q \in BlastTiles(t)
<1> DEFINE A(d) == ArmPoses(t, d)
           T(d) == Arm(t, d, kit[owner[t]].fluid)
<1>1. ASSUME NEW d \in AllDirs
      PROVE  A(d) \in Seq(Spots) /\ \A q : Listed(A(d), q) <=> q \in T(d)
  BY <1>1, PosesOfArm
<1>2. <<t>> \in Seq(Spots) /\ \A q : Listed(<<t>>, q) <=> q = t
  BY PosAndTiles DEF Listed
<1>3. BlastTiles(t) = {t} \cup T("UP") \cup T("DOWN") \cup T("LEFT") \cup T("RIGHT")
  BY DEF BlastTiles, AllDirs
<1>4. ExplodePoses(t) = <<t>> \o A("UP") \o A("DOWN") \o A("LEFT") \o A("RIGHT")
  BY DEF ExplodePoses
<1> HIDE DEF A, T
<1>5. /\ A("UP") \in Seq(Spots) /\ \A q : Listed(A("UP"), q) <=> q \in T("UP")
      /\ A("DOWN") \in Seq(Spots) /\ \A q : Listed(A("DOWN"), q) <=> q \in T("DOWN")
      /\ A("LEFT") \in Seq(Spots) /\ \A q : Listed(A("LEFT"), q) <=> q \in T("LEFT")
      /\ A("RIGHT") \in Seq(Spots) /\ \A q : Listed(A("RIGHT"), q) <=> q \in T("RIGHT")
  BY <1>1 DEF AllDirs
<1> DEFINE s1 == <<t>> \o A("UP")
           s2 == s1 \o A("DOWN")
           s3 == s2 \o A("LEFT")
           s4 == s3 \o A("RIGHT")
<1>6. s1 \in Seq(Spots) /\ \A q : Listed(s1, q) <=> q = t \/ q \in T("UP")
  BY <1>2, <1>5, ListedInBoth
<1> HIDE DEF s1
<1>7. s2 \in Seq(Spots) /\ \A q : Listed(s2, q) <=> Listed(s1, q) \/ q \in T("DOWN")
  BY <1>5, <1>6, ListedInBoth
<1> HIDE DEF s2
<1>8. s3 \in Seq(Spots) /\ \A q : Listed(s3, q) <=> Listed(s2, q) \/ q \in T("LEFT")
  BY <1>5, <1>7, ListedInBoth
<1> HIDE DEF s3
<1>9. s4 \in Seq(Spots) /\ \A q : Listed(s4, q) <=> Listed(s3, q) \/ q \in T("RIGHT")
  BY <1>5, <1>8, ListedInBoth
<1> HIDE DEF s4
<1>10. ExplodePoses(t) = s4
  BY <1>4, Zenon DEF s1, s2, s3, s4
<1> QED BY <1>3, <1>6, <1>7, <1>8, <1>9, <1>10

-----------------------------------------------------------------------------
(* The inductive invariant.  before remembers the room as it was when the  *)
(* first bomb went off; the parts relate what is left to do to what has    *)
(* been done since.                                                        *)

\* the bombs the chain may still have met when it began
Then == Bombs \ before.exploded

Root == calls[Len(calls)].bomb

\* a stack of calls, each of its own bomb, which is marked
Stack ==
    /\ calls \in Seq(CallRec)
    /\ \A i, j \in 1 .. Len(calls) : calls[i].bomb = calls[j].bomb => i = j
    /\ \A i \in 1 .. Len(calls) : calls[i].bomb \in Bombs \cap exploded

\* bombs are counted as in the room, in the middle of a chain as well
Counted == Owners /\ Newcomers /\ BombAccounting

\* before is a room that had settled
Snapshot ==
    /\ before \in [exploded : SUBSET Tiles, isDead : SUBSET Tiles,
                   bombCount : [Players -> Int], mainState : [Players -> MainState],
                   stateTimer : [Players -> Nat]]
    /\ before.exploded = before.isDead \cap Bombs
    /\ \A p \in Alive : before.bombCount[p] = Cardinality({t \in Then : owner[t] = p})
    /\ \A p \in Players \ Alive : before.bombCount[p] = bombCount[p]

\* the visit that set the first bomb off is still under way
Visiting ==
    /\ phase = "update"
    /\ Root \in toUpdate
    /\ Root \in Fired
    /\ Ticked(timer[Root]) >= ExplosionTicks

\* what has gone off is in every closed set that holds the first bomb
InChain ==
    /\ before.exploded \subseteq exploded /\ exploded \subseteq Bombs
    /\ \A t \in Fired : owner[t] \in Alive
    /\ \A i \in 1 .. Len(calls) : calls[i].bomb \in Fired
    /\ \A i \in 1 .. Len(calls) : \A q :
          Listed(calls[i].poses, q) => q \in BlastTiles(calls[i].bomb)
    /\ \A S \in SUBSET Then :
          Root \in S /\ (\A t \in S : BlastTiles(t) \cap Then \subseteq S) => Fired \subseteq S

\* the loop has done what it has to on tile q
Wet(q) ==
    /\ \A p \in Alive : InTile(pos[p], q) => mainState[p] = "TRAPPED"
    /\ q \in Tiles /\ mapObj[q] \in Items \cup {"BREAKABLE"} => q \in isDead
    /\ q \notin Unexploded

\* every tile of a blast is done or waits in the call of the bomb
NothingMissed ==
    \A t \in Fired : \A q \in BlastTiles(t) : Awaits(calls, t, q) \/ Wet(q)

\* what is destroyed was so before, or has gone off, or lies in a blast
DeadRightly ==
    /\ before.isDead \subseteq isDead
    /\ isDead \subseteq before.isDead \cup Fired \cup Broken(Fired)
    /\ \A t \in Fired : t \in isDead \/ \E i \in 1 .. Len(calls) : calls[i].bomb = t

\* a player is as before, or has been trapped by a blast
TrappedRightly ==
    \A p \in Players :
        \/ mainState[p] = before.mainState[p] /\ stateTimer[p] = before.stateTimer[p]
        \/ /\ p \in Alive /\ before.mainState[p] # "TRAPPED"
           /\ \E q \in BlastOf(Fired) : InTile(pos[p], q)
           /\ mainState[p] = "TRAPPED" /\ stateTimer[p] = 0

Midway ==
    Snapshot /\ Visiting /\ InChain /\ NothingMissed /\ DeadRightly /\ TrappedRightly

ChainInv ==
    /\ TypeOK /\ VisitsBombs /\ Counted /\ Stack
    /\ Running => IF calls = <<>> THEN BombInv ELSE Midway

\* a blast depends on the map and on what the owners carry only
LEMMA BlastFrame ==
  ASSUME UNCHANGED <<mapObj, owner, kit>>
  PROVE  /\ \A t : BlastTiles(t)' = BlastTiles(t)
         /\ Bombs' = Bombs
         /\ \A S : BlastOf(S)' = BlastOf(S)
         /\ \A S : Broken(S)' = Broken(S)
<1>1. \A t : BlastTiles(t)' = BlastTiles(t)
  BY DEF BlastTiles, Arm, GetMapObjectAt
<1>2. \A S : BlastOf(S)' = BlastOf(S)
  BY <1>1 DEF BlastOf
<1>3. \A S : Broken(S)' = Broken(S)
  BY <1>2 DEF Broken
<1> QED BY <1>1, <1>2, <1>3 DEF Bombs

\* the accounts when nothing is set off
LEMMA KeepsCounted ==
  ASSUME Counted, UNCHANGED <<mapObj, owner, kit, exploded, bombCount>>, Alive' = Alive,
         \A p \in Players : life'[p] = "out" => life[p] = "out"
  PROVE  Counted'
<1>1. Bombs' = Bombs /\ Unexploded' = Unexploded
  BY DEF Bombs, Unexploded
<1>2. \A p : OwnBombs(p)' = OwnBombs(p)
  BY <1>1 DEF OwnBombs
<1> QED BY <1>2 DEF Counted, Owners, Newcomers, BombAccounting

\* a bomb that goes off is given back to its owner
LEMMA CallCounted ==
  ASSUME TypeOK, Counted, NEW t \in Unexploded, NEW rest, Call(t, rest),
         UNCHANGED <<mapObj, owner, kit, life>>
  PROVE  Counted'
<1>0. PICK o \in Alive : o = owner[t]
  BY DEF Call
<1>1. /\ o \in Alive /\ exploded' = exploded \cup {t}
      /\ bombCount' = [bombCount EXCEPT ![o] = @ - 1]
  BY <1>0 DEF Call
<1>2. o \in Players /\ t \in Bombs /\ bombCount \in [Players -> Int] /\ Alive' = Alive
  BY <1>1 DEF Alive, Unexploded, TypeOK
<1>3. Bombs' = Bombs /\ Unexploded' = Unexploded \ {t}
  BY <1>1 DEF Bombs, Unexploded
<1>4. \A p : p # o => OwnBombs(p)' = OwnBombs(p)
  BY <1>0, <1>3 DEF OwnBombs
<1>5. OwnBombs(o)' = OwnBombs(o) \ {t} /\ t \in OwnBombs(o)
  BY <1>0, <1>3 DEF OwnBombs
<1>6. IsFiniteSet(OwnBombs(o))
  BY TilesFinite, FS_Subset DEF OwnBombs, Unexploded, Bombs
<1>7. Cardinality(OwnBombs(o)') = Cardinality(OwnBombs(o)) - 1
  BY <1>5, <1>6, FS_RemoveElement
<1>8. ASSUME NEW p \in Alive
      PROVE  bombCount'[p] = Cardinality(OwnBombs(p)') /\ bombCount'[p] <= kit'[p].bubble
  <2>1. bombCount[p] = Cardinality(OwnBombs(p)) /\ bombCount[p] <= kit[p].bubble /\ p \in Players
    BY DEF Counted, BombAccounting, Alive
  <2>2. CASE p # o
    BY <1>1, <1>2, <1>4, <2>1, <2>2
  <2>3. CASE p = o
    <3>1. bombCount'[p] = bombCount[p] - 1 /\ bombCount[p] \in Int /\ kit[p].bubble \in Nat
      BY <1>1, <1>2, <2>3 DEF TypeOK
    <3> QED BY <1>7, <2>1, <2>3, <3>1
  <2> QED BY <2>2, <2>3
<1>9. Newcomers'
  <2> SUFFICES ASSUME NEW p \in Players, life[p] = "out"
               PROVE  bombCount'[p] = 0 /\ OwnBombs(p)' = {}
    BY DEF Newcomers
  <2>1. p # o
    BY <1>1 DEF Alive
  <2>2. bombCount[p] = 0 /\ OwnBombs(p) = {}
    BY DEF Counted, Newcomers
  <2> QED BY <1>1, <1>2, <1>4, <2>1, <2>2
<1>10. BombAccounting'
  BY <1>2, <1>8 DEF BombAccounting
<1> QED BY <1>9, <1>10 DEF Counted, Owners

-----------------------------------------------------------------------------
(* One tile of the loop *)

\* What the steps of the loop have in common: tile a is looked at, and the
\* bombs of fired, which is {} or {a}, are called from there.
LoopStep(a, fired) ==
    /\ Running /\ calls # <<>> /\ Head(calls).poses # <<>> /\ At = a
    /\ fired \subseteq Unexploded \cap {a}
    /\ \A t \in fired : owner[t] \in Alive
    /\ mainState' = [p \in Players |->
          IF p \in Alive /\ mainState[p] # "TRAPPED" /\ InTile(pos[p], a)
          THEN "TRAPPED" ELSE mainState[p]]
    /\ stateTimer' = [p \in Players |->
          IF p \in Alive /\ mainState[p] # "TRAPPED" /\ InTile(pos[p], a)
          THEN 0 ELSE stateTimer[p]]
    /\ exploded' = exploded \cup fired
    /\ a \notin Unexploded \ fired
    /\ isDead' = isDead \cup {t \in Tiles \cap {a} : mapObj[t] \in Items \cup {"BREAKABLE"}}
    /\ \A p \in Players \ Alive : bombCount'[p] = bombCount[p]
    /\ \/ fired = {} /\ calls' = Onward
       \/ fired = {a} /\ calls' = <<[bomb |-> a, poses |-> ExplodePoses(a)]>> \o Onward
    /\ UNCHANGED <<life, mapObj, owner, kit, timer, pos, phase, toUpdate, before, crashed>>

\* the calls after such a step
LEMMA LoopCalls ==
  ASSUME ChainInv, NEW a, NEW fired, LoopStep(a, fired)
  PROVE  /\ Stack' /\ calls' # <<>> /\ Root' = Root
         /\ \A i \in 1 .. Len(calls') :
              (\E k \in 1 .. Len(calls) : calls'[i].bomb = calls[k].bomb) \/ calls'[i].bomb \in fired
         /\ \A k \in 1 .. Len(calls) : \E i \in 1 .. Len(calls') : calls'[i].bomb = calls[k].bomb
         /\ \A t \in fired : \E i \in 1 .. Len(calls') : calls'[i].bomb = t
         /\ \A i \in 1 .. Len(calls') : \A q :
              Listed(calls'[i].poses, q) => q \in BlastTiles(calls'[i].bomb)
         /\ \A t, q : Awaits(calls, t, q) => Awaits(calls', t, q) \/ q = a
         /\ \A t \in fired : \A q \in BlastTiles(t) : Awaits(calls', t, q)
         /\ calls[1].bomb \in Fired /\ a \in BlastTiles(calls[1].bomb) /\ 1 \in 1 .. Len(calls)
<1> DEFINE o == Onward
<1>1. calls \in Seq(CallRec) /\ calls # <<>> /\ Head(calls).poses # <<>> /\ Midway /\ TypeOK
  BY DEF ChainInv, Stack, LoopStep
<1>2. Head(calls) = calls[1] /\ 1 \in 1 .. Len(calls) /\ Len(calls) \in Nat \ {0}
  BY <1>1, PopCall
<1>3. o = Stepped(calls)
  BY DEF Onward, Stepped
<1> HIDE DEF o
<1>4. /\ o \in Seq(CallRec) /\ Len(o) = Len(calls) /\ o # <<>>
      /\ \A i \in 1 .. Len(calls) : o[i].bomb = calls[i].bomb
      /\ \A i \in 1 .. Len(calls) : \A j \in 1 .. Len(o[i].poses) :
              \E m \in 1 .. Len(calls[i].poses) : o[i].poses[j] = calls[i].poses[m]
      /\ \A t, q : Awaits(calls, t, q) => Awaits(o, t, q) \/ q = Head(calls[1].poses)
      /\ \E m \in 1 .. Len(calls[1].poses) : Head(calls[1].poses) = calls[1].poses[m]
  <2>1. StepOf(calls, o)
    BY <1>1, <1>3, StepCall
  <2> QED BY <2>1 DEF StepOf
<1>5. a = Head(calls[1].poses)
  BY <1>2 DEF LoopStep, At
<1>6. InChain /\ Stack
  BY <1>1 DEF Midway, ChainInv
<1>7. calls[1].bomb \in Fired /\ a \in BlastTiles(calls[1].bomb)
  <2>1. Listed(calls[1].poses, a)
    BY <1>4, <1>5 DEF Listed
  <2> QED BY <1>2, <1>6, <2>1 DEF InChain
<1>8. \A i \in 1 .. Len(o) : \A q : Listed(o[i].poses, q) => q \in BlastTiles(o[i].bomb)
  <2> SUFFICES ASSUME NEW i \in 1 .. Len(o), NEW q, Listed(o[i].poses, q)
               PROVE  q \in BlastTiles(o[i].bomb)
    OBVIOUS
  <2>1. PICK j \in 1 .. Len(o[i].poses) : o[i].poses[j] = q
    BY DEF Listed
  <2>2. Listed(calls[i].poses, q)
    BY <1>4, <2>1 DEF Listed
  <2> QED BY <1>4, <1>6, <2>2 DEF InChain
<1>9. Bombs' = Bombs
  BY DEF LoopStep, Bombs
<1>10. CASE fired = {}
  <2>1. calls' = o /\ exploded' = exploded
    BY <1>10 DEF LoopStep, o
  <2>2. Stack'
    BY <1>4, <1>6, <1>9, <2>1 DEF Stack
  <2>3. Root' = Root
    BY <1>2, <1>4, <2>1 DEF Root
  <2> QED BY <1>2, <1>4, <1>5, <1>7, <1>8, <1>10, <2>1, <2>2, <2>3
<1>11. CASE fired # {}
  <2> DEFINE c == [bomb |-> a, poses |-> ExplodePoses(a)]
  <2>1. /\ fired = {a} /\ calls' = <<c>> \o o /\ exploded' = exploded \cup {a}
        /\ a \in Unexploded /\ owner[a] \in Alive
    BY <1>11 DEF LoopStep, o
  <2>2. a \in Tiles /\ a \in Bombs /\ a \notin exploded /\ owner[a] \in Players
    BY <2>1 DEF Unexploded, Bombs, Alive
  <2>3. /\ ExplodePoses(a) \in Seq(Spots)
        /\ \A q : Listed(ExplodePoses(a), q) <=> q \in BlastTiles(a)
    BY <1>1, <2>2, PosesOfBlast
  <2>4. c \in CallRec /\ c.bomb = a /\ c.poses = ExplodePoses(a)
    BY <2>2, <2>3 DEF CallRec
  <2> HIDE DEF c
  <2>5. /\ <<c>> \o o \in Seq(CallRec) /\ Len(<<c>> \o o) = Len(o) + 1
        /\ (<<c>> \o o)[1] = c
        /\ \A i \in 1 .. Len(o) : (<<c>> \o o)[i + 1] = o[i]
        /\ \A t, q : Awaits(o, t, q) => Awaits(<<c>> \o o, t, q)
    BY <1>4, <2>4, PushCall
  <2>6. /\ calls' \in Seq(CallRec) /\ Len(calls') = Len(calls) + 1
        /\ calls'[1] = c
        /\ \A i \in 1 .. Len(calls) : calls'[i + 1] = o[i]
        /\ \A t, q : Awaits(o, t, q) => Awaits(calls', t, q)
    BY <1>4, <2>1, <2>5
  <2>7. \A i \in 1 .. Len(calls') : i # 1 => i - 1 \in 1 .. Len(calls) /\ calls'[i] = o[i - 1]
    <3> SUFFICES ASSUME NEW i \in 1 .. Len(calls'), i # 1
                 PROVE  i - 1 \in 1 .. Len(calls) /\ calls'[i] = o[i - 1]
      OBVIOUS
    <3>1. i - 1 \in 1 .. Len(calls) /\ (i - 1) + 1 = i
      BY <1>2, <2>6
    <3> QED BY <2>6, <3>1
  <2>8. 1 \in 1 .. Len(calls') /\ \A i \in 1 .. Len(calls) : i + 1 \in 1 .. Len(calls')
    BY <1>2, <2>6
  <2>9. \A i \in 1 .. Len(calls) : calls[i].bomb # a /\ calls[i].bomb \in Bombs \cap exploded
    BY <1>6, <2>2 DEF Stack
  <2>10. Stack'
    <3>1. ASSUME NEW i \in 1 .. Len(calls')
          PROVE  calls'[i].bomb \in Bombs' \cap exploded'
      <4>1. CASE i = 1
        BY <1>9, <2>1, <2>2, <2>4, <2>6, <4>1
      <4>2. CASE i # 1
        <5>1. calls'[i].bomb = calls[i - 1].bomb /\ i - 1 \in 1 .. Len(calls)
          BY <1>4, <2>7, <4>2
        <5> QED BY <1>9, <2>1, <2>9, <5>1
      <4> QED BY <4>1, <4>2
    <3>2. ASSUME NEW i \in 1 .. Len(calls'), NEW j \in 1 .. Len(calls'),
                 calls'[i].bomb = calls'[j].bomb
          PROVE  i = j
      <4>1. CASE i = 1
        BY <1>4, <2>4, <2>6, <2>7, <2>9, <3>2, <4>1
      <4>2. CASE j = 1
        BY <1>4, <2>4, <2>6, <2>7, <2>9, <3>2, <4>2
      <4>3. CASE i # 1 /\ j # 1
        <5>1. /\ i - 1 \in 1 .. Len(calls) /\ j - 1 \in 1 .. Len(calls)
              /\ calls[i - 1].bomb = calls[j - 1].bomb
          BY <1>4, <2>7, <3>2, <4>3
        <5>2. i - 1 = j - 1
          BY <1>6, <5>1 DEF Stack
        <5> QED BY <5>2
      <4> QED BY <4>1, <4>2, <4>3
    <3> QED BY <2>6, <3>1, <3>2 DEF Stack
  <2>11. Root' = Root
    <3>1. Len(calls) \in 1 .. Len(calls)
      BY <1>2
    <3>2. calls'[Len(calls')] = o[Len(calls)]
      BY <2>6, <3>1
    <3> QED BY <1>4, <3>1, <3>2 DEF Root
  <2>12. ASSUME NEW i \in 1 .. Len(calls'), NEW q, Listed(calls'[i].poses, q)
         PROVE  q \in BlastTiles(calls'[i].bomb)
    <3>1. CASE i = 1
      BY <2>3, <2>4, <2>6, <2>12, <3>1
    <3>2. CASE i # 1
      BY <1>4, <1>8, <2>7, <2>12, <3>2
    <3> QED BY <3>1, <3>2
  <2>13. ASSUME NEW q \in BlastTiles(a)
         PROVE  Awaits(calls', a, q)
    <3>1. Listed(c.poses, q)
      BY <2>3, <2>4
    <3> QED BY <2>4, <2>6, <2>8, <3>1 DEF Awaits, Listed
  <2>14. ASSUME NEW i \in 1 .. Len(calls')
         PROVE  (\E k \in 1 .. Len(calls) : calls'[i].bomb = calls[k].bomb) \/ calls'[i].bomb \in fired
    <3>1. CASE i = 1
      BY <2>1, <2>4, <2>6, <3>1
    <3>2. CASE i # 1
      <4>1. calls'[i].bomb = calls[i - 1].bomb /\ i - 1 \in 1 .. Len(calls)
        BY <1>4, <2>7, <3>2
      <4> QED BY <4>1
    <3> QED BY <3>1, <3>2
  <2>15. \A k \in 1 .. Len(calls) : \E i \in 1 .. Len(calls') : calls'[i].bomb = calls[k].bomb
    BY <1>4, <2>6, <2>8
  <2>16. \A t \in fired : \E i \in 1 .. Len(calls') : calls'[i].bomb = t
    BY <2>1, <2>4, <2>6, <2>8
  <2>17. calls' # <<>>
    BY <1>2, <2>6
  <2>18. \A t, q : Awaits(calls, t, q) => Awaits(calls', t, q) \/ q = a
    BY <1>4, <1>5, <2>6
  <2>19. \A t \in fired : \A q \in BlastTiles(t) : Awaits(calls', t, q)
    BY <2>1, <2>13
  <2> QED BY <1>2, <1>7, <2>10, <2>11, <2>12, <2>14, <2>15, <2>16, <2>17, <2>18, <2>19
<1> QED BY <1>10, <1>11

\* A tile is looked at: what has been done and what is left still add up.
LEMMA LoopMidway ==
  ASSUME ChainInv, NEW a, NEW fired, LoopStep(a, fired)
  PROVE  Midway'
<1>1. TypeOK /\ Stack /\ Midway /\ Running /\ calls # <<>>
  BY DEF ChainInv, LoopStep
<1>2. Snapshot /\ Visiting /\ InChain /\ NothingMissed /\ DeadRightly /\ TrappedRightly
  BY <1>1 DEF Midway
<1>3. /\ \A t : BlastTiles(t)' = BlastTiles(t)
      /\ Bombs' = Bombs
      /\ \A S : BlastOf(S)' = BlastOf(S)
      /\ \A S : Broken(S)' = Broken(S)
  BY BlastFrame DEF LoopStep
<1>4. /\ exploded' = exploded \cup fired /\ fired \subseteq Unexploded \cap {a}
      /\ before' = before /\ Alive' = Alive
      /\ a \notin Unexploded \ fired
      /\ UNCHANGED <<owner, pos, mapObj, timer, phase, toUpdate>>
      /\ \A t \in fired : owner[t] \in Alive
  BY DEF LoopStep, Alive
<1>5. Fired' = Fired \cup fired /\ Then' = Then /\ fired \subseteq Then
  <2>1. before.exploded \subseteq exploded
    BY <1>2 DEF InChain
  <2> QED BY <1>3, <1>4, <2>1 DEF Fired, Then, Unexploded
<1>6. /\ calls' # <<>> /\ Root' = Root
      /\ \A i \in 1 .. Len(calls') :
           (\E k \in 1 .. Len(calls) : calls'[i].bomb = calls[k].bomb) \/ calls'[i].bomb \in fired
      /\ \A k \in 1 .. Len(calls) : \E i \in 1 .. Len(calls') : calls'[i].bomb = calls[k].bomb
      /\ \A t \in fired : \E i \in 1 .. Len(calls') : calls'[i].bomb = t
      /\ \A i \in 1 .. Len(calls') : \A q :
           Listed(calls'[i].poses, q) => q \in BlastTiles(calls'[i].bomb)
      /\ \A t, q : Awaits(calls, t, q) => Awaits(calls', t, q) \/ q = a
      /\ \A t \in fired : \A q \in BlastTiles(t) : Awaits(calls', t, q)
      /\ calls[1].bomb \in Fired /\ a \in BlastTiles(calls[1].bomb) /\ 1 \in 1 .. Len(calls)
  BY LoopCalls
<1>7. Snapshot'
  <2>1. \A p \in Players \ Alive : bombCount'[p] = bombCount[p]
    BY DEF LoopStep
  <2> QED BY <1>2, <1>3, <1>4, <1>5, <2>1 DEF Snapshot
<1>8. Visiting'
  BY <1>2, <1>4, <1>5, <1>6 DEF Visiting, Ticked
<1>9. InChain'
  <2>1. before'.exploded \subseteq exploded' /\ exploded' \subseteq Bombs'
    BY <1>2, <1>3, <1>4 DEF InChain, Unexploded
  <2>2. \A t \in Fired' : owner'[t] \in Alive'
    BY <1>2, <1>4, <1>5 DEF InChain
  <2>3. \A i \in 1 .. Len(calls') : calls'[i].bomb \in Fired'
    BY <1>2, <1>5, <1>6 DEF InChain
  <2>4. ASSUME NEW i \in 1 .. Len(calls')
        PROVE  BlastTiles(calls'[i].bomb) = (BlastTiles(calls[i].bomb))'
    BY DEF LoopStep, BlastTiles, Arm, GetMapObjectAt
  <2>5. ASSUME NEW S \in SUBSET Then, Root \in S, \A t \in S : BlastTiles(t) \cap Then \subseteq S
        PROVE  Fired' \subseteq S
    <3>1. Fired \subseteq S
      BY <1>2, <2>5 DEF InChain
    <3>2. fired \subseteq S
      BY <1>4, <1>5, <1>6, <2>5, <3>1
    <3> QED BY <1>5, <3>1, <3>2
  <2>6. \A S \in SUBSET Then' :
          Root' \in S /\ (\A t \in S : BlastTiles(t)' \cap Then' \subseteq S) => Fired' \subseteq S
    BY <1>3, <1>5, <1>6, <2>5
  <2>7. \A i \in 1 .. Len(calls') : \A q :
          Listed(calls'[i].poses, q) => q \in (BlastTiles(calls[i].bomb))'
    BY <1>6, <2>4
  <2> QED BY <2>1, <2>2, <2>3, <2>6, <2>7 DEF InChain, Listed
<1>10. \A p \in Players : mainState[p] = "TRAPPED" => mainState'[p] = "TRAPPED"
  BY DEF LoopStep
<1>11. ASSUME NEW q, Wet(q)
       PROVE  Wet(q)'
  <2>1. \A p \in Alive' : InTile(pos'[p], q) => mainState'[p] = "TRAPPED"
    BY <1>4, <1>10, <1>11 DEF Wet, Alive
  <2>2. q \in Tiles /\ mapObj'[q] \in Items \cup {"BREAKABLE"} => q \in isDead'
    BY <1>11 DEF Wet, LoopStep
  <2>3. q \notin Unexploded'
    BY <1>3, <1>4, <1>11 DEF Wet, Unexploded
  <2> QED BY <2>1, <2>2, <2>3 DEF Wet
<1>12. Wet(a)'
  <2>1. \A p \in Alive' : InTile(pos'[p], a) => mainState'[p] = "TRAPPED"
    BY <1>4 DEF LoopStep, Alive
  <2>2. a \in Tiles /\ mapObj'[a] \in Items \cup {"BREAKABLE"} => a \in isDead'
    BY DEF LoopStep
  <2>3. a \notin Unexploded'
    BY <1>3, <1>4 DEF Unexploded
  <2> QED BY <2>1, <2>2, <2>3 DEF Wet
<1>13. NothingMissed'
  <2> SUFFICES ASSUME NEW t \in Fired', NEW q \in BlastTiles(t)
               PROVE  Awaits(calls', t, q) \/ Wet(q)'
    BY <1>3 DEF NothingMissed, Awaits
  <2>1. CASE t \in fired
    BY <1>6, <2>1
  <2>2. CASE t \in Fired
    <3>1. Awaits(calls, t, q) \/ Wet(q)
      BY <1>2, <2>2 DEF NothingMissed
    <3> QED BY <1>6, <1>11, <1>12, <3>1
  <2> QED BY <1>5, <2>1, <2>2
<1>14. DeadRightly'
  <2> DEFINE new == {t \in Tiles \cap {a} : mapObj[t] \in Items \cup {"BREAKABLE"}}
  <2>1. isDead' = isDead \cup new
    BY DEF LoopStep
  <2>2. new \subseteq Broken(Fired)
    BY <1>6 DEF Broken, BlastOf
  <2>3. Broken(Fired) \subseteq Broken(Fired \cup fired)
    BY DEF Broken, BlastOf
  <2> HIDE DEF new
  <2>4. isDead' \subseteq before.isDead \cup Fired' \cup Broken(Fired \cup fired)
    BY <1>2, <1>5, <2>1, <2>2, <2>3 DEF DeadRightly
  <2>5. Broken(Fired)' = Broken(Fired \cup fired)
    BY <1>3, <1>4, <1>5 DEF Broken, BlastOf
  <2>6. \A t \in Fired' : t \in isDead' \/ \E i \in 1 .. Len(calls') : calls'[i].bomb = t
    <3>1. ASSUME NEW t \in fired
          PROVE  \E i \in 1 .. Len(calls') : calls'[i].bomb = t
      BY <1>6
    <3>2. ASSUME NEW t \in Fired, t \notin isDead
          PROVE  \E i \in 1 .. Len(calls') : calls'[i].bomb = t
      <4>1. PICK k \in 1 .. Len(calls) : calls[k].bomb = t
        BY <1>2, <3>2 DEF DeadRightly
      <4> QED BY <1>6, <4>1
    <3> QED BY <1>5, <2>1, <3>1, <3>2
  <2>7. before.isDead \subseteq isDead'
    BY <1>2, <2>1 DEF DeadRightly
  <2> QED BY <1>4, <2>4, <2>5, <2>6, <2>7 DEF DeadRightly
<1>15. TrappedRightly'
  <2> SUFFICES ASSUME NEW p \in Players
               PROVE  \/ mainState'[p] = before.mainState[p] /\ stateTimer'[p] = before.stateTimer[p]
                      \/ /\ p \in Alive /\ before.mainState[p] # "TRAPPED"
                         /\ \E q \in BlastOf(Fired)' : InTile(pos[p], q)
                         /\ mainState'[p] = "TRAPPED" /\ stateTimer'[p] = 0
    BY <1>4 DEF TrappedRightly, InTile
  <2>1. BlastOf(Fired) \subseteq BlastOf(Fired)' /\ a \in BlastOf(Fired)'
    <3>1. BlastOf(Fired)' = UNION {BlastTiles(t) : t \in Fired'}
      BY <1>3 DEF BlastOf
    <3> QED BY <1>5, <1>6, <3>1 DEF BlastOf
  <2>2. CASE p \in Alive /\ mainState[p] # "TRAPPED" /\ InTile(pos[p], a)
    <3>1. mainState'[p] = "TRAPPED" /\ stateTimer'[p] = 0
      BY <2>2 DEF LoopStep
    <3>2. before.mainState[p] # "TRAPPED"
      BY <1>2, <2>2 DEF TrappedRightly
    <3> QED BY <2>1, <2>2, <3>1, <3>2
  <2>3. CASE ~(p \in Alive /\ mainState[p] # "TRAPPED" /\ InTile(pos[p], a))
    <3>1. mainState'[p] = mainState[p] /\ stateTimer'[p] = stateTimer[p]
      BY <2>3 DEF LoopStep
    <3> QED BY <1>2, <2>1, <3>1 DEF TrappedRightly
  <2> QED BY <2>2, <2>3
<1> QED BY <1>7, <1>8, <1>9, <1>13, <1>14, <1>15 DEF Midway

\* which steps of the loop these are
LEMMA PoseIsLoopStep ==
  ASSUME ChainInv, NEW a, a = At
  PROVE  /\ PoseQuiet \/ PoseDestroy => LoopStep(a, {})
         /\ PoseBomb => LoopStep(a, {a}) /\ a \in Unexploded
<1>1. calls # <<>> => TypeOK /\ \A t \in Unexploded : t \in Tiles /\ mapObj[t] = "WATER_BOMB"
  BY DEF ChainInv, Unexploded, Bombs
<1>2. Trap => /\ mainState' = [p \in Players |->
                     IF p \in Alive /\ mainState[p] # "TRAPPED" /\ InTile(pos[p], a)
                     THEN "TRAPPED" ELSE mainState[p]]
              /\ stateTimer' = [p \in Players |->
                     IF p \in Alive /\ mainState[p] # "TRAPPED" /\ InTile(pos[p], a)
                     THEN 0 ELSE stateTimer[p]]
  BY DEF Trap
<1>3. PoseQuiet => LoopStep(a, {})
  BY <1>2 DEF PoseQuiet, InLoop, GetMapObjectAt, LoopStep, motionVars, kitVars, mapVars,
              bombVars, tickVars
<1>4. PoseDestroy => LoopStep(a, {})
  <2> SUFFICES ASSUME PoseDestroy
               PROVE  LoopStep(a, {})
    OBVIOUS
  <2>1. a \in Tiles /\ mapObj[a] \in Items \cup {"BREAKABLE"}
    BY DEF PoseDestroy, GetMapObjectAt, Items
  <2>2. a \notin Unexploded
    BY <2>1 DEF Unexploded, Bombs, Items
  <2>3. {t \in Tiles \cap {a} : mapObj[t] \in Items \cup {"BREAKABLE"}} = {a}
    BY <2>1
  <2>4. isDead' = isDead \cup {a} /\ exploded' = exploded \cup {}
    BY DEF PoseDestroy, bombVars
  <2>5. /\ Running /\ calls # <<>> /\ Head(calls).poses # <<>>
        /\ calls' = Onward /\ Trap
        /\ UNCHANGED <<bombCount, life, mapObj, owner, kit, timer, pos, phase, toUpdate,
                       before, crashed>>
    BY DEF PoseDestroy, InLoop, motionVars, kitVars, bombVars, tickVars
  <2> QED BY <1>2, <2>2, <2>3, <2>4, <2>5 DEF LoopStep
<1>5. PoseBomb => LoopStep(a, {a}) /\ a \in Unexploded
  <2> SUFFICES ASSUME PoseBomb
               PROVE  LoopStep(a, {a}) /\ a \in Unexploded
    OBVIOUS
  <2>1. a \in Unexploded /\ a \in Tiles /\ mapObj[a] = "WATER_BOMB" /\ TypeOK
    BY <1>1 DEF PoseBomb, InLoop
  <2>2. {t \in Tiles \cap {a} : mapObj[t] \in Items \cup {"BREAKABLE"}} = {}
    BY <2>1 DEF Items
  <2>3. Call(a, Onward) /\ owner[a] \in Alive
    BY DEF PoseBomb, Call
  <2>4. \A p \in Players \ Alive : bombCount'[p] = bombCount[p]
    BY <2>1, <2>3 DEF Call, TypeOK
  <2>5. /\ exploded' = exploded \cup {a} /\ isDead' = isDead \cup {}
        /\ calls' = <<[bomb |-> a, poses |-> ExplodePoses(a)]>> \o Onward
    BY <2>3 DEF Call, PoseBomb, mapVars
  <2>6. /\ Running /\ calls # <<>> /\ Head(calls).poses # <<>> /\ Trap
        /\ UNCHANGED <<life, mapObj, owner, kit, timer, pos, phase, toUpdate, before, crashed>>
    BY DEF PoseBomb, InLoop, motionVars, mapVars, tickVars
  <2> QED BY <1>2, <2>1, <2>2, <2>3, <2>4, <2>5, <2>6 DEF LoopStep
<1> QED BY <1>3, <1>4, <1>5

LEMMA LoopTypeOK ==
  ASSUME TypeOK, NEW a, NEW fired, LoopStep(a, fired),
         bombCount' \in [Players -> Int], UNCHANGED <<heading, passable>>
  PROVE  TypeOK'
<1>1. exploded' \subseteq Tiles /\ isDead' \subseteq Tiles
  BY DEF LoopStep, TypeOK, Unexploded, Bombs
<1>2. /\ mainState' \in [Players -> MainState]
      /\ stateTimer' \in [Players -> Nat]
  BY DEF LoopStep, TypeOK, MainState
<1>3. \A p \in Players : stateTimer'[p] < StateTicks(mainState'[p])
  BY GameRoomAssumption DEF LoopStep, TypeOK, StateTicks
<1> QED BY <1>1, <1>2, <1>3 DEF LoopStep, TypeOK

\* A step of the loop keeps the invariant, and the room as it is seen meanwhile.
LEMMA PoseInv ==
  ASSUME ChainInv, PoseQuiet \/ PoseDestroy \/ PoseBomb
  PROVE  ChainInv' /\ UNCHANGED Atomic!vars
<1>1. PICK a : a = At
  OBVIOUS
<1>2. PICK fired : LoopStep(a, fired)
  BY <1>1, PoseIsLoopStep
<1>3. /\ TypeOK /\ VisitsBombs /\ Counted /\ Running /\ calls # <<>>
      /\ UNCHANGED <<heading, passable, life, mapObj, owner, kit, pos, timer, phase, toUpdate,
                     before, crashed>>
  BY <1>2 DEF ChainInv, LoopStep, PoseQuiet, PoseDestroy, PoseBomb, motionVars, bombVars
<1>4. bombCount' \in [Players -> Int] /\ Counted'
  <2>1. CASE PoseQuiet \/ PoseDestroy
    <3>1. UNCHANGED <<exploded, bombCount>>
      BY <2>1 DEF PoseQuiet, PoseDestroy, kitVars, bombVars
    <3> QED BY <1>3, <3>1, KeepsCounted DEF TypeOK, Alive
  <2>2. CASE PoseBomb
    <3>1. a \in Unexploded /\ Call(a, Onward)
      BY <1>1, <2>2, PoseIsLoopStep DEF PoseBomb
    <3>2. PICK rest : rest = Onward
      OBVIOUS
    <3>3. Call(a, rest)
      BY <3>1, <3>2
    <3>4. bombCount' \in [Players -> Int]
      BY <1>3, <3>1 DEF Call, TypeOK, Alive
    <3> QED BY <1>3, <3>1, <3>3, <3>4, CallCounted
  <2> QED BY <2>1, <2>2
<1>5. TypeOK'
  BY <1>2, <1>3, <1>4, LoopTypeOK
<1>6. VisitsBombs'
  BY <1>3 DEF VisitsBombs, Bombs
<1>7. Stack' /\ calls' # <<>>
  BY <1>2, LoopCalls
<1>8. Midway'
  BY <1>2, LoopMidway
<1>9. ChainInv'
  BY <1>4, <1>5, <1>6, <1>7, <1>8 DEF ChainInv
<1>10. UNCHANGED Atomic!vars
  BY <1>3, <1>7 DEF Held, Atomic!vars, Atomic!stateVars, Atomic!motionVars, Atomic!kitVars,
     Atomic!mapVars, Atomic!bombVars, Atomic!tickVars
<1> QED BY <1>9, <1>10

-----------------------------------------------------------------------------
(* The first bomb *)

\* the calls once the bomb on t is set off, with nothing under way
LEMMA FirstCall ==
  ASSUME TypeOK, NEW t \in Tiles, owner[t] \in Players, NEW s,
         s = <<[bomb |-> t, poses |-> ExplodePoses(t)]>> \o <<>>
  PROVE  /\ s \in Seq(CallRec) /\ Len(s) = 1 /\ s # <<>>
         /\ s[1].bomb = t
         /\ \A q : Listed(s[1].poses, q) <=> q \in BlastTiles(t)
         /\ \A q \in BlastTiles(t) : Awaits(s, t, q)
<1> DEFINE c == [bomb |-> t, poses |-> ExplodePoses(t)]
           none == <<>>
<1>1. /\ ExplodePoses(t) \in Seq(Spots)
      /\ \A q : Listed(ExplodePoses(t), q) <=> q \in BlastTiles(t)
  BY PosesOfBlast
<1>2. c \in CallRec /\ c.bomb = t /\ c.poses = ExplodePoses(t)
  BY <1>1 DEF CallRec
<1>3. none \in Seq(CallRec) /\ Len(none) = 0
  OBVIOUS
<1>4. s = <<c>> \o none
  OBVIOUS
<1> HIDE DEF c, none
<1>5. s \in Seq(CallRec) /\ Len(s) = 1 /\ s[1] = c
  BY <1>2, <1>3, <1>4, PushCall
<1>6. s # <<>> /\ 1 \in 1 .. Len(s)
  BY <1>5
<1>7. \A q : Listed(s[1].poses, q) <=> q \in BlastTiles(t)
  BY <1>1, <1>2, <1>5
<1>8. \A q \in BlastTiles(t) : Awaits(s, t, q)
  BY <1>2, <1>5, <1>6, <1>7 DEF Awaits, Listed
<1> QED BY <1>2, <1>5, <1>6, <1>7, <1>8

\* the first bomb of a chain goes off
LEMMA FireInv ==
  ASSUME ChainInv, NEW t \in Tiles, Fire(t)
  PROVE  ChainInv' /\ UNCHANGED Atomic!vars
<1>1. /\ TypeOK /\ VisitsBombs /\ Counted /\ Running /\ calls = <<>>
      /\ Owners /\ DeadBombs /\ BombAccounting
  BY DEF ChainInv, Fire, Visit, BombInv
<1>2. /\ t \in toUpdate /\ phase = "update" /\ t \notin exploded
      /\ Ticked(timer[t]) >= ExplosionTicks
      /\ before' = Touched /\ Call(t, <<>>)
      /\ UNCHANGED <<life, mainState, stateTimer, pos, heading, kit, mapObj, isDead, owner,
                     timer, passable, phase, toUpdate, crashed>>
  BY DEF Fire, Visit, stateVars, motionVars, mapVars, tickVars
<1>3. /\ owner[t] \in Alive /\ exploded' = exploded \cup {t}
      /\ bombCount' = [bombCount EXCEPT ![owner[t]] = @ - 1]
      /\ calls' = <<[bomb |-> t, poses |-> ExplodePoses(t)]>> \o <<>>
  BY <1>2 DEF Call
<1>4. t \in Unexploded /\ t \in Bombs /\ owner[t] \in Players /\ Alive' = Alive
  BY <1>1, <1>2, <1>3 DEF VisitsBombs, Unexploded, Alive
<1>5. /\ calls' \in Seq(CallRec) /\ Len(calls') = 1 /\ calls' # <<>>
      /\ calls'[1].bomb = t
      /\ \A q : Listed(calls'[1].poses, q) <=> q \in BlastTiles(t)
      /\ \A q \in BlastTiles(t) : Awaits(calls', t, q)
  BY <1>1, <1>3, <1>4, FirstCall
<1>6. /\ \A u : BlastTiles(u)' = BlastTiles(u)
      /\ Bombs' = Bombs
  BY <1>2, BlastFrame
<1>7. /\ before'.exploded = exploded /\ before'.isDead = isDead
      /\ before'.bombCount = bombCount /\ before'.mainState = mainState
      /\ before'.stateTimer = stateTimer
      /\ before' \in [exploded : SUBSET Tiles, isDead : SUBSET Tiles,
                      bombCount : [Players -> Int], mainState : [Players -> MainState],
                      stateTimer : [Players -> Nat]]
  BY <1>1, <1>2 DEF Touched, TypeOK
<1>8. Fired' = {t} /\ Then' = Unexploded /\ Root' = t /\ t \in Then'
  <2>1. Fired' = {t} /\ Then' = Unexploded
    BY <1>2, <1>3, <1>6, <1>7 DEF Fired, Then, Unexploded
  <2>2. Root' = t
    BY <1>5 DEF Root
  <2> QED BY <1>4, <2>1, <2>2
<1>9. Stack'
  <2>1. \A i \in 1 .. Len(calls') : i = 1
    BY <1>5
  <2> QED BY <1>3, <1>4, <1>5, <1>6, <2>1 DEF Stack
<1>10. Snapshot'
  <2>1. before'.exploded = before'.isDead \cap Bombs'
    BY <1>1, <1>6, <1>7 DEF DeadBombs
  <2>2. \A p \in Alive' : before'.bombCount[p] = Cardinality({u \in Then' : owner'[u] = p})
    BY <1>1, <1>2, <1>4, <1>7, <1>8 DEF BombAccounting, OwnBombs
  <2>3. \A p \in Players \ Alive' : before'.bombCount[p] = bombCount'[p]
    BY <1>1, <1>3, <1>4, <1>7 DEF TypeOK
  <2> QED BY <1>7, <2>1, <2>2, <2>3 DEF Snapshot
<1>11. Visiting'
  BY <1>2, <1>8 DEF Visiting, Ticked
<1>12. InChain'
  <2>1. before'.exploded \subseteq exploded' /\ exploded' \subseteq Bombs'
    BY <1>1, <1>3, <1>4, <1>6, <1>7 DEF DeadBombs
  <2>2. \A u \in Fired' : owner'[u] \in Alive'
    BY <1>2, <1>3, <1>4, <1>8
  <2>3. \A i \in 1 .. Len(calls') : calls'[i].bomb \in Fired'
    BY <1>5, <1>8
  <2>4. ASSUME NEW i \in 1 .. Len(calls')
        PROVE  BlastTiles(calls'[i].bomb) = (BlastTiles(calls[i].bomb))'
    BY <1>2 DEF BlastTiles, Arm, GetMapObjectAt
  <2>5. \A i \in 1 .. Len(calls') : \A q :
          Listed(calls'[i].poses, q) => q \in (BlastTiles(calls[i].bomb))'
    <3>1. \A i \in 1 .. Len(calls') : i = 1
      BY <1>5
    <3> QED BY <1>5, <2>4, <3>1
  <2> QED BY <1>8, <2>1, <2>2, <2>3, <2>5 DEF InChain, Listed
<1>13. NothingMissed'
  BY <1>5, <1>6, <1>8 DEF NothingMissed, Awaits
<1>14. DeadRightly'
  <2>1. \A u \in Fired' : \E i \in 1 .. Len(calls') : calls'[i].bomb = u
    BY <1>5, <1>8
  <2>2. before'.isDead = isDead'
    BY <1>2, <1>7
  <2> QED BY <2>1, <2>2 DEF DeadRightly
<1>15. TrappedRightly'
  BY <1>2, <1>7 DEF TrappedRightly
<1>16. Midway'
  BY <1>10, <1>11, <1>12, <1>13, <1>14, <1>15 DEF Midway
<1>17. TypeOK' /\ VisitsBombs'
  <2>1. bombCount' \in [Players -> Int] /\ exploded' \subseteq Tiles
    BY <1>1, <1>3, <1>4 DEF TypeOK
  <2> QED BY <1>1, <1>2, <1>6, <2>1 DEF TypeOK, VisitsBombs
<1>18. Counted'
  <2>1. PICK rest : rest = <<>>
    OBVIOUS
  <2>2. Call(t, rest)
    BY <1>2, <2>1
  <2> QED BY <1>1, <1>2, <1>4, <2>2, CallCounted
<1>19. ChainInv'
  BY <1>5, <1>9, <1>16, <1>17, <1>18 DEF ChainInv
<1>20. UNCHANGED Atomic!vars
  BY <1>1, <1>2, <1>5, <1>7 DEF Held, Atomic!vars, Atomic!stateVars, Atomic!motionVars,
     Atomic!kitVars, Atomic!mapVars, Atomic!bombVars, Atomic!tickVars
<1> QED BY <1>19, <1>20

-----------------------------------------------------------------------------
(* A call returns *)

\* what a return leaves alone
LEMMA ReturnFrame ==
  ASSUME ChainInv, Return
  PROVE  /\ TypeOK /\ VisitsBombs /\ Counted /\ Stack /\ Midway
         /\ Running /\ calls # <<>> /\ Len(calls) \in Nat \ {0} /\ 1 \in 1 .. Len(calls)
         /\ Head(calls) = calls[1] /\ calls[1] \in CallRec
         /\ calls[1].poses = <<>> /\ calls[1].bomb \in Fired \cap Bombs
         /\ isDead' = isDead \cup {calls[1].bomb}
         /\ calls' = Tail(calls)
         /\ \A t, q : Awaits(calls, t, q) => Awaits(Tail(calls), t, q)
         /\ UNCHANGED <<life, mainState, stateTimer, pos, heading, bombCount, kit, mapObj,
                        owner, timer, exploded, passable, phase, crashed>>
<1>1. /\ TypeOK /\ VisitsBombs /\ Counted /\ Stack /\ Midway /\ Running /\ calls # <<>>
      /\ Head(calls).poses = <<>> /\ calls' = Tail(calls)
      /\ isDead' = isDead \cup {Head(calls).bomb}
      /\ UNCHANGED <<life, mainState, stateTimer, pos, heading, bombCount, kit, mapObj,
                     owner, timer, exploded, passable, phase, crashed>>
  BY DEF ChainInv, Return, AtBroadcast, stateVars, motionVars, kitVars, bombVars
<1>2. calls \in Seq(CallRec)
  BY <1>1 DEF Stack
<1>3. /\ Head(calls) = calls[1] /\ calls[1] \in CallRec /\ 1 \in 1 .. Len(calls)
      /\ Len(calls) \in Nat \ {0}
      /\ \A t, q : Awaits(calls, t, q) =>
           \/ Awaits(Tail(calls), t, q)
           \/ t = calls[1].bomb /\ \E j \in 1 .. Len(calls[1].poses) : calls[1].poses[j] = q
  BY <1>1, <1>2, PopCall
<1>4. ~ \E q : \E j \in 1 .. Len(calls[1].poses) : calls[1].poses[j] = q
  BY <1>1, <1>3
<1>5. calls[1].bomb \in Fired \cap Bombs
  BY <1>1, <1>3 DEF Midway, InChain, Stack
<1> QED BY <1>1, <1>3, <1>4, <1>5

\* what is destroyed stays so
LEMMA WetStays ==
  ASSUME isDead \subseteq isDead',
         UNCHANGED <<life, mainState, pos, mapObj, exploded>>, NEW q, Wet(q)
  PROVE  Wet(q)'
BY DEF Wet, Alive, Unexploded, Bombs, InTile

\* a call within another returns
LEMMA InnerReturn ==
  ASSUME ChainInv, Return, Len(calls) # 1
  PROVE  ChainInv' /\ UNCHANGED Atomic!vars
<1>1. /\ TypeOK /\ VisitsBombs /\ Counted /\ Stack /\ Midway
      /\ Running /\ calls # <<>> /\ Len(calls) \in Nat \ {0} /\ 1 \in 1 .. Len(calls)
      /\ calls[1].poses = <<>> /\ calls[1].bomb \in Fired \cap Bombs
      /\ isDead' = isDead \cup {calls[1].bomb}
      /\ \A t, q : Awaits(calls, t, q) => Awaits(calls', t, q)
      /\ UNCHANGED <<life, mainState, stateTimer, pos, heading, bombCount, kit, mapObj,
                     owner, timer, exploded, passable, phase, crashed>>
      /\ UNCHANGED <<before, toUpdate>>
  <2>1. UNCHANGED <<before, toUpdate>>
    BY DEF Return
  <2> QED BY <2>1, ReturnFrame
<1>2. /\ calls' \in Seq(CallRec) /\ Len(calls') = Len(calls) - 1
      /\ \A i \in 1 .. Len(calls') : calls'[i] = calls[i + 1]
  <2>1. calls \in Seq(CallRec) /\ calls' = Tail(calls)
    BY <1>1 DEF Stack, Return
  <2> QED BY <1>1, <2>1, PopCall
<1>3. Len(calls') \in Nat \ {0} /\ calls' # <<>>
  BY <1>1, <1>2
<1>4. \A i \in 1 .. Len(calls') : i + 1 \in 1 .. Len(calls) /\ calls'[i].bomb = calls[i + 1].bomb
  BY <1>1, <1>2
<1>5. /\ \A t : BlastTiles(t)' = BlastTiles(t)
      /\ Bombs' = Bombs
      /\ \A S : BlastOf(S)' = BlastOf(S)
      /\ \A S : Broken(S)' = Broken(S)
  BY <1>1, BlastFrame
<1>6. Fired' = Fired /\ Then' = Then /\ Alive' = Alive /\ Unexploded' = Unexploded
  BY <1>1, <1>5 DEF Fired, Then, Alive, Unexploded
<1>7. Root' = Root
  <2>1. Len(calls') \in 1 .. Len(calls') /\ Len(calls') + 1 = Len(calls)
    BY <1>1, <1>2, <1>3
  <2> QED BY <1>4, <2>1 DEF Root
<1>8. Stack'
  <2>1. ASSUME NEW i \in 1 .. Len(calls'), NEW j \in 1 .. Len(calls'),
               calls'[i].bomb = calls'[j].bomb
        PROVE  i = j
    <3>1. i + 1 = j + 1
      BY <1>1, <1>4, <2>1 DEF Stack
    <3> QED BY <3>1
  <2>2. \A i \in 1 .. Len(calls') : calls'[i].bomb \in Bombs' \cap exploded'
    BY <1>1, <1>4, <1>5 DEF Stack
  <2> QED BY <1>2, <2>1, <2>2 DEF Stack
<1>9. Snapshot /\ Visiting /\ InChain /\ NothingMissed /\ DeadRightly /\ TrappedRightly
  BY <1>1 DEF Midway
<1>10. Snapshot'
  BY <1>1, <1>5, <1>6, <1>9 DEF Snapshot
<1>11. Visiting'
  BY <1>1, <1>6, <1>7, <1>9 DEF Visiting, Ticked
<1>12. InChain'
  <2>1. before'.exploded \subseteq exploded' /\ exploded' \subseteq Bombs'
    BY <1>1, <1>5, <1>9 DEF InChain
  <2>2. \A t \in Fired' : owner'[t] \in Alive'
    BY <1>1, <1>6, <1>9 DEF InChain
  <2>3. \A i \in 1 .. Len(calls') : calls'[i].bomb \in Fired'
    BY <1>4, <1>6, <1>9 DEF InChain
  <2>4. ASSUME NEW i \in 1 .. Len(calls')
        PROVE  BlastTiles(calls'[i].bomb) = (BlastTiles(calls[i].bomb))'
    BY <1>1 DEF BlastTiles, Arm, GetMapObjectAt
  <2>5. \A i \in 1 .. Len(calls') : \A q :
          Listed(calls'[i].poses, q) => q \in BlastTiles(calls'[i].bomb)
    BY <1>2, <1>4, <1>9 DEF InChain
  <2>6. \A i \in 1 .. Len(calls') : \A q :
          Listed(calls'[i].poses, q) => q \in (BlastTiles(calls[i].bomb))'
    BY <2>4, <2>5
  <2>7. \A S \in SUBSET Then' :
          Root' \in S /\ (\A t \in S : BlastTiles(t)' \cap Then' \subseteq S) => Fired' \subseteq S
    BY <1>5, <1>6, <1>7, <1>9 DEF InChain
  <2> QED BY <2>1, <2>2, <2>3, <2>6, <2>7 DEF InChain, Listed
<1>13. NothingMissed'
  <2> SUFFICES ASSUME NEW t \in Fired', NEW q \in BlastTiles(t)
               PROVE  Awaits(calls', t, q) \/ Wet(q)'
    BY <1>5 DEF NothingMissed, Awaits
  <2>1. Awaits(calls, t, q) \/ Wet(q)
    BY <1>6, <1>9 DEF NothingMissed
  <2> QED BY <1>1, <2>1, WetStays
<1>14. DeadRightly'
  <2>1. Broken(Fired)' = Broken(Fired)
    BY <1>5, <1>6 DEF Broken, BlastOf
  <2>2. ASSUME NEW t \in Fired', t \notin isDead'
        PROVE  \E i \in 1 .. Len(calls') : calls'[i].bomb = t
    <3>1. PICK k \in 1 .. Len(calls) : calls[k].bomb = t
      BY <1>1, <1>6, <1>9, <2>2 DEF DeadRightly
    <3>2. k # 1
      BY <1>1, <2>2, <3>1
    <3>3. k - 1 \in 1 .. Len(calls') /\ (k - 1) + 1 = k
      BY <1>1, <1>2, <3>2
    <3> QED BY <1>4, <3>1, <3>3
  <2>3. before.isDead \subseteq isDead' /\ isDead' \subseteq before.isDead \cup Fired \cup Broken(Fired)
    BY <1>1, <1>9 DEF DeadRightly
  <2> QED BY <1>1, <1>6, <2>1, <2>2, <2>3 DEF DeadRightly
<1>15. TrappedRightly'
  <2>1. BlastOf(Fired)' = BlastOf(Fired)
    BY <1>5, <1>6 DEF BlastOf
  <2> QED BY <1>1, <1>6, <1>9, <2>1 DEF TrappedRightly, InTile
<1>16. Midway'
  BY <1>10, <1>11, <1>12, <1>13, <1>14, <1>15 DEF Midway
<1>17. TypeOK' /\ VisitsBombs'
  <2>1. isDead' \subseteq Tiles
    BY <1>1 DEF TypeOK, Bombs
  <2> QED BY <1>1, <1>5, <2>1 DEF TypeOK, VisitsBombs
<1>18. Counted'
  BY <1>1, <1>6, KeepsCounted
<1>19. ChainInv'
  BY <1>3, <1>8, <1>16, <1>17, <1>18 DEF ChainInv
<1>20. UNCHANGED Atomic!vars
  BY <1>1, <1>3 DEF Held, Atomic!vars, Atomic!stateVars, Atomic!motionVars,
     Atomic!kitVars, Atomic!mapVars, Atomic!bombVars, Atomic!tickVars
<1> QED BY <1>19, <1>20

\* what has gone off is part of the chain that GameRoom sets off
LEMMA FiredInChain ==
  ASSUME ChainInv, Running, calls # <<>>
  PROVE  /\ Atomic!Unexploded = Then /\ Fired \subseteq Then
         /\ \A S : Atomic!BlastClosed(S) <=> \A t \in S : BlastTiles(t) \cap Then \subseteq S
         /\ Fired \subseteq Atomic!Chain(Root)
         /\ \A t \in Fired : BlastTiles(t) \cap Then \subseteq Atomic!Chain(Root)
<1>1. InChain
  BY DEF ChainInv, Midway
<1>2. Fired \subseteq Then
  BY <1>1 DEF InChain, Fired, Then
<1>3. \A S \in SUBSET Then :
         Root \in S /\ (\A t \in S : BlastTiles(t) \cap Then \subseteq S) => Fired \subseteq S
  BY <1>1 DEF InChain
<1>4. Atomic!Unexploded = Then
  BY SameVisit DEF Atomic!Unexploded, Held, Then
<1>5. \A S : Atomic!BlastClosed(S) <=> \A t \in S : BlastTiles(t) \cap Then \subseteq S
  BY <1>4, SameBlast DEF Atomic!BlastClosed
<1>6. Atomic!Chain(Root) =
          {u \in Then : \A S \in SUBSET Then : Root \in S /\ Atomic!BlastClosed(S) => u \in S}
  BY <1>4 DEF Atomic!Chain
<1>7. \A u \in Fired : u \in Atomic!Chain(Root)
  BY <1>2, <1>3, <1>5, <1>6
<1>8. ASSUME NEW t \in Fired, NEW u \in BlastTiles(t) \cap Then
      PROVE  u \in Atomic!Chain(Root)
  BY <1>3, <1>5, <1>6
<1> QED BY <1>2, <1>4, <1>5, <1>7, <1>8

\* When only the first call is left and its loop has ended, the bombs that have
\* gone off are the chain of GameRoom, and what has been hit is what its one
\* step hits.
LEMMA ChainComplete ==
  ASSUME ChainInv, Running, calls # <<>>, Len(calls) = 1, calls[1].poses = <<>>
  PROVE  /\ Root = calls[1].bomb /\ Root \in Fired
         /\ Fired = Atomic!Chain(Root)
         /\ Fired \subseteq Then
         /\ \A t \in Fired : \A q \in BlastTiles(t) : Wet(q)
<1>1. Stack /\ InChain /\ NothingMissed
  BY DEF ChainInv, Midway
<1>2. Root = calls[1].bomb /\ 1 \in 1 .. Len(calls) /\ \A i \in 1 .. Len(calls) : i = 1
  BY DEF Root
<1>3. Root \in Fired /\ Fired \subseteq Then
  BY <1>1, <1>2 DEF InChain, Fired, Then
<1>4. \A t, q : ~ Awaits(calls, t, q)
  BY <1>2 DEF Awaits
<1>5. \A t \in Fired : \A q \in BlastTiles(t) : Wet(q)
  BY <1>1, <1>4 DEF NothingMissed
<1>6. \A t \in Fired : BlastTiles(t) \cap Then \subseteq Fired
  BY <1>5 DEF Wet, Then, Fired, Unexploded
<1>7. /\ Atomic!Unexploded = Then
      /\ \A S : Atomic!BlastClosed(S) <=> \A t \in S : BlastTiles(t) \cap Then \subseteq S
      /\ Fired \subseteq Atomic!Chain(Root)
  BY FiredInChain
<1>8. \A u \in Atomic!Chain(Root) : u \in Fired
  BY <1>3, <1>6, <1>7 DEF Atomic!Chain
<1> QED BY <1>2, <1>3, <1>5, <1>7, <1>8

\* every owner has got back as many bombs as have gone off
LEMMA GivenBack ==
  ASSUME TypeOK, Counted, Snapshot, InChain, NEW p \in Players
  PROVE  bombCount[p] = before.bombCount[p] - Cardinality({t \in Fired : owner[t] = p})
<1> DEFINE lost == {t \in Fired : owner[t] = p}
           had  == {t \in Then : owner[t] = p}
<1>1. /\ before.exploded \subseteq exploded /\ exploded \subseteq Bombs
      /\ \A t \in Fired : owner[t] \in Alive
  BY DEF InChain
<1>2. Bombs \subseteq Tiles /\ bombCount[p] \in Int
  BY DEF Bombs, TypeOK
<1>3. CASE p \in Alive
  <2>1. /\ bombCount[p] = Cardinality(OwnBombs(p))
        /\ before.bombCount[p] = Cardinality(had)
    BY <1>3 DEF Counted, BombAccounting, Snapshot
  <2>2. OwnBombs(p) = had \ lost /\ had \cap lost = lost /\ had \subseteq Tiles
    BY <1>1, <1>2 DEF OwnBombs, Unexploded, Then, Fired
  <2> HIDE DEF had, lost
  <2>3. IsFiniteSet(had)
    BY <2>2, TilesFinite, FS_Subset
  <2>4. Cardinality(OwnBombs(p)) = Cardinality(had) - Cardinality(lost)
    BY <2>2, <2>3, FS_Difference
  <2>5. Cardinality(had) \in Nat
    BY <2>3, FS_CardinalityType
  <2> QED BY <2>1, <2>4 DEF lost
<1>4. CASE p \notin Alive
  <2>1. lost = {}
    BY <1>1, <1>4
  <2>2. Cardinality(lost) = 0
    BY <2>1, FS_EmptySet
  <2>3. before.bombCount[p] = bombCount[p]
    BY <1>4 DEF Snapshot
  <2> QED BY <1>2, <2>2, <2>3
<1> QED BY <1>3, <1>4

\* who is trapped at the end is who the one step of GameRoom traps
LEMMA CaughtRightly ==
  ASSUME calls # <<>>, Snapshot, TrappedRightly, NEW p \in Players,
         \A t \in Fired : \A q \in BlastTiles(t) : Wet(q)
  PROVE  /\ mainState[p] = IF p \in Atomic!Caught(Fired) THEN "TRAPPED" ELSE before.mainState[p]
         /\ stateTimer[p] = IF p \in Atomic!Caught(Fired) THEN 0 ELSE before.stateTimer[p]
<1>1. p \in Atomic!Caught(Fired) <=>
         /\ p \in Alive /\ before.mainState[p] # "TRAPPED"
         /\ \E q \in BlastOf(Fired) : InTile(pos[p], q)
  BY SameBlast, SameGeometry DEF Atomic!Caught, Held
<1>2. \/ mainState[p] = before.mainState[p] /\ stateTimer[p] = before.stateTimer[p]
      \/ p \in Atomic!Caught(Fired) /\ mainState[p] = "TRAPPED" /\ stateTimer[p] = 0
  BY <1>1 DEF TrappedRightly
<1>3. ASSUME p \in Atomic!Caught(Fired)
      PROVE  mainState[p] = "TRAPPED" /\ mainState[p] # before.mainState[p]
  <2>1. PICK q \in BlastOf(Fired) : InTile(pos[p], q)
    BY <1>1, <1>3
  <2>2. Wet(q)
    BY <2>1 DEF BlastOf
  <2> QED BY <1>1, <1>3, <2>1, <2>2 DEF Wet
<1> QED BY <1>2, <1>3

\* the first call returns: the one step of GameRoom
LEMMA LastReturn ==
  ASSUME ChainInv, Return, Len(calls) = 1
  PROVE  ChainInv' /\ Atomic!Next
<1>1. /\ TypeOK /\ VisitsBombs /\ Counted /\ Stack /\ Midway
      /\ Running /\ calls # <<>> /\ calls[1].poses = <<>>
      /\ Head(calls) = calls[1]
      /\ isDead' = isDead \cup {calls[1].bomb}
      /\ calls' = Tail(calls)
      /\ UNCHANGED <<life, mainState, stateTimer, pos, heading, bombCount, kit, mapObj,
                     owner, timer, exploded, passable, phase, crashed>>
  BY ReturnFrame
<1>2. Snapshot /\ Visiting /\ InChain /\ NothingMissed /\ DeadRightly /\ TrappedRightly
  BY <1>1 DEF Midway
<1>3. /\ Root = calls[1].bomb /\ Root \in Fired
      /\ Fired = Atomic!Chain(Root)
      /\ Fired \subseteq Then
      /\ \A t \in Fired : \A q \in BlastTiles(t) : Wet(q)
  BY <1>1, ChainComplete
<1>4. calls' = <<>> /\ toUpdate' = toUpdate \ {Root}
  <2>1. Tail(calls) \in Seq(CallRec) /\ Len(Tail(calls)) = 0
    BY <1>1, PopCall DEF Stack
  <2>2. \A s \in Seq(CallRec) : Len(s) = 0 => s = <<>>
    OBVIOUS
  <2>3. Tail(calls) = <<>>
    BY <2>1, <2>2
  <2> QED BY <1>1, <1>3, <2>3 DEF Return
<1>5. /\ exploded = before.exploded \cup Fired /\ Fired \subseteq Bombs /\ Fired \subseteq Tiles
      /\ \A t \in Fired : owner[t] \in Alive
  BY <1>2, <1>3 DEF InChain, Fired, Then, Bombs
<1>6. isDead' = before.isDead \cup Fired \cup Broken(Fired)
  <2>1. \A t \in Fired : t \in isDead'
    <3>1. \A i \in 1 .. Len(calls) : i = 1
      OBVIOUS
    <3> QED BY <1>1, <1>2, <3>1 DEF DeadRightly
  <2>2. \A t \in Broken(Fired) : t \in isDead
    BY <1>3 DEF Broken, BlastOf, Wet
  <2>3. before.isDead \subseteq isDead /\ isDead \subseteq before.isDead \cup Fired \cup Broken(Fired)
    BY <1>2 DEF DeadRightly
  <2> QED BY <1>1, <1>3, <2>1, <2>2, <2>3
<1>7. bombCount = [p \in Players |-> before.bombCount[p] - Cardinality({t \in Fired : owner[t] = p})]
  BY <1>1, <1>2, GivenBack DEF TypeOK
<1>8. /\ mainState = [p \in Players |->
             IF p \in Atomic!Caught(Fired) THEN "TRAPPED" ELSE before.mainState[p]]
      /\ stateTimer = [p \in Players |->
             IF p \in Atomic!Caught(Fired) THEN 0 ELSE before.stateTimer[p]]
  BY <1>1, <1>2, <1>3, CaughtRightly DEF TypeOK
<1>9. Atomic!Explode(Fired)
  <2>1. /\ Held(exploded, before.exploded)' = exploded'
        /\ Held(isDead, before.isDead)' = isDead'
        /\ Held(bombCount, before.bombCount)' = bombCount'
        /\ Held(mainState, before.mainState)' = mainState'
        /\ Held(stateTimer, before.stateTimer)' = stateTimer'
    BY <1>4 DEF Held
  <2>2. /\ Held(exploded, before.exploded) = before.exploded
        /\ Held(isDead, before.isDead) = before.isDead
        /\ Held(bombCount, before.bombCount) = before.bombCount
        /\ Held(mainState, before.mainState) = before.mainState
        /\ Held(stateTimer, before.stateTimer) = before.stateTimer
    BY <1>1 DEF Held
  <2>3. \A t \in Fired : owner[t] \in Atomic!Alive
    BY <1>5, SameGeometry
  <2>4. Held(exploded, before.exploded)' = Held(exploded, before.exploded) \cup Fired
    BY <1>1, <1>5, <2>1, <2>2
  <2>5. Held(isDead, before.isDead)' = Held(isDead, before.isDead) \cup Fired \cup Atomic!Broken(Fired)
    BY <1>6, <2>1, <2>2, SameBlast
  <2>6. Held(bombCount, before.bombCount)' =
          [p \in Players |-> Held(bombCount, before.bombCount)[p]
                             - Atomic!Cardinality({t \in Fired : owner[t] = p})]
    BY <1>1, <1>7, <2>1, <2>2, SameCount
  <2>7. Held(mainState, before.mainState)' =
          [p \in Players |-> IF p \in Atomic!Caught(Fired) THEN "TRAPPED"
                             ELSE Held(mainState, before.mainState)[p]]
    BY <1>1, <1>8, <2>1, <2>2
  <2>8. Held(stateTimer, before.stateTimer)' =
          [p \in Players |-> IF p \in Atomic!Caught(Fired) THEN 0
                             ELSE Held(stateTimer, before.stateTimer)[p]]
    BY <1>1, <1>8, <2>1, <2>2
  <2> QED BY <1>1, <2>3, <2>4, <2>5, <2>6, <2>7, <2>8 DEF Atomic!Explode, Atomic!motionVars
<1>10. Atomic!UpdateBombExplode(Root)
  <2>1. Atomic!Visit(Root) /\ Root \in Atomic!Tiles
    BY <1>1, <1>2, <1>3, <1>5, SameVisit, SameConstants DEF Visit, Visiting
  <2>2. Root \notin Held(exploded, before.exploded)
    BY <1>1, <1>3 DEF Held, Fired
  <2>3. Atomic!Ticked(timer[Root]) >= ExplosionTicks
    BY <1>2, SameVisit DEF Visiting
  <2>4. crashed' = "none"
    BY <1>1 DEF Running
  <2> QED BY <1>3, <1>4, <1>9, <2>1, <2>2, <2>3, <2>4 DEF Atomic!UpdateBombExplode
<1>11. Atomic!Next
  <2>1. Root \in Atomic!Tiles
    BY <1>3, <1>5, SameConstants
  <2> QED BY <1>10, <2>1 DEF Atomic!UpdateBomb, Atomic!Update, Atomic!Next
<1>12. Bombs' = Bombs /\ Alive' = Alive
  BY <1>1 DEF Bombs, Alive
<1>13. TypeOK' /\ VisitsBombs' /\ Stack'
  <2>1. isDead' \subseteq Tiles /\ toUpdate' \subseteq toUpdate
    BY <1>1, <1>3, <1>4, <1>5 DEF TypeOK
  <2>2. TypeOK' /\ VisitsBombs'
    BY <1>1, <1>12, <2>1 DEF TypeOK, VisitsBombs
  <2> QED BY <1>4, <2>2 DEF Stack
<1>14. Counted'
  BY <1>1, <1>12, KeepsCounted
<1>15. BombInv'
  <2>1. Broken(Fired) \cap Bombs = {}
    BY DEF Broken, Bombs, Items
  <2>2. before.exploded = before.isDead \cap Bombs
    BY <1>2 DEF Snapshot
  <2>3. DeadBombs'
    BY <1>1, <1>5, <1>6, <1>12, <2>1, <2>2 DEF DeadBombs
  <2>4. Cleaned'
    BY <1>1, <1>2 DEF Cleaned, Visiting
  <2> QED BY <1>14, <2>3, <2>4 DEF BombInv, Counted
<1>16. ChainInv'
  BY <1>4, <1>13, <1>14, <1>15 DEF ChainInv
<1> QED BY <1>11, <1>16

-----------------------------------------------------------------------------
(* The other steps *)

\* who drops out changes nothing that matters
LEMMA MidwayFrame ==
  ASSUME Midway, Alive' = Alive,
         UNCHANGED <<mainState, stateTimer, pos, bombCount, kit, mapObj, isDead, owner, timer,
                     exploded, phase, toUpdate, calls, before>>
  PROVE  Midway'
<1>1. /\ \A t : BlastTiles(t)' = BlastTiles(t)
      /\ Bombs' = Bombs
      /\ \A S : BlastOf(S)' = BlastOf(S)
      /\ \A S : Broken(S)' = Broken(S)
  BY BlastFrame
<1>2. Fired' = Fired /\ Then' = Then /\ Unexploded' = Unexploded /\ Root' = Root
  BY <1>1 DEF Fired, Then, Unexploded, Root
<1>3. Snapshot'
  BY <1>1, <1>2 DEF Midway, Snapshot
<1>4. Visiting'
  BY <1>2 DEF Midway, Visiting, Ticked
<1>5. InChain'
  <2>1. InChain
    BY DEF Midway
  <2>2. before'.exploded \subseteq exploded' /\ exploded' \subseteq Bombs'
    BY <1>1, <2>1 DEF InChain
  <2>3. /\ \A t \in Fired' : owner'[t] \in Alive'
        /\ \A i \in 1 .. Len(calls') : calls'[i].bomb \in Fired'
    BY <1>2, <2>1 DEF InChain
  <2>4. ASSUME NEW i \in 1 .. Len(calls)
        PROVE  BlastTiles(calls[i].bomb) = (BlastTiles(calls[i].bomb))'
    BY DEF BlastTiles, Arm, GetMapObjectAt
  <2>5. \A i \in 1 .. Len(calls') : \A q :
          Listed(calls'[i].poses, q) => q \in (BlastTiles(calls[i].bomb))'
    BY <2>1, <2>4 DEF InChain
  <2>6. \A S \in SUBSET Then' :
          Root' \in S /\ (\A t \in S : BlastTiles(t)' \cap Then' \subseteq S) => Fired' \subseteq S
    BY <1>1, <1>2, <2>1 DEF InChain
  <2> QED BY <2>2, <2>3, <2>5, <2>6 DEF InChain, Listed
<1>6. NothingMissed'
  <2>1. \A q : Wet(q)' <=> Wet(q)
    BY <1>2 DEF Wet, InTile
  <2> QED BY <1>1, <1>2, <2>1 DEF Midway, NothingMissed, Awaits
<1>7. DeadRightly'
  <2>1. Broken(Fired)' = Broken(Fired)
    BY <1>1, <1>2 DEF Broken, BlastOf
  <2> QED BY <1>2, <2>1 DEF Midway, DeadRightly
<1>8. TrappedRightly'
  <2>1. BlastOf(Fired)' = BlastOf(Fired)
    BY <1>1, <1>2 DEF BlastOf
  <2> QED BY <2>1 DEF Midway, TrappedRightly, InTile
<1> QED BY <1>3, <1>4, <1>5, <1>6, <1>7, <1>8 DEF Midway

\* a player drops out of a broadcast of an explosion
LEMMA LeaveInv ==
  ASSUME ChainInv, NEW p \in Players, LeaveInBroadcast(p)
  PROVE  ChainInv' /\ Atomic!Next
<1>1. /\ TypeOK /\ VisitsBombs /\ Counted /\ Stack /\ Midway /\ Running /\ calls # <<>>
      /\ LeaveRoom(p) /\ life[p] = "in" /\ life' = [life EXCEPT ![p] = "dead"]
      /\ UNCHANGED <<mainState, stateTimer, pos, heading, bombCount, kit, mapObj, isDead, owner,
                     timer, exploded, passable, phase, toUpdate, crashed, calls, before>>
  BY DEF ChainInv, LeaveInBroadcast, Broadcasting, AtBroadcast, LeaveRoom, motionVars, kitVars, mapVars,
         bombVars, tickVars, chainVars
<1>2. Alive' = Alive
  BY <1>1 DEF Alive, TypeOK
<1>3. TypeOK'
  BY <1>1, HandleTypeOK
<1>4. Counted'
  BY <1>1, <1>2, KeepsCounted DEF TypeOK
<1>5. VisitsBombs' /\ Stack'
  BY <1>1 DEF VisitsBombs, Stack, Bombs
<1>6. Midway'
  BY <1>1, <1>2, MidwayFrame
<1>7. ChainInv'
  BY <1>1, <1>3, <1>4, <1>5, <1>6 DEF ChainInv
<1>8. Atomic!LeaveRoom(p)
  BY <1>1 DEF Held, Atomic!LeaveRoom, Atomic!Running, Running, Atomic!motionVars, Atomic!kitVars,
              Atomic!mapVars, Atomic!bombVars, Atomic!tickVars
<1> QED BY <1>7, <1>8 DEF Atomic!Next

\* the server dies in a chain
LEMMA CrashInv ==
  ASSUME ChainInv, NEW cause \in {"ownerGone", "badCast"}, CrashWith(cause), UNCHANGED chainVars
  PROVE  ChainInv' /\ Atomic!CrashWith(cause)
<1>1. /\ TypeOK /\ VisitsBombs /\ Counted /\ Stack
      /\ crashed' = cause
      /\ UNCHANGED <<life, mainState, stateTimer, pos, heading, bombCount, kit, mapObj, isDead,
                     owner, timer, exploded, passable, phase, toUpdate, calls, before>>
  BY DEF ChainInv, CrashWith, stateVars, motionVars, kitVars, mapVars, bombVars, tickVars, chainVars
<1>2. TypeOK'
  BY <1>1, CrashTypeOK DEF Crash
<1>3. Alive' = Alive
  BY <1>1 DEF Alive
<1>4. Counted'
  BY <1>1, <1>3, KeepsCounted
<1>5. VisitsBombs' /\ Stack'
  BY <1>1 DEF VisitsBombs, Stack, Bombs
<1>6. ~ Running'
  BY <1>1 DEF Running
<1>7. ChainInv'
  BY <1>2, <1>4, <1>5, <1>6 DEF ChainInv
<1>8. Atomic!CrashWith(cause)
  BY <1>1 DEF Held, Atomic!CrashWith, Atomic!stateVars, Atomic!motionVars, Atomic!kitVars,
              Atomic!mapVars, Atomic!bombVars, Atomic!tickVars
<1> QED BY <1>7, <1>8

\* the same step of GameRoom, when a bomb of the chain has no owner
LEMMA AtomicCrash ==
  ASSUME NEW cause \in {"ownerGone", "badCast"}, Atomic!CrashWith(cause), UNCHANGED toUpdate,
         NEW t \in Tiles, Visit(t), t \notin Held(exploded, before.exploded),
         Ticked(timer[t]) >= ExplosionTicks,
         IF cause = "ownerGone" THEN \E u \in Atomic!Chain(t) : owner[u] \notin Alive
         ELSE Broken(Atomic!Chain(t)) # {}
  PROVE  Atomic!Next
<1>1. Atomic!Explode(Atomic!Chain(t))
  BY SameBlast, SameGeometry DEF Atomic!Explode
<1>2. crashed' # "none"
  BY DEF Atomic!CrashWith
<1>3. Atomic!UpdateBombExplode(t)
  BY <1>1, <1>2, SameVisit, SameConstants DEF Atomic!UpdateBombExplode
<1> QED BY <1>3, SameConstants DEF Atomic!UpdateBomb, Atomic!Update, Atomic!Next

\* the innermost loop is at a tile of the blast of its bomb
LEMMA AtInBlast ==
  ASSUME ChainInv, InLoop
  PROVE  /\ Running /\ calls # <<>> /\ Midway
         /\ calls[1].bomb \in Fired /\ At \in BlastTiles(calls[1].bomb)
         /\ Root \in Tiles /\ Visit(Root) /\ Root \notin before.exploded
         /\ Ticked(timer[Root]) >= ExplosionTicks
<1>1. Running /\ calls # <<>> /\ Head(calls).poses # <<>> /\ Midway /\ Stack /\ TypeOK
  BY DEF ChainInv, InLoop
<1>2. Head(calls) = calls[1] /\ calls[1] \in CallRec /\ 1 \in 1 .. Len(calls)
  BY <1>1, PopCall DEF Stack
<1>3. calls[1].poses \in Seq(Spots)
  BY <1>2 DEF CallRec
<1>4. Listed(calls[1].poses, At)
  <2>1. calls[1].poses # <<>> /\ At = Head(calls[1].poses)
    BY <1>1, <1>2 DEF At
  <2>2. At = calls[1].poses[1] /\ 1 \in 1 .. Len(calls[1].poses)
    BY <1>3, <2>1
  <2> QED BY <2>2 DEF Listed
<1>5. calls[1].bomb \in Fired /\ At \in BlastTiles(calls[1].bomb)
  BY <1>1, <1>2, <1>4 DEF Midway, InChain
<1>6. Root \in Fired /\ Root \in toUpdate /\ phase = "update" /\ Ticked(timer[Root]) >= ExplosionTicks
  BY <1>1 DEF Midway, Visiting
<1>7. Root \in Tiles /\ Root \notin before.exploded
  BY <1>1, <1>6 DEF Fired, TypeOK
<1> QED BY <1>1, <1>5, <1>6, <1>7 DEF Visit

\* the server dies at a tile of the loop
LEMMA PoseCrashInv ==
  ASSUME ChainInv, PoseBadCast \/ PoseOrphan
  PROVE  ChainInv' /\ Atomic!Next
<1>1. /\ Running /\ calls # <<>> /\ Midway
      /\ calls[1].bomb \in Fired /\ At \in BlastTiles(calls[1].bomb)
      /\ Root \in Tiles /\ Visit(Root) /\ Root \notin before.exploded
      /\ Ticked(timer[Root]) >= ExplosionTicks
  BY AtInBlast DEF PoseBadCast, PoseOrphan
<1>2. /\ Fired \subseteq Atomic!Chain(Root)
      /\ \A t \in Fired : BlastTiles(t) \cap Then \subseteq Atomic!Chain(Root)
  BY <1>1, FiredInChain
<1>3. Root \notin Held(exploded, before.exploded)
  BY <1>1 DEF Held
<1>4. PICK r \in Tiles : r = Root
  BY <1>1
<1>5. CASE PoseBadCast
  <2>1. CrashWith("badCast") /\ UNCHANGED chainVars
    BY <1>5 DEF PoseBadCast
  <2>2. ChainInv' /\ Atomic!CrashWith("badCast")
    BY <2>1, CrashInv
  <2>3. At \in Tiles /\ mapObj[At] \in Items \cup {"BREAKABLE"}
    BY <1>5 DEF PoseBadCast, GetMapObjectAt, Items
  <2>4. At \in Broken(Atomic!Chain(r))
    BY <1>1, <1>2, <1>4, <2>3 DEF Broken, BlastOf
  <2>5. UNCHANGED toUpdate
    BY <2>1 DEF CrashWith, tickVars
  <2> QED BY <1>1, <1>3, <1>4, <2>2, <2>4, <2>5, AtomicCrash
<1>6. CASE PoseOrphan
  <2>1. At \in Unexploded /\ owner[At] \notin Alive /\ CrashWith("ownerGone") /\ UNCHANGED chainVars
    BY <1>6 DEF PoseOrphan, CallOrphan
  <2>2. ChainInv' /\ Atomic!CrashWith("ownerGone")
    BY <2>1, CrashInv
  <2>3. At \in Then
    BY <1>1, <2>1 DEF Unexploded, Then, Midway, InChain
  <2>4. At \in Atomic!Chain(r)
    BY <1>1, <1>2, <1>4, <2>3
  <2>5. UNCHANGED toUpdate
    BY <2>1 DEF CrashWith, tickVars
  <2> QED BY <1>1, <1>3, <1>4, <2>1, <2>2, <2>4, <2>5, AtomicCrash
<1> QED BY <1>5, <1>6

\* the server dies at the first bomb
LEMMA FireOrphanInv ==
  ASSUME ChainInv, NEW t \in Tiles, FireOrphan(t)
  PROVE  ChainInv' /\ Atomic!Next
<1>1. /\ Visit(t) /\ calls = <<>> /\ t \notin exploded /\ Ticked(timer[t]) >= ExplosionTicks
      /\ owner[t] \notin Alive /\ CrashWith("ownerGone") /\ UNCHANGED chainVars
  BY DEF FireOrphan, CallOrphan
<1>2. ChainInv' /\ Atomic!CrashWith("ownerGone")
  BY <1>1, CrashInv
<1>3. t \in Unexploded
  BY <1>1 DEF ChainInv, VisitsBombs, Visit, Unexploded
<1>4. Atomic!Unexploded = Unexploded /\ Held(exploded, before.exploded) = exploded
  BY <1>1, SameVisit DEF Atomic!Unexploded, Held, Unexploded
<1>5. t \in Atomic!Chain(t)
  BY <1>3, <1>4 DEF Atomic!Chain
<1>6. UNCHANGED toUpdate
  BY <1>1 DEF CrashWith, tickVars
<1> QED BY <1>1, <1>2, <1>4, <1>5, <1>6, AtomicCrash

\* outside of a chain
LEMMA ElsewhereInv ==
  ASSUME ChainInv, Elsewhere
  PROVE  ChainInv' /\ Atomic!Next
<1>1. calls = <<>> /\ calls' = <<>> /\ Next /\ Atomic!Next
  BY ElsewhereIsNext
<1>2. Running
  BY DEF Elsewhere, EnterRoom, LeaveRoom, Handle, HandleForMissing, Handle_C_Move,
         Handle_C_WaterBomb, Handle_C_Skill, UpdatePlayer, UpdateNull, UpdateNormal,
         UpdateTrapped, UpdateEscape, UpdateDead, BeginUpdate, UpdateBombWait,
         RemoveDeadObjects, Idle, Visit
<1>3. TypeOK /\ VisitsBombs /\ BombInv
  BY <1>1, <1>2 DEF ChainInv
<1>4. TypeOK' /\ VisitsBombs' /\ BombInv'
  BY <1>1, <1>3, NextTypeOK, NextVisitsBombs, NextBombInv
<1> QED BY <1>1, <1>4 DEF ChainInv, Counted, BombInv, Stack

\* nothing happens
LEMMA StutterInv ==
  ASSUME ChainInv, UNCHANGED <<vars, chainVars>>
  PROVE  ChainInv' /\ UNCHANGED Atomic!vars
<1>1. UNCHANGED <<life, mainState, stateTimer, pos, heading, bombCount, kit, mapObj, isDead,
                  owner, timer, exploded, passable, phase, toUpdate, crashed, calls, before>>
  BY DEF vars, stateVars, motionVars, kitVars, mapVars, bombVars, tickVars, chainVars
<1>2. TypeOK' /\ VisitsBombs'
  BY NextTypeOK, NextVisitsBombs DEF ChainInv
<1>3. Stack' /\ Alive' = Alive
  BY <1>1 DEF ChainInv, Stack, Bombs, Alive
<1>4. Counted'
  BY <1>1, <1>3, KeepsCounted DEF ChainInv
<1>5. ASSUME Running, calls = <<>>
      PROVE  BombInv'
  BY <1>5, NextBombInv DEF ChainInv
<1>6. ASSUME Running, calls # <<>>
      PROVE  Midway'
  BY <1>1, <1>3, <1>6, MidwayFrame DEF ChainInv
<1>7. ChainInv'
  BY <1>1, <1>2, <1>3, <1>4, <1>5, <1>6 DEF ChainInv, Running
<1>8. UNCHANGED Atomic!vars
  BY <1>1 DEF Held, Atomic!vars, Atomic!stateVars, Atomic!motionVars,
     Atomic!kitVars, Atomic!mapVars, Atomic!bombVars, Atomic!tickVars
<1> QED BY <1>7, <1>8

\* every step keeps the invariant and is a step of GameRoom or none
LEMMA ChainStep ==
  ChainInv /\ [ChainNext]_<<vars, chainVars>> => ChainInv' /\ [Atomic!Next]_(Atomic!vars)
<1> SUFFICES ASSUME ChainInv, [ChainNext]_<<vars, chainVars>>
             PROVE  ChainInv' /\ [Atomic!Next]_(Atomic!vars)
  OBVIOUS
<1>1. CASE Elsewhere
  BY <1>1, ElsewhereInv
<1>2. ASSUME NEW t \in Tiles, Fire(t)
      PROVE  ChainInv' /\ UNCHANGED Atomic!vars
  BY <1>2, FireInv
<1>3. ASSUME NEW t \in Tiles, FireOrphan(t)
      PROVE  ChainInv' /\ Atomic!Next
  BY <1>3, FireOrphanInv
<1>4. CASE PoseQuiet \/ PoseDestroy \/ PoseBomb
  BY <1>4, PoseInv
<1>5. CASE PoseBadCast \/ PoseOrphan
  BY <1>5, PoseCrashInv
<1>6. CASE Return
  BY <1>6, InnerReturn, LastReturn
<1>7. ASSUME NEW p \in Players, LeaveInBroadcast(p)
      PROVE  ChainInv' /\ Atomic!Next
  BY <1>7, LeaveInv
<1>8. CASE UNCHANGED <<vars, chainVars>>
  BY <1>8, StutterInv
<1> QED BY <1>1, <1>2, <1>3, <1>4, <1>5, <1>6, <1>7, <1>8 DEF ChainNext, Loop

LEMMA ChainStart == ChainInit => ChainInv /\ Atomic!Init
<1> SUFFICES ASSUME ChainInit
             PROVE  ChainInv /\ Atomic!Init
  OBVIOUS
<1>1. Init /\ calls = <<>>
  BY DEF ChainInit
<1>2. TypeOK /\ BombInv
  BY <1>1, InitTypeOK, InitBombInv
<1>3. VisitsBombs /\ Stack
  BY <1>1 DEF Init, VisitsBombs, Stack
<1>4. ChainInv
  BY <1>1, <1>2, <1>3 DEF ChainInv, BombInv, Counted
<1>5. Atomic!Init
  BY <1>1, SameConstants DEF Init, Atomic!Init, Held
<1> QED BY <1>4, <1>5

LEMMA ChainInvHolds == ChainSpec => []ChainInv
<1>1. ChainInit => ChainInv
  BY ChainStart
<1>2. ChainInv /\ [ChainNext]_<<vars, chainVars>> => ChainInv'
  BY ChainStep
<1> QED BY <1>1, <1>2, PTL DEF ChainSpec
-----------------------------------------------------------------------------
(* The theorems *)

\* The recursion of GameRoom::Explode and WaterBomb::Explode is the one step of
\* GameRoom, for every map, every number of bombs and of calls: the bombs that
\* go off are the least set closed under blasts, every owner gets its bombs
\* back, and the same players, items and blocks are hit, whatever the order of
\* the tiles and whoever drops out in between.
THEOREM RecursionIsOneStep == ChainSpec => AtomicChains
<1>1. ChainInit => Atomic!Init
  BY ChainStart
<1>2. ChainInv /\ [ChainNext]_<<vars, chainVars>> => [Atomic!Next]_(Atomic!vars)
  BY ChainStep
<1> QED BY <1>1, <1>2, ChainInvHolds, PTL DEF ChainSpec, AtomicChains, Atomic!Spec

\* The same of the steps alone.
THEOREM EveryChainIsOneStep == ChainSpec => ChainIsOneStep
<1>1. ChainInv /\ [ChainNext]_<<vars, chainVars>> => [Atomic!Next]_(Atomic!vars)
  BY ChainStep
<1> QED BY <1>1, ChainInvHolds, PTL DEF ChainSpec, ChainIsOneStep

\* No bomb is exploded inside its own explosion, so the recursion is never
\* deeper than the map has bombs.
THEOREM StackStaysDistinct == ChainSpec => []StackOfDistinctBombs
<1>1. ChainInv => StackOfDistinctBombs
  <2> SUFFICES ASSUME ChainInv
               PROVE  StackOfDistinctBombs
    OBVIOUS
  <2>1. Stack
    BY DEF ChainInv
  <2>2. PICK n \in Nat : n = Len(calls)
    BY <2>1 DEF Stack
  <2> DEFINE f == [i \in 1 .. n |-> calls[i].bomb]
  <2>3. f \in Bijection(1 .. n, OnStack)
    BY <2>1, <2>2 DEF Stack, OnStack, Bijection, Injection, Surjection, IsInjective
  <2>4. ExistsBijection(1 .. n, OnStack)
    BY <2>3 DEF ExistsBijection
  <2>5. IsFiniteSet(1 .. n) /\ Cardinality(1 .. n) = n
    BY FS_Interval
  <2>6. Cardinality(OnStack) = Len(calls)
    BY <2>2, <2>4, <2>5, FS_Bijection
  <2>7. OnStack \subseteq Bombs \cap exploded
    BY <2>1 DEF Stack, OnStack
  <2> QED BY <2>6, <2>7 DEF StackOfDistinctBombs
<1> QED BY <1>1, ChainInvHolds, PTL

\* The recursion leaves no unexploded bomb behind in a blast it is done with.
THEOREM NoneForgotten == ChainSpec => []NoBombForgotten
<1>1. ChainInv => NoBombForgotten
  <2> SUFFICES ASSUME ChainInv, calls # <<>>, Running,
                      NEW t \in Fired, NEW q \in BlastTiles(t) \cap Unexploded
               PROVE  /\ q \in Tiles
                      /\ \E i \in 1 .. Len(calls) :
                            /\ calls[i].bomb = t
                            /\ q \in {calls[i].poses[j] : j \in 1 .. Len(calls[i].poses)}
    BY DEF NoBombForgotten
  <2>1. Awaits(calls, t, q) \/ Wet(q)
    BY DEF ChainInv, Midway, NothingMissed
  <2>2. Awaits(calls, t, q)
    BY <2>1 DEF Wet
  <2>3. q \in Tiles
    BY DEF Unexploded, Bombs
  <2> QED BY <2>2, <2>3 DEF Awaits
<1> QED BY <1>1, ChainInvHolds, PTL

=============================================================================
