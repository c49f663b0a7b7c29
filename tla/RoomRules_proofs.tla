--------------------------- MODULE RoomRules_proofs ---------------------------
(* The rules of the game as theorems of GameRoom, for every map, number of  *)
(* players and timing: what a walk, an explosion and a change of state may  *)
(* do.                                                                      *)
EXTENDS RoomFeed_proofs, WellFoundedInduction

Spots == Int \X Int
-----------------------------------------------------------------------------
(* Directions *)

LEMMA AlongDirs ==
  ASSUME NEW a \in Spots, NEW j \in Int
  PROVE  /\ Along(a, "UP", j)    = <<a[1], a[2] - j>>
         /\ Along(a, "DOWN", j)  = <<a[1], a[2] + j>>
         /\ Along(a, "LEFT", j)  = <<a[1] - j, a[2]>>
         /\ Along(a, "RIGHT", j) = <<a[1] + j, a[2]>>
<1>1. a[1] \in Int /\ a[2] \in Int
  BY DEF Spots
<1>2. /\ DirVec["UP"] = <<0, -1>> /\ DirVec["DOWN"] = <<0, 1>>
      /\ DirVec["LEFT"] = <<-1, 0>> /\ DirVec["RIGHT"] = <<1, 0>>
  BY DEF DirVec
<1>3. j * 0 = 0 /\ j * 1 = j /\ j * (-1) = -j
  OBVIOUS
<1> QED BY <1>1, <1>2, <1>3 DEF Along

LEMMA PosAndTiles == Pos \subseteq Spots /\ Tiles \subseteq Spots
BY GameRoomAssumption DEF Pos, Tiles, Spots
-----------------------------------------------------------------------------
(* Walking *)

LEMMA AbsSmall == \A n \in Int : Abs(n) <= 1 <=> -1 <= n /\ n <= 1
BY DEF Abs

\* Two lattice steps ahead of the player is the only place for an obstacle
\* that it did not touch before.
LEMMA ObstacleAhead ==
  ASSUME NEW q \in Spots, NEW d \in AllDirs, NEW c \in Spots,
         ~Touches(q, c), Touches(Along(q, d, 1), c)
  PROVE  Along(c, d, -2) \in Spots
         /\ (d \in {"UP", "DOWN"} => Along(c, d, -2)[2] = q[2] /\ Along(q, d, 1)[1] = q[1])
         /\ (d \notin {"UP", "DOWN"} => Along(c, d, -2)[1] = q[1] /\ Along(q, d, 1)[2] = q[2])
<1>1. q[1] \in Int /\ q[2] \in Int /\ c[1] \in Int /\ c[2] \in Int
  BY DEF Spots
<1>2. CASE d = "UP"
  <2>1. Along(q, d, 1) = <<q[1], q[2] - 1>> /\ Along(c, d, -2) = <<c[1], c[2] + 2>>
    <3>1. Along(c, d, -2) = <<c[1], c[2] - (-2)>>
      BY <1>2, AlongDirs
    <3>2. c[2] - (-2) = c[2] + 2
      BY <1>1
    <3> QED BY <1>2, <3>1, <3>2, AlongDirs
  <2>2. c[2] = q[2] - 2
    BY <1>1, <2>1, AbsSmall DEF Touches
  <2> QED BY <1>1, <1>2, <2>1, <2>2 DEF Spots
<1>3. CASE d = "DOWN"
  <2>1. Along(q, d, 1) = <<q[1], q[2] + 1>> /\ Along(c, d, -2) = <<c[1], c[2] - 2>>
    <3>1. Along(c, d, -2) = <<c[1], c[2] + (-2)>>
      BY <1>3, AlongDirs
    <3>2. c[2] + (-2) = c[2] - 2
      BY <1>1
    <3> QED BY <1>3, <3>1, <3>2, AlongDirs
  <2>2. c[2] = q[2] + 2
    BY <1>1, <2>1, AbsSmall DEF Touches
  <2> QED BY <1>1, <1>3, <2>1, <2>2 DEF Spots
<1>4. CASE d = "LEFT"
  <2>1. Along(q, d, 1) = <<q[1] - 1, q[2]>> /\ Along(c, d, -2) = <<c[1] + 2, c[2]>>
    <3>1. Along(c, d, -2) = <<c[1] - (-2), c[2]>>
      BY <1>4, AlongDirs
    <3>2. c[1] - (-2) = c[1] + 2
      BY <1>1
    <3> QED BY <1>4, <3>1, <3>2, AlongDirs
  <2>2. c[1] = q[1] - 2
    BY <1>1, <2>1, AbsSmall DEF Touches
  <2> QED BY <1>1, <1>4, <2>1, <2>2 DEF Spots
<1>5. CASE d = "RIGHT"
  <2>1. Along(q, d, 1) = <<q[1] + 1, q[2]>> /\ Along(c, d, -2) = <<c[1] - 2, c[2]>>
    <3>1. Along(c, d, -2) = <<c[1] + (-2), c[2]>>
      BY <1>5, AlongDirs
    <3>2. c[1] + (-2) = c[1] - 2
      BY <1>1
    <3> QED BY <1>5, <3>1, <3>2, AlongDirs
  <2>2. c[1] = q[1] + 2
    BY <1>1, <2>1, AbsSmall DEF Touches
  <2> QED BY <1>1, <1>5, <2>1, <2>2 DEF Spots
<1> QED BY <1>2, <1>3, <1>4, <1>5 DEF AllDirs

\* A set of numbers has a least one.
LEMMA LeastOf ==
  ASSUME NEW S \in SUBSET Nat, S # {}
  PROVE  \E n \in S : \A k \in S : n <= k
<1>1. PICK n \in S : \A k \in S : ~ (<<k, n>> \in OpToRel(<, Nat))
  BY NatLessThanWellFounded, WFMin, Zenon
<1>2. \A k \in S : ~ (k < n)
  BY <1>1 DEF OpToRel
<1> QED BY <1>2

\* The scan of TryMove comes to one of the obstacles first.
LEMMA FirstObstacle ==
  ASSUME NEW S \in SUBSET Tiles, S # {}
  PROVE  (CHOOSE t \in S : \A u \in S : ScanOrder(t, u)) \in S
<1> DEFINE Rows == {t[2] : t \in S}
<1>1. Rows \in SUBSET Nat /\ Rows # {}
  BY GameRoomAssumption DEF Tiles
<1>2. PICK r \in Rows : \A k \in Rows : r <= k
  BY <1>1, LeastOf
<1> DEFINE Cols == {t[1] : t \in {u \in S : u[2] = r}}
<1>3. Cols \in SUBSET Nat /\ Cols # {}
  BY <1>2, GameRoomAssumption DEF Tiles
<1>4. PICK c \in Cols : \A k \in Cols : c <= k
  BY <1>3, LeastOf
<1>5. PICK t \in S : t[2] = r /\ t[1] = c
  BY <1>4
<1>6. ASSUME NEW u \in S
      PROVE  ScanOrder(t, u)
  <2>1. r <= u[2] /\ r \in Nat /\ u[2] \in Nat /\ u[1] \in Nat
    BY <1>1, <1>2, GameRoomAssumption DEF Tiles
  <2>2. CASE u[2] = r
    <3>1. c <= u[1]
      BY <1>4, <2>2
    <3> QED BY <1>5, <2>2, <3>1 DEF ScanOrder
  <2>3. CASE u[2] # r
    BY <1>5, <2>1, <2>3 DEF ScanOrder
  <2> QED BY <2>2, <2>3
<1> QED BY <1>5, <1>6

LEMMA CentreType == \A t \in Tiles : TileToWorld(t) \in Spots
BY GameRoomAssumption DEF Tiles, TileToWorld, Spots

\* A player that stands clear takes its step or stays where it is.
LEMMA TryMoveSteps ==
  ASSUME NEW p \in Players, pos[p] \in Spots, ClearAt(p, pos[p]), NEW d \in AllDirs
  PROVE  ClearAt(p, TryMove(p, d))
<1> DEFINE q         == pos[p]
           next      == Along(q, d, 1)
           obstacles == {t \in Under(next) : Blocks(p, t)}
           first     == CHOOSE t \in obstacles : \A u \in obstacles : ScanOrder(t, u)
           beside    == Along(TileToWorld(first), d, -2)
<1>1. CASE obstacles = {}
  <2>1. TryMove(p, d) = next
    BY <1>1 DEF TryMove
  <2> QED BY <1>1, <2>1 DEF ClearAt
<1>2. CASE obstacles # {}
  <2>1. obstacles \in SUBSET Tiles
    BY DEF Under
  <2>2. first \in obstacles
    BY <1>2, <2>1, FirstObstacle
  <2>3. first \in Tiles /\ Touches(next, TileToWorld(first)) /\ Blocks(p, first)
    BY <2>2 DEF Under
  <2>4. ~Touches(q, TileToWorld(first))
    BY <2>3 DEF ClearAt, Under
  <2> HIDE DEF first
  <2>5. /\ d \in {"UP", "DOWN"} => beside[2] = q[2] /\ next[1] = q[1]
        /\ d \notin {"UP", "DOWN"} => beside[1] = q[1] /\ next[2] = q[2]
    BY <2>3, <2>4, CentreType, ObstacleAhead
  <2>6. TryMove(p, d) = IF d \in {"UP", "DOWN"} THEN <<next[1], beside[2]>>
                       ELSE <<beside[1], next[2]>>
    BY <1>2 DEF TryMove, first
  <2>7. TryMove(p, d) = <<q[1], q[2]>> /\ q = <<q[1], q[2]>>
    BY <2>5, <2>6 DEF Spots
  <2> QED BY <2>7
<1> QED BY <1>1, <1>2

LEMMA MovedStaysClear ==
  ASSUME TypeOK, NEW p \in Players, ClearAt(p, pos[p])
  PROVE  ClearAt(p, Moved(p))
<1>1. pos[p] \in Spots
  BY PosAndTiles DEF TypeOK
<1>2. heading[p] = "idle" \/ heading[p] \in AllDirs
  BY GameRoomAssumption DEF TypeOK, Heading
<1> QED BY <1>1, <1>2, TryMoveSteps DEF Moved

LEMMA NextStaysClear ==
  ASSUME TypeOK, [Next]_vars, NEW p \in Alive, phase = "update", phase' = "update",
         ClearAt(p, pos[p])
  PROVE  ClearAt(p, pos'[p])
<1>1. p \in Players
  BY DEF Alive
<1>2. CASE pos' = pos
  BY <1>2
<1>3. ASSUME NEW q \in Players, UpdatePlayer(q)
      PROVE  ClearAt(p, pos'[p])
  <2>1. pos' = pos \/ pos' = [pos EXCEPT ![q] = Moved(q)]
    BY <1>3 DEF UpdatePlayer, UpdateNull, UpdateNormal, UpdateTrapped, UpdateEscape,
                UpdateDead, CrashWith, motionVars
  <2>2. pos'[p] = pos[p] \/ pos'[p] = Moved(p)
    BY <1>1, <2>1 DEF TypeOK
  <2> QED BY <1>1, <2>2, MovedStaysClear
<1>4. ASSUME NEW q \in Players, EnterRoom(q) \/ LeaveRoom(q) \/ Handle(q)
      PROVE  pos' = pos
  BY <1>4 DEF EnterRoom, LeaveRoom, Handle, HandleForMissing, Handle_C_Move,
              Handle_C_WaterBomb, Handle_C_Skill, Idle, motionVars
<1>5. ASSUME NEW t \in Tiles, UpdateBomb(t)
      PROVE  pos' = pos
  BY <1>5 DEF UpdateBomb, UpdateBombWait, UpdateBombExplode, Explode, CrashWith, motionVars
<1>6. ~BeginUpdate /\ ~RemoveDeadObjects
  BY DEF BeginUpdate, Idle, RemoveDeadObjects
<1>7. CASE UNCHANGED vars
  BY <1>2, <1>7 DEF vars, motionVars
<1> QED BY <1>2, <1>3, <1>4, <1>5, <1>6, <1>7 DEF Next, Update

\* A player that overlaps nothing that blocks it overlaps nothing after its
\* walk, on every map: whichever obstacle of the scan pushes it back, it is
\* pushed back to where it stood.
THEOREM WalksStayClear == Spec => WalkStaysClear
<1>1. TypeOK /\ [Next]_vars =>
        [\A p \in Alive : phase = "update" /\ phase' = "update" /\ ClearAt(p, pos[p])
           => ClearAt(p, pos'[p])]_vars
  BY NextStaysClear
<1> QED BY <1>1, TypeCorrect, PTL DEF Spec, WalkStaysClear
-----------------------------------------------------------------------------
(* Blasts: the arms that GameRoom::Explode walks along, tile by tile, cover *)
(* what the rule of the game lets the bomb reach.                           *)

\* z lies on the way from x to y
Inside(x, z, y) == (x <= z /\ z <= y) \/ (y <= z /\ z <= x)

LEMMA ProductSign ==
  ASSUME NEW a \in Int, NEW b \in Int
  PROVE  a * b >= 0 <=> (a >= 0 /\ b >= 0) \/ (a <= 0 /\ b <= 0)
OBVIOUS

LEMMA InsideProduct ==
  ASSUME NEW x \in Int, NEW z \in Int, NEW y \in Int
  PROVE  (x - z) * (z - y) >= 0 <=> Inside(x, z, y)
<1>1. x - z \in Int /\ z - y \in Int
  OBVIOUS
<1>2. (x - z) * (z - y) >= 0
        <=> (x - z >= 0 /\ z - y >= 0) \/ (x - z <= 0 /\ z - y <= 0)
  BY <1>1, ProductSign
<1> QED BY <1>2 DEF Inside

LEMMA InsideSteps ==
  ASSUME NEW x \in Int, NEW z \in Int, NEW j \in Nat
  PROVE  /\ Inside(x, z, x + j) => z - x \in 0 .. j /\ z = x + (z - x)
         /\ Inside(x, z, x - j) => x - z \in 0 .. j /\ z = x - (x - z)
BY DEF Inside

\* the tiles between the bomb and the end of an arm are those before the end
LEMMA BetweenOnArm ==
  ASSUME NEW t \in Tiles, NEW d \in AllDirs, NEW j \in Nat \ {0}, NEW v \in Tiles
  PROVE  v \in Between(t, Along(t, d, j)) <=> \E k \in 1 .. j - 1 : v = Along(t, d, k)
<1>1. /\ t[1] \in Int /\ t[2] \in Int /\ v[1] \in Int /\ v[2] \in Int
      /\ t \in Spots /\ v \in Spots /\ v = <<v[1], v[2]>> /\ t = <<t[1], t[2]>>
  BY PosAndTiles DEF Spots
<1> DEFINE u == Along(t, d, j)
<1>2. u[1] \in Int /\ u[2] \in Int /\ u = <<u[1], u[2]>>
  BY <1>1, AlongDirs DEF AllDirs
<1>3. v \in Between(t, u) <=>
        v # t /\ v # u /\ Inside(t[1], v[1], u[1]) /\ Inside(t[2], v[2], u[2])
  <2>1. v \in Between(t, u) <=>
          /\ v \notin {t, u}
          /\ (t[1] - v[1]) * (v[1] - u[1]) >= 0 /\ (t[2] - v[2]) * (v[2] - u[2]) >= 0
    BY DEF Between
  <2>2. (t[1] - v[1]) * (v[1] - u[1]) >= 0 <=> Inside(t[1], v[1], u[1])
    BY <1>1, <1>2, InsideProduct
  <2>3. (t[2] - v[2]) * (v[2] - u[2]) >= 0 <=> Inside(t[2], v[2], u[2])
    BY <1>1, <1>2, InsideProduct
  <2> QED BY <2>1, <2>2, <2>3
<1>4. CASE d = "UP"
  <2>1. u = <<t[1], t[2] - j>> /\ \A k \in 1 .. j - 1 : Along(t, d, k) = <<t[1], t[2] - k>>
    BY <1>1, <1>4, AlongDirs
  <2>2. ASSUME v # t, v # u, Inside(t[1], v[1], u[1]), Inside(t[2], v[2], u[2])
        PROVE  \E k \in 1 .. j - 1 : v = Along(t, d, k)
    <3> DEFINE n == t[2] - v[2]
    <3>a. u[1] = t[1] /\ u[2] = t[2] - j
      BY <2>1
    <3>b. v[1] = t[1]
      BY <1>1, <2>2, <3>a DEF Inside
    <3>c. Inside(t[2], v[2], t[2] - j)
      BY <2>2, <3>a
    <3>1. v[1] = t[1] /\ n \in 0 .. j /\ v[2] = t[2] - n
      BY <1>1, <3>b, <3>c, InsideSteps
    <3>2. n # 0
      <4>1. n = 0 => v[1] = t[1] /\ v[2] = t[2]
        BY <1>1, <3>1
      <4> QED BY <1>1, <2>2, <4>1
    <3>d. n # j
      <4>1. n = j => v[1] = u[1] /\ v[2] = u[2]
        BY <1>1, <3>a, <3>1
      <4> QED BY <1>1, <1>2, <2>2, <4>1
    <3>3. n \in 1 .. j - 1
      BY <3>1, <3>2, <3>d
    <3>4. v = Along(t, d, n)
      BY <1>1, <2>1, <3>1, <3>3
    <3> QED BY <3>3, <3>4
  <2>3. ASSUME NEW k \in 1 .. j - 1, v = Along(t, d, k)
        PROVE  v # t /\ v # u /\ Inside(t[1], v[1], u[1]) /\ Inside(t[2], v[2], u[2])
    <3>1. v[1] = t[1] /\ v[2] = t[2] - k /\ u[1] = t[1] /\ u[2] = t[2] - j
      BY <2>1, <2>3
    <3> QED BY <1>1, <1>2, <3>1 DEF Inside
  <2> QED BY <1>3, <2>2, <2>3
<1>5. CASE d = "DOWN"
  <2>1. u = <<t[1], t[2] + j>> /\ \A k \in 1 .. j - 1 : Along(t, d, k) = <<t[1], t[2] + k>>
    BY <1>1, <1>5, AlongDirs
  <2>2. ASSUME v # t, v # u, Inside(t[1], v[1], u[1]), Inside(t[2], v[2], u[2])
        PROVE  \E k \in 1 .. j - 1 : v = Along(t, d, k)
    <3> DEFINE n == v[2] - t[2]
    <3>a. u[1] = t[1] /\ u[2] = t[2] + j
      BY <2>1
    <3>b. v[1] = t[1]
      BY <1>1, <2>2, <3>a DEF Inside
    <3>c. Inside(t[2], v[2], t[2] + j)
      BY <2>2, <3>a
    <3>1. v[1] = t[1] /\ n \in 0 .. j /\ v[2] = t[2] + n
      BY <1>1, <3>b, <3>c, InsideSteps
    <3>2. n # 0
      <4>1. n = 0 => v[1] = t[1] /\ v[2] = t[2]
        BY <1>1, <3>1
      <4> QED BY <1>1, <2>2, <4>1
    <3>d. n # j
      <4>1. n = j => v[1] = u[1] /\ v[2] = u[2]
        BY <1>1, <3>a, <3>1
      <4> QED BY <1>1, <1>2, <2>2, <4>1
    <3>3. n \in 1 .. j - 1
      BY <3>1, <3>2, <3>d
    <3>4. v = Along(t, d, n)
      BY <1>1, <2>1, <3>1, <3>3
    <3> QED BY <3>3, <3>4
  <2>3. ASSUME NEW k \in 1 .. j - 1, v = Along(t, d, k)
        PROVE  v # t /\ v # u /\ Inside(t[1], v[1], u[1]) /\ Inside(t[2], v[2], u[2])
    <3>1. v[1] = t[1] /\ v[2] = t[2] + k /\ u[1] = t[1] /\ u[2] = t[2] + j
      BY <2>1, <2>3
    <3> QED BY <1>1, <1>2, <3>1 DEF Inside
  <2> QED BY <1>3, <2>2, <2>3
<1>6. CASE d = "LEFT"
  <2>1. u = <<t[1] - j, t[2]>> /\ \A k \in 1 .. j - 1 : Along(t, d, k) = <<t[1] - k, t[2]>>
    BY <1>1, <1>6, AlongDirs
  <2>2. ASSUME v # t, v # u, Inside(t[1], v[1], u[1]), Inside(t[2], v[2], u[2])
        PROVE  \E k \in 1 .. j - 1 : v = Along(t, d, k)
    <3> DEFINE n == t[1] - v[1]
    <3>a. u[2] = t[2] /\ u[1] = t[1] - j
      BY <2>1
    <3>b. v[2] = t[2]
      BY <1>1, <2>2, <3>a DEF Inside
    <3>c. Inside(t[1], v[1], t[1] - j)
      BY <2>2, <3>a
    <3>1. v[2] = t[2] /\ n \in 0 .. j /\ v[1] = t[1] - n
      BY <1>1, <3>b, <3>c, InsideSteps
    <3>2. n # 0
      <4>1. n = 0 => v[1] = t[1] /\ v[2] = t[2]
        BY <1>1, <3>1
      <4> QED BY <1>1, <2>2, <4>1
    <3>d. n # j
      <4>1. n = j => v[1] = u[1] /\ v[2] = u[2]
        BY <1>1, <3>a, <3>1
      <4> QED BY <1>1, <1>2, <2>2, <4>1
    <3>3. n \in 1 .. j - 1
      BY <3>1, <3>2, <3>d
    <3>4. v = Along(t, d, n)
      BY <1>1, <2>1, <3>1, <3>3
    <3> QED BY <3>3, <3>4
  <2>3. ASSUME NEW k \in 1 .. j - 1, v = Along(t, d, k)
        PROVE  v # t /\ v # u /\ Inside(t[1], v[1], u[1]) /\ Inside(t[2], v[2], u[2])
    <3>1. v[2] = t[2] /\ v[1] = t[1] - k /\ u[2] = t[2] /\ u[1] = t[1] - j
      BY <2>1, <2>3
    <3> QED BY <1>1, <1>2, <3>1 DEF Inside
  <2> QED BY <1>3, <2>2, <2>3
<1>7. CASE d = "RIGHT"
  <2>1. u = <<t[1] + j, t[2]>> /\ \A k \in 1 .. j - 1 : Along(t, d, k) = <<t[1] + k, t[2]>>
    BY <1>1, <1>7, AlongDirs
  <2>2. ASSUME v # t, v # u, Inside(t[1], v[1], u[1]), Inside(t[2], v[2], u[2])
        PROVE  \E k \in 1 .. j - 1 : v = Along(t, d, k)
    <3> DEFINE n == v[1] - t[1]
    <3>a. u[2] = t[2] /\ u[1] = t[1] + j
      BY <2>1
    <3>b. v[2] = t[2]
      BY <1>1, <2>2, <3>a DEF Inside
    <3>c. Inside(t[1], v[1], t[1] + j)
      BY <2>2, <3>a
    <3>1. v[2] = t[2] /\ n \in 0 .. j /\ v[1] = t[1] + n
      BY <1>1, <3>b, <3>c, InsideSteps
    <3>2. n # 0
      <4>1. n = 0 => v[1] = t[1] /\ v[2] = t[2]
        BY <1>1, <3>1
      <4> QED BY <1>1, <2>2, <4>1
    <3>d. n # j
      <4>1. n = j => v[1] = u[1] /\ v[2] = u[2]
        BY <1>1, <3>a, <3>1
      <4> QED BY <1>1, <1>2, <2>2, <4>1
    <3>3. n \in 1 .. j - 1
      BY <3>1, <3>2, <3>d
    <3>4. v = Along(t, d, n)
      BY <1>1, <2>1, <3>1, <3>3
    <3> QED BY <3>3, <3>4
  <2>3. ASSUME NEW k \in 1 .. j - 1, v = Along(t, d, k)
        PROVE  v # t /\ v # u /\ Inside(t[1], v[1], u[1]) /\ Inside(t[2], v[2], u[2])
    <3>1. v[2] = t[2] /\ v[1] = t[1] + k /\ u[2] = t[2] /\ u[1] = t[1] + j
      BY <2>1, <2>3
    <3> QED BY <1>1, <1>2, <3>1 DEF Inside
  <2> QED BY <1>3, <2>2, <2>3
<1> QED BY <1>4, <1>5, <1>6, <1>7 DEF AllDirs

LEMMA DistanceAlong ==
  ASSUME NEW t \in Spots, NEW d \in AllDirs, NEW j \in Nat
  PROVE  LET u == Along(t, d, j)
         IN  /\ u \in Spots
             /\ t[1] = u[1] \/ t[2] = u[2]
             /\ Abs(t[1] - u[1]) + Abs(t[2] - u[2]) = j
<1>1. t[1] \in Int /\ t[2] \in Int
  BY DEF Spots
<1>2. Abs(0) = 0 /\ Abs(j) = j /\ Abs(-j) = j
  BY DEF Abs
<1>4. CASE d = "UP"
  <2>1. Along(t, d, j) = <<t[1], t[2] - j>>
    BY <1>4, AlongDirs
  <2>2. t[1] - t[1] = 0 /\ t[2] - (t[2] - j) = j /\ t[2] - j \in Int
    BY <1>1
  <2>3. Abs(t[1] - t[1]) = 0 /\ Abs(t[2] - (t[2] - j)) = j
    BY <1>2, <2>2
  <2> QED BY <1>1, <2>1, <2>2, <2>3 DEF Spots
<1>5. CASE d = "DOWN"
  <2>1. Along(t, d, j) = <<t[1], t[2] + j>>
    BY <1>5, AlongDirs
  <2>2. t[1] - t[1] = 0 /\ t[2] - (t[2] + j) = -j /\ t[2] + j \in Int
    BY <1>1
  <2>3. Abs(t[1] - t[1]) = 0 /\ Abs(t[2] - (t[2] + j)) = j
    BY <1>2, <2>2
  <2> QED BY <1>1, <2>1, <2>2, <2>3 DEF Spots
<1>6. CASE d = "LEFT"
  <2>1. Along(t, d, j) = <<t[1] - j, t[2]>>
    BY <1>6, AlongDirs
  <2>2. t[2] - t[2] = 0 /\ t[1] - (t[1] - j) = j /\ t[1] - j \in Int
    BY <1>1
  <2>3. Abs(t[2] - t[2]) = 0 /\ Abs(t[1] - (t[1] - j)) = j
    BY <1>2, <2>2
  <2> QED BY <1>1, <2>1, <2>2, <2>3 DEF Spots
<1>7. CASE d = "RIGHT"
  <2>1. Along(t, d, j) = <<t[1] + j, t[2]>>
    BY <1>7, AlongDirs
  <2>2. t[2] - t[2] = 0 /\ t[1] - (t[1] + j) = -j /\ t[1] + j \in Int
    BY <1>1
  <2>3. Abs(t[2] - t[2]) = 0 /\ Abs(t[1] - (t[1] + j)) = j
    BY <1>2, <2>2
  <2> QED BY <1>1, <2>1, <2>2, <2>3 DEF Spots
<1> QED BY <1>4, <1>5, <1>6, <1>7 DEF AllDirs

\* another place in the same row or column lies in one of the directions
LEMMA SomeDirection ==
  ASSUME NEW t \in Spots, NEW u \in Spots, t # u, t[1] = u[1] \/ t[2] = u[2]
  PROVE  \E d \in AllDirs, j \in Nat \ {0} : u = Along(t, d, j)
<1>1. /\ t[1] \in Int /\ t[2] \in Int /\ u[1] \in Int /\ u[2] \in Int
      /\ t = <<t[1], t[2]>> /\ u = <<u[1], u[2]>>
  BY DEF Spots
<1>2. CASE t[1] = u[1] /\ u[2] < t[2]
  <2> DEFINE n == t[2] - u[2]
  <2>1. n \in Nat \ {0} /\ u[2] = t[2] - n
    BY <1>1, <1>2
  <2>2. u = <<t[1], t[2] - n>>
    BY <1>1, <1>2, <2>1
  <2> HIDE DEF n
  <2>3. Along(t, "UP", n) = <<t[1], t[2] - n>>
    BY <2>1, AlongDirs
  <2> QED BY <2>1, <2>2, <2>3 DEF AllDirs
<1>3. CASE t[1] = u[1] /\ t[2] < u[2]
  <2> DEFINE n == u[2] - t[2]
  <2>1. n \in Nat \ {0} /\ u[2] = t[2] + n
    BY <1>1, <1>3
  <2>2. u = <<t[1], t[2] + n>>
    BY <1>1, <1>3, <2>1
  <2> HIDE DEF n
  <2>3. Along(t, "DOWN", n) = <<t[1], t[2] + n>>
    BY <2>1, AlongDirs
  <2> QED BY <2>1, <2>2, <2>3 DEF AllDirs
<1>4. CASE t[2] = u[2] /\ u[1] < t[1]
  <2> DEFINE n == t[1] - u[1]
  <2>1. n \in Nat \ {0} /\ u[1] = t[1] - n
    BY <1>1, <1>4
  <2>2. u = <<t[1] - n, t[2]>>
    BY <1>1, <1>4, <2>1
  <2> HIDE DEF n
  <2>3. Along(t, "LEFT", n) = <<t[1] - n, t[2]>>
    BY <2>1, AlongDirs
  <2> QED BY <2>1, <2>2, <2>3 DEF AllDirs
<1>5. CASE t[2] = u[2] /\ t[1] < u[1]
  <2> DEFINE n == u[1] - t[1]
  <2>1. n \in Nat \ {0} /\ u[1] = t[1] + n
    BY <1>1, <1>5
  <2>2. u = <<t[1] + n, t[2]>>
    BY <1>1, <1>5, <2>1
  <2> HIDE DEF n
  <2>3. Along(t, "RIGHT", n) = <<t[1] + n, t[2]>>
    BY <2>1, AlongDirs
  <2> QED BY <2>1, <2>2, <2>3 DEF AllDirs
<1>6. CASE t[1] = u[1] /\ t[2] = u[2]
  BY <1>1, <1>6
<1> QED BY <1>1, <1>2, <1>3, <1>4, <1>5, <1>6

\* only x itself lies between x and x
LEMMA InsidePoint ==
  ASSUME NEW x \in Int, NEW z \in Int, Inside(x, z, x)
  PROVE  z = x
BY DEF Inside

\* a bomb reaches its own tile
LEMMA ReachesItself ==
  ASSUME TypeOK, NEW t \in Tiles, owner[t] \in Players, mapObj[t] # "SOLID"
  PROVE  Reaches(t, t)
<1>1. t[1] \in Int /\ t[2] \in Int /\ t = <<t[1], t[2]>>
  BY PosAndTiles DEF Spots
<1>2. kit[owner[t]].fluid \in Nat
  BY DEF TypeOK
<1>3. Abs(t[1] - t[1]) + Abs(t[2] - t[2]) = 0
  BY <1>1 DEF Abs
<1>4. Between(t, t) = {}
  <2> SUFFICES ASSUME NEW v \in Tiles, v # t,
                      (t[1] - v[1]) * (v[1] - t[1]) >= 0, (t[2] - v[2]) * (v[2] - t[2]) >= 0
               PROVE  FALSE
    BY DEF Between
  <2>1. v[1] \in Int /\ v[2] \in Int /\ v = <<v[1], v[2]>>
    BY PosAndTiles DEF Spots
  <2>2. Inside(t[1], v[1], t[1]) /\ Inside(t[2], v[2], t[2])
    BY <1>1, <2>1, InsideProduct
  <2>3. v[1] = t[1]
    BY <1>1, <2>1, <2>2, InsidePoint
  <2>4. v[2] = t[2]
    BY <1>1, <2>1, <2>2, InsidePoint
  <2>5. <<v[1], v[2]>> = <<t[1], t[2]>>
    BY <2>3, <2>4, Zenon
  <2>6. v = t
    BY <1>1, <2>1, <2>5, Zenon
  <2> QED BY <2>6
<1>5. Abs(t[1] - t[1]) + Abs(t[2] - t[2]) <= kit[owner[t]].fluid
  BY <1>2, <1>3
<1> QED BY <1>4, <1>5 DEF Reaches, GetMapObjectAt

\* The tiles that the arms of the blast cover are those the rule lets the bomb
\* reach.
LEMMA ReachIsBlast ==
  ASSUME TypeOK, NEW t \in Tiles, owner[t] \in Players, mapObj[t] # "SOLID",
         NEW u \in Spots
  PROVE  Reaches(t, u) <=> u \in BlastTiles(t)
<1> DEFINE range   == kit[owner[t]].fluid
           At(d, k) == GetMapObjectAt(Along(t, d, k))
           Covered(d, j) ==
             \A k \in 1 .. j : At(d, k) # "SOLID" /\ (k < j => At(d, k) # "BREAKABLE")
<1>1. range \in Nat /\ t \in Spots
  BY PosAndTiles DEF TypeOK
<1>2. u \in BlastTiles(t) <=>
        \/ u = t
        \/ \E d \in AllDirs, j \in 1 .. range : u = Along(t, d, j) /\ Covered(d, j)
  <2>1. ASSUME NEW d \in AllDirs
        PROVE  u \in Arm(t, d, range)
                 <=> \E j \in 1 .. range : u = Along(t, d, j) /\ Covered(d, j)
    <3>1. Arm(t, d, range) = {Along(t, d, j) : j \in {j \in 1 .. range : Covered(d, j)}}
      BY DEF Arm
    <3> HIDE DEF Covered, range
    <3> QED BY <3>1
  <2>2. BlastTiles(t) = {t} \cup UNION {Arm(t, d, range) : d \in AllDirs}
    BY DEF BlastTiles
  <2>3. u \in BlastTiles(t) <=> u = t \/ \E d \in AllDirs : u \in Arm(t, d, range)
    BY <2>2, Zenon
  <2> HIDE DEF Covered, range
  <2> QED BY <2>1, <2>3
<1>3. CASE u = t
  BY <1>2, <1>3, ReachesItself
<1>4. CASE u # t
  <2>1. ASSUME NEW d \in AllDirs, NEW j \in 1 .. range, u = Along(t, d, j)
        PROVE  Reaches(t, u) <=> Covered(d, j)
    <3>1. j \in Nat \ {0} /\ j <= range
      BY <1>1
    <3>2. /\ t[1] = u[1] \/ t[2] = u[2]
          /\ Abs(t[1] - u[1]) + Abs(t[2] - u[2]) <= range
      BY <1>1, <2>1, <3>1, DistanceAlong
    <3>3. Reaches(t, u) <=>
            At(d, j) # "SOLID" /\ \A v \in Between(t, u) : mapObj[v] \notin {"SOLID", "BREAKABLE"}
      BY <2>1, <3>2 DEF Reaches
    <3>4. (\A v \in Between(t, u) : mapObj[v] \notin {"SOLID", "BREAKABLE"})
            <=> \A k \in 1 .. j - 1 : At(d, k) \notin {"SOLID", "BREAKABLE"}
      <4>1. ASSUME \A v \in Between(t, u) : mapObj[v] \notin {"SOLID", "BREAKABLE"},
                   NEW k \in 1 .. j - 1
            PROVE  At(d, k) \notin {"SOLID", "BREAKABLE"}
        <5>1. CASE Along(t, d, k) \in Tiles
          BY <2>1, <3>1, <4>1, <5>1, BetweenOnArm DEF GetMapObjectAt
        <5>2. CASE Along(t, d, k) \notin Tiles
          BY <5>2 DEF GetMapObjectAt
        <5> QED BY <5>1, <5>2
      <4>2. ASSUME \A k \in 1 .. j - 1 : At(d, k) \notin {"SOLID", "BREAKABLE"},
                   NEW v \in Between(t, u)
            PROVE  mapObj[v] \notin {"SOLID", "BREAKABLE"}
        <5>1. v \in Tiles
          BY DEF Between
        <5>2. PICK k \in 1 .. j - 1 : v = Along(t, d, k)
          BY <2>1, <3>1, <5>1, BetweenOnArm
        <5> QED BY <4>2, <5>1, <5>2 DEF GetMapObjectAt
      <4> QED BY <4>1, <4>2
    <3> HIDE DEF At
    <3>5. Covered(d, j) <=>
            At(d, j) # "SOLID" /\ \A k \in 1 .. j - 1 : At(d, k) \notin {"SOLID", "BREAKABLE"}
      <4>1. j \in 1 .. j /\ ~(j < j)
        BY <3>1
      <4>2. \A k \in 1 .. j - 1 : k \in 1 .. j /\ k < j
        BY <3>1
      <4>3. \A k \in 1 .. j : k = j \/ k \in 1 .. j - 1
        BY <3>1
      <4>4. ASSUME Covered(d, j)
            PROVE  /\ At(d, j) # "SOLID"
                   /\ \A k \in 1 .. j - 1 : At(d, k) \notin {"SOLID", "BREAKABLE"}
        <5>1. \A k \in 1 .. j : At(d, k) # "SOLID" /\ (k < j => At(d, k) # "BREAKABLE")
          BY <4>4, Zenon
        <5> HIDE DEF Covered
        <5>2. At(d, j) # "SOLID"
          BY <4>1, <5>1, Zenon
        <5>3. ASSUME NEW k \in 1 .. j - 1
              PROVE  At(d, k) # "SOLID" /\ At(d, k) # "BREAKABLE"
          BY <4>2, <5>1, <5>3, Zenon
        <5> QED BY <5>2, <5>3
      <4>5. ASSUME At(d, j) # "SOLID",
                   \A k \in 1 .. j - 1 : At(d, k) \notin {"SOLID", "BREAKABLE"},
                   NEW k \in 1 .. j
            PROVE  At(d, k) # "SOLID" /\ (k < j => At(d, k) # "BREAKABLE")
        <5>1. CASE k = j
          <6>1. ~(k < j)
            BY <3>1, <5>1
          <6> QED BY <4>5, <5>1, <6>1
        <5>2. CASE k \in 1 .. j - 1
          BY <4>5, <5>2
        <5> QED BY <4>3, <5>1, <5>2
      <4> QED BY <4>4, <4>5
    <3> HIDE DEF Covered
    <3> QED BY <3>3, <3>4, <3>5
  <2> HIDE DEF Covered
  <2>2. u \in BlastTiles(t) => Reaches(t, u)
    BY <1>2, <1>4, <2>1
  <2>3. Reaches(t, u) => u \in BlastTiles(t)
    <3> SUFFICES ASSUME Reaches(t, u)
                 PROVE  u \in BlastTiles(t)
      OBVIOUS
    <3>1. /\ t[1] = u[1] \/ t[2] = u[2]
          /\ Abs(t[1] - u[1]) + Abs(t[2] - u[2]) <= range
      BY DEF Reaches
    <3>2. PICK d \in AllDirs, j \in Nat \ {0} : u = Along(t, d, j)
      BY <1>1, <1>4, <3>1, SomeDirection
    <3>3. Abs(t[1] - u[1]) + Abs(t[2] - u[2]) = j
      BY <1>1, <3>2, DistanceAlong
    <3>4. j \in 1 .. range
      BY <1>1, <3>1, <3>3
    <3> QED BY <1>2, <2>1, <3>2, <3>4
  <2> QED BY <2>2, <2>3
<1> QED BY <1>3, <1>4
-----------------------------------------------------------------------------
(* Chains *)

\* a bomb that the blast of a chain reaches is in the chain
LEMMA ChainClosed ==
  ASSUME NEW t, NEW u \in Chain(t), NEW v \in BlastTiles(u) \cap Unexploded
  PROVE  v \in Chain(t)
BY DEF Chain, BlastClosed

\* Every bomb of a chain but the first is there because another one reaches
\* it: without it the rest would be closed already.
LEMMA ChainReason ==
  ASSUME NEW t \in Unexploded, NEW u \in Chain(t), u # t
  PROVE  \E v \in Chain(t) \ {u} : u \in BlastTiles(v)
<1> SUFFICES ASSUME \A v \in Chain(t) \ {u} : u \notin BlastTiles(v)
             PROVE  FALSE
  OBVIOUS
<1> DEFINE rest == Chain(t) \ {u}
<1>1. rest \in SUBSET Unexploded
  BY DEF Chain
<1>2. t \in rest
  BY DEF Chain
<1>3. BlastClosed(rest)
  BY ChainClosed DEF BlastClosed
<1>4. u \in rest
  <2> HIDE DEF rest
  <2> QED BY <1>1, <1>2, <1>3 DEF Chain
<1> QED BY <1>4

\* the tiles under the water of a chain are those a bomb of it reaches
LEMMA BlastReaches ==
  ASSUME TypeOK, NEW chain \in SUBSET Unexploded, \A t \in chain : owner[t] \in Alive,
         NEW u \in Spots
  PROVE  u \in BlastOf(chain) <=> \E t \in chain : Reaches(t, u)
<1>1. ASSUME NEW t \in chain
      PROVE  Reaches(t, u) <=> u \in BlastTiles(t)
  <2>1. t \in Tiles /\ owner[t] \in Players /\ mapObj[t] # "SOLID"
    BY <1>1 DEF Unexploded, Bombs, Alive
  <2> QED BY <2>1, ReachIsBlast
<1> QED BY <1>1 DEF BlastOf

\* the bombs that a step sets off are a chain
LEMMA FiredChain ==
  ASSUME TypeOK, VisitsBombs, NEW t \in Tiles, UpdateBombExplode(t), crashed' = "none"
  PROVE  /\ t \in Unexploded /\ t \in Chain(t) /\ Chain(t) \in SUBSET Unexploded
         /\ \A u \in Chain(t) : owner[u] \in Alive
         /\ exploded' \ exploded = Chain(t)
         /\ isDead' = isDead \cup Chain(t) \cup Broken(Chain(t))
         /\ mainState' = [p \in Players |->
                            IF p \in Caught(Chain(t)) THEN "TRAPPED" ELSE mainState[p]]
         /\ UNCHANGED <<pos, life>>
<1>1. t \in Unexploded
  BY DEF UpdateBombExplode, Visit, VisitsBombs, Unexploded
<1>2. t \in Chain(t) /\ Chain(t) \in SUBSET Unexploded
  BY <1>1 DEF Chain
<1>3. Explode(Chain(t)) /\ ~ \E cause \in {"ownerGone", "badCast"} : CrashWith(cause)
  BY DEF UpdateBombExplode, CrashWith
<1>4. Chain(t) \cap exploded = {}
  BY <1>2 DEF Unexploded
<1> DEFINE chain == Chain(t)
<1> HIDE DEF chain
<1> QED BY <1>1, <1>2, <1>3, <1>4 DEF Explode, motionVars

\* no other step sets a bomb off
LEMMA OnlyExplosionsFire ==
  ASSUME TypeOK, [Next]_vars, exploded' \ exploded # {}
  PROVE  \E t \in Tiles : UpdateBombExplode(t) /\ crashed' = "none"
<1>1. ASSUME NEW p \in Players, EnterRoom(p) \/ LeaveRoom(p) \/ Handle(p)
      PROVE  exploded' = exploded
  BY <1>1 DEF EnterRoom, LeaveRoom, Handle, HandleForMissing, Handle_C_Move,
              Handle_C_WaterBomb, Handle_C_Skill, CrashWith, bombVars
<1>2. ASSUME NEW p \in Players, UpdatePlayer(p)
      PROVE  exploded' = exploded
  BY <1>2 DEF UpdatePlayer, UpdateNull, UpdateNormal, UpdateTrapped, UpdateEscape,
              UpdateDead, CrashWith, bombVars
<1>3. ASSUME NEW t \in Tiles, UpdateBombWait(t)
      PROVE  exploded' = exploded
  BY <1>3 DEF UpdateBombWait
<1>4. ASSUME NEW t \in Tiles, UpdateBombExplode(t), crashed' # "none"
      PROVE  exploded' = exploded
  BY <1>4 DEF UpdateBombExplode, Visit, Running, Explode, CrashWith, bombVars
<1>5. BeginUpdate => exploded' = exploded
  BY DEF BeginUpdate, bombVars
<1>6. RemoveDeadObjects => exploded' \subseteq exploded
  BY DEF RemoveDeadObjects
<1>7. UNCHANGED vars => exploded' = exploded
  BY DEF vars, bombVars
<1> QED BY <1>1, <1>2, <1>3, <1>4, <1>5, <1>6, <1>7 DEF Next, Update, UpdateBomb

\* what a chain does is what the rule of the explosion says
LEMMA ChainKeepsRule ==
  ASSUME TypeOK, BombInv, VisitsBombs,
         NEW t \in Tiles, UpdateBombExplode(t), crashed' = "none"
  PROVE  BlastRule(exploded' \ exploded)
<1> DEFINE chain == Chain(t)
           Struck(u) == \E b \in chain : Reaches(b, u)
<1>1. /\ t \in Unexploded /\ t \in chain /\ chain \in SUBSET Unexploded
      /\ \A u \in chain : owner[u] \in Alive
      /\ exploded' \ exploded = chain
      /\ isDead' = isDead \cup chain \cup Broken(chain)
      /\ mainState' = [p \in Players |->
                         IF p \in Caught(chain) THEN "TRAPPED" ELSE mainState[p]]
      /\ UNCHANGED <<pos, life>>
  BY FiredChain
<1>2. chain \subseteq Bombs /\ Bombs \subseteq Tiles
  BY <1>1 DEF Unexploded, Bombs
<1>3. ASSUME NEW u \in chain, NEW v \in BlastTiles(u) \cap Unexploded
      PROVE  v \in chain
  BY <1>3, ChainClosed
<1>4. ASSUME NEW u \in chain, u # t
      PROVE  \E v \in chain \ {u} : u \in BlastTiles(v)
  BY <1>1, <1>4, ChainReason
<1> HIDE DEF chain
<1>5. ASSUME NEW u \in Spots
      PROVE  u \in BlastOf(chain) <=> Struck(u)
  BY <1>1, BlastReaches
<1>6. ASSUME NEW b \in chain, NEW u \in Spots
      PROVE  u \in BlastTiles(b) <=> Reaches(b, u)
  <2>1. b \in Tiles /\ owner[b] \in Players /\ mapObj[b] # "SOLID"
    BY <1>1, <1>2 DEF Bombs, Alive
  <2> QED BY <2>1, ReachIsBlast
<1>7. ASSUME NEW u \in Bombs, Struck(u)
      PROVE  u \in exploded'
  <2>1. u \in Spots
    BY <1>2, PosAndTiles
  <2>2. PICK b \in chain : u \in BlastTiles(b)
    BY <1>6, <1>7, <2>1
  <2>3. u \in exploded \/ u \in chain
    BY <1>3, <2>2 DEF Unexploded
  <2>4. exploded \subseteq exploded'
    BY DEF UpdateBombExplode, Explode, CrashWith, bombVars
  <2> QED BY <1>1, <2>3, <2>4
<1>8. ASSUME NEW u \in chain
      PROVE  timer[u] + 1 >= ExplosionTicks \/ \E v \in chain \ {u} : Reaches(v, u)
  <2>1. CASE u = t
    BY <2>1 DEF UpdateBombExplode, Ticked
  <2>2. CASE u # t
    <3>1. u \in Spots
      BY <1>2, PosAndTiles
    <3> QED BY <1>4, <1>6, <2>2, <3>1
  <2> QED BY <2>1, <2>2
<1>9. ASSUME NEW p \in Alive, Struck(TileOf(p))
      PROVE  mainState'[p] = "TRAPPED"
  <2>1. p \in Players /\ pos[p][1] \in Int /\ pos[p][2] \in Int
    BY GameRoomAssumption DEF Alive, TypeOK, Pos
  <2>2. TileOf(p) \in Spots /\ InTile(pos[p], TileOf(p))
    BY <2>1 DEF TileOf, Spots, InTile
  <2>3. mainState[p] # "TRAPPED" => p \in Caught(chain)
    BY <1>5, <1>9, <2>2 DEF Caught
  <2> QED BY <1>1, <2>1, <2>3
<1>10. ASSUME NEW u \in Tiles, mapObj[u] \notin {"NONE", "SOLID"}
       PROVE  u \in isDead' <=> u \in isDead \/ Struck(u)
  <2>1. u \in Spots
    BY PosAndTiles
  <2>2. u \in chain \cup Broken(chain) => Struck(u)
    <3>1. u \in chain => Struck(u)
      <4>1. u \in chain => owner[u] \in Players
        BY <1>1 DEF Alive
      <4> QED BY <1>10, <4>1, ReachesItself
    <3>2. u \in Broken(chain) => Struck(u)
      BY <1>5, <2>1 DEF Broken
    <3> QED BY <3>1, <3>2
  <2>3. ASSUME Struck(u)
        PROVE  u \in isDead \cup chain \cup Broken(chain)
    <3>1. CASE u \in Bombs
      <4>1. u \in exploded \/ u \in chain
        BY <1>1, <1>7, <2>3, <3>1
      <4> QED BY <4>1 DEF BombInv, DeadBombs
    <3>2. CASE u \notin Bombs
      <4>1. mapObj[u] \in Items \cup {"BREAKABLE"}
        BY <1>10, <3>2 DEF TypeOK, MapType, Bombs
      <4> QED BY <1>5, <2>1, <2>3, <4>1 DEF Broken
    <3> QED BY <3>1, <3>2
  <2> QED BY <1>1, <2>2, <2>3
<1> HIDE DEF Struck
<1>11. /\ \A u \in Bombs : Struck(u) => u \in exploded'
       /\ \A p \in Alive : Struck(TileOf(p)) => mainState'[p] = "TRAPPED"
       /\ \A u \in Tiles : mapObj[u] \notin {"NONE", "SOLID"} =>
             (u \in isDead' <=> u \in isDead \/ Struck(u))
  BY <1>7, <1>9, <1>10
<1> USE DEF Struck
<1>12. BlastRule(chain)
  BY <1>8, <1>11 DEF BlastRule
<1> QED BY <1>1, <1>12

\* An explosion does what the rule of the game says and no more: the arms that
\* the code walks, and its recursion from bomb to bomb, are the rule.
THEOREM BlastsFollowRules == Spec => BlastRules
<1>1. TypeOK /\ BombInv /\ VisitsBombs /\ [Next]_vars =>
        [exploded' \ exploded # {} => BlastRule(exploded' \ exploded)]_vars
  <2> SUFFICES ASSUME TypeOK, BombInv, VisitsBombs, [Next]_vars, exploded' \ exploded # {}
               PROVE  BlastRule(exploded' \ exploded)
    OBVIOUS
  <2>1. PICK t \in Tiles : UpdateBombExplode(t) /\ crashed' = "none"
    BY OnlyExplosionsFire
  <2> QED BY <2>1, ChainKeepsRule
<1> QED BY <1>1, TypeCorrect, BombInvHolds, VisitsBombsHolds, PTL DEF Spec, BlastRules
-----------------------------------------------------------------------------
(* The main state of a player *)

LEMMA BlastInSpots ==
  ASSUME TypeOK, NEW t \in Tiles, NEW u \in BlastTiles(t), owner[t] \in Players
  PROVE  u \in Spots
<1>1. t \in Spots
  BY PosAndTiles
<1>2. CASE u = t
  BY <1>1, <1>2
<1>3. CASE u # t
  <2> DEFINE range == kit[owner[t]].fluid
  <2>1. range \in Nat
    BY DEF TypeOK
  <2>2. BlastTiles(t) = {t} \cup UNION {Arm(t, d, range) : d \in AllDirs}
    BY DEF BlastTiles
  <2> HIDE DEF range
  <2>3. PICK d \in AllDirs : u \in Arm(t, d, range)
    BY <1>3, <2>2, Zenon
  <2>4. PICK j \in 1 .. range : u = Along(t, d, j)
    BY <2>3 DEF Arm
  <2>5. j \in Int /\ t[1] \in Int /\ t[2] \in Int
    BY <1>1, <2>1 DEF Spots
  <2>6. u \in {<<t[1], t[2] - j>>, <<t[1], t[2] + j>>, <<t[1] - j, t[2]>>, <<t[1] + j, t[2]>>}
    BY <1>1, <2>4, <2>5, AlongDirs DEF AllDirs
  <2> QED BY <2>5, <2>6 DEF Spots
<1> QED BY <1>2, <1>3

\* an explosion traps only players on tiles that a bomb of it reaches
LEMMA TrappedByReach ==
  ASSUME TypeOK, BombInv, VisitsBombs, NEW t \in Tiles, UpdateBombExplode(t),
         crashed' = "none", NEW p \in Alive, mainState'[p] # mainState[p]
  PROVE  /\ mainState'[p] = "TRAPPED"
         /\ \E b \in exploded' \ exploded : Reaches(b, TileOf(p))
<1> DEFINE chain == Chain(t)
<1>1. /\ chain \in SUBSET Unexploded
      /\ \A u \in chain : owner[u] \in Alive
      /\ exploded' \ exploded = chain
      /\ mainState' = [q \in Players |->
                         IF q \in Caught(chain) THEN "TRAPPED" ELSE mainState[q]]
  BY FiredChain
<1> HIDE DEF chain
<1>2. p \in Players /\ pos[p][1] \in Int /\ pos[p][2] \in Int
  BY GameRoomAssumption DEF Alive, TypeOK, Pos
<1>3. p \in Caught(chain) /\ mainState'[p] = "TRAPPED"
  BY <1>1, <1>2
<1>4. PICK b \in chain : \E u \in BlastTiles(b) : InTile(pos[p], u)
  BY <1>3 DEF Caught, BlastOf
<1>5. b \in Tiles /\ owner[b] \in Players /\ mapObj[b] # "SOLID"
  BY <1>1 DEF Unexploded, Bombs, Alive
<1>6. PICK u \in BlastTiles(b) : InTile(pos[p], u) /\ u \in Spots
  BY <1>4, <1>5, BlastInSpots
<1>7. u = TileOf(p)
  <2>1. u = <<u[1], u[2]>>
    BY <1>6 DEF Spots
  <2>2. u[1] = pos[p][1] \div 2 /\ u[2] = pos[p][2] \div 2
    BY <1>6 DEF InTile
  <2> QED BY <2>1, <2>2, Zenon DEF TileOf
<1>8. Reaches(b, u)
  BY <1>5, <1>6, ReachIsBlast
<1> QED BY <1>1, <1>3, <1>7, <1>8

LEMMA UpdateKeepsRule ==
  ASSUME TypeOK, NEW q \in Players, UpdatePlayer(q), NEW p \in Alive,
         mainState'[p] # mainState[p]
  PROVE  StateRule(p)
<1>1. p \in Players /\ mainState \in [Players -> MainState] /\ pos \in [Players -> Pos]
  BY DEF Alive, TypeOK
<1>2. CASE UpdateNormal(q)
  <2>1. /\ q \in Alive /\ mainState[q] = "NORMAL"
        /\ pos' = [pos EXCEPT ![q] = Moved(q)]
        /\ mainState' = [r \in Players |->
             IF r \in {o \in Alive \ {q} : mainState[o] = "TRAPPED" /\ Touches(Moved(q), pos[o])}
             THEN "DEAD" ELSE mainState[r]]
    BY <1>2 DEF UpdateNormal
  <2>2. /\ p \in Alive \ {q} /\ mainState[p] = "TRAPPED" /\ mainState'[p] = "DEAD"
        /\ Touches(Moved(q), pos[p])
    BY <1>1, <2>1
  <2>3. pos'[q] = Moved(q)
    BY <1>1, <2>1
  <2>4. q \in Alive \ {p}
    BY <2>1, <2>2
  <2> QED BY <2>1, <2>2, <2>3, <2>4 DEF StateRule
<1>3. CASE UpdateTrapped(q)
  <2>1. q = p /\ mainState[p] = "TRAPPED" /\ mainState'[p] = "DEAD" /\ TrapTimeUp(p)
    BY <1>1, <1>3 DEF UpdateTrapped
  <2>2. stateTimer[p] \in Nat /\ stateTimer[p] < DeadTicks
    BY <1>1, <2>1 DEF TypeOK, StateTicks
  <2>3. stateTimer[p] + 1 = DeadTicks
    BY <2>1, <2>2, GameRoomAssumption DEF TrapTimeUp, Ticked
  <2> QED BY <2>1, <2>3 DEF StateRule
<1>4. CASE UpdateEscape(q)
  <2>1. /\ q = p /\ mainState[p] = "ESCAPE" /\ mainState'[p] = "NORMAL"
        /\ Ticked(stateTimer[p]) >= EscapeTicks
    BY <1>1, <1>4 DEF UpdateEscape
  <2>2. stateTimer[p] \in Nat /\ stateTimer[p] < EscapeTicks
    BY <1>1, <2>1 DEF TypeOK, StateTicks
  <2>3. stateTimer[p] + 1 = EscapeTicks
    BY <2>1, <2>2, GameRoomAssumption DEF Ticked
  <2> QED BY <2>1, <2>3 DEF StateRule
<1>5. CASE UpdateNull(q) \/ UpdateDead(q)
  BY <1>5 DEF UpdateNull, UpdateDead, CrashWith, stateVars
<1> QED BY <1>2, <1>3, <1>4, <1>5 DEF UpdatePlayer

LEMMA NextKeepsRule ==
  ASSUME TypeOK, BombInv, VisitsBombs, [Next]_vars, NEW p \in Alive,
         mainState'[p] # mainState[p]
  PROVE  StateRule(p)
<1>1. p \in Players /\ mainState \in [Players -> MainState] /\ kit \in [Players ->
        [bubble : Nat, fluid : Nat, roller : Nat, needle : BOOLEAN]]
  BY DEF Alive, TypeOK
<1>2. ASSUME NEW q \in Players, Handle_C_Skill(q)
      PROVE  StateRule(p)
  <2>1. q = p /\ mainState[p] = "TRAPPED" /\ mainState'[p] = "ESCAPE" /\ kit[p].needle
    BY <1>1, <1>2 DEF Handle_C_Skill
  <2>2. kit' = [kit EXCEPT ![p].needle = FALSE]
    BY <1>2, <2>1 DEF Handle_C_Skill
  <2>3. ~kit'[p].needle
    BY <1>1, <2>2
  <2> QED BY <2>1, <2>3 DEF StateRule
<1>3. ASSUME NEW q \in Players, EnterRoom(q) \/ LeaveRoom(q) \/ Handle(q), ~Handle_C_Skill(q)
      PROVE  FALSE
  BY <1>3 DEF EnterRoom, LeaveRoom, Handle, HandleForMissing, Handle_C_Move,
              Handle_C_WaterBomb, CrashWith, stateVars
<1>4. ASSUME NEW q \in Players, UpdatePlayer(q)
      PROVE  StateRule(p)
  BY <1>4, UpdateKeepsRule
<1>5. ASSUME NEW t \in Tiles, UpdateBomb(t)
      PROVE  StateRule(p)
  <2>1. UpdateBombExplode(t) /\ crashed' = "none"
    BY <1>5 DEF UpdateBomb, UpdateBombWait, UpdateBombExplode, Visit, Running, Explode,
                CrashWith, stateVars
  <2> QED BY <2>1, TrappedByReach DEF StateRule
<1>6. CASE RemoveDeadObjects
  <2>1. life[p] = "dead"
    BY <1>1, <1>6 DEF RemoveDeadObjects
  <2>2. life'[p] = "gone"
    BY <1>1, <1>6, <2>1 DEF RemoveDeadObjects
  <2> QED BY <2>2 DEF StateRule
<1>7. ~BeginUpdate /\ ~UNCHANGED vars
  BY DEF BeginUpdate, vars, stateVars
<1> QED BY <1>2, <1>3, <1>4, <1>5, <1>6, <1>7 DEF Next, Update

\* A player changes its main state only along the edges of the rules, for the
\* reason each has, in rooms of every size and with every timing.
THEOREM StatesFollowRules == Spec => MainStateRules
<1>1. TypeOK /\ BombInv /\ VisitsBombs /\ [Next]_vars =>
        [\A p \in Alive : mainState'[p] # mainState[p] => StateRule(p)]_vars
  BY NextKeepsRule
<1> QED BY <1>1, TypeCorrect, BombInvHolds, VisitsBombsHolds, PTL DEF Spec, MainStateRules

=============================================================================
