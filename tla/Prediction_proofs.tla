--------------------------- MODULE Prediction_proofs ---------------------------
(* Proofs about Walking, for every size of tiles and players and every set  *)
(* of blocking tiles, and about Prediction, for every row of tiles and any  *)
(* number of packets in flight.                                             *)
EXTENDS Prediction, WellFoundedInduction, SequenceTheorems, TLAPS

(* Walking: what TryMove does with a player that stands clear of everything *)

Positions == Int \X Int
MapTiles  == Nat \X Nat

\* the two ways to walk: along a row, or along a column
StepX(q, next) == next[2] = q[2] /\ next[1] # q[1]
                  /\ next[1] - q[1] <= TileSize /\ q[1] - next[1] <= TileSize
StepY(q, next) == next[1] = q[1] /\ next[2] # q[2]
                  /\ next[2] - q[2] <= TileSize /\ q[2] - next[2] <= TileSize

\* z lies on the way from x to y
OnTheWay(x, z, y) == (x <= z /\ z <= y) \/ (y <= z /\ z <= x)

\* A set of numbers has a least one.
LEMMA LeastNat ==
  ASSUME NEW S \in SUBSET Nat, S # {}
  PROVE  \E n \in S : \A k \in S : n <= k
<1>1. PICK n \in S : \A k \in S : ~ (<<k, n>> \in OpToRel(<, Nat))
  BY NatLessThanWellFounded, WFMin, Zenon
<1>2. \A k \in S : ~ (k < n)
  BY <1>1 DEF OpToRel
<1> QED BY <1>2

\* The scan of TryMove meets one of the tiles first.
LEMMA FirstInScan ==
  ASSUME NEW met \in SUBSET MapTiles, met # {}
  PROVE  \E t \in met : \A u \in met : Scan(t, u)
<1> DEFINE Rows == {t[2] : t \in met}
<1>1. Rows \in SUBSET Nat /\ Rows # {}
  BY DEF MapTiles
<1>2. PICK r \in Rows : \A k \in Rows : r <= k
  BY <1>1, LeastNat
<1> DEFINE Cols == {t[1] : t \in {u \in met : u[2] = r}}
<1>3. Cols \in SUBSET Nat /\ Cols # {}
  BY <1>2 DEF MapTiles
<1>4. PICK c \in Cols : \A k \in Cols : c <= k
  BY <1>3, LeastNat
<1>5. PICK t \in met : t[2] = r /\ t[1] = c
  BY <1>4
<1>6. ASSUME NEW u \in met
      PROVE  Scan(t, u)
  <2>1. r <= u[2] /\ r \in Nat /\ u[2] \in Nat /\ u[1] \in Nat
    BY <1>1, <1>2 DEF MapTiles
  <2>2. CASE u[2] = r
    <3>1. c <= u[1]
      BY <1>4, <2>2
    <3> QED BY <1>5, <2>2, <3>1 DEF Scan
  <2>3. CASE u[2] # r
    BY <1>5, <2>1, <2>3 DEF Scan
  <2> QED BY <2>2, <2>3
<1> QED BY <1>5, <1>6

\* Different columns, or rows, are at least a tile apart.
LEMMA TilesApart ==
  ASSUME NEW a \in Int, NEW b \in Int, a < b
  PROVE  a * TileSize + TileSize <= b * TileSize
<1>1. TileSize \in Nat
  BY WalkingAssumption
<1>2. b - a - 1 \in Nat
  OBVIOUS
<1>3. (b - a - 1) * TileSize \in Nat
  BY <1>1, <1>2
<1>4. (b - a - 1) * TileSize = b * TileSize - a * TileSize - TileSize
  BY <1>1
<1>5. b * TileSize \in Int /\ a * TileSize \in Int
  BY <1>1
<1> QED BY <1>1, <1>3, <1>4, <1>5
-----------------------------------------------------------------------------
(* One axis: the player is an interval around x, a tile one from l on      *)

Meets(x, l) == x - Half < l + TileSize /\ l < x + Half

Apart(l, m) == l = m \/ l + TileSize <= m \/ m + TileSize <= l

LEMMA HalfType == Half \in Nat
BY WalkingAssumption DEF Half

LEMMA OverlapsByAxis ==
  ASSUME NEW q, NEW t
  PROVE  Overlaps(q, t) <=> Meets(q[1], Left(t)) /\ Meets(q[2], Top(t))
BY DEF Overlaps, Meets, Right, Bottom, Left, Top

LEMMA TilesAreApart ==
  ASSUME NEW t \in MapTiles, NEW u \in MapTiles
  PROVE  /\ Left(t) \in Int /\ Top(t) \in Int
         /\ Apart(Left(t), Left(u)) /\ Apart(Top(t), Top(u))
<1>1. TileSize \in Nat /\ t[1] \in Int /\ t[2] \in Int /\ u[1] \in Int /\ u[2] \in Int
  BY WalkingAssumption DEF MapTiles
<1>2. Left(t) \in Int /\ Top(t) \in Int
  BY <1>1 DEF Left, Top
<1>3. \A a, b \in Int : Apart(a * TileSize, b * TileSize)
  <2> SUFFICES ASSUME NEW a \in Int, NEW b \in Int
               PROVE  Apart(a * TileSize, b * TileSize)
    OBVIOUS
  <2>1. a < b \/ a = b \/ b < a
    OBVIOUS
  <2> QED BY <2>1, TilesApart DEF Apart
<1> QED BY <1>1, <1>2, <1>3 DEF Left, Top

\* where a player on its way from x to n ends that runs into a tile from l on
Flush(x, n, l) == IF n > x THEN l - Half ELSE l + TileSize + Half

\* It ends on its way, and clear of what it was clear of.
LEMMA PushedBackOnAxis ==
  ASSUME NEW x \in Int, NEW n \in Int, NEW l \in Int, NEW m \in Int, x # n,
         n - x <= TileSize, x - n <= TileSize, Apart(l, m),
         Meets(n, l), ~Meets(x, l)
  PROVE  /\ OnTheWay(x, Flush(x, n, l), n)
         /\ ~Meets(x, m) => ~Meets(Flush(x, n, l), m)
<1>1. CASE x < n
  <2>1. Flush(x, n, l) = l - Half
    BY <1>1 DEF Flush
  <2>2. x <= l - Half /\ l - Half < n
    BY <1>1, WalkingAssumption, HalfType DEF Meets
  <2>3. ~Meets(x, m) => ~Meets(l - Half, m)
    BY <1>1, WalkingAssumption, HalfType DEF Meets, Apart
  <2> QED BY <2>1, <2>2, <2>3, HalfType DEF OnTheWay
<1>2. CASE n < x
  <2>1. Flush(x, n, l) = l + TileSize + Half
    BY <1>2 DEF Flush
  <2>2. n < l + TileSize + Half /\ l + TileSize + Half <= x
    BY <1>2, WalkingAssumption, HalfType DEF Meets
  <2>3. ~Meets(x, m) => ~Meets(l + TileSize + Half, m)
    BY <1>2, WalkingAssumption, HalfType DEF Meets, Apart
  <2> QED BY <2>1, <2>2, <2>3, WalkingAssumption, HalfType DEF OnTheWay
<1> QED BY <1>1, <1>2
-----------------------------------------------------------------------------
(* The two axes together                                                   *)

\* Walking along a row into tile t, a player that was clear of t and u is
\* still clear of u.
LEMMA PushedBackInRow ==
  ASSUME NEW q \in Positions, NEW next \in Positions, StepX(q, next),
         NEW t \in MapTiles, NEW u \in MapTiles,
         Overlaps(next, t), ~Overlaps(q, t), ~Overlaps(q, u)
  PROVE  /\ OnTheWay(q[1], PushedBack(q, next, t)[1], next[1])
         /\ PushedBack(q, next, t)[2] = q[2]
         /\ ~Overlaps(PushedBack(q, next, t), u)
<1> DEFINE z == Flush(q[1], next[1], Left(t))
<1>1. PushedBack(q, next, t) = <<z, q[2]>>
  BY DEF PushedBack, StepX, Flush, Right, Left
<1>2. /\ q[1] \in Int /\ next[1] \in Int /\ next[2] = q[2] /\ next[1] # q[1]
      /\ next[1] - q[1] <= TileSize /\ q[1] - next[1] <= TileSize
  BY DEF Positions, StepX
<1>3. Meets(next[1], Left(t)) /\ ~Meets(q[1], Left(t))
  BY <1>2, OverlapsByAxis
<1>4. OnTheWay(q[1], z, next[1]) /\ (~Meets(q[1], Left(u)) => ~Meets(z, Left(u)))
  BY <1>2, <1>3, TilesAreApart, PushedBackOnAxis
<1>5. <<z, q[2]>>[1] = z /\ <<z, q[2]>>[2] = q[2]
  OBVIOUS
<1> HIDE DEF z
<1>6. ~Overlaps(<<z, q[2]>>, u)
  BY <1>4, <1>5, OverlapsByAxis
<1> QED BY <1>1, <1>4, <1>5, <1>6

\* The same along a column.
LEMMA PushedBackInColumn ==
  ASSUME NEW q \in Positions, NEW next \in Positions, StepY(q, next),
         NEW t \in MapTiles, NEW u \in MapTiles,
         Overlaps(next, t), ~Overlaps(q, t), ~Overlaps(q, u)
  PROVE  /\ OnTheWay(q[2], PushedBack(q, next, t)[2], next[2])
         /\ PushedBack(q, next, t)[1] = q[1]
         /\ ~Overlaps(PushedBack(q, next, t), u)
<1> DEFINE z == Flush(q[2], next[2], Top(t))
<1>1. PushedBack(q, next, t) = <<q[1], z>>
  BY DEF PushedBack, StepY, Flush, Bottom, Top
<1>2. /\ q[2] \in Int /\ next[2] \in Int /\ next[1] = q[1] /\ next[2] # q[2]
      /\ next[2] - q[2] <= TileSize /\ q[2] - next[2] <= TileSize
  BY DEF Positions, StepY
<1>3. Meets(next[2], Top(t)) /\ ~Meets(q[2], Top(t))
  BY <1>2, OverlapsByAxis
<1>4. OnTheWay(q[2], z, next[2]) /\ (~Meets(q[2], Top(u)) => ~Meets(z, Top(u)))
  BY <1>2, <1>3, TilesAreApart, PushedBackOnAxis
<1>5. <<q[1], z>>[1] = q[1] /\ <<q[1], z>>[2] = z
  OBVIOUS
<1> HIDE DEF z
<1>6. ~Overlaps(<<q[1], z>>, u)
  BY <1>4, <1>5, OverlapsByAxis
<1> QED BY <1>1, <1>4, <1>5, <1>6

\* What TryMove returns is a position.
LEMMA TryMoveType ==
  ASSUME NEW q \in Positions, NEW next \in Positions, NEW blocking \in SUBSET MapTiles
  PROVE  TryMove(q, next, blocking) \in Positions
<1> DEFINE met   == {t \in blocking : Overlaps(next, t)}
           first == CHOOSE t \in met : \A u \in met : Scan(t, u)
<1>1. CASE met = {}
  BY <1>1 DEF TryMove
<1>2. CASE met # {}
  <2>1. first \in met
    BY <1>2, FirstInScan
  <2>2. first \in MapTiles
    BY <2>1
  <2>3. TryMove(q, next, blocking) = PushedBack(q, next, first)
    BY <1>2 DEF TryMove
  <2> HIDE DEF first
  <2>4. PushedBack(q, next, first) \in Positions
    <3>1. /\ Left(first) \in Int /\ Right(first) \in Int
          /\ Top(first) \in Int /\ Bottom(first) \in Int
      BY <2>2, TilesAreApart, WalkingAssumption DEF Left, Right, Top, Bottom
    <3> QED BY <3>1, HalfType DEF PushedBack, Positions
  <2> QED BY <2>3, <2>4
<1> QED BY <1>1, <1>2

\* TryMove of either side: a player that stands clear of everything that
\* blocks it and takes a step of at most a tile, along one axis, ends on its
\* way and clear of everything, although only the first tile of the scan
\* pushes it back.
THEOREM TryMoveStaysClear ==
  ASSUME NEW q \in Positions, NEW next \in Positions,
         StepX(q, next) \/ StepY(q, next),
         NEW blocking \in SUBSET MapTiles, Clear(q, blocking)
  PROVE  /\ Clear(TryMove(q, next, blocking), blocking)
         /\ OnTheWay(q[1], TryMove(q, next, blocking)[1], next[1])
         /\ OnTheWay(q[2], TryMove(q, next, blocking)[2], next[2])
<1> DEFINE met   == {t \in blocking : Overlaps(next, t)}
           first == CHOOSE t \in met : \A u \in met : Scan(t, u)
           end   == TryMove(q, next, blocking)
<1>1. /\ q[1] \in Int /\ q[2] \in Int /\ next[1] \in Int /\ next[2] \in Int
  BY DEF Positions
<1>2. CASE met = {}
  <2>1. end = next
    BY <1>2 DEF TryMove
  <2>2. Clear(next, blocking)
    BY <1>2 DEF Clear
  <2> QED BY <1>1, <2>1, <2>2 DEF OnTheWay
<1>3. CASE met # {}
  <2>1. end = PushedBack(q, next, first)
    BY <1>3 DEF TryMove
  <2>2. met \in SUBSET MapTiles
    OBVIOUS
  <2>3. \E t \in met : \A u \in met : Scan(t, u)
    BY <1>3, <2>2, FirstInScan
  <2>4. first \in met
    BY <2>3
  <2>5. first \in MapTiles /\ Overlaps(next, first) /\ ~Overlaps(q, first)
    BY <2>4 DEF Clear
  <2> HIDE DEF met, first, end
  <2>6. ASSUME NEW u \in blocking
        PROVE  /\ ~Overlaps(end, u)
               /\ OnTheWay(q[1], end[1], next[1])
               /\ OnTheWay(q[2], end[2], next[2])
    <3>1. u \in MapTiles /\ ~Overlaps(q, u)
      BY DEF Clear
    <3>2. CASE StepX(q, next)
      <4>1. next[2] = q[2]
        BY <3>2 DEF StepX
      <4> QED BY <1>1, <2>1, <2>5, <3>1, <3>2, <4>1, PushedBackInRow DEF OnTheWay
    <3>3. CASE StepY(q, next)
      <4>1. next[1] = q[1]
        BY <3>3 DEF StepY
      <4> QED BY <1>1, <2>1, <2>5, <3>1, <3>3, <4>1, PushedBackInColumn DEF OnTheWay
    <3> QED BY <3>2, <3>3
  <2>7. \E u \in blocking : TRUE
    BY <2>4 DEF met
  <2>8. Clear(end, blocking)
    BY <2>6 DEF Clear
  <2>9. OnTheWay(q[1], end[1], next[1]) /\ OnTheWay(q[2], end[2], next[2])
    BY <2>6, <2>7
  <2> QED BY <2>8, <2>9 DEF end
<1> QED BY <1>2, <1>3
-----------------------------------------------------------------------------
(* Prediction *)

UpPacket == [heading : Heading, x : Int]

DownPacket ==
    [type : {"S_Move"}, heading : Heading, x : Int, needsync : BOOLEAN]
    \cup [type : {"S_MainState"}, state : {"NORMAL", "TRAPPED", "DEAD", "ESCAPE"}]
    \cup [type : {"S_WaterBomb"}]
    \cup [type : {"S_Explode"}, block : Columns]

Types == TypeOK /\ up \in Seq(UpPacket) /\ down \in Seq(DownPacket)

\* a player at x overlaps the tile b of the row
Hits(x, b) == Overlaps(Row(x), Tile(b))

IsBreak(packet, b) == packet.type = "S_Explode" /\ packet.block = b

\* The client's map lags behind by exactly the S_Explodes on their way.
Announced ==
    /\ \A b \in myBlocks \ blocks : \E j \in 1 .. Len(down) : IsBreak(down[j], b)
    /\ \A b \in blocks, j \in 1 .. Len(down) : ~IsBreak(down[j], b)

\* the block b stands for the client when it comes to the packet down[i]
StandsAt(b, i) == b \in myBlocks /\ \A j \in 1 .. i - 1 : ~IsBreak(down[j], b)

\* Every position that either side holds or has sent is clear of the blocks
\* that will stand for the one who takes it.
Standing ==
    /\ \A b \in myBlocks : ~Hits(myPos, b)
    /\ \A b \in blocks : ~Hits(pos, b)
    /\ \A b \in blocks, i \in 1 .. Len(up) : ~Hits(up[i].x, b)
    /\ \A i \in 1 .. Len(down) : down[i].type = "S_Move" =>
          \A b \in Columns : StandsAt(b, i) => ~Hits(down[i].x, b)

IInv == Types /\ Announced /\ (~thrown => Standing)
-----------------------------------------------------------------------------
LEMMA TilesOnMap ==
  ASSUME NEW B \in SUBSET Columns, NEW theBomb
  PROVE  Blocking(B, theBomb) \in SUBSET MapTiles
BY PredictionAssumption DEF Blocking, Columns, Tile, MapTiles

LEMMA RowType ==
  ASSUME NEW x \in Int
  PROVE  Row(x) \in Positions /\ Row(x)[1] = x /\ Row(x)[2] = TileSize \div 2
BY WalkingAssumption DEF Row, Positions

LEMMA AheadType ==
  ASSUME NEW x \in Int, NEW d \in Dirs
  PROVE  Ahead(x, d) \in Int /\ StepX(Row(x), Row(Ahead(x, d)))
<1>1. Ahead(x, d) \in Int /\ Ahead(x, d) # x /\ Ahead(x, d) - x <= 1 /\ x - Ahead(x, d) <= 1
  BY DEF Ahead, Dirs
<1>2. TileSize \in Nat /\ 1 <= TileSize
  BY WalkingAssumption
<1> QED BY <1>1, <1>2, RowType DEF StepX

\* A step of a player that stands clear leaves it clear of every block.
LEMMA StepsStayClear ==
  ASSUME NEW x \in Int, NEW d \in Dirs, NEW B \in SUBSET Columns, NEW theBomb, NEW state,
         NEW y \in Steps(state, x, d, Blocking(B, theBomb))
  PROVE  /\ y \in Int
         /\ Clear(Row(x), Blocking(B, theBomb)) => \A b \in B : ~Hits(y, b)
<1> DEFINE q        == Row(x)
           next     == Row(Ahead(x, d))
           blocking == Blocking(B, theBomb)
           end      == TryMove(q, next, blocking)
<1>1. q \in Positions /\ next \in Positions /\ StepX(q, next) /\ blocking \in SUBSET MapTiles
  BY RowType, AheadType, TilesOnMap
<1>2. q[2] = TileSize \div 2 /\ next[2] = TileSize \div 2 /\ q[1] = x
  BY RowType, AheadType
<1>3. end \in Positions
  BY <1>1, TryMoveType
<1>4. y = x \/ y = end[1]
  BY DEF Steps, Walk
<1>5. \A b \in B : Tile(b) \in blocking
  BY DEF Blocking
<1>6. Clear(q, blocking) => Clear(end, blocking) /\ end[2] = TileSize \div 2
  <2> SUFFICES ASSUME Clear(q, blocking)
               PROVE  Clear(end, blocking) /\ end[2] = TileSize \div 2
    OBVIOUS
  <2>1. Clear(end, blocking) /\ OnTheWay(q[2], end[2], next[2])
    BY <1>1, TryMoveStaysClear
  <2>2. TileSize \div 2 \in Int /\ end[2] \in Int
    BY <1>3, WalkingAssumption DEF Positions
  <2> HIDE DEF end, q, next, blocking
  <2> QED BY <1>2, <2>1, <2>2 DEF OnTheWay
<1>7. y \in Int
  BY <1>3, <1>4 DEF Positions
<1>8. ASSUME Clear(q, blocking), NEW b \in B
      PROVE  ~Hits(y, b)
  <2>1. ~Overlaps(q, Tile(b)) /\ ~Overlaps(end, Tile(b))
    BY <1>5, <1>6, <1>8 DEF Clear
  <2>2. CASE y = x
    BY <2>1, <2>2 DEF Hits
  <2>3. CASE y = end[1]
    <3>1. Row(y)[1] = end[1] /\ Row(y)[2] = end[2]
      BY <1>6, <1>7, <1>8, <2>3, RowType
    <3> HIDE DEF end
    <3>2. Overlaps(Row(y), Tile(b)) <=> Overlaps(end, Tile(b))
      BY <3>1, OverlapsByAxis
    <3> QED BY <2>1, <3>2 DEF Hits
  <2> QED BY <1>4, <2>2, <2>3
<1> QED BY <1>7, <1>8
-----------------------------------------------------------------------------
LEMMA InitIInv == Init => IInv
<1> SUFFICES ASSUME Init
             PROVE  IInv
  OBVIOUS
<1>1. /\ myBlocks = StartBlocks /\ blocks = StartBlocks /\ StartBlocks \subseteq Columns
      /\ myPos = StartX /\ pos = StartX /\ StartX \in Int
      /\ up = <<>> /\ down = <<>> /\ Len(up) = 0 /\ Len(down) = 0
  BY PredictionAssumption DEF Init
<1>2. TypeOK
  <2>1. Len(up) <= MaxUp /\ Len(down) <= MaxDown
    BY <1>1, PredictionAssumption
  <2>2. /\ myHeading \in Heading /\ heading \in Heading
        /\ myBomb \in BombState /\ bomb \in BombState /\ myOverlap = FALSE
    BY DEF Init, Heading, BombState
  <2> QED BY <1>1, <2>1, <2>2 DEF TypeOK
<1>3. up \in Seq(UpPacket) /\ down \in Seq(DownPacket)
  BY <1>1
<1>4. Announced
  BY <1>1 DEF Announced
<1>5. \A b \in StartBlocks : ~Hits(StartX, b)
  BY PredictionAssumption DEF Clear, Hits
<1>6. Standing
  BY <1>1, <1>5 DEF Standing
<1> QED BY <1>2, <1>3, <1>4, <1>6 DEF IInv, Types
-----------------------------------------------------------------------------
(* The client                                                              *)

\* A frame: the client goes to x, where it is clear unless it was thrown, and
\* may report it.
LEMMA ClientSteps ==
  ASSUME IInv, NEW x \in Int, myPos' = x,
         thrown' \/ (~thrown /\ \A b \in myBlocks : ~Hits(x, b)),
         \/ up' = up
         \/ Len(up) < MaxUp /\ \E h \in Heading : up' = Append(up, C_Move(h, x)),
         myHeading' \in Heading, myBomb' \in BombState, myOverlap' \in BOOLEAN,
         myOverlap' => myBomb' = "passable",
         UNCHANGED <<myBlocks, pos, heading, blocks, bomb, down>>
  PROVE  IInv'
<1>1. /\ up \in Seq(UpPacket) /\ down \in Seq(DownPacket) /\ blocks \subseteq myBlocks
      /\ Len(up) <= MaxUp /\ MaxUp \in Nat
  BY PredictionAssumption DEF IInv, Types, TypeOK
<1>2. /\ up' \in Seq(UpPacket) /\ Len(up') <= MaxUp
      /\ \A i \in 1 .. Len(up') : (i \in 1 .. Len(up) /\ up'[i] = up[i]) \/ up'[i].x = x
  <2>1. CASE up' = up
    BY <1>1, <2>1
  <2>2. CASE up' # up
    <3>1. PICK h \in Heading : up' = Append(up, C_Move(h, x)) /\ Len(up) < MaxUp
      BY <2>2
    <3>2. C_Move(h, x) \in UpPacket /\ C_Move(h, x).x = x
      BY DEF C_Move, UpPacket
    <3> DEFINE r == C_Move(h, x)
    <3> HIDE DEF r
    <3>3. /\ up' \in Seq(UpPacket) /\ Len(up') = Len(up) + 1
          /\ \A i \in 1 .. Len(up) : up'[i] = up[i]
          /\ up'[Len(up) + 1] = r
      BY <1>1, <3>1, <3>2, AppendProperties DEF r
    <3>4. Len(up) \in Nat
      BY <1>1
    <3> QED BY <1>1, <3>1, <3>2, <3>3, <3>4 DEF r
  <2> QED BY <2>1, <2>2
<1>3. Types'
  BY <1>1, <1>2 DEF IInv, Types, TypeOK
<1>4. Announced'
  BY DEF IInv, Announced
<1>5. ASSUME ~thrown'
      PROVE  Standing'
  <2>1. Standing /\ \A b \in myBlocks : ~Hits(x, b)
    BY <1>5 DEF IInv
  <2>2. \A b \in blocks, i \in 1 .. Len(up') : ~Hits(up'[i].x, b)
    BY <1>1, <1>2, <2>1 DEF Standing
  <2>3. \A b, i : StandsAt(b, i)' = StandsAt(b, i)
    BY DEF StandsAt
  <2> QED BY <2>1, <2>2, <2>3 DEF Standing
<1> QED BY <1>3, <1>4, <1>5 DEF IInv

LEMMA FrameIInv == IInv /\ Frame => IInv'
<1> SUFFICES ASSUME IInv, Frame
             PROVE  IInv'
  OBVIOUS
<1>0. /\ myPos \in Int /\ myBlocks \subseteq Columns /\ myHeading \in Heading
      /\ myBomb \in BombState /\ myOverlap \in BOOLEAN /\ (myOverlap => myBomb = "passable")
  BY DEF IInv, Types, TypeOK
<1>1. ASSUME NEW d \in Dirs, StartWalking(d)
      PROVE  IInv'
  <2>1. /\ Len(up) < MaxUp /\ up' = Append(up, C_Move(d, myPos)) /\ myHeading' = d
        /\ UNCHANGED <<myPos, myBlocks, myBomb, myOverlap, pos, heading, blocks, bomb, down, thrown>>
    BY <1>1 DEF StartWalking, SyncToServer, serverVars
  <2>2. thrown' \/ (~thrown /\ \A b \in myBlocks : ~Hits(myPos, b))
    BY <2>1 DEF IInv, Standing
  <2>3. d \in Heading
    BY DEF Heading
  <2> QED BY <1>0, <2>1, <2>2, <2>3, ClientSteps
<1>2. ASSUME NEW h \in Heading, WalkOn(h)
      PROVE  IInv'
  <2> DEFINE d == IF h = "idle" THEN myHeading ELSE h
             blocking == Blocking(myBlocks, myBomb)
  <2>1. d \in Dirs /\ UNCHANGED <<myBlocks, pos, heading, blocks, bomb, down>>
    BY <1>0, <1>2 DEF WalkOn, Heading, serverVars
  <2>2. CASE OnMap(Ahead(myPos, d))
    <3>1. PICK x \in Steps(myState, myPos, d, blocking) :
             /\ myPos' = x
             /\ DropOverlap(x)
             /\ ThrownFrom(myPos, blocking)
             /\ SyncToServer(h, x) \/ UNCHANGED up
      BY <1>2, <2>2 DEF WalkOn
    <3>2. myHeading' = h
      BY <1>2, <2>2 DEF WalkOn
    <3>3. x \in Int /\ (Clear(Row(myPos), blocking) => \A b \in myBlocks : ~Hits(x, b))
      BY <1>0, <2>1, <3>1, StepsStayClear
    <3>4. thrown' \/ (~thrown /\ \A b \in myBlocks : ~Hits(x, b))
      BY <3>1, <3>3 DEF ThrownFrom
    <3>5. /\ myBomb' \in BombState /\ myOverlap' \in BOOLEAN
          /\ (myOverlap' => myBomb' = "passable")
      BY <1>0, <3>1 DEF DropOverlap, BombState
    <3>6. \/ up' = up
          \/ Len(up) < MaxUp /\ \E g \in Heading : up' = Append(up, C_Move(g, x))
      BY <3>1 DEF SyncToServer
    <3> QED BY <2>1, <3>1, <3>2, <3>3, <3>4, <3>5, <3>6, ClientSteps
  <2>3. CASE ~OnMap(Ahead(myPos, d))
    <3>1. UNCHANGED <<myPos, myHeading, myBomb, myOverlap, up, thrown>>
      BY <1>2, <2>3 DEF WalkOn
    <3>2. thrown' \/ (~thrown /\ \A b \in myBlocks : ~Hits(myPos, b))
      BY <3>1 DEF IInv, Standing
    <3> QED BY <1>0, <2>1, <3>1, <3>2, ClientSteps
  <2> QED BY <2>2, <2>3
<1> QED BY <1>1, <1>2 DEF Frame

\* The client takes the packet at the head of the queue: what stands for the
\* packets behind it is what stood for them before.
LEMMA ClientReceives ==
  ASSUME IInv, down # <<>>, down' = Tail(down),
         myBlocks' = {b \in myBlocks : ~IsBreak(Head(down), b)},
         myPos' = myPos \/ (Head(down).type = "S_Move" /\ myPos' = Head(down).x),
         myBomb' \in BombState, myOverlap' \in BOOLEAN, myOverlap' => myBomb' = "passable",
         UNCHANGED <<myHeading, pos, heading, blocks, bomb, up, thrown>>
  PROVE  IInv'
<1>1. /\ down \in Seq(DownPacket) /\ Len(down) \in Nat /\ blocks \subseteq myBlocks
      /\ myBlocks \subseteq Columns /\ myPos \in Int
      /\ Len(down) <= MaxDown /\ MaxDown \in Nat
  BY PredictionAssumption DEF IInv, Types, TypeOK
<1>2. /\ Head(down) = down[1] /\ Head(down) \in DownPacket /\ 1 <= Len(down)
      /\ down' \in Seq(DownPacket) /\ Len(down') = Len(down) - 1
      /\ \A i \in 1 .. Len(down') : down'[i] = down[i + 1]
  BY <1>1, HeadTailProperties
<1>3. \A b \in blocks : ~IsBreak(Head(down), b)
  BY <1>1, <1>2 DEF IInv, Announced
<1>4. myPos' \in Int
  BY <1>1, <1>2 DEF DownPacket
<1>5. Types'
  <2>1. blocks \subseteq myBlocks' /\ myBlocks' \subseteq Columns
    BY <1>1, <1>3
  <2>2. Len(down') <= MaxDown
    BY <1>1, <1>2
  <2> QED BY <1>2, <1>4, <2>1, <2>2 DEF IInv, Types, TypeOK
<1>6. Announced'
  <2>1. ASSUME NEW b \in myBlocks' \ blocks
        PROVE  \E j \in 1 .. Len(down') : IsBreak(down'[j], b)
    <3>1. b \in myBlocks \ blocks /\ ~IsBreak(down[1], b)
      BY <1>2, <2>1
    <3>2. PICK j \in 1 .. Len(down) : IsBreak(down[j], b)
      BY <3>1 DEF IInv, Announced
    <3>3. j # 1
      BY <3>1, <3>2
    <3>4. j - 1 \in 1 .. Len(down') /\ j - 1 + 1 = j
      BY <1>1, <1>2, <3>3
    <3> QED BY <1>2, <3>2, <3>4
  <2>2. ASSUME NEW b \in blocks, NEW j \in 1 .. Len(down')
        PROVE  ~IsBreak(down'[j], b)
    <3>1. j + 1 \in 1 .. Len(down)
      BY <1>1, <1>2
    <3> QED BY <1>2, <3>1 DEF IInv, Announced
  <2> QED BY <2>1, <2>2 DEF Announced
<1>7. ASSUME ~thrown'
      PROVE  Standing'
  <2>1. Standing
    BY <1>7 DEF IInv
  <2>2. ASSUME NEW i \in 1 .. Len(down'), NEW b \in Columns, StandsAt(b, i)'
        PROVE  StandsAt(b, i + 1)
    <3>1. b \in myBlocks /\ ~IsBreak(down[1], b)
      BY <1>2, <2>2 DEF StandsAt
    <3>2. ASSUME NEW j \in 1 .. (i + 1) - 1
          PROVE  ~IsBreak(down[j], b)
      <4>1. CASE j = 1
        BY <3>1, <4>1
      <4>2. CASE j # 1
        <5>1. j - 1 \in 1 .. i - 1 /\ j - 1 \in 1 .. Len(down') /\ j - 1 + 1 = j
          BY <1>1, <1>2, <4>2
        <5> QED BY <1>2, <2>2, <5>1 DEF StandsAt
      <4> QED BY <4>1, <4>2
    <3> QED BY <3>1, <3>2 DEF StandsAt
  <2>3. ASSUME NEW i \in 1 .. Len(down'), down'[i].type = "S_Move",
               NEW b \in Columns, StandsAt(b, i)'
        PROVE  ~Hits(down'[i].x, b)
    <3>1. i + 1 \in 1 .. Len(down) /\ down'[i] = down[i + 1]
      BY <1>1, <1>2
    <3> QED BY <2>1, <2>2, <2>3, <3>1 DEF Standing
  <2>4. ASSUME NEW b \in myBlocks'
        PROVE  ~Hits(myPos', b)
    <3>1. b \in myBlocks /\ b \in Columns
      BY <1>1, <2>4
    <3>2. CASE myPos' = myPos
      BY <2>1, <3>1, <3>2 DEF Standing
    <3>3. CASE Head(down).type = "S_Move" /\ myPos' = Head(down).x
      <4>1. StandsAt(b, 1)
        BY <3>1 DEF StandsAt
      <4>2. 1 \in 1 .. Len(down)
        BY <1>1, <1>2
      <4> QED BY <1>2, <2>1, <3>1, <3>3, <4>1, <4>2 DEF Standing
    <3> QED BY <3>2, <3>3
  <2> QED BY <2>1, <2>3, <2>4 DEF Standing
<1> QED BY <1>5, <1>6, <1>7 DEF IInv

LEMMA ReceiveIInv == IInv /\ Receive => IInv'
<1> SUFFICES ASSUME IInv, Receive
             PROVE  IInv'
  OBVIOUS
<1>1. /\ down # <<>> /\ down' = Tail(down)
      /\ UNCHANGED <<myHeading, pos, heading, blocks, bomb, up, thrown>>
  BY DEF Receive, Handle_S_Move, Handle_S_MainState, Handle_S_WaterBomb, Handle_S_Explode,
         Received, serverVars
<1>2. /\ myBomb \in BombState /\ myOverlap \in BOOLEAN /\ (myOverlap => myBomb = "passable")
      /\ myBlocks \subseteq Columns
  BY DEF IInv, Types, TypeOK
<1>3. myBlocks' = {b \in myBlocks : ~IsBreak(Head(down), b)}
  <2>1. CASE Handle_S_Explode
    BY <2>1 DEF Handle_S_Explode, IsBreak, Packet
  <2>2. CASE Handle_S_Move \/ Handle_S_MainState \/ Handle_S_WaterBomb
    BY <2>2 DEF Handle_S_Move, Handle_S_MainState, Handle_S_WaterBomb, IsBreak, Packet
  <2> QED BY <2>1, <2>2 DEF Receive
<1>4. myPos' = myPos \/ (Head(down).type = "S_Move" /\ myPos' = Head(down).x)
  BY DEF Receive, Handle_S_Move, Handle_S_MainState, Handle_S_WaterBomb, Handle_S_Explode, Packet
<1>5. /\ myBomb' \in BombState /\ myOverlap' \in BOOLEAN
      /\ (myOverlap' => myBomb' = "passable")
  <2>1. CASE Handle_S_WaterBomb
    <3>1. myBomb' = "passable" /\ myOverlap' = OnBombTile(myPos)
      BY <2>1 DEF Handle_S_WaterBomb
    <3>2. OnBombTile(myPos) \in BOOLEAN
      BY DEF OnBombTile, Overlaps
    <3> QED BY <3>1, <3>2 DEF BombState
  <2>2. CASE Handle_S_Move \/ Handle_S_MainState \/ Handle_S_Explode
    BY <1>2, <2>2 DEF Handle_S_Move, Handle_S_MainState, Handle_S_Explode
  <2> QED BY <2>1, <2>2 DEF Receive
<1> QED BY <1>1, <1>3, <1>4, <1>5, ClientReceives
-----------------------------------------------------------------------------
(* The server                                                              *)

\* The server changes its player and perhaps its map, and tells the client.
LEMMA ServerSteps ==
  ASSUME IInv, UNCHANGED <<myPos, myHeading, myBlocks, myBomb, myOverlap>>,
         pos' \in Int, heading' \in Heading, bomb' \in BombState, thrown => thrown',
         up' = up \/ (up # <<>> /\ up' = Tail(up)),
         ~thrown' => \A b \in blocks' : ~Hits(pos', b),
         \/ down' = down /\ blocks' = blocks
         \/ /\ Len(down) < MaxDown
            /\ \E r \in DownPacket : /\ down' = Append(down, r)
                                     /\ blocks' = {b \in blocks : ~IsBreak(r, b)}
                                     /\ r.type = "S_Move" => r.x = pos'
  PROVE  IInv'
<1>1. /\ down \in Seq(DownPacket) /\ Len(down) \in Nat /\ blocks \subseteq myBlocks
      /\ up \in Seq(UpPacket) /\ Len(up) \in Nat /\ Len(up) <= MaxUp /\ MaxUp \in Nat
      /\ Len(down) <= MaxDown /\ MaxDown \in Nat
  BY PredictionAssumption DEF IInv, Types, TypeOK
<1>2. /\ up' \in Seq(UpPacket) /\ Len(up') <= MaxUp
      /\ \A i \in 1 .. Len(up') : \E j \in 1 .. Len(up) : up'[i] = up[j]
  <2>1. CASE up' = up
    BY <1>1, <2>1
  <2>2. CASE up # <<>> /\ up' = Tail(up)
    <3>1. /\ up' \in Seq(UpPacket) /\ Len(up') = Len(up) - 1
          /\ \A i \in 1 .. Len(up') : up'[i] = up[i + 1]
      BY <1>1, <2>2, HeadTailProperties
    <3>2. \A i \in 1 .. Len(up') : i + 1 \in 1 .. Len(up)
      BY <1>1, <3>1
    <3> QED BY <1>1, <3>1, <3>2
  <2> QED BY <2>1, <2>2
<1>3. blocks' \subseteq blocks
  OBVIOUS
<1>4. /\ down' \in Seq(DownPacket) /\ Len(down') <= MaxDown
      /\ Announced'
      /\ ~thrown' => \A i \in 1 .. Len(down') : down'[i].type = "S_Move" =>
            \A b \in Columns : StandsAt(b, i)' => ~Hits(down'[i].x, b)
  <2>1. CASE down' = down /\ blocks' = blocks
    <3>1. Announced'
      BY <2>1 DEF IInv, Announced
    <3>2. \A b, i : StandsAt(b, i)' = StandsAt(b, i)
      BY <2>1 DEF StandsAt
    <3> QED BY <1>1, <2>1, <3>1, <3>2 DEF IInv, Standing
  <2>2. CASE ~ (down' = down /\ blocks' = blocks)
    <3>1. PICK r \in DownPacket : /\ down' = Append(down, r)
                                  /\ blocks' = {b \in blocks : ~IsBreak(r, b)}
                                  /\ r.type = "S_Move" => r.x = pos'
      BY <2>2
    <3>2. Len(down) < MaxDown
      BY <2>2
    <3> DEFINE n == Len(down) + 1
    <3>3. /\ down' \in Seq(DownPacket) /\ Len(down') = n
          /\ \A i \in 1 .. Len(down) : down'[i] = down[i]
          /\ down'[n] = r
      BY <1>1, <3>1, AppendProperties
    <3>4. n \in Nat /\ n - 1 = Len(down) /\ 1 .. n = (1 .. Len(down)) \cup {n} /\ n <= MaxDown
      BY <1>1, <3>2
    <3> HIDE DEF n
    <3>5. ASSUME NEW b \in myBlocks \ blocks'
          PROVE  \E j \in 1 .. n : IsBreak(down'[j], b)
      <4>1. CASE b \in blocks
        BY <3>1, <3>3, <3>4, <3>5, <4>1
      <4>2. CASE b \notin blocks
        <5>1. PICK j \in 1 .. Len(down) : IsBreak(down[j], b)
          BY <3>5, <4>2 DEF IInv, Announced
        <5> QED BY <3>3, <3>4, <5>1
      <4> QED BY <4>1, <4>2
    <3>6. ASSUME NEW b \in blocks', NEW j \in 1 .. n
          PROVE  ~IsBreak(down'[j], b)
      BY <3>1, <3>3, <3>4 DEF IInv, Announced
    <3>7. Announced'
      BY <3>3, <3>5, <3>6 DEF Announced
    <3>8. ASSUME ~thrown', NEW i \in 1 .. n, down'[i].type = "S_Move",
                 NEW b \in Columns, StandsAt(b, i)'
          PROVE  ~Hits(down'[i].x, b)
      <4>1. Standing /\ b \in myBlocks
        BY <3>8 DEF IInv, StandsAt
      <4>2. CASE i \in 1 .. Len(down)
        <5>1. \A j \in 1 .. i - 1 : j \in 1 .. Len(down)
          BY <1>1, <4>2
        <5>2. StandsAt(b, i)
          BY <3>3, <3>8, <4>1, <5>1 DEF StandsAt
        <5> QED BY <3>3, <3>8, <4>1, <4>2, <5>2 DEF Standing
      <4>3. CASE i = n
        <5>1. \A j \in 1 .. Len(down) : ~IsBreak(down[j], b)
          BY <3>3, <3>4, <3>8, <4>3 DEF StandsAt
        <5>2. b \in blocks
          BY <4>1, <5>1 DEF IInv, Announced
        <5>3. r.type = "S_Move" /\ r.x = pos' /\ ~IsBreak(r, b)
          BY <3>1, <3>3, <3>8, <4>3 DEF IsBreak
        <5>4. b \in blocks'
          BY <3>1, <5>2, <5>3
        <5> QED BY <3>3, <3>8, <4>3, <5>3, <5>4
      <4> QED BY <3>4, <4>2, <4>3
    <3> QED BY <3>3, <3>4, <3>7, <3>8
  <2> QED BY <2>1, <2>2
<1>5. Types'
  BY <1>1, <1>2, <1>3, <1>4 DEF IInv, Types, TypeOK
<1>6. ASSUME ~thrown'
      PROVE  Standing'
  <2>1. Standing
    BY <1>6 DEF IInv
  <2>2. \A b \in blocks', i \in 1 .. Len(up') : ~Hits(up'[i].x, b)
    BY <1>2, <1>3, <2>1 DEF Standing
  <2>3. \A b \in myBlocks : ~Hits(myPos, b)
    BY <2>1 DEF Standing
  <2> QED BY <1>4, <1>6, <2>2, <2>3 DEF Standing
<1> QED BY <1>4, <1>5, <1>6 DEF IInv

LEMMA ServeIInv == IInv /\ Serve => IInv'
<1> SUFFICES ASSUME IInv, Serve
             PROVE  IInv'
  OBVIOUS
<1>0. /\ pos \in Int /\ heading \in Heading /\ bomb \in BombState /\ blocks \subseteq Columns
      /\ up \in Seq(UpPacket)
      /\ ~thrown => Standing
  BY DEF IInv, Types, TypeOK
<1>1. CASE Handle_C_Move
  <2>1. /\ up # <<>> /\ up' = Tail(up)
        /\ UNCHANGED <<blocks, bomb, thrown, myPos, myHeading, myBlocks, myBomb, myOverlap>>
    BY <1>1 DEF Handle_C_Move, clientVars
  <2>2. Head(up) \in UpPacket /\ Head(up) = up[1] /\ 1 \in 1 .. Len(up)
    BY <1>0, <2>1, HeadTailProperties
  <2>3. CASE mainState = "DEAD"
    <3>1. UNCHANGED <<heading, pos, down>>
      BY <1>1, <2>3 DEF Handle_C_Move
    <3>2. ~thrown' => \A b \in blocks' : ~Hits(pos', b)
      BY <1>0, <2>1, <3>1 DEF Standing
    <3> QED BY <1>0, <2>1, <3>1, <3>2, ServerSteps
  <2>4. CASE mainState # "DEAD"
    <3> DEFINE r == S_Move(heading', pos', ~Close(Head(up).x))
    <3>1. /\ heading' = Head(up).heading
          /\ pos' = Head(up).x \/ pos' = pos
          /\ Len(down) < MaxDown /\ down' = Append(down, r)
      BY <1>1, <2>4 DEF Handle_C_Move, Broadcast
    <3>2. heading' \in Heading /\ pos' \in Int
      BY <1>0, <2>2, <3>1 DEF UpPacket
    <3>3. (~Close(Head(up).x)) \in BOOLEAN
      BY DEF Close
    <3>4. r \in DownPacket /\ r.type = "S_Move" /\ r.x = pos'
      BY <3>2, <3>3 DEF S_Move, DownPacket
    <3> HIDE DEF r
    <3>5. blocks' = {b \in blocks : ~IsBreak(r, b)}
      BY <2>1, <3>4 DEF IsBreak
    <3>6. ~thrown' => \A b \in blocks' : ~Hits(pos', b)
      BY <1>0, <2>1, <2>2, <3>1 DEF Standing
    <3> QED BY <1>0, <2>1, <3>1, <3>2, <3>4, <3>5, <3>6, ServerSteps
  <2> QED BY <2>3, <2>4
<1>2. CASE Tick
  <2> DEFINE blocking == Blocking(blocks, bomb)
  <2>1. /\ heading \in Dirs
        /\ UNCHANGED <<heading, blocks, up, down, myPos, myHeading, myBlocks, myBomb, myOverlap>>
    BY <1>0, <1>2 DEF Tick, Heading, clientVars
  <2>2. PICK x \in Steps(mainState, pos, heading, blocking) :
           pos' = x /\ ThrownFrom(pos, blocking) /\ bomb' \in {"blocking", bomb}
    BY <1>2 DEF Tick
  <2>3. x \in Int /\ (Clear(Row(pos), blocking) => \A b \in blocks : ~Hits(x, b))
    BY <1>0, <2>1, <2>2, StepsStayClear
  <2>4. (thrown => thrown') /\ (~thrown' => \A b \in blocks' : ~Hits(pos', b))
    BY <2>1, <2>2, <2>3 DEF ThrownFrom
  <2>5. bomb' \in BombState
    BY <1>0, <2>2 DEF BombState
  <2> QED BY <1>0, <2>1, <2>2, <2>3, <2>4, <2>5, ServerSteps
<1>3. ASSUME NEW s \in {"TRAPPED", "DEAD", "ESCAPE", "NORMAL"}, SetMainState(s)
      PROVE  IInv'
  <2> DEFINE r == [type |-> "S_MainState", state |-> s]
  <2>1. /\ Len(down) < MaxDown /\ down' = Append(down, r)
        /\ UNCHANGED <<pos, heading, blocks, bomb, up, thrown>>
        /\ UNCHANGED <<myPos, myHeading, myBlocks, myBomb, myOverlap>>
    BY <1>3 DEF SetMainState, Broadcast, clientVars
  <2>2. r \in DownPacket /\ r.type = "S_MainState"
    BY DEF DownPacket
  <2> HIDE DEF r
  <2>3. blocks' = {b \in blocks : ~IsBreak(r, b)}
    BY <2>1, <2>2 DEF IsBreak
  <2>4. ~thrown' => \A b \in blocks' : ~Hits(pos', b)
    BY <1>0, <2>1 DEF Standing
  <2> QED BY <1>0, <2>1, <2>2, <2>3, <2>4, ServerSteps
<1>4. CASE Plant
  <2> DEFINE r == [type |-> "S_WaterBomb"]
  <2>1. /\ Len(down) < MaxDown /\ down' = Append(down, r)
        /\ bomb' \in {"passable", "blocking"}
        /\ UNCHANGED <<pos, heading, blocks, up, thrown>>
        /\ UNCHANGED <<myPos, myHeading, myBlocks, myBomb, myOverlap>>
    BY <1>4 DEF Plant, Broadcast, clientVars
  <2>2. r \in DownPacket /\ r.type = "S_WaterBomb"
    BY DEF DownPacket
  <2> HIDE DEF r
  <2>3. blocks' = {b \in blocks : ~IsBreak(r, b)}
    BY <2>1, <2>2 DEF IsBreak
  <2>4. ~thrown' => \A b \in blocks' : ~Hits(pos', b)
    BY <1>0, <2>1 DEF Standing
  <2>5. bomb' \in BombState
    BY <2>1 DEF BombState
  <2> QED BY <1>0, <2>1, <2>2, <2>3, <2>4, <2>5, ServerSteps
<1>5. ASSUME NEW x \in Columns, Break(x)
      PROVE  IInv'
  <2> DEFINE r == [type |-> "S_Explode", block |-> x]
  <2>1. /\ Len(down) < MaxDown /\ down' = Append(down, r)
        /\ blocks' = blocks \ {x}
        /\ UNCHANGED <<pos, heading, bomb, up, thrown>>
        /\ UNCHANGED <<myPos, myHeading, myBlocks, myBomb, myOverlap>>
    BY <1>5 DEF Break, Broadcast, clientVars
  <2>2. r \in DownPacket /\ r.type = "S_Explode" /\ r.block = x
    BY DEF DownPacket
  <2> HIDE DEF r
  <2>3. blocks' = {b \in blocks : ~IsBreak(r, b)}
    BY <2>1, <2>2 DEF IsBreak
  <2>4. ~thrown' => \A b \in blocks' : ~Hits(pos', b)
    BY <1>0, <2>1 DEF Standing
  <2> QED BY <1>0, <2>1, <2>2, <2>3, <2>4, ServerSteps
<1> QED BY <1>1, <1>2, <1>3, <1>4, <1>5 DEF Serve
-----------------------------------------------------------------------------
LEMMA Inductive == Spec => []IInv
<1>1. Init => IInv
  BY InitIInv
<1>2. IInv /\ [Next]_vars => IInv'
  <2>1. IInv /\ UNCHANGED vars => IInv'
    <3> SUFFICES ASSUME IInv, UNCHANGED vars
                 PROVE  IInv'
      OBVIOUS
    <3>1. /\ UNCHANGED <<myPos, myHeading, myBlocks, myBomb, myOverlap>>
          /\ UNCHANGED <<pos, heading, bomb, thrown, up, down, blocks>>
      BY DEF vars, clientVars, serverVars
    <3>2. pos \in Int /\ heading \in Heading /\ bomb \in BombState
      BY DEF IInv, Types, TypeOK
    <3>3. ~thrown' => \A b \in blocks' : ~Hits(pos', b)
      BY <3>1 DEF IInv, Standing
    <3> QED BY <3>1, <3>2, <3>3, ServerSteps
  <2> QED BY <2>1, FrameIInv, ReceiveIInv, ServeIInv DEF Next
<1> QED BY <1>1, <1>2, PTL DEF Spec

\* Every variable keeps its type, the client never has fewer blocks than the
\* server, and a bomb in _overlapBombs is passable.
THEOREM PredictionTypes == Spec => []TypeOK
<1>1. IInv => TypeOK
  BY DEF IInv, Types
<1> QED BY <1>1, Inductive, PTL

\* Neither side ever has the player in a block that stands there, however
\* late positions, corrections and destroyed blocks arrive, as long as no bomb
\* has pushed a player out.
THEOREM NeverInABlock == Spec => []NobodyInABlock
<1>1. IInv => NobodyInABlock
  <2> SUFFICES ASSUME IInv, ~thrown
               PROVE  /\ Clear(Row(pos), Blocking(blocks, "none"))
                      /\ Clear(Row(myPos), Blocking(myBlocks, "none"))
    BY DEF NobodyInABlock
  <2>1. Standing
    BY DEF IInv
  <2> QED BY <2>1 DEF Standing, Clear, Blocking, Hits
<1> QED BY <1>1, Inductive, PTL
-----------------------------------------------------------------------------
(* What the two sides owe each other when the client has stopped           *)

LastMove(k) ==
    /\ k \in 1 .. Len(down) /\ down[k].type = "S_Move"
    /\ \A n \in k + 1 .. Len(down) : down[n].type # "S_Move"

\* As long as the last C_Move is under way it says where the client stopped.
Reported ==
    up # <<>> => /\ up[Len(up)].heading = "idle"
                 /\ myPos = up[Len(up)].x \/ crossed

\* Once it has been followed the server stands as well, and the last S_Move
\* under way, if there is one, says where; if it is not to be followed, or if
\* there is none, the client stands there already.
Answered ==
    up = <<>> /\ ~ignored =>
        /\ heading = "idle"
        /\ \A k \in 1 .. Len(down) : LastMove(k) =>
              /\ down[k].x = pos
              /\ down[k].needsync \/ myPos = pos \/ crossed
        /\ (\A k \in 1 .. Len(down) : down[k].type # "S_Move") => myPos = pos \/ crossed

Stopped == myHeading = "idle" /\ ~offMap => Reported /\ Answered

\* Nothing happens to the queues and to where the two stand.
LEMMA StoppedStays ==
  ASSUME Stopped, UNCHANGED <<myPos, myHeading, offMap, up, down, heading, pos, crossed, ignored>>
  PROVE  Stopped'
BY DEF Stopped, Reported, Answered, LastMove

LEMMA InitStopped == Init => Stopped
<1> SUFFICES ASSUME Init
             PROVE  Stopped
  OBVIOUS
<1>1. up = <<>> /\ down = <<>> /\ heading = "idle" /\ myPos = pos /\ Len(down) = 0
  BY DEF Init
<1> QED BY <1>1 DEF Stopped, Reported, Answered, LastMove

\* A client that stops, or turns, or goes on: only the one that stops owes
\* anything, and it has just said where it is.
LEMMA FrameStopped == IInv /\ Stopped /\ Frame => Stopped'
<1> SUFFICES ASSUME IInv, Stopped, Frame
             PROVE  Stopped'
  OBVIOUS
<1>0. up \in Seq(UpPacket) /\ myHeading \in Heading
  BY DEF IInv, Types, TypeOK
<1>1. ASSUME NEW d \in Dirs, StartWalking(d)
      PROVE  Stopped'
  BY <1>1 DEF StartWalking, Stopped, Dirs
<1>2. ASSUME NEW h \in Heading, WalkOn(h)
      PROVE  Stopped'
  <2> DEFINE d == IF h = "idle" THEN myHeading ELSE h
  <2>1. CASE ~OnMap(Ahead(myPos, d))
    BY <1>2, <2>1 DEF WalkOn, Stopped
  <2>2. CASE OnMap(Ahead(myPos, d))
    <3>1. /\ myHeading # "idle" /\ myHeading' = h
          /\ \E x : myPos' = x /\ (SyncToServer(h, x) \/ h = myHeading)
      BY <1>2, <2>2 DEF WalkOn
    <3>2. CASE h # "idle"
      BY <3>1, <3>2 DEF Stopped
    <3>3. CASE h = "idle"
      <4>1. /\ up' = Append(up, C_Move("idle", myPos'))
        BY <3>1, <3>3 DEF SyncToServer
      <4>2. C_Move("idle", myPos').heading = "idle" /\ C_Move("idle", myPos').x = myPos'
        BY DEF C_Move
      <4> DEFINE r == C_Move("idle", myPos')
      <4> HIDE DEF r
      <4>3. Len(up') = Len(up) + 1 /\ up'[Len(up) + 1] = r /\ Len(up) \in Nat
        BY <1>0, <4>1 DEF r
      <4>4. up' # <<>>
        BY <4>3
      <4>5. up'[Len(up')].heading = "idle" /\ up'[Len(up')].x = myPos'
        BY <4>2, <4>3 DEF r
      <4> QED BY <4>4, <4>5 DEF Stopped, Reported, Answered
    <3> QED BY <3>2, <3>3
  <2> QED BY <2>1, <2>2
<1> QED BY <1>1, <1>2 DEF Frame

\* A packet arrives: a correction that is not the last is late, and the last
\* one brings the client to where the server stands.
LEMMA ReceiveStopped == IInv /\ Stopped /\ Receive => Stopped'
<1> SUFFICES ASSUME IInv, Stopped, Receive, myHeading = "idle", ~offMap
             PROVE  Reported' /\ Answered'
  BY DEF Receive, Stopped, Handle_S_Move, Handle_S_MainState, Handle_S_WaterBomb,
         Handle_S_Explode
<1>1. Reported /\ Answered
  BY DEF Stopped
<1>2. down \in Seq(DownPacket) /\ down # <<>> /\ down' = Tail(down) /\ Len(down) \in Nat
  BY DEF IInv, Types, Receive, Handle_S_Move, Handle_S_MainState, Handle_S_WaterBomb,
         Handle_S_Explode, Received
<1>3. /\ Head(down) = down[1] /\ 1 <= Len(down) /\ Len(down') = Len(down) - 1
      /\ \A i \in 1 .. Len(down') : down'[i] = down[i + 1]
  BY <1>2, HeadTailProperties
<1>4. UNCHANGED <<pos, heading, up, ignored>>
  BY DEF Receive, serverVars
<1>5. \/ UNCHANGED <<myPos, crossed>> /\ ~(Head(down).type = "S_Move" /\ Head(down).needsync)
      \/ /\ Head(down).type = "S_Move" /\ Head(down).needsync
         /\ myPos' = Head(down).x /\ crossed' = Late
  BY DEF Receive, Handle_S_Move, Handle_S_MainState, Handle_S_WaterBomb, Handle_S_Explode,
         Followed, Packet
<1>6. Reported'
  BY <1>1, <1>4, <1>5 DEF Reported, Late
<1>7. ASSUME up = <<>>, ~ignored
      PROVE  /\ heading = "idle"
             /\ \A k \in 1 .. Len(down') : LastMove(k)' =>
                   /\ down'[k].x = pos
                   /\ down'[k].needsync \/ myPos' = pos \/ crossed'
             /\ (\A k \in 1 .. Len(down') : down'[k].type # "S_Move") => myPos' = pos \/ crossed'
  <2>1. /\ heading = "idle"
        /\ \A k \in 1 .. Len(down) : LastMove(k) =>
              /\ down[k].x = pos
              /\ down[k].needsync \/ myPos = pos \/ crossed
        /\ (\A k \in 1 .. Len(down) : down[k].type # "S_Move") => myPos = pos \/ crossed
    BY <1>1, <1>7 DEF Answered
  <2>2. ASSUME NEW k \in 1 .. Len(down'), LastMove(k)'
        PROVE  /\ down'[k].x = pos
               /\ down'[k].needsync \/ myPos' = pos \/ crossed'
    <3>1. /\ k \in Nat /\ k + 1 \in 2 .. Len(down) /\ k + 1 \in 1 .. Len(down)
          /\ down'[k] = down[k + 1] /\ down[k + 1].type = "S_Move"
      BY <1>2, <1>3, <2>2 DEF LastMove
    <3>2. ASSUME NEW n \in (k + 1) + 1 .. Len(down)
          PROVE  down[n].type # "S_Move"
      <4>1. n - 1 \in k + 1 .. Len(down') /\ n - 1 \in 1 .. Len(down') /\ (n - 1) + 1 = n
        BY <1>2, <1>3, <3>1
      <4>2. down'[n - 1] = down[n]
        BY <1>3, <4>1
      <4> QED BY <2>2, <4>1, <4>2 DEF LastMove
    <3>3. LastMove(k + 1)
      BY <3>1, <3>2 DEF LastMove
    <3>4. crossed' \/ UNCHANGED <<myPos, crossed>>
      BY <1>5, <3>1 DEF Late
    <3> QED BY <2>1, <3>1, <3>3, <3>4
  <2>3. ASSUME \A k \in 1 .. Len(down') : down'[k].type # "S_Move"
        PROVE  myPos' = pos \/ crossed'
    <3>1. ASSUME NEW n \in 2 .. Len(down)
          PROVE  down[n].type # "S_Move"
      <4>1. n - 1 \in 1 .. Len(down') /\ (n - 1) + 1 = n
        BY <1>2, <1>3
      <4> QED BY <1>3, <2>3, <4>1
    <3>2. CASE down[1].type = "S_Move"
      <4>1. LastMove(1) /\ 1 \in 1 .. Len(down)
        BY <1>2, <1>3, <3>1, <3>2 DEF LastMove
      <4>2. down[1].x = pos /\ (down[1].needsync \/ myPos = pos \/ crossed)
        BY <2>1, <4>1
      <4>3. CASE down[1].needsync
        BY <1>3, <1>5, <3>2, <4>2, <4>3
      <4>4. CASE ~down[1].needsync
        <5>1. myPos' = myPos /\ crossed' = crossed
          BY <1>3, <1>5, <4>4
        <5> QED BY <4>2, <4>4, <5>1
      <4> QED BY <4>3, <4>4
    <3>3. CASE down[1].type # "S_Move"
      <4>1. \A n \in 1 .. Len(down) : n = 1 \/ n \in 2 .. Len(down)
        BY <1>2
      <4>2. myPos = pos \/ crossed
        BY <2>1, <3>1, <3>3, <4>1
      <4> QED BY <1>3, <1>5, <3>3, <4>2
    <3> QED BY <3>2, <3>3
  <2> QED BY <2>1, <2>2, <2>3
<1>8. Answered'
  BY <1>4, <1>7 DEF Answered
<1> QED BY <1>6, <1>8

\* A packet of another kind is no S_Move: what was the last one still is.
LEMMA SentStopped ==
  ASSUME IInv, Stopped, NEW r \in DownPacket, r.type # "S_Move", down' = Append(down, r),
         UNCHANGED <<myPos, myHeading, offMap, up, heading, pos, crossed, ignored>>
  PROVE  Stopped'
<1>1. down \in Seq(DownPacket) /\ Len(down) \in Nat
  BY DEF IInv, Types
<1> DEFINE last == Len(down) + 1
<1>2. /\ Len(down') = last /\ \A i \in 1 .. Len(down) : down'[i] = down[i]
      /\ down'[last] = r
  BY <1>1, AppendProperties
<1>3. last \in Nat /\ 1 .. last = (1 .. Len(down)) \cup {last} /\ last \notin 1 .. Len(down)
  BY <1>1
<1>4. \A k \in Nat : last \in k + 1 .. last => last \in 1 .. last
  BY <1>1
<1> HIDE DEF last
<1>5. ASSUME NEW k \in 1 .. Len(down'), LastMove(k)'
      PROVE  k \in 1 .. Len(down) /\ LastMove(k) /\ down'[k] = down[k]
  <2>1. k # last
    BY <1>2, <1>5 DEF LastMove
  <2>2. k \in 1 .. Len(down) /\ down'[k] = down[k]
    BY <1>2, <1>3, <2>1
  <2>3. ASSUME NEW n \in k + 1 .. Len(down)
        PROVE  down[n].type # "S_Move"
    <3>1. n \in 1 .. Len(down) /\ n \in k + 1 .. Len(down')
      BY <1>1, <1>2, <2>2 DEF last
    <3> QED BY <1>2, <1>5, <3>1 DEF LastMove
  <2> QED BY <1>5, <2>2, <2>3 DEF LastMove
<1>6. (\A k \in 1 .. Len(down') : down'[k].type # "S_Move")
        => \A k \in 1 .. Len(down) : down[k].type # "S_Move"
  BY <1>2, <1>3
<1>7. Reported => Reported'
  BY DEF Reported
<1>8. Answered => Answered'
  BY <1>5, <1>6 DEF Answered
<1> QED BY <1>7, <1>8 DEF Stopped

\* The server takes a C_Move.  If it is the last one the server stops, and
\* either stands where the client says or corrects it.
LEMMA MoveStopped == IInv /\ Stopped /\ Handle_C_Move => Stopped'
<1> SUFFICES ASSUME IInv, Stopped, Handle_C_Move, myHeading = "idle", ~offMap
             PROVE  Reported' /\ Answered'
  BY DEF Handle_C_Move, Stopped, clientVars
<1>1. Reported /\ Answered
  BY DEF Stopped
<1>2. /\ up \in Seq(UpPacket) /\ up # <<>> /\ up' = Tail(up) /\ Len(up) \in Nat
      /\ down \in Seq(DownPacket) /\ Len(down) \in Nat
      /\ ignored' = (mainState = "DEAD") /\ UNCHANGED <<myPos, crossed>>
  BY DEF IInv, Types, Handle_C_Move, clientVars
<1>3. /\ Head(up) = up[1] /\ Len(up') = Len(up) - 1 /\ up' \in Seq(UpPacket)
      /\ \A i \in 1 .. Len(up') : up'[i] = up[i + 1]
  BY <1>2, HeadTailProperties
<1>4. up[Len(up)].heading = "idle" /\ (myPos = up[Len(up)].x \/ crossed)
  BY <1>1, <1>2 DEF Reported
<1>5. Reported'
  <2> SUFFICES ASSUME up' # <<>>
               PROVE  up'[Len(up')] = up[Len(up)]
    BY <1>2, <1>4 DEF Reported
  <2>1. Len(up') # 0 /\ Len(up') \in Nat
    BY <1>3
  <2>2. Len(up') \in 1 .. Len(up') /\ Len(up') + 1 = Len(up)
    BY <1>2, <1>3, <2>1
  <2> QED BY <1>3, <2>2
<1>6. ASSUME up' = <<>>, ~ignored'
      PROVE  /\ heading' = "idle"
             /\ \A k \in 1 .. Len(down') : LastMove(k)' =>
                   /\ down'[k].x = pos'
                   /\ down'[k].needsync \/ myPos' = pos' \/ crossed'
             /\ (\A k \in 1 .. Len(down') : down'[k].type # "S_Move") => myPos' = pos' \/ crossed'
  <2>1. Len(up) = 1 /\ Head(up) = up[Len(up)]
    <3>1. Len(up') = 0
      BY <1>6
    <3>2. Len(up) = 1
      BY <1>2, <1>3, <3>1
    <3> QED BY <1>3, <3>2
  <2>2. /\ heading' = Head(up).heading
        /\ pos' = IF Close(Head(up).x) THEN Head(up).x ELSE pos
        /\ down' = Append(down, S_Move(heading', pos', ~Close(Head(up).x)))
    BY <1>2, <1>6 DEF Handle_C_Move, Broadcast
  <2> DEFINE r    == S_Move(heading', pos', ~Close(Head(up).x))
             last == Len(down) + 1
  <2>3. r.type = "S_Move" /\ r.x = pos' /\ r.needsync = ~Close(Head(up).x)
    BY DEF S_Move
  <2> HIDE DEF r
  <2>4. Len(down') = last /\ down'[last] = r
    BY <1>2, <2>2 DEF r
  <2>5. last \in Nat /\ last \in 1 .. last /\ \A k \in 1 .. last : k = last \/ last \in k + 1 .. last
    BY <1>2
  <2> HIDE DEF last
  <2>6. r.needsync \/ myPos' = pos' \/ crossed'
    <3>1. CASE Close(Head(up).x)
      BY <1>2, <1>4, <2>1, <2>2, <3>1
    <3>2. CASE ~Close(Head(up).x)
      BY <2>3, <3>2
    <3> QED BY <3>1, <3>2
  <2>7. ASSUME NEW k \in 1 .. Len(down'), LastMove(k)'
        PROVE  k = last
    BY <2>3, <2>4, <2>5, <2>7 DEF LastMove
  <2>8. heading' = "idle"
    BY <1>4, <2>1, <2>2
  <2> QED BY <2>3, <2>4, <2>5, <2>6, <2>7, <2>8
<1>7. Answered'
  BY <1>6 DEF Answered
<1> QED BY <1>5, <1>7

LEMMA ServeStopped == IInv /\ Stopped /\ Serve => Stopped'
<1> SUFFICES ASSUME IInv, Stopped, Serve
             PROVE  Stopped'
  OBVIOUS
<1>1. CASE Handle_C_Move
  BY <1>1, MoveStopped
<1>2. CASE Tick
  <2>1. heading # "idle" /\ UNCHANGED <<myPos, myHeading, offMap, up, down, heading, crossed, ignored>>
    BY <1>2 DEF Tick, clientVars
  <2>2. Reported => Reported'
    BY <2>1 DEF Reported
  <2>3. Answered => Answered'
    BY <2>1 DEF Answered
  <2> QED BY <2>1, <2>2, <2>3 DEF Stopped
<1>3. ASSUME NEW s \in {"TRAPPED", "DEAD", "ESCAPE", "NORMAL"}, SetMainState(s)
      PROVE  Stopped'
  <2> DEFINE r == [type |-> "S_MainState", state |-> s]
  <2>1. r \in DownPacket /\ r.type # "S_Move"
    BY DEF DownPacket
  <2>2. down' = Append(down, r) /\ UNCHANGED <<myPos, myHeading, offMap, up, heading, pos, crossed, ignored>>
    BY <1>3 DEF SetMainState, Broadcast, clientVars
  <2> HIDE DEF r
  <2> QED BY <2>1, <2>2, SentStopped
<1>4. CASE Plant
  <2> DEFINE r == [type |-> "S_WaterBomb"]
  <2>1. r \in DownPacket /\ r.type # "S_Move"
    BY DEF DownPacket
  <2>2. down' = Append(down, r) /\ UNCHANGED <<myPos, myHeading, offMap, up, heading, pos, crossed, ignored>>
    BY <1>4 DEF Plant, Broadcast, clientVars
  <2> HIDE DEF r
  <2> QED BY <2>1, <2>2, SentStopped
<1>5. ASSUME NEW x \in Columns, Break(x)
      PROVE  Stopped'
  <2> DEFINE r == [type |-> "S_Explode", block |-> x]
  <2>1. r \in DownPacket /\ r.type # "S_Move"
    BY DEF DownPacket
  <2>2. down' = Append(down, r) /\ UNCHANGED <<myPos, myHeading, offMap, up, heading, pos, crossed, ignored>>
    BY <1>5 DEF Break, Broadcast, clientVars
  <2> HIDE DEF r
  <2> QED BY <2>1, <2>2, SentStopped
<1> QED BY <1>1, <1>2, <1>3, <1>4, <1>5 DEF Serve

\* When nothing is under way and the client does not walk, both sides have the
\* player at the same place, but for a late correction and for a last report
\* that the server did not look at because the player was dead.
THEOREM AgreesAtRest == Spec => []AgreeAtRest
<1>1. Init => Stopped
  BY InitStopped
<1>2. IInv /\ Stopped /\ [Next]_vars => Stopped'
  <2>1. Stopped /\ UNCHANGED vars => Stopped'
    BY StoppedStays DEF vars, clientVars, serverVars
  <2> QED BY <2>1, FrameStopped, ReceiveStopped, ServeStopped DEF Next
<1>3. Stopped => AgreeAtRest
  <2> SUFFICES ASSUME Stopped, AtRest, ~ignored
               PROVE  myPos = pos \/ crossed
    BY DEF AgreeAtRest
  <2>1. Answered /\ up = <<>> /\ Len(down) = 0
    BY DEF Stopped, AtRest
  <2> QED BY <2>1 DEF Answered
<1> QED BY <1>1, <1>2, <1>3, Inductive, PTL DEF Spec
=============================================================================
