------------------------------ MODULE Walking -------------------------------
(***************************************************************************)
(* The geometry of walking, in pixels: GameRoom::TryMove of the server and *)
(* MyPlayer::TryMove of the client, which is the same code.                *)
(*                                                                         *)
(* A position is a pair of integers, the centre of a square.  The code     *)
(* keeps fractions and drops them when it builds a rectangle; here they    *)
(* are dropped at once.                                                    *)
(***************************************************************************)
EXTENDS Integers

CONSTANTS
    TileSize,   \* TILE_SIZE
    PlayerSize  \* PLAYER_SIZE

ASSUME WalkingAssumption ==
    /\ TileSize \in Nat \ {0}
    /\ PlayerSize \in Nat \ {0}
    /\ PlayerSize % 2 = 0

Half == PlayerSize \div 2

\* tileRect
Left(t)   == t[1] * TileSize
Right(t)  == t[1] * TileSize + TileSize
Top(t)    == t[2] * TileSize
Bottom(t) == t[2] * TileSize + TileSize

\* IntersectRect of the player at q and the tile t
Overlaps(q, t) ==
    /\ q[1] - Half < Right(t)  /\ Left(t) < q[1] + Half
    /\ q[2] - Half < Bottom(t) /\ Top(t) < q[2] + Half

Clear(q, blocking) == \A t \in blocking : ~Overlaps(q, t)

\* t comes no later than u in the scan, row by row
Scan(t, u) == t[2] < u[2] \/ (t[2] = u[2] /\ t[1] <= u[1])

\* Mutant: half the size of the player is forgotten.
PushedToEdge(q, next, t) ==
    IF q[1] = next[1]
    THEN <<next[1], IF next[2] > q[2] THEN Top(t) ELSE Bottom(t)>>
    ELSE <<IF next[1] > q[1] THEN Left(t) ELSE Right(t), next[2]>>

\* where a player on its way from q to next ends that runs into tile t
PushedBack(q, next, t) ==
    IF q[1] = next[1]
    THEN <<next[1], IF next[2] > q[2] THEN Top(t) - Half ELSE Bottom(t) + Half>>
    ELSE <<IF next[1] > q[1] THEN Left(t) - Half ELSE Right(t) + Half, next[2]>>

\* where a player at q ends that wants to next; the first of the tiles that
\* block it pushes it back
TryMove(q, next, blocking) ==
    LET met   == {t \in blocking : Overlaps(next, t)}
        first == CHOOSE t \in met : \A u \in met : Scan(t, u)
    IN  IF met = {} THEN next ELSE PushedBack(q, next, first)

\* the integer division of C++ truncates toward zero
Quotient(n, d) == IF n < 0 THEN -((-n) \div d) ELSE n \div d

\* the tiles that the scan of TryMove looks at, on the map or off it
Scanned(next) ==
    (Quotient(next[1] - Half, TileSize) .. Quotient(next[1] + Half - 1, TileSize))
    \X (Quotient(next[2] - Half, TileSize) .. Quotient(next[2] + Half - 1, TileSize))
=============================================================================
