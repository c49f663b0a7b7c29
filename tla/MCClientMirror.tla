--------------------------- MODULE MCClientMirror ---------------------------
(* Instances of ClientMirror for TLC: a block, a roller and a free tile.     *)
EXTENDS ClientMirror

MirrorMap == [t \in 1 .. 3 |-> CASE t = 1 -> "BREAKABLE" [] t = 2 -> "ROLLER" [] OTHER -> "NONE"]
=============================================================================
