----------------------------- MODULE MCGameRoom -----------------------------
(* Instances of GameRoom for TLC: small maps, two players.                 *)
EXTENDS GameRoom, TLC

\* a corridor of two tiles: the players enter on the first, an item lies on
\* the second
CorridorMap(item) == [t \in {0, 1} \X {0} |-> IF t = <<1, 0>> THEN item ELSE "NONE"]
CorridorBubble == CorridorMap("BUBBLE")
CorridorNeedle == CorridorMap("NEEDLE")
CorridorSpawn  == <<1, 1>>

\* the players enter on the border between the two tiles, so that the item
\* and whatever goes off on either tile are in reach
HallSpawn == <<2, 1>>

\* a yard of three by two tiles: a fluid beside the entry, and a bubble that
\* a blast of two tiles would reach if the breakable block let it
YardMap ==
    [t \in (0 .. 2) \X (0 .. 1) |->
        CASE t = <<1, 0>> -> "BREAKABLE"
          [] t = <<2, 0>> -> "BUBBLE"
          [] t = <<0, 1>> -> "FLUID"
          [] t = <<1, 1>> -> "SOLID"
          [] OTHER -> "NONE"]
YardSpawn == <<1, 1>>

Symmetry == Permutations(Players)
=============================================================================
