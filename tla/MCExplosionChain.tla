-------------------------- MODULE MCExplosionChain --------------------------
(* Instances of ExplosionChain for TLC.                                    *)
EXTENDS ExplosionChain

\* two tiles, and two players that enter on the border between them
PairMap == [t \in (0 .. 1) \X {0} |-> IF t = <<0, 0>> THEN "NONE" ELSE "BUBBLE"]
PairSpawn == <<2, 1>>

\* an empty board of three by two tiles
BoardMap == [t \in (0 .. 2) \X (0 .. 1) |-> "NONE"]
BoardSpawn == <<1, 1>>

\* the first player owns the bombs of the upper row
RowOwner == CHOOSE f \in [{0, 1} -> Players] : f[0] # f[1]
OwnerOn(t) == RowOwner[t[2]]

\* Any board in the middle of a tick in which one bomb is left to visit:
\* the owner of the upper row is there, the other one may have been removed.
BoardInit ==
    /\ mapObj \in {f \in [Tiles -> {"NONE", "BREAKABLE", "WATER_BOMB"}] : f[<<2, 1>>] = "NONE"}
    /\ owner = [t \in Tiles |-> IF mapObj[t] = "WATER_BOMB" THEN OwnerOn(t) ELSE NoPlayer]
    /\ life \in {f \in [Players -> {"in", "gone"}] : f[RowOwner[0]] = "in"}
    /\ kit = [p \in Players |->
                IF life[p] = "gone" THEN NewKit
                ELSE [NewKit EXCEPT !.bubble = 3, !.fluid = IF p = RowOwner[0] THEN 1 ELSE 2]]
    /\ bombCount = [p \in Players |->
                      IF life[p] = "gone" THEN 0 ELSE Cardinality({t \in Bombs : owner[t] = p})]
    /\ timer = [t \in Tiles |-> IF t \in Bombs THEN ExplosionTicks - 1 ELSE 0]
    /\ mainState = [p \in Players |-> "NORMAL"]
    /\ stateTimer = [p \in Players |-> 0]
    /\ pos = [p \in Players |-> IF p = RowOwner[0] \/ life[p] = "gone" THEN SpawnPos ELSE <<3, 3>>]
    /\ heading = [p \in Players |-> "idle"]
    /\ isDead = {} /\ exploded = {}
    /\ passable = [t \in Tiles |-> {}]
    /\ phase = "update" /\ toUpdate \in {{t} : t \in Bombs}
    /\ crashed = "none"
    /\ calls = <<>> /\ before = NotCalled

\* only the explosion of that bomb
BoardNext ==
    \/ \E t \in Tiles : Fire(t) \/ FireOrphan(t)
    \/ Loop

BoardSpec == BoardInit /\ [][BoardNext]_<<vars, chainVars>> /\ WF_<<vars, chainVars>>(Loop)
=============================================================================
