--------------------------- MODULE ExplosionChain ---------------------------
(***************************************************************************)
(* The recursion behind an explosion.  In GameRoom a chain of bombs goes   *)
(* off in one step; in the code WaterBomb::Explode calls GameRoom::Explode,*)
(* which walks over the tiles of the blast and calls WaterBomb::Explode of *)
(* every bomb it meets that has not exploded.  Here each call, each tile   *)
(* and each return is a step, and calls is the call stack.                 *)
(*                                                                         *)
(* AtomicChains says that this implements GameRoom: while the stack is not *)
(* empty, the room is seen as it was before the first call.                *)
(***************************************************************************)
EXTENDS GameRoom, Sequences

VARIABLES
    calls,   \* the calls of GameRoom::Explode, innermost first
    before   \* what the room held when the first of them was made, if any

chainVars == <<calls, before>>

\* what the recursion changes
Touched == [exploded |-> exploded, isDead |-> isDead, bombCount |-> bombCount,
            mainState |-> mainState, stateTimer |-> stateTimer]

NotCalled == <<>>

ChainInit ==
    /\ Init
    /\ calls = <<>>
    /\ before = NotCalled
-----------------------------------------------------------------------------
\* counts[i]: how far the blast of the bomb on t goes in direction d
Count(t, d) == Cardinality(Arm(t, d, kit[owner[t]].fluid))

\* the arm of the blast in direction d as a list
ArmPoses(t, d) == [j \in 1 .. Count(t, d) |-> Along(t, d, j)]

\* explodePoses, in the order of the loop that handles them
ExplodePoses(t) ==
    <<t>> \o ArmPoses(t, "UP") \o ArmPoses(t, "DOWN")
          \o ArmPoses(t, "LEFT") \o ArmPoses(t, "RIGHT")

\* Mutant: the bomb is marked as exploded when the call returns, not first.
CallUnmarked(t, rest) ==
    /\ owner[t] \in Alive
    /\ UNCHANGED exploded
    /\ bombCount' = [bombCount EXCEPT ![owner[t]] = @ - 1]
    /\ calls' = <<[bomb |-> t, poses |-> ExplodePoses(t)]>> \o rest

\* WaterBomb::Explode up to the loop of GameRoom::Explode: mark the bomb, give
\* it back to its owner, compute the range
Call(t, rest) ==
    /\ owner[t] \in Alive
    /\ exploded' = exploded \cup {t}
    /\ bombCount' = [bombCount EXCEPT ![owner[t]] = @ - 1]
    /\ calls' = <<[bomb |-> t, poses |-> ExplodePoses(t)]>> \o rest

\* the same when the owner was removed: GetOwner() is null
CallOrphan(t) == owner[t] \notin Alive /\ CrashWith("ownerGone") /\ UNCHANGED chainVars

\* WaterBomb::Update of a bomb whose time is up
Fire(t) ==
    /\ Visit(t)
    /\ calls = <<>>
    /\ t \in Tiles \ exploded
    /\ Ticked(timer[t]) >= ExplosionTicks
    /\ before' = Touched
    /\ Call(t, <<>>)
    /\ UNCHANGED <<stateVars, motionVars, kit, mapVars, owner, timer, passable,
                   tickVars, crashed>>

FireOrphan(t) ==
    /\ Visit(t)
    /\ calls = <<>>
    /\ t \in Tiles \ exploded
    /\ Ticked(timer[t]) >= ExplosionTicks
    /\ CallOrphan(t)

\* the tile the innermost loop is at
InLoop == Running /\ calls # <<>> /\ Head(calls).poses # <<>>
At     == Head(Head(calls).poses)

\* Mutant: the loop stays where it is.
OnwardNowhere == calls

Onward == <<[Head(calls) EXCEPT !.poses = Tail(@)]>> \o Tail(calls)

\* Trap Players on the tile of the loop
Trap ==
    LET hit == {p \in Alive : mainState[p] # "TRAPPED" /\ InTile(pos[p], At)}
    IN  /\ mainState'  = [p \in Players |-> IF p \in hit THEN "TRAPPED" ELSE mainState[p]]
        /\ stateTimer' = [p \in Players |-> IF p \in hit THEN 0 ELSE stateTimer[p]]

\* a tile with nothing, a solid block or a bomb that has exploded
PoseQuiet ==
    /\ InLoop
    /\ GetMapObjectAt(At) \notin Items \cup {"BREAKABLE"}
    /\ At \notin Unexploded
    /\ Trap
    /\ calls' = Onward
    /\ UNCHANGED <<life, motionVars, kitVars, mapVars, bombVars, tickVars, crashed, before>>

\* an item or a block: destroyed, and then read as a bomb that has exploded
PoseDestroy ==
    /\ InLoop
    /\ GetMapObjectAt(At) \in Items \cup {"BREAKABLE"}
    /\ Trap
    /\ isDead' = isDead \cup {At}
    /\ calls' = Onward
    /\ UNCHANGED <<life, motionVars, kitVars, mapObj, bombVars, tickVars, crashed, before>>

\* the same, read as a bomb that has not exploded
PoseBadCast ==
    /\ InLoop
    /\ GetMapObjectAt(At) \in Items \cup {"BREAKABLE"}
    /\ CrashWith("badCast")
    /\ UNCHANGED chainVars

\* Mutant: the loop ends with the first bomb it finds.
PoseBombAndBreak ==
    /\ InLoop
    /\ At \in Unexploded
    /\ Trap
    /\ Call(At, <<[Head(calls) EXCEPT !.poses = <<>>]>> \o Tail(calls))
    /\ UNCHANGED <<life, motionVars, kit, mapVars, owner, timer, passable,
                   tickVars, crashed, before>>

\* another bomb: recurse
PoseBomb ==
    /\ InLoop
    /\ At \in Unexploded
    /\ Trap
    /\ Call(At, Onward)
    /\ UNCHANGED <<life, motionVars, kit, mapVars, owner, timer, passable,
                   tickVars, crashed, before>>

PoseOrphan ==
    /\ InLoop
    /\ At \in Unexploded
    /\ CallOrphan(At)

AtBroadcast == Running /\ calls # <<>> /\ Head(calls).poses = <<>>

\* Mutant: the bomb is not destroyed.
ReturnUndestroyed ==
    /\ AtBroadcast
    /\ calls' = Tail(calls)
    /\ toUpdate' = IF Len(calls) = 1 THEN toUpdate \ {Head(calls).bomb} ELSE toUpdate
    /\ before' = IF Len(calls) = 1 THEN NotCalled ELSE before
    /\ UNCHANGED <<stateVars, motionVars, kitVars, mapVars, bombVars, phase, crashed>>

\* the Broadcast of S_Explode, the return, and the Destroy of WaterBomb::Explode
Return ==
    /\ AtBroadcast
    /\ isDead' = isDead \cup {Head(calls).bomb}
    /\ calls' = Tail(calls)
    /\ toUpdate' = IF Len(calls) = 1 THEN toUpdate \ {Head(calls).bomb} ELSE toUpdate
    /\ before' = IF Len(calls) = 1 THEN NotCalled ELSE before
    /\ UNCHANGED <<stateVars, motionVars, kitVars, mapObj, bombVars, phase, crashed>>

\* the Broadcast of S_Explode fails to send to p, or that of an S_MainState of
\* SetMainState in the loop.  The latter may be taken some tiles late, when the
\* chain has trapped someone: the tiles between read nothing of life but lock().
Broadcasting == AtBroadcast \/ (Running /\ calls # <<>> /\ mainState # before.mainState)

LeaveInBroadcast(p) ==
    /\ Broadcasting
    /\ LeaveRoom(p)
    /\ UNCHANGED chainVars
-----------------------------------------------------------------------------
\* everything of GameRoom but the explosions
Elsewhere ==
    /\ calls = <<>>
    /\ \/ \E p \in Players : EnterRoom(p) \/ LeaveRoom(p) \/ Handle(p) \/ UpdatePlayer(p)
       \/ BeginUpdate
       \/ \E t \in Tiles : UpdateBombWait(t)
       \/ RemoveDeadObjects
    /\ UNCHANGED chainVars

Loop == PoseQuiet \/ PoseDestroy \/ PoseBadCast \/ PoseBomb \/ PoseOrphan \/ Return

ChainNext ==
    \/ Elsewhere
    \/ \E t \in Tiles : Fire(t) \/ FireOrphan(t)
    \/ Loop
    \/ \E p \in Players : LeaveInBroadcast(p)

ChainSpec == ChainInit /\ [][ChainNext]_<<vars, chainVars>>

-----------------------------------------------------------------------------
(* Properties *)

OnStack == {calls[i].bomb : i \in 1 .. Len(calls)}

\* the bombs the recursion has set off so far
Fired == exploded \ before.exploded

\* The bombs on the stack are all different and all marked: no bomb is ever
\* exploded inside its own explosion, and the depth of the recursion is at
\* most the number of bombs on the map.
StackOfDistinctBombs ==
    /\ Cardinality(OnStack) = Len(calls)
    /\ OnStack \subseteq Bombs \cap exploded

\* The recursion forgets no bomb: one it has left has no unexploded bomb in
\* its blast, and one it is in has such bombs only on tiles it has still to
\* look at.
NoBombForgotten ==
    calls # <<>> /\ Running =>
        \A t \in Fired :
            BlastTiles(t) \cap Unexploded \subseteq
                {q \in Tiles : \E i \in 1 .. Len(calls) :
                    calls[i].bomb = t /\ q \in {calls[i].poses[j] : j \in 1 .. Len(calls[i].poses)}}

Held(now, then) == IF calls = <<>> THEN now ELSE then

Atomic == INSTANCE GameRoom WITH
    exploded   <- Held(exploded, before.exploded),
    isDead     <- Held(isDead, before.isDead),
    bombCount  <- Held(bombCount, before.bombCount),
    mainState  <- Held(mainState, before.mainState),
    stateTimer <- Held(stateTimer, before.stateTimer)

\* The recursion implements the single step UpdateBombExplode of GameRoom: the
\* bombs that go off are the least set closed under blasts, every owner gets
\* its bombs back, and the same players, items and blocks are hit, in whatever
\* order the tiles and the calls come and whoever leaves meanwhile.
AtomicChains == Atomic!Spec

\* The same of the steps alone, for runs that start in the middle of a game.
ChainIsOneStep == [][Atomic!Next]_(Atomic!vars)

\* Every chain of explosions comes to its end, unless the server dies in it.
ChainsEnd == calls # <<>> ~> (calls = <<>> \/ ~Running)
=============================================================================
