------------------------- MODULE ClientMirror_proofs -------------------------
(* Proofs about ClientMirror, for every map, every number of players and    *)
(* bombs and any number of packets in flight.                               *)
EXTENDS ClientMirror, SequenceTheorems, FiniteSetTheorems, TLAPS

Packets ==
    [type : {"S_MyPlayer"}, state : MainState]
    \cup [type : {"S_OtherPlayers"}, infos : UNION {[who -> MainState] : who \in SUBSET Players}]
    \cup [type : {"S_Tilemap"}, infos : SUBSET Id]
    \cup [type : {"S_PlayerLeave"}, player : Players]
    \cup [type : {"S_MainState"}, player : Players, state : MainState]
    \cup [type : {"S_WaterBomb"}, id : Id]
    \cup [type : {"S_RemoveItem"}, id : Id]
    \cup [type : {"S_Explode"}, id : Id, blocks : SUBSET Id, items : SUBSET Id]
    \cup [type : {"S_PlayerNormalSpeed"}, rollers : 1 .. MaxRollers]

Thing == Id \cup Players

\* the handler of the packet puts x into the scene
Adds(pk, x) ==
    \/ pk.type = "S_MyPlayer"     /\ x = Me
    \/ pk.type = "S_OtherPlayers" /\ x \in DOMAIN pk.infos \ {Me}
    \/ pk.type = "S_Tilemap"      /\ x \in pk.infos
    \/ pk.type = "S_WaterBomb"    /\ x = pk.id

\* the handler of the packet flags x
Removes(pk, x) ==
    \/ pk.type = "S_PlayerLeave"  /\ x = pk.player
    \/ pk.type = "S_RemoveItem"   /\ x = pk.id
    \/ pk.type = "S_Explode"      /\ x \in {pk.id} \cup pk.blocks \cup pk.items

\* the packet holds the main state of p
Tells(pk, p) ==
    \/ pk.type = "S_MyPlayer"     /\ p = Me
    \/ pk.type = "S_OtherPlayers" /\ p \in DOMAIN pk.infos \ {Me}
    \/ pk.type = "S_MainState"    /\ p = pk.player

Told(pk, p) == IF pk.type = "S_OtherPlayers" THEN pk.infos[p] ELSE pk.state

\* The scene comes first, as place 0, then the packets on their way.
Places          == 0 .. Len(inbox)
AddedAt(n, x)   == IF n = 0 THEN x \in scene ELSE Adds(inbox[n], x)
RemovedAt(n, x) == IF n = 0 THEN x \in flagged ELSE Removes(inbox[n], x)

\* what the client will show once it has handled everything
Stays(x) == (\E n \in Places : AddedAt(n, x)) /\ (\A n \in Places : ~RemovedAt(n, x))
-----------------------------------------------------------------------------
(* The inductive invariant *)

HistoryType == [ghosts : SUBSET Players, listed : SUBSET Tiles, relisted : SUBSET Id,
                missing : SUBSET Id, overtaken : SUBSET Id, twins : SUBSET Players]

FeedTypes ==
    /\ member \in [Players -> Membership] /\ mainState \in [Players -> MainState]
    /\ mapObj \in [Tiles -> MapType] /\ phase \in {"idle", "update"}
    /\ isDead \subseteq {t \in Tiles : mapObj[t] # "NONE"}
    /\ phase = "idle" => isDead = {}
    /\ member[Me] \in {"out", "in"}

\* TypeOK but for the speeds, which have an invariant of their own
SceneTypes ==
    /\ layer \in [Tiles -> 0 .. MaxPlants]
    /\ scene \subseteq Id \cup Players
    /\ flagged \subseteq scene
    /\ shownState \in [Players -> MainState]
    /\ DOMAIN slots \in {{}, Tiles}
    /\ \A t \in DOMAIN slots : slots[t] \in Id \cup {Null}
    /\ overlapBombs \subseteq Id
    /\ clientCrash \in Causes

Types == SceneTypes /\ FeedTypes /\ inbox \in Seq(Packets) /\ history \in HistoryType

\* a block that is destroyed was listed in this tick
BrokenListed == \A t \in isDead : mapObj[t] = "BREAKABLE" => t \in history.listed

\* nothing reaches the client before it is in the room
BeforeEntry ==
    member[Me] # "in" =>
        /\ inbox = <<>> /\ scene = {} /\ flagged = {} /\ slots = <<>>
        /\ clientCrash = "none" /\ history.ghosts = {} /\ history.twins = {}

\* no object that the client has heard of is newer than the one on its tile
Fresh == \A n \in Places, i \in Id : AddedAt(n, i) \/ RemovedAt(n, i) => i[2] <= layer[Home(i)]

\* and of no player that has not entered
Outsiders ==
    \A p \in Players : member[p] = "out" =>
        \A n \in Places : ~AddedAt(n, p) /\ ~RemovedAt(n, p) /\ (n # 0 => ~Tells(inbox[n], p))

Once  == \A n, m \in Places, x \in Thing : AddedAt(n, x) /\ AddedAt(m, x) => n = m
Order == \A n, m \in Places, x \in Thing : AddedAt(n, x) /\ RemovedAt(m, x) => n <= m

ObjectsAgree == \A i \in Id : Stays(i) <=> i \in OnMap /\ Home(i) \notin isDead
PlayersAgree == \A p \in Players : Stays(p) <=> member[p] = "in" \/ p \in history.ghosts
Ghosts       == \A p \in history.ghosts : member[p] \in {"dead", "gone"}

\* the last packet about a player holds its main state
StatesAgree ==
    \A p \in Players : member[p] = "in" =>
        /\ \A n \in 1 .. Len(inbox) :
              Tells(inbox[n], p) /\ (\A m \in 1 .. Len(inbox) : m > n => ~Tells(inbox[m], p))
                  => Told(inbox[n], p) = mainState[p]
        /\ (\A n \in 1 .. Len(inbox) : ~Tells(inbox[n], p)) => shownState[p] = mainState[p]

\* and none precedes the one that brings the player
AddedFirst ==
    \A n, m \in 1 .. Len(inbox), p \in Players :
        Adds(inbox[n], p) /\ m < n => ~Tells(inbox[m], p)

\* an object is removed before the next one on its tile comes
Succession ==
    \A n, m \in Places, i, j \in Id :
        AddedAt(n, i) /\ AddedAt(m, j) /\ Home(i) = Home(j) /\ i[2] < j[2]
            => \E k \in Places : k <= m /\ RemovedAt(k, i)

\* if not, the next one is one of those the property forgives
Overtakers ==
    \A i, j \in scene \cap Id : Home(i) = Home(j) /\ i[2] < j[2] => j \in history.overtaken

SlotsShown  == \A t \in DOMAIN slots : slots[t] # Null => slots[t] \in scene /\ Home(slots[t]) = t
SlotsFilled == \A i \in (scene \cap Id) \ flagged : slots[Home(i)] = i \/ i \in history.overtaken

MyPlayerFirst == Me \in scene \/ (inbox # <<>> /\ inbox[1].type = "S_MyPlayer")

MapFirst ==
    /\ \A n, m \in 1 .. Len(inbox) : inbox[n].type = "S_Tilemap" /\ m < n
           => inbox[m].type \in {"S_MyPlayer", "S_OtherPlayers"}
    /\ (\A n \in 1 .. Len(inbox) : inbox[n].type # "S_Tilemap") => DOMAIN slots = Tiles
    /\ (\E n \in 1 .. Len(inbox) : inbox[n].type = "S_Tilemap") => scene \cap Id = {}

\* a block of an S_Explode that only one bomb has destroyed is there when the
\* packet is handled
BlocksThere ==
    \A n \in 1 .. Len(inbox) : inbox[n].type = "S_Explode" =>
        \A b \in inbox[n].blocks \ history.relisted :
            /\ \E m \in Places : AddedAt(m, b)
            /\ \A m \in Places : m < n => ~RemovedAt(m, b)

Linked == member[Me] = "in" /\ clientCrash = "none"

Link == /\ Fresh /\ Outsiders /\ Once /\ Order
        /\ ObjectsAgree /\ PlayersAgree /\ Ghosts /\ StatesAgree /\ AddedFirst
        /\ Succession /\ Overtakers /\ SlotsFilled
        /\ MyPlayerFirst /\ MapFirst /\ BlocksThere

IInv == /\ Types /\ BrokenListed /\ BeforeEntry /\ SlotsShown
        /\ NoTwins /\ CrashesAreKnown
        /\ Linked => Link
-----------------------------------------------------------------------------
(* Packets *)

PacketTypes == {"S_MyPlayer", "S_OtherPlayers", "S_Tilemap", "S_PlayerLeave", "S_MainState",
                "S_WaterBomb", "S_RemoveItem", "S_Explode", "S_PlayerNormalSpeed"}

\* What a packet of each type holds.
LEMMA PacketFields ==
  ASSUME NEW pk \in Packets
  PROVE  /\ pk.type \in PacketTypes
         /\ pk.type = "S_MyPlayer" => pk.state \in MainState
         /\ pk.type = "S_OtherPlayers" => DOMAIN pk.infos \subseteq Players
                                          /\ \A p \in DOMAIN pk.infos : pk.infos[p] \in MainState
         /\ pk.type = "S_Tilemap" => pk.infos \subseteq Id
         /\ pk.type = "S_PlayerLeave" => pk.player \in Players
         /\ pk.type = "S_MainState" => pk.player \in Players /\ pk.state \in MainState
         /\ pk.type \in {"S_WaterBomb", "S_RemoveItem", "S_Explode"} => pk.id \in Id
         /\ pk.type = "S_Explode" => pk.blocks \subseteq Id /\ pk.items \subseteq Id
         /\ pk.type = "S_PlayerNormalSpeed" => pk.rollers \in 1 .. MaxRollers
<1>1. CASE pk \in [type : {"S_MyPlayer"}, state : MainState]
  BY <1>1 DEF PacketTypes
<1>2. CASE pk \in [type : {"S_OtherPlayers"}, infos : UNION {[who -> MainState] : who \in SUBSET Players}]
  BY <1>2 DEF PacketTypes
<1>3. CASE pk \in [type : {"S_Tilemap"}, infos : SUBSET Id]
  BY <1>3 DEF PacketTypes
<1>4. CASE pk \in [type : {"S_PlayerLeave"}, player : Players]
  BY <1>4 DEF PacketTypes
<1>5. CASE pk \in [type : {"S_MainState"}, player : Players, state : MainState]
  BY <1>5 DEF PacketTypes
<1>6. CASE pk \in [type : {"S_WaterBomb"}, id : Id] \cup [type : {"S_RemoveItem"}, id : Id]
  BY <1>6 DEF PacketTypes
<1>7. CASE pk \in [type : {"S_Explode"}, id : Id, blocks : SUBSET Id, items : SUBSET Id]
  BY <1>7 DEF PacketTypes
<1>8. CASE pk \in [type : {"S_PlayerNormalSpeed"}, rollers : 1 .. MaxRollers]
  BY <1>8 DEF PacketTypes
<1> QED BY <1>1, <1>2, <1>3, <1>4, <1>5, <1>6, <1>7, <1>8 DEF Packets

\* A packet adds or removes things, not both, and of one kind.
LEMMA PacketEffects ==
  ASSUME NEW pk \in Packets, NEW x
  PROVE  /\ Adds(pk, x) => x \in Thing /\ \A y : ~Removes(pk, y)
         /\ Removes(pk, x) => x \in Thing
         /\ Tells(pk, x) => x \in Players /\ Told(pk, x) \in MainState
         /\ x \in Players /\ Adds(pk, x) => Tells(pk, x) /\ pk.type \in {"S_MyPlayer", "S_OtherPlayers"}
         /\ x \in Id /\ Adds(pk, x) => pk.type \in {"S_Tilemap", "S_WaterBomb"}
         /\ x \in Players /\ Removes(pk, x) => pk.type = "S_PlayerLeave"
<1>1. \A y \in Id : y \notin Players
  BY MirrorKinds
<1> QED BY <1>1, PacketFields, MirrorAssumption DEF Adds, Removes, Tells, Told, Thing

\* Which packets add nothing.
LEMMA NothingAdded ==
  ASSUME NEW pk \in Packets, NEW x,
         pk.type \in {"S_PlayerLeave", "S_MainState", "S_RemoveItem", "S_Explode", "S_PlayerNormalSpeed"}
  PROVE  ~Adds(pk, x)
BY DEF Adds

\* SetToSeq lists the elements of a finite set.
LEMMA SetInSequence ==
  ASSUME NEW S, IsFiniteSet(S)
  PROVE  /\ SetToSeq(S) \in Seq(S)
         /\ \A x \in S : \E k \in 1 .. Len(SetToSeq(S)) : SetToSeq(S)[k] = x
<1> DEFINE n == Cardinality(S)
<1>1. n \in Nat /\ ExistsBijection(1 .. n, S)
  BY FS_CardinalityType
<1>2. PICK f \in [1 .. n -> S] : IsInjective(f)
  BY <1>1 DEF ExistsBijection, Bijection, Injection
<1>3. SetToSeq(S) \in [1 .. n -> S] /\ IsInjective(SetToSeq(S))
  BY <1>2 DEF SetToSeq
<1>4. SetToSeq(S) \in Injection(1 .. n, S)
  BY <1>3 DEF Injection
<1>5. Cardinality(1 .. n) = n
  <2>1. \A a \in Int, b \in Int : Cardinality(a .. b) = IF a > b THEN 0 ELSE b - a + 1
    BY FS_Interval
  <2> HIDE DEF n
  <2>2. 1 \in Int /\ n \in Int /\ n \in Nat
    BY <1>1
  <2>3. Cardinality(1 .. n) = IF 1 > n THEN 0 ELSE n - 1 + 1
    BY <2>1, <2>2
  <2> QED BY <2>2, <2>3
<1>6. SetToSeq(S) \in Surjection(1 .. n, S)
  BY <1>4, <1>5, FS_Injection
<1>7. \A x \in S : \E k \in 1 .. n : SetToSeq(S)[k] = x
  BY <1>6 DEF Surjection
<1>8. SetToSeq(S) \in Seq(S) /\ Len(SetToSeq(S)) = n
  <2> HIDE DEF n
  <2> QED BY <1>1, <1>3
<1> QED BY <1>7, <1>8

\* So does every member of SetToSeqs.
LEMMA SetInAnyOrder ==
  ASSUME NEW S, IsFiniteSet(S), NEW f \in SetToSeqs(S)
  PROVE  /\ f \in Seq(S)
         /\ \A x \in S : \E k \in 1 .. Len(f) : f[k] = x
         /\ \A k, l \in 1 .. Len(f) : k # l => f[k] # f[l]
<1> DEFINE n == Cardinality(S)
<1>1. n \in Nat
  BY FS_CardinalityType
<1>2. f \in [1 .. n -> S] /\ \A k, l \in 1 .. n : k # l => f[k] # f[l]
  BY DEF SetToSeqs
<1>3. f \in Injection(1 .. n, S)
  BY <1>2 DEF Injection, IsInjective
<1>4. Cardinality(1 .. n) = n
  <2>1. \A a \in Int, b \in Int : Cardinality(a .. b) = IF a > b THEN 0 ELSE b - a + 1
    BY FS_Interval
  <2> HIDE DEF n
  <2>2. 1 \in Int /\ n \in Int /\ n \in Nat
    BY <1>1
  <2>3. Cardinality(1 .. n) = IF 1 > n THEN 0 ELSE n - 1 + 1
    BY <2>1, <2>2
  <2> QED BY <2>2, <2>3
<1>5. f \in Surjection(1 .. n, S)
  BY <1>3, <1>4, FS_Injection
<1>6. \A x \in S : \E k \in 1 .. n : f[k] = x
  BY <1>5 DEF Surjection
<1>7. f \in Seq(S) /\ Len(f) = n
  <2> HIDE DEF n
  <2> QED BY <1>1, <1>2
<1> QED BY <1>2, <1>6, <1>7

\* Two different members of a finite set are more than one.
LEMMA TwoAreMore ==
  ASSUME NEW S, IsFiniteSet(S), NEW x \in S, NEW y \in S, x # y
  PROVE  Cardinality(S) > 1
<1>1. IsFiniteSet({x, y}) /\ Cardinality({x, y}) = 2
  <2>1. IsFiniteSet({x}) /\ Cardinality({x}) = 1
    BY FS_Singleton
  <2>2. {x} \cup {y} = {x, y} /\ y \notin {x}
    OBVIOUS
  <2> QED BY <2>1, <2>2, FS_AddElement
<1>2. {x, y} \in SUBSET S
  OBVIOUS
<1>3. Cardinality({x, y}) <= Cardinality(S)
  BY <1>2, FS_Subset
<1> QED BY <1>1, <1>3, FS_CardinalityType

\* What is where in a sequence that was appended to.
LEMMA Appended ==
  ASSUME NEW s \in Seq(Packets), NEW ps \in Seq(Packets)
  PROVE  LET r == s \o ps
         IN  /\ r \in Seq(Packets) /\ Len(s) \in Nat /\ Len(ps) \in Nat /\ Len(r) = Len(s) + Len(ps)
             /\ \A n \in 1 .. Len(s) : r[n] = s[n]
             /\ \A k \in 1 .. Len(ps) : r[Len(s) + k] = ps[k]
             /\ \A n \in 1 .. Len(r) : n > Len(s) => \E k \in 1 .. Len(ps) : n = Len(s) + k
<1> DEFINE r == s \o ps
<1>1. r \in Seq(Packets) /\ Len(r) = Len(s) + Len(ps) /\ Len(s) \in Nat /\ Len(ps) \in Nat
  BY ConcatProperties, LenProperties
<1>2. \A n \in 1 .. Len(s) + Len(ps) : r[n] = IF n <= Len(s) THEN s[n] ELSE ps[n - Len(s)]
  BY ConcatProperties
<1> HIDE DEF r
<1>3. \A n \in 1 .. Len(r) : n > Len(s) => (n - Len(s)) \in 1 .. Len(ps) /\ n = Len(s) + (n - Len(s))
  BY <1>1
<1>4. \A n \in 1 .. Len(s) : r[n] = s[n]
  BY <1>1, <1>2
<1>5. \A k \in 1 .. Len(ps) : r[Len(s) + k] = ps[k]
  BY <1>1, <1>2
<1> QED BY <1>1, <1>3, <1>4, <1>5 DEF r

\* Its elements are those of the two.
LEMMA BothListed ==
  ASSUME NEW a \in Seq(Packets), NEW b \in Seq(Packets)
  PROVE  LET r == a \o b
         IN  /\ \A n \in 1 .. Len(r) : (\E k \in 1 .. Len(a) : r[n] = a[k]) \/ (\E k \in 1 .. Len(b) : r[n] = b[k])
             /\ \A k \in 1 .. Len(a) : \E n \in 1 .. Len(r) : r[n] = a[k]
             /\ \A k \in 1 .. Len(b) : \E n \in 1 .. Len(r) : r[n] = b[k]
<1>1. PICK r : r = a \o b
  OBVIOUS
<1>2. /\ Len(a) \in Nat /\ Len(b) \in Nat /\ Len(r) = Len(a) + Len(b)
      /\ \A n \in 1 .. Len(a) : r[n] = a[n]
      /\ \A k \in 1 .. Len(b) : r[Len(a) + k] = b[k]
      /\ \A n \in 1 .. Len(r) : n > Len(a) => \E k \in 1 .. Len(b) : n = Len(a) + k
  BY <1>1, Appended
<1>3. ASSUME NEW n \in 1 .. Len(r)
      PROVE  (\E k \in 1 .. Len(a) : r[n] = a[k]) \/ (\E k \in 1 .. Len(b) : r[n] = b[k])
  <2>1. CASE n \in 1 .. Len(a)
    BY <2>1, <1>2
  <2>2. CASE n > Len(a)
    BY <2>2, <1>2
  <2> QED BY <2>1, <2>2, <1>2
<1>4. \A k \in 1 .. Len(a) : k \in 1 .. Len(r)
  BY <1>2
<1>5. \A k \in 1 .. Len(b) : Len(a) + k \in 1 .. Len(r)
  BY <1>2
<1> QED BY <1>1, <1>2, <1>3, <1>4, <1>5

\* and in one that has lost its head.
LEMMA Beheaded ==
  ASSUME NEW s \in Seq(Packets), s # <<>>
  PROVE  LET r == Tail(s) IN
         /\ r \in Seq(Packets) /\ Head(s) \in Packets /\ Head(s) = s[1]
         /\ Len(s) \in Nat /\ Len(s) >= 1 /\ Len(r) = Len(s) - 1
         /\ \A n \in 1 .. Len(r) : n + 1 \in 2 .. Len(s) /\ r[n] = s[n + 1]
BY LenProperties, HeadTailProperties

-----------------------------------------------------------------------------
(* The room sends packets that add nothing to the scene. *)

QuietTypes == {"S_PlayerLeave", "S_MainState", "S_RemoveItem", "S_Explode", "S_PlayerNormalSpeed"}

\* what QuietStep and what follows it ask of the step
Quiet(ps) ==
    /\ member[Me] = "in" /\ member'[Me] = "in" /\ clientCrash = "none"
    /\ inbox' = inbox \o ps
    /\ UNCHANGED <<layer, sceneVars, clientCrash>>
    /\ history'.ghosts = history.ghosts /\ history'.overtaken = history.overtaken
    /\ history'.twins = history.twins /\ history'.missing = history.missing
    /\ \A k \in 1 .. Len(ps) : ps[k].type \in QuietTypes
    /\ \A k \in 1 .. Len(ps), i \in Id : Removes(ps[k], i) => i[2] <= layer[Home(i)]
    /\ \A p \in Players : member'[p] = "out" =>
          member[p] = "out" /\ \A k \in 1 .. Len(ps) : ~Removes(ps[k], p) /\ ~Tells(ps[k], p)

\* Where things are after the packets ps have been sent.
LEMMA QuietPlaces ==
  ASSUME IInv, NEW ps \in Seq(Packets), Quiet(ps)
  PROVE  /\ inbox \in Seq(Packets) /\ Len(inbox) \in Nat /\ Len(ps) \in Nat
         /\ inbox' \in Seq(Packets) /\ Len(inbox') = Len(inbox) + Len(ps)
         /\ Places \subseteq Places'
         /\ \A n \in 1 .. Len(inbox) : n \in 1 .. Len(inbox') /\ inbox'[n] = inbox[n]
         /\ \A k \in 1 .. Len(ps) : Len(inbox) + k \in 1 .. Len(inbox') /\ inbox'[Len(inbox) + k] = ps[k]
         /\ \A n \in 1 .. Len(inbox') : n > Len(inbox) =>
               \E k \in 1 .. Len(ps) : n = Len(inbox) + k /\ inbox'[n] = ps[k]
         /\ \A n \in Places' : \A x : AddedAt(n, x)' <=> n \in Places /\ AddedAt(n, x)
         /\ \A n \in Places : \A x : RemovedAt(n, x)' <=> RemovedAt(n, x)
         /\ \A n \in Places' : \A x : n \notin Places =>
               n > Len(inbox) /\ \E k \in 1 .. Len(ps) : n = Len(inbox) + k /\ (RemovedAt(n, x)' <=> Removes(ps[k], x))
<1>1. inbox \in Seq(Packets)
  BY DEF IInv, Types
<1>2. /\ inbox' \in Seq(Packets) /\ Len(inbox) \in Nat /\ Len(ps) \in Nat
      /\ Len(inbox') = Len(inbox) + Len(ps)
      /\ \A n \in 1 .. Len(inbox) : inbox'[n] = inbox[n]
      /\ \A k \in 1 .. Len(ps) : inbox'[Len(inbox) + k] = ps[k]
      /\ \A n \in 1 .. Len(inbox') : n > Len(inbox) => \E k \in 1 .. Len(ps) : n = Len(inbox) + k
  <2>1. inbox' = inbox \o ps
    BY DEF Quiet
  <2> QED BY <1>1, <2>1, Appended
<1>3. scene' = scene /\ flagged' = flagged
  BY DEF Quiet, sceneVars
<1>4. \A k \in 1 .. Len(ps) : \A x : ~Adds(ps[k], x)
  BY NothingAdded, ElementOfSeq DEF Quiet, QuietTypes
<1>5. \A n \in Places' : n = 0 \/ n \in 1 .. Len(inbox) \/ (n > Len(inbox) /\ n \in 1 .. Len(inbox'))
  BY <1>2 DEF Places
<1>6. \A n \in Places : n \in Places' /\ (n = 0 \/ n \in 1 .. Len(inbox))
  BY <1>2 DEF Places
<1>7. \A n \in Places' : \A x : AddedAt(n, x)' <=> n \in Places /\ AddedAt(n, x)
  <2> SUFFICES ASSUME NEW n \in Places', NEW x
               PROVE  AddedAt(n, x)' <=> n \in Places /\ AddedAt(n, x)
    OBVIOUS
  <2>1. CASE n = 0
    BY <2>1, <1>2, <1>3 DEF AddedAt, Places
  <2>2. CASE n \in 1 .. Len(inbox)
    <3>1. n # 0 /\ n \in Places /\ inbox'[n] = inbox[n]
      BY <2>2, <1>2 DEF Places
    <3> QED BY <3>1 DEF AddedAt
  <2>3. CASE n > Len(inbox) /\ n \in 1 .. Len(inbox')
    <3>1. n # 0 /\ n \notin Places
      <4>1. Len(inbox) \in Nat /\ n > Len(inbox) /\ n \in Int
        BY <2>3, <1>2
      <4> QED BY <4>1 DEF Places
    <3>2. PICK k \in 1 .. Len(ps) : inbox'[n] = ps[k]
      BY <2>3, <1>2
    <3> QED BY <3>1, <3>2, <1>4 DEF AddedAt
  <2> QED BY <2>1, <2>2, <2>3, <1>5
<1>8. \A n \in Places : \A x : RemovedAt(n, x)' <=> RemovedAt(n, x)
  <2> SUFFICES ASSUME NEW n \in Places, NEW x
               PROVE  RemovedAt(n, x)' <=> RemovedAt(n, x)
    OBVIOUS
  <2> QED BY <1>2, <1>3, <1>6 DEF RemovedAt
<1>9. \A n \in Places' : \A x : n \notin Places =>
               n > Len(inbox) /\ \E k \in 1 .. Len(ps) : n = Len(inbox) + k /\ (RemovedAt(n, x)' <=> Removes(ps[k], x))
  <2> SUFFICES ASSUME NEW n \in Places', NEW x, n \notin Places
               PROVE  n > Len(inbox) /\ \E k \in 1 .. Len(ps) : n = Len(inbox) + k /\ (RemovedAt(n, x)' <=> Removes(ps[k], x))
    OBVIOUS
  <2>1. n > Len(inbox) /\ n \in 1 .. Len(inbox') /\ n # 0
    BY <1>2, <1>5 DEF Places
  <2>2. PICK k \in 1 .. Len(ps) : n = Len(inbox) + k /\ inbox'[n] = ps[k]
    BY <2>1, <1>2
  <2> QED BY <2>1, <2>2 DEF RemovedAt
<1>10. \A n \in 1 .. Len(inbox) : n \in 1 .. Len(inbox')
  BY <1>2
<1>11. \A k \in 1 .. Len(ps) : Len(inbox) + k \in 1 .. Len(inbox')
  BY <1>2
<1>12. \A n \in 1 .. Len(inbox') : n > Len(inbox) =>
               \E k \in 1 .. Len(ps) : n = Len(inbox) + k /\ inbox'[n] = ps[k]
  BY <1>2
<1> QED BY <1>1, <1>2, <1>6, <1>7, <1>8, <1>9, <1>10, <1>11, <1>12

\* Nothing that concerns the order of what comes is disturbed.
LEMMA QuietLink ==
  ASSUME IInv, NEW ps \in Seq(Packets), Quiet(ps)
  PROVE  /\ Fresh' /\ Outsiders' /\ Once' /\ Order' /\ AddedFirst'
         /\ Succession' /\ Overtakers' /\ SlotsFilled' /\ MyPlayerFirst' /\ MapFirst' /\ SlotsShown'
         /\ \A x : Stays(x)' <=> Stays(x) /\ \A k \in 1 .. Len(ps) : ~Removes(ps[k], x)
<1>1. /\ inbox \in Seq(Packets) /\ Len(inbox) \in Nat /\ Len(ps) \in Nat
      /\ inbox' \in Seq(Packets) /\ Len(inbox') = Len(inbox) + Len(ps)
      /\ Places \subseteq Places'
  BY QuietPlaces
<1>2. /\ \A n \in Places' : \A x : AddedAt(n, x)' <=> n \in Places /\ AddedAt(n, x)
      /\ \A n \in Places : \A x : RemovedAt(n, x)' <=> RemovedAt(n, x)
  BY QuietPlaces
<1>3. \A n \in Places' : \A x : n \notin Places =>
         n > Len(inbox) /\ \E k \in 1 .. Len(ps) : n = Len(inbox) + k /\ (RemovedAt(n, x)' <=> Removes(ps[k], x))
  BY QuietPlaces
<1>4. /\ \A n \in 1 .. Len(inbox) : n \in 1 .. Len(inbox') /\ inbox'[n] = inbox[n]
      /\ \A k \in 1 .. Len(ps) : Len(inbox) + k \in 1 .. Len(inbox') /\ inbox'[Len(inbox) + k] = ps[k]
      /\ \A n \in 1 .. Len(inbox') : n > Len(inbox) =>
               \E k \in 1 .. Len(ps) : n = Len(inbox) + k /\ inbox'[n] = ps[k]
  BY QuietPlaces
<1>5. Link /\ SlotsShown
  BY DEF IInv, Linked, Quiet
<1>6. /\ layer' = layer /\ scene' = scene /\ flagged' = flagged /\ slots' = slots
      /\ history'.overtaken = history.overtaken
  BY DEF Quiet, sceneVars
<1>7. \A k \in 1 .. Len(ps) : ps[k] \in Packets /\ ps[k].type \in QuietTypes
  BY ElementOfSeq DEF Quiet
<1>8. \A k \in 1 .. Len(ps) : \A x : ~Adds(ps[k], x)
  BY <1>7, NothingAdded DEF QuietTypes
<1>9. \A n \in 1 .. Len(inbox') : n \in 1 .. Len(inbox) \/ n > Len(inbox)
  BY <1>1
<1>10. \A n \in 1 .. Len(inbox) : n \in Places /\ n # 0
  BY <1>1 DEF Places
<1>11. Fresh'
  <2> SUFFICES ASSUME NEW n \in Places', NEW i \in Id, AddedAt(n, i)' \/ RemovedAt(n, i)'
               PROVE  i[2] <= layer[Home(i)]
    BY <1>6 DEF Fresh
  <2>1. CASE n \in Places
    BY <2>1, <1>2, <1>5 DEF Link, Fresh
  <2>2. CASE n \notin Places
    <3>1. \E k \in 1 .. Len(ps) : Removes(ps[k], i)
      BY <2>2, <1>2, <1>3
    <3> QED BY <3>1 DEF Quiet
  <2> QED BY <2>1, <2>2
<1>12. Outsiders'
  <2> SUFFICES ASSUME NEW p \in Players, member'[p] = "out", NEW n \in Places'
               PROVE  ~AddedAt(n, p)' /\ ~RemovedAt(n, p)' /\ (n # 0 => ~Tells(inbox'[n], p))
    BY DEF Outsiders
  <2>1. member[p] = "out" /\ \A k \in 1 .. Len(ps) : ~Removes(ps[k], p) /\ ~Tells(ps[k], p)
    BY DEF Quiet
  <2>2. CASE n \in Places
    <3>1. ~AddedAt(n, p) /\ ~RemovedAt(n, p) /\ (n # 0 => ~Tells(inbox[n], p))
      BY <2>1, <2>2, <1>5 DEF Link, Outsiders
    <3>2. n # 0 => n \in 1 .. Len(inbox)
      BY <2>2, <1>1 DEF Places
    <3> QED BY <3>1, <3>2, <1>2, <1>4, <2>2
  <2>3. CASE n \notin Places
    <3>1. ~AddedAt(n, p)' /\ ~RemovedAt(n, p)'
      BY <2>1, <2>3, <1>2, <1>3
    <3>2. n \in 1 .. Len(inbox') /\ n > Len(inbox)
      <4>1. n > Len(inbox)
        BY <2>3, <1>3
      <4> QED BY <4>1, <1>1 DEF Places
    <3>3. \E k \in 1 .. Len(ps) : inbox'[n] = ps[k]
      BY <3>2, <1>4
    <3> QED BY <2>1, <3>1, <3>3
  <2> QED BY <2>2, <2>3
<1>13. Once'
  <2> SUFFICES ASSUME NEW n \in Places', NEW m \in Places', NEW x \in Thing, AddedAt(n, x)', AddedAt(m, x)'
               PROVE  n = m
    BY DEF Once
  <2> QED BY <1>2, <1>5 DEF Link, Once
<1>14. Order'
  <2> SUFFICES ASSUME NEW n \in Places', NEW m \in Places', NEW x \in Thing, AddedAt(n, x)', RemovedAt(m, x)'
               PROVE  n <= m
    BY DEF Order
  <2>1. n \in Places /\ AddedAt(n, x)
    BY <1>2
  <2>2. CASE m \in Places
    BY <2>1, <2>2, <1>2, <1>5 DEF Link, Order
  <2>3. CASE m \notin Places
    <3>1. m > Len(inbox)
      BY <2>3, <1>3
    <3>2. m \in Int /\ n \in Int /\ n <= Len(inbox)
      BY <2>1, <1>1 DEF Places
    <3> QED BY <3>1, <3>2, <1>1
  <2> QED BY <2>2, <2>3
<1>15. AddedFirst'
  <2> SUFFICES ASSUME NEW n \in 1 .. Len(inbox'), NEW m \in 1 .. Len(inbox'), NEW p \in Players,
                      Adds(inbox'[n], p), m < n
               PROVE  ~Tells(inbox'[m], p)
    BY DEF AddedFirst
  <2>1. n \in 1 .. Len(inbox)
    BY <1>4, <1>8, <1>9
  <2>2. m \in 1 .. Len(inbox)
    BY <2>1, <1>1
  <2> QED BY <2>1, <2>2, <1>4, <1>5 DEF Link, AddedFirst
<1>16. Succession'
  <2> SUFFICES ASSUME NEW n \in Places', NEW m \in Places', NEW i \in Id, NEW j \in Id,
                      AddedAt(n, i)', AddedAt(m, j)', Home(i) = Home(j), i[2] < j[2]
               PROVE  \E k \in Places' : k <= m /\ RemovedAt(k, i)'
    BY DEF Succession
  <2>1. \E k \in Places : k <= m /\ RemovedAt(k, i)
    BY <1>2, <1>5 DEF Link, Succession
  <2> QED BY <2>1, <1>1, <1>2
<1>17. Overtakers' /\ SlotsFilled' /\ SlotsShown'
  BY <1>5, <1>6 DEF Link, Overtakers, SlotsFilled, SlotsShown
<1>18. MyPlayerFirst'
  <2>1. CASE Me \in scene
    BY <2>1, <1>6 DEF MyPlayerFirst
  <2>2. CASE inbox # <<>> /\ inbox[1].type = "S_MyPlayer"
    <3>1. 1 \in 1 .. Len(inbox)
      BY <2>2, <1>1, EmptySeq
    <3>2. inbox'[1] = inbox[1] /\ inbox' # <<>>
      BY <3>1, <1>4, <1>1, EmptySeq
    <3> QED BY <2>2, <3>2 DEF MyPlayerFirst
  <2> QED BY <2>1, <2>2, <1>5 DEF Link, MyPlayerFirst
<1>19. MapFirst'
  <2>1. \A n \in 1 .. Len(inbox') : inbox'[n].type = "S_Tilemap" => n \in 1 .. Len(inbox) /\ inbox[n].type = "S_Tilemap"
    BY <1>4, <1>7, <1>9 DEF QuietTypes
  <2>2. \A n, m \in 1 .. Len(inbox') : inbox'[n].type = "S_Tilemap" /\ m < n
           => inbox'[m].type \in {"S_MyPlayer", "S_OtherPlayers"}
    <3> SUFFICES ASSUME NEW n \in 1 .. Len(inbox'), NEW m \in 1 .. Len(inbox'), inbox'[n].type = "S_Tilemap", m < n
                 PROVE  inbox'[m].type \in {"S_MyPlayer", "S_OtherPlayers"}
      OBVIOUS
    <3>1. n \in 1 .. Len(inbox) /\ m \in 1 .. Len(inbox) /\ inbox[n].type = "S_Tilemap"
      BY <2>1, <1>1
    <3>2. inbox[m].type \in {"S_MyPlayer", "S_OtherPlayers"}
      BY <3>1, <1>5 DEF Link, MapFirst
    <3> QED BY <3>1, <3>2, <1>4
  <2>3. (\A n \in 1 .. Len(inbox') : inbox'[n].type # "S_Tilemap") => DOMAIN slots = Tiles
    BY <1>4, <1>5 DEF Link, MapFirst
  <2>4. (\E n \in 1 .. Len(inbox') : inbox'[n].type = "S_Tilemap") => scene \cap Id = {}
    BY <2>1, <1>5 DEF Link, MapFirst
  <2> QED BY <2>2, <2>3, <2>4, <1>6 DEF MapFirst
<1>20. \A x : Stays(x)' <=> Stays(x) /\ \A k \in 1 .. Len(ps) : ~Removes(ps[k], x)
  <2> SUFFICES ASSUME NEW x
               PROVE  Stays(x)' <=> Stays(x) /\ \A k \in 1 .. Len(ps) : ~Removes(ps[k], x)
    OBVIOUS
  <2>1. (\E n \in Places : AddedAt(n, x)) <=> (\E n \in Places' : AddedAt(n, x)')
    BY <1>1, <1>2
  <2>2. (\A n \in Places' : ~RemovedAt(n, x)') => (\A n \in Places : ~RemovedAt(n, x))
    BY <1>1, <1>2
  <2>3. ASSUME \A n \in Places' : ~RemovedAt(n, x)', NEW k \in 1 .. Len(ps)
        PROVE  ~Removes(ps[k], x)
    <3>1. PICK n \in 1 .. Len(inbox') : n = Len(inbox) + k /\ inbox'[n] = ps[k]
      BY <1>4
    <3>2. n \in Places' /\ n # 0
      BY <3>1, <1>1 DEF Places
    <3>3. ~RemovedAt(n, x)'
      BY <3>2, <2>3
    <3> QED BY <3>1, <3>2, <3>3 DEF RemovedAt
  <2>4. ASSUME \A n \in Places : ~RemovedAt(n, x), \A k \in 1 .. Len(ps) : ~Removes(ps[k], x)
        PROVE  \A n \in Places' : ~RemovedAt(n, x)'
    BY <2>4, <1>2, <1>3
  <2> QED BY <2>1, <2>2, <2>3, <2>4 DEF Stays
<1> QED BY <1>11, <1>12, <1>13, <1>14, <1>15, <1>16, <1>17, <1>18, <1>19, <1>20

\* the packets tell what the step does to the room
QuietRoom(ps) ==
    /\ \A i \in Id : i \in OnMap' /\ Home(i) \notin isDead' <=>
          i \in OnMap /\ Home(i) \notin isDead /\ \A k \in 1 .. Len(ps) : ~Removes(ps[k], i)
    /\ \A p \in Players : member'[p] = "in" <=>
          member[p] = "in" /\ \A k \in 1 .. Len(ps) : ~Removes(ps[k], p)
    /\ \A p \in history.ghosts :
          member'[p] \in {"dead", "gone"} /\ \A k \in 1 .. Len(ps) : ~Removes(ps[k], p)
    /\ \A p \in Players : member'[p] = "in" =>
          /\ \A k \in 1 .. Len(ps) : Tells(ps[k], p) => Told(ps[k], p) = mainState'[p]
          /\ (\A k \in 1 .. Len(ps) : ~Tells(ps[k], p)) => mainState'[p] = mainState[p]
    /\ history.relisted \subseteq history'.relisted
    /\ \A k \in 1 .. Len(ps) : ps[k].type = "S_Explode" =>
          \A b \in ps[k].blocks \ history'.relisted :
              b \in Id /\ Stays(b) /\ \A l \in 1 .. Len(ps) : l < k => ~Removes(ps[l], b)

LEMMA QuietStates ==
  ASSUME IInv, NEW ps \in Seq(Packets), Quiet(ps), QuietRoom(ps)
  PROVE  StatesAgree'
<1>1. /\ inbox \in Seq(Packets) /\ Len(inbox) \in Nat /\ Len(ps) \in Nat
      /\ \A n \in 1 .. Len(inbox) : n \in 1 .. Len(inbox') /\ inbox'[n] = inbox[n]
      /\ \A k \in 1 .. Len(ps) : Len(inbox) + k \in 1 .. Len(inbox') /\ inbox'[Len(inbox) + k] = ps[k]
      /\ \A n \in 1 .. Len(inbox') : n > Len(inbox) =>
               \E k \in 1 .. Len(ps) : n = Len(inbox) + k /\ inbox'[n] = ps[k]
      /\ Len(inbox') = Len(inbox) + Len(ps)
  BY QuietPlaces
<1>2. StatesAgree
  BY DEF IInv, Link, Linked, Quiet
<1>3. shownState' = shownState
  BY DEF Quiet, sceneVars
<1> SUFFICES ASSUME NEW p \in Players, member'[p] = "in"
             PROVE  /\ \A n \in 1 .. Len(inbox') :
                          Tells(inbox'[n], p) /\ (\A m \in 1 .. Len(inbox') : m > n => ~Tells(inbox'[m], p))
                              => Told(inbox'[n], p) = mainState'[p]
                    /\ (\A n \in 1 .. Len(inbox') : ~Tells(inbox'[n], p)) => shownState'[p] = mainState'[p]
  BY DEF StatesAgree
<1>4. /\ member[p] = "in"
      /\ \A k \in 1 .. Len(ps) : Tells(ps[k], p) => Told(ps[k], p) = mainState'[p]
      /\ (\A k \in 1 .. Len(ps) : ~Tells(ps[k], p)) => mainState'[p] = mainState[p]
  BY DEF QuietRoom
<1>5. /\ \A n \in 1 .. Len(inbox) :
            Tells(inbox[n], p) /\ (\A m \in 1 .. Len(inbox) : m > n => ~Tells(inbox[m], p))
                => Told(inbox[n], p) = mainState[p]
      /\ (\A n \in 1 .. Len(inbox) : ~Tells(inbox[n], p)) => shownState[p] = mainState[p]
  BY <1>2, <1>4 DEF StatesAgree
<1>6. ASSUME NEW n \in 1 .. Len(inbox'), Tells(inbox'[n], p),
             \A m \in 1 .. Len(inbox') : m > n => ~Tells(inbox'[m], p)
      PROVE  Told(inbox'[n], p) = mainState'[p]
  <2>1. CASE n > Len(inbox)
    <3>1. PICK k \in 1 .. Len(ps) : inbox'[n] = ps[k]
      BY <2>1, <1>1, Zenon
    <3> QED BY <3>1, <1>4, <1>6
  <2>2. CASE n <= Len(inbox)
    <3>1. n \in 1 .. Len(inbox) /\ inbox'[n] = inbox[n]
      BY <2>2, <1>1
    <3>2. \A k \in 1 .. Len(ps) : ~Tells(ps[k], p)
      <4> SUFFICES ASSUME NEW k \in 1 .. Len(ps)
                   PROVE  ~Tells(ps[k], p)
        OBVIOUS
      <4>1. Len(inbox) + k \in 1 .. Len(inbox') /\ inbox'[Len(inbox) + k] = ps[k] /\ Len(inbox) + k > n
        BY <1>1, <3>1
      <4> QED BY <4>1, <1>6
    <3>3. \A m \in 1 .. Len(inbox) : m > n => ~Tells(inbox[m], p)
      BY <1>1, <1>6
    <3> QED BY <3>1, <3>2, <3>3, <1>4, <1>5, <1>6
  <2> QED BY <2>1, <2>2, <1>1
<1>7. ASSUME \A n \in 1 .. Len(inbox') : ~Tells(inbox'[n], p)
      PROVE  shownState'[p] = mainState'[p]
  <2>1. \A k \in 1 .. Len(ps) : ~Tells(ps[k], p)
    BY <1>7, <1>1
  <2>2. \A n \in 1 .. Len(inbox) : ~Tells(inbox[n], p)
    BY <1>7, <1>1
  <2> QED BY <2>1, <2>2, <1>3, <1>4, <1>5
<1> QED BY <1>6, <1>7

LEMMA QuietBlocks ==
  ASSUME IInv, NEW ps \in Seq(Packets), Quiet(ps), QuietRoom(ps)
  PROVE  BlocksThere'
<1>1. /\ inbox \in Seq(Packets) /\ Len(inbox) \in Nat /\ Len(ps) \in Nat
      /\ \A n \in 1 .. Len(inbox) : n \in 1 .. Len(inbox') /\ inbox'[n] = inbox[n]
      /\ \A n \in 1 .. Len(inbox') : n > Len(inbox) =>
               \E k \in 1 .. Len(ps) : n = Len(inbox) + k /\ inbox'[n] = ps[k]
      /\ Len(inbox') = Len(inbox) + Len(ps) /\ Places \subseteq Places'
  BY QuietPlaces
<1>2. /\ \A n \in Places' : \A x : AddedAt(n, x)' <=> n \in Places /\ AddedAt(n, x)
      /\ \A n \in Places : \A x : RemovedAt(n, x)' <=> RemovedAt(n, x)
      /\ \A n \in Places' : \A x : n \notin Places =>
           n > Len(inbox) /\ \E k \in 1 .. Len(ps) : n = Len(inbox) + k /\ (RemovedAt(n, x)' <=> Removes(ps[k], x))
  BY QuietPlaces
<1>3. BlocksThere
  BY DEF IInv, Link, Linked, Quiet
<1> SUFFICES ASSUME NEW n \in 1 .. Len(inbox'), inbox'[n].type = "S_Explode",
                    NEW b \in inbox'[n].blocks \ history'.relisted
             PROVE  /\ \E m \in Places' : AddedAt(m, b)'
                    /\ \A m \in Places' : m < n => ~RemovedAt(m, b)'
  BY DEF BlocksThere
<1>4. b \notin history.relisted
  BY DEF QuietRoom
<1>5. CASE n <= Len(inbox)
  <2>1. n \in 1 .. Len(inbox) /\ inbox'[n] = inbox[n]
    BY <1>1, <1>5
  <2>2. (\E m \in Places : AddedAt(m, b)) /\ \A m \in Places : m < n => ~RemovedAt(m, b)
    BY <1>3, <1>4, <2>1 DEF BlocksThere
  <2>3. \A m \in Places' : m < n => m \in Places
    BY <1>1, <1>5 DEF Places
  <2> QED BY <1>1, <1>2, <2>2, <2>3
<1>6. CASE n > Len(inbox)
  <2>1. PICK k \in 1 .. Len(ps) : n = Len(inbox) + k /\ inbox'[n] = ps[k]
    BY <1>1, <1>6
  <2>2. Stays(b) /\ \A l \in 1 .. Len(ps) : l < k => ~Removes(ps[l], b)
    BY <2>1 DEF QuietRoom
  <2>3. \E m \in Places' : AddedAt(m, b)'
    BY <2>2, <1>1, <1>2 DEF Stays
  <2>4. ASSUME NEW m \in Places', m < n
        PROVE  ~RemovedAt(m, b)'
    <3>1. CASE m \in Places
      BY <3>1, <2>2, <1>2 DEF Stays
    <3>2. CASE m \notin Places
      <4>1. PICK l \in 1 .. Len(ps) : m = Len(inbox) + l /\ (RemovedAt(m, b)' <=> Removes(ps[l], b))
        BY <3>2, <1>2
      <4>2. l < k
        BY <4>1, <2>1, <2>4, <1>1
      <4> QED BY <4>1, <4>2, <2>2
    <3> QED BY <3>1, <3>2
  <2> QED BY <2>3, <2>4
<1> QED BY <1>1, <1>5, <1>6

\* A step of the room that tells the truth and adds nothing keeps IInv.
LEMMA QuietKeeps ==
  ASSUME IInv, NEW ps \in Seq(Packets), Quiet(ps), QuietRoom(ps), Types', BrokenListed'
  PROVE  IInv'
<1>1. Link
  BY DEF IInv, Linked, Quiet
<1>2. /\ Fresh' /\ Outsiders' /\ Once' /\ Order' /\ AddedFirst'
      /\ Succession' /\ Overtakers' /\ SlotsFilled' /\ MyPlayerFirst' /\ MapFirst' /\ SlotsShown'
      /\ \A x : Stays(x)' <=> Stays(x) /\ \A k \in 1 .. Len(ps) : ~Removes(ps[k], x)
  BY QuietLink
<1>3. StatesAgree' /\ BlocksThere'
  BY QuietStates, QuietBlocks
<1>4. ObjectsAgree'
  <2> SUFFICES ASSUME NEW i \in Id
               PROVE  Stays(i)' <=> i \in OnMap' /\ Home(i) \notin isDead'
    BY DEF ObjectsAgree
  <2>1. Stays(i) <=> i \in OnMap /\ Home(i) \notin isDead
    BY <1>1 DEF Link, ObjectsAgree
  <2>2. i \in OnMap' /\ Home(i) \notin isDead' <=>
           i \in OnMap /\ Home(i) \notin isDead /\ \A k \in 1 .. Len(ps) : ~Removes(ps[k], i)
    BY DEF QuietRoom
  <2> QED BY <1>2, <2>1, <2>2
<1>5. history'.ghosts = history.ghosts /\ history'.twins = history.twins /\ clientCrash' = "none"
  BY DEF Quiet
<1>6. PlayersAgree'
  <2> SUFFICES ASSUME NEW p \in Players
               PROVE  Stays(p)' <=> member'[p] = "in" \/ p \in history'.ghosts
    BY DEF PlayersAgree
  <2>1. Stays(p) <=> member[p] = "in" \/ p \in history.ghosts
    BY <1>1 DEF Link, PlayersAgree
  <2>2. member'[p] = "in" <=> member[p] = "in" /\ \A k \in 1 .. Len(ps) : ~Removes(ps[k], p)
    BY DEF QuietRoom
  <2>3. p \in history.ghosts => \A k \in 1 .. Len(ps) : ~Removes(ps[k], p)
    BY DEF QuietRoom
  <2> QED BY <1>2, <1>5, <2>1, <2>2, <2>3
<1>7. Ghosts'
  BY <1>5 DEF Ghosts, QuietRoom
<1>8. BeforeEntry' /\ NoTwins' /\ CrashesAreKnown'
  <2>1. history'.missing = history.missing /\ history.relisted \subseteq history'.relisted
    BY DEF Quiet, QuietRoom
  <2> QED BY <1>5, <2>1 DEF BeforeEntry, NoTwins, CrashesAreKnown, Quiet, IInv
<1> QED BY <1>2, <1>3, <1>4, <1>6, <1>7, <1>8 DEF IInv, Link

-----------------------------------------------------------------------------
(* The steps of the room that add nothing *)

\* Ids and the objects of the map.
LEMMA ObjectFacts ==
  ASSUME Types
  PROVE  /\ \A t \in Tiles : ObjectAt(t) \in Id /\ Home(ObjectAt(t)) = t /\ ObjectAt(t)[2] = layer[t]
         /\ \A i \in Id : Home(i) \in Tiles /\ i[2] \in Nat /\ i = <<Home(i), i[2]>>
         /\ \A i \in Id : i \in OnMap <=> i = ObjectAt(Home(i)) /\ mapObj[Home(i)] # "NONE"
         /\ \A t \in Tiles : layer[t] \in Nat
<1>1. layer \in [Tiles -> 0 .. MaxPlants] /\ MaxPlants \in Nat
  BY MirrorAssumption DEF Types, SceneTypes
<1>2. \A i \in Id : Home(i) \in Tiles /\ i[2] \in 0 .. MaxPlants /\ i = <<Home(i), i[2]>>
  BY DEF Id, Home
<1>3. \A t \in Tiles : ObjectAt(t) \in Id /\ Home(ObjectAt(t)) = t /\ ObjectAt(t)[2] = layer[t]
  BY <1>1 DEF Id, Home, ObjectAt
<1>4. \A i \in Id : i \in OnMap <=> i = ObjectAt(Home(i)) /\ mapObj[Home(i)] # "NONE"
  BY <1>2, <1>3 DEF OnMap
<1>5. \A i \in Id : i[2] \in Nat
  BY <1>1, <1>2
<1>6. \A t \in Tiles : layer[t] \in Nat
  BY <1>1
<1> QED BY <1>2, <1>3, <1>4, <1>5, <1>6

\* The steps of RoomStep; changes only counts, and but for the items of a player
\* nothing touches its rollers.
OtherAction ==
    \/ \E p \in Players : \/ EnterOther(p) \/ LeaveOther(p)
                          \/ UseNeedleAndTell(p) \/ TimeUpAndTell(p)
    \/ EnterMe
    \/ BeginTick /\ UNCHANGED <<inbox, history>>
    \/ \E fired \in SUBSET (Bombs \ isDead), caught \in SUBSET (Alive \ Trapped) :
          \E destroyed \in [fired -> SUBSET Of(Items \cup {"BREAKABLE"})] :
             BlastAndTell(fired, caught, destroyed)
    \/ EndTickAndTell

KillAction ==
    \E p \in Players, killed \in SUBSET Trapped, got \in SUBSET Of(Items) :
       KillAndGetAndTell(p, killed, got)

LEMMA RoomStepActs ==
  RoomStep => /\ RoomMay /\ UNCHANGED <<layer, sceneVars, clientCrash>>
              /\ (OtherAction /\ UNCHANGED rollers) \/ KillAction
BY Zenon DEF RoomStep, OtherAction, KillAction

\* what a step of the room that leaves history alone keeps by its shape
FeedKept == FeedTypes' /\ history' \in HistoryType /\ BrokenListed'

LEMMA EnterKeepsFeed ==
  ASSUME Types, BrokenListed, NEW p \in Players, Enter(p), history' \in HistoryType,
         history'.listed = history.listed
  PROVE  FeedKept
BY MirrorAssumption DEF FeedKept, FeedTypes, BrokenListed, Types, Enter, Membership

LEMMA LeaveKeepsFeed ==
  ASSUME Types, BrokenListed, NEW p \in Players, LeaveOther(p)
  PROVE  FeedKept
BY MirrorAssumption DEF FeedKept, FeedTypes, BrokenListed, Types, LeaveOther, Leave, Membership

LEMMA PlantKeepsFeed ==
  ASSUME Types, BrokenListed, NEW p \in Players, NEW t \in Tiles, PlantAndTell(p, t)
  PROVE  FeedKept /\ layer' \in [Tiles -> 0 .. MaxPlants]
<1>1. layer' \in [Tiles -> 0 .. MaxPlants]
  BY MirrorAssumption DEF Types, SceneTypes, PlantAndTell
<1>2. FeedKept
  BY DEF FeedKept, FeedTypes, BrokenListed, Types, PlantAndTell, Plant, MapType
<1> QED BY <1>1, <1>2

LEMMA NeedleKeepsFeed ==
  ASSUME Types, BrokenListed, NEW p \in Players, UseNeedleAndTell(p)
  PROVE  FeedKept
BY DEF FeedKept, FeedTypes, BrokenListed, Types, UseNeedleAndTell, UseNeedle, SetStates, MainState

LEMMA TimeUpKeepsFeed ==
  ASSUME Types, BrokenListed, NEW p \in Players, TimeUpAndTell(p)
  PROVE  FeedKept
BY DEF FeedKept, FeedTypes, BrokenListed, Types, TimeUpAndTell, TimeUp, SetStates, MainState

LEMMA BeginTickKeepsFeed ==
  ASSUME Types, BrokenListed, BeginTick, UNCHANGED history
  PROVE  FeedKept
BY DEF FeedKept, FeedTypes, BrokenListed, Types, BeginTick

LEMMA EndTickKeepsFeed ==
  ASSUME Types, BrokenListed, EndTickAndTell
  PROVE  FeedKept
<1>1. member' \in [Players -> Membership] /\ member'[Me] \in {"out", "in"}
  BY MirrorAssumption DEF Types, FeedTypes, EndTickAndTell, EndTick, Membership
<1>2. mainState' \in [Players -> MainState] /\ mapObj' \in [Tiles -> MapType]
  BY DEF Types, FeedTypes, EndTickAndTell, EndTick, MainState, MapType
<1>3. history' \in HistoryType
  BY DEF Types, EndTickAndTell, HistoryType
<1> QED BY <1>1, <1>2, <1>3 DEF FeedKept, FeedTypes, BrokenListed, EndTickAndTell, EndTick

LEMMA KillKeepsFeed ==
  ASSUME Types, BrokenListed, NEW p \in Players, NEW killed \in SUBSET Trapped,
         NEW got \in SUBSET Of(Items), KillAndGetAndTell(p, killed, got)
  PROVE  FeedKept
<1>1. mainState' \in [Players -> MainState]
  BY DEF Types, FeedTypes, KillAndGetAndTell, KillAndGet, SetStates, MainState
<1>2. isDead' = isDead \cup got /\ UNCHANGED <<member, mapObj, phase, history>> /\ phase = "update"
  BY DEF KillAndGetAndTell, KillAndGet
<1>3. \A t \in got : t \in Tiles /\ mapObj[t] \in Items
  BY DEF Of
<1>4. \A x \in Items : x # "NONE" /\ x # "BREAKABLE"
  BY DEF Items
<1> QED BY <1>1, <1>2, <1>3, <1>4 DEF FeedKept, FeedTypes, BrokenListed, Types

\* what a chain breaks
BrokenBy(fired, destroyed) == UNION {destroyed[t] : t \in fired}

LEMMA BlastKeepsFeed ==
  ASSUME Types, BrokenListed, NEW fired \in SUBSET (Bombs \ isDead), NEW caught \in SUBSET (Alive \ Trapped),
         NEW destroyed \in [fired -> SUBSET Of(Items \cup {"BREAKABLE"})],
         BlastAndTell(fired, caught, destroyed)
  PROVE  FeedKept
<1>1. /\ UNCHANGED <<member, mapObj, phase>> /\ phase = "update"
      /\ isDead' = isDead \cup fired \cup BrokenBy(fired, destroyed)
      /\ SetStates(caught, "TRAPPED")
      /\ \E twice \in SUBSET BrokenBy(fired, destroyed) :
            history' = [history EXCEPT
                         !.listed   = @ \cup BrokenBy(fired, destroyed),
                         !.relisted = @ \cup {ObjectAt(t) : t \in twice}]
  <2> DEFINE broken == BrokenBy(fired, destroyed)
             again  == {t \in broken : Cardinality({u \in fired : t \in destroyed[u]}) > 1}
  <2>1. again \cup (broken \cap history.listed) \in SUBSET broken
    OBVIOUS
  <2>2. /\ GoOff(fired, caught, broken)
        /\ history' = [history EXCEPT
                         !.listed   = @ \cup broken,
                         !.relisted = @ \cup {ObjectAt(t) : t \in again \cup (broken \cap history.listed)}]
    BY DEF BlastAndTell, BrokenBy
  <2> QED BY <2>1, <2>2 DEF GoOff
<1>2. mainState' \in [Players -> MainState]
  BY <1>1 DEF Types, FeedTypes, SetStates, MainState
<1>3. \A t \in BrokenBy(fired, destroyed) : t \in Tiles /\ mapObj[t] # "NONE"
  BY DEF BrokenBy, Of, Items
<1>4. \A t \in fired : t \in Tiles /\ mapObj[t] = "WATER_BOMB"
  BY DEF Bombs, Of
<1>5. history' \in HistoryType /\ history'.listed = history.listed \cup BrokenBy(fired, destroyed)
  <2>1. \A t \in BrokenBy(fired, destroyed) : ObjectAt(t) \in Id
    BY <1>3, ObjectFacts
  <2>2. PICK A, B : /\ A = BrokenBy(fired, destroyed) /\ A \subseteq Tiles /\ B \subseteq Id
                    /\ history' = [history EXCEPT !.listed = @ \cup A, !.relisted = @ \cup B]
    <3>1. PICK twice \in SUBSET BrokenBy(fired, destroyed) :
             history' = [history EXCEPT
                          !.listed   = @ \cup BrokenBy(fired, destroyed),
                          !.relisted = @ \cup {ObjectAt(t) : t \in twice}]
      BY <1>1
    <3>2. {ObjectAt(t) : t \in twice} \subseteq Id
      BY <2>1
    <3>3. BrokenBy(fired, destroyed) \subseteq Tiles
      BY <1>3
    <3> QED BY <3>1, <3>2, <3>3
  <2>3. history \in HistoryType
    BY DEF Types
  <2> QED BY <2>2, <2>3 DEF HistoryType
<1> QED BY <1>1, <1>2, <1>3, <1>4, <1>5 DEF FeedKept, FeedTypes, BrokenListed, Types

\* Nothing but the feed and the inbox moves: what that means for Types.
LEMMA RoomKeepsTypes ==
  ASSUME Types, FeedKept, inbox' \in Seq(Packets), UNCHANGED <<layer, sceneVars, clientCrash>>
  PROVE  Types'
BY DEF Types, FeedKept, SceneTypes, sceneVars

LEMMA QuietStep ==
  ASSUME IInv, NEW ps \in Seq(Packets), Quiet(ps), QuietRoom(ps), FeedKept
  PROVE  IInv'
<1>1. inbox' \in Seq(Packets)
  BY QuietPlaces
<1>2. Types' /\ BrokenListed'
  BY <1>1, RoomKeepsTypes DEF IInv, Quiet, FeedKept
<1> QED BY <1>2, QuietKeeps

\* Before this client enters nobody tells it anything.
LEMMA NobodyTells ==
  ASSUME IInv, member[Me] # "in", member'[Me] # "in", FeedKept, inbox' = inbox,
         UNCHANGED <<layer, sceneVars, clientCrash>>,
         history'.ghosts = history.ghosts, history'.twins = history.twins,
         history'.missing = history.missing, history.relisted \subseteq history'.relisted
  PROVE  IInv'
<1>1. Types'
  BY RoomKeepsTypes DEF IInv, Types
<1> QED BY <1>1 DEF IInv, BeforeEntry, SlotsShown, NoTwins, CrashesAreKnown, Linked, FeedKept, sceneVars

\* Where nothing is planted, broken or removed the map is the same.
LEMMA SameMap ==
  ASSUME UNCHANGED <<mapObj, layer>>
  PROVE  OnMap' = OnMap
BY DEF OnMap, ObjectAt

\* The packets of TellStates.
LEMMA StatesTold ==
  ASSUME NEW who \in SUBSET Players, NEW s \in MainState
  PROVE  /\ TellStates(who, s) \in Seq(Packets)
         /\ \A k \in 1 .. Len(TellStates(who, s)) :
               LET pk == TellStates(who, s)[k]
               IN  pk.type = "S_MainState" /\ pk.player \in who /\ pk.state = s
         /\ \A p \in who : \E k \in 1 .. Len(TellStates(who, s)) : TellStates(who, s)[k].player = p
<1> DEFINE S == {S_MainState(p, s) : p \in who}
<1>1. IsFiniteSet(who)
  BY MirrorKinds, FS_Subset
<1>2. IsFiniteSet(S)
  <2> DEFINE f == [p \in who |-> S_MainState(p, s)]
  <2>1. f \in Surjection(who, S)
    BY DEF Surjection
  <2> HIDE DEF f, S
  <2> QED BY <1>1, <2>1, FS_Surjection
<1>3. \A pk \in S : pk \in Packets /\ pk.type = "S_MainState" /\ pk.player \in who /\ pk.state = s
  <2> SUFFICES ASSUME NEW p \in who
               PROVE  LET pk == S_MainState(p, s)
                      IN  pk \in Packets /\ pk.type = "S_MainState" /\ pk.player \in who /\ pk.state = s
    BY Zenon DEF S
  <2>1. p \in Players
    OBVIOUS
  <2>2. S_MainState(p, s) \in [type : {"S_MainState"}, player : Players, state : MainState]
    BY <2>1 DEF S_MainState
  <2>3. S_MainState(p, s) \in Packets
    BY <2>2 DEF Packets
  <2> QED BY <2>3 DEF S_MainState
<1>4. \A p \in who : \E pk \in S : pk.player = p
  <2> SUFFICES ASSUME NEW p \in who
               PROVE  \E pk \in S : pk.player = p
    OBVIOUS
  <2>1. S_MainState(p, s) \in S
    BY Zenon DEF S
  <2>2. S_MainState(p, s).player = p
    BY DEF S_MainState
  <2> QED BY <2>1, <2>2, Zenon
<1> HIDE DEF S
<1>5. /\ SetToSeq(S) \in Seq(S)
      /\ \A x \in S : \E k \in 1 .. Len(SetToSeq(S)) : SetToSeq(S)[k] = x
  BY <1>2, SetInSequence
<1>6. \A k \in 1 .. Len(SetToSeq(S)) : SetToSeq(S)[k] \in S
  BY <1>5, ElementOfSeq
<1>7. SetToSeq(S) \in Seq(Packets)
  BY <1>3, <1>5, SeqMonotonic
<1>8. TellStates(who, s) = SetToSeq(S)
  BY DEF TellStates, S
<1>9. \A p \in who : \E k \in 1 .. Len(SetToSeq(S)) : SetToSeq(S)[k].player = p
  BY <1>4, <1>5
<1>10. \A k \in 1 .. Len(SetToSeq(S)) :
         SetToSeq(S)[k].type = "S_MainState" /\ SetToSeq(S)[k].player \in who /\ SetToSeq(S)[k].state = s
  BY <1>3, <1>6
<1> QED BY <1>7, <1>8, <1>9, <1>10

\* The effects of packets of these two types.
LEMMA StateEffects ==
  ASSUME NEW pk, pk.type = "S_MainState"
  PROVE  /\ \A x : ~Removes(pk, x)
         /\ \A p : Tells(pk, p) <=> p = pk.player
         /\ \A p : Told(pk, p) = pk.state
BY DEF Removes, Tells, Told

LEMMA RemovalEffects ==
  ASSUME NEW pk, pk.type \in {"S_PlayerLeave", "S_RemoveItem", "S_Explode"}
  PROVE  \A p : ~Tells(pk, p)
BY DEF Tells

LEMMA LeaveTells ==
  ASSUME IInv, RoomMay, NEW p \in Players, LeaveOther(p), UNCHANGED <<layer, sceneVars, clientCrash>>
  PROVE  IInv'
<1>1. FeedKept
  BY LeaveKeepsFeed DEF IInv
<1>2. /\ p # Me /\ member[p] = "in" /\ member' = [member EXCEPT ![p] = "dead"]
      /\ UNCHANGED <<mainState, mapObj, isDead, phase, history>>
      /\ inbox' = IF member'[Me] = "in" THEN inbox \o <<S_PlayerLeave(p)>> ELSE inbox
  BY DEF LeaveOther, Leave, Tell
<1>3. member'[Me] = member[Me] /\ \A q \in Players : member'[q] = IF q = p THEN "dead" ELSE member[q]
  BY <1>2, MirrorAssumption DEF IInv, Types, FeedTypes
<1>4. CASE member[Me] # "in"
  BY <1>1, <1>2, <1>3, <1>4, NobodyTells
<1>5. CASE member[Me] = "in"
  <2>1. PICK ps : ps = <<S_PlayerLeave(p)>>
    OBVIOUS
  <2>2. ps \in Seq(Packets) /\ Len(ps) = 1 /\ ps[1] = S_PlayerLeave(p)
    BY <2>1 DEF Packets, S_PlayerLeave
  <2>3. \A k \in 1 .. Len(ps) : k = 1
    BY <2>2
  <2>4. ps[1].type = "S_PlayerLeave" /\ \A x : (Removes(ps[1], x) <=> x = p) /\ ~Tells(ps[1], x)
    BY <2>2 DEF S_PlayerLeave, Removes, Tells
  <2>5. p \notin Id /\ p \notin history.ghosts
    BY <1>2, <1>5, MirrorKinds DEF IInv, Link, Linked, RoomMay, Ghosts
  <2>6. Quiet(ps)
    BY <1>2, <1>3, <1>5, <2>1, <2>3, <2>4, <2>5, MirrorAssumption DEF Quiet, QuietTypes, RoomMay
  <2>7. OnMap' = OnMap
    BY <1>2, SameMap
  <2>8. \A q \in history.ghosts : q \in Players /\ member[q] \in {"dead", "gone"}
    BY <1>5 DEF IInv, Link, Linked, RoomMay, Ghosts, Types, HistoryType
  <2>9. QuietRoom(ps)
    <3>1. \A i \in Id : i \in OnMap' /\ Home(i) \notin isDead' <=>
            i \in OnMap /\ Home(i) \notin isDead /\ \A k \in 1 .. Len(ps) : ~Removes(ps[k], i)
      BY <1>2, <2>3, <2>4, <2>5, <2>7
    <3>2. \A q \in Players : member'[q] = "in" <=>
            member[q] = "in" /\ \A k \in 1 .. Len(ps) : ~Removes(ps[k], q)
      BY <1>3, <2>2, <2>3, <2>4
    <3>3. \A q \in history.ghosts :
            member'[q] \in {"dead", "gone"} /\ \A k \in 1 .. Len(ps) : ~Removes(ps[k], q)
      BY <1>3, <2>3, <2>4, <2>5, <2>8
    <3>4. \A k \in 1 .. Len(ps) : (\A q : ~Tells(ps[k], q)) /\ ps[k].type # "S_Explode"
      BY <2>3, <2>4
    <3>5. mainState' = mainState /\ history' = history
      BY <1>2
    <3> QED BY <3>1, <3>2, <3>3, <3>4, <3>5 DEF QuietRoom
  <2> QED BY <1>1, <2>2, <2>6, <2>9, QuietStep
<1> QED BY <1>4, <1>5

\* The packets of a step that changes the states of who, and destroys the items of got;
\* it may tell of speeds.
StateNews(ps, who, got) ==
    /\ \A k \in 1 .. Len(ps) :
          \/ ps[k].type = "S_MainState" /\ ps[k].player \in who /\ ps[k].state = mainState'[ps[k].player]
          \/ ps[k].type = "S_RemoveItem" /\ \E t \in got : ps[k].id = ObjectAt(t)
          \/ ps[k].type = "S_PlayerNormalSpeed"
    /\ \A q \in who : \E k \in 1 .. Len(ps) : ps[k].type = "S_MainState" /\ ps[k].player = q
    /\ \A t \in got : \E k \in 1 .. Len(ps) : ps[k].type = "S_RemoveItem" /\ ps[k].id = ObjectAt(t)

LEMMA StateTells ==
  ASSUME IInv, member[Me] = "in", clientCrash = "none", FeedKept,
         NEW ps \in Seq(Packets), inbox' = inbox \o ps,
         UNCHANGED <<member, mapObj, history, layer, sceneVars, clientCrash>>,
         NEW who \in SUBSET Alive, NEW got \in SUBSET Tiles, isDead' = isDead \cup got,
         \A q \in Players : q \notin who => mainState'[q] = mainState[q],
         StateNews(ps, who, got)
  PROVE  IInv'
<1>1. /\ \A t \in Tiles : ObjectAt(t) \in Id /\ Home(ObjectAt(t)) = t /\ ObjectAt(t)[2] = layer[t] /\ layer[t] \in Nat
      /\ \A i \in Id : i \in OnMap <=> i = ObjectAt(Home(i)) /\ mapObj[Home(i)] # "NONE"
  BY ObjectFacts DEF IInv
<1>2. \A k \in 1 .. Len(ps) : ps[k].type \in {"S_MainState", "S_RemoveItem", "S_PlayerNormalSpeed"}
  BY DEF StateNews
<1>3. \A k \in 1 .. Len(ps) : \A x : Removes(ps[k], x) => \E t \in got : x = ObjectAt(t)
  <2> SUFFICES ASSUME NEW k \in 1 .. Len(ps), NEW x, Removes(ps[k], x)
               PROVE  \E t \in got : x = ObjectAt(t)
    OBVIOUS
  <2>1. ps[k].type = "S_RemoveItem" /\ x = ps[k].id
    <3>1. ps[k].type \notin {"S_PlayerLeave", "S_Explode"}
      BY <1>2
    <3> QED BY ONLY Removes(ps[k], x), <3>1 DEF Removes
  <2>2. \E t \in got : ps[k].id = ObjectAt(t)
    <3>1. \/ ps[k].type = "S_MainState"
          \/ ps[k].type = "S_RemoveItem" /\ \E t \in got : ps[k].id = ObjectAt(t)
          \/ ps[k].type = "S_PlayerNormalSpeed"
      BY DEF StateNews
    <3> QED BY ONLY <2>1, <3>1
  <2> QED BY <2>1, <2>2
<1>4. \A k \in 1 .. Len(ps) : \A q : Tells(ps[k], q) => q \in who /\ Told(ps[k], q) = mainState'[q]
  BY DEF Tells, Told, StateNews
<1>5. \A q \in Players : member[q] = "out" => q \notin who
  BY DEF Alive
<1>6. \A t \in got : ObjectAt(t) \notin Players
  BY <1>1, MirrorKinds
<1>7. \A q \in Players, k \in 1 .. Len(ps) : ~Removes(ps[k], q)
  <2> SUFFICES ASSUME NEW q \in Players, NEW k \in 1 .. Len(ps), Removes(ps[k], q)
               PROVE  FALSE
    OBVIOUS
  <2>1. PICK t \in got : q = ObjectAt(t)
    BY <1>3
  <2>2. ObjectAt(t) \notin Players
    BY <1>6
  <2> QED BY <2>1, <2>2
<1>8. Quiet(ps)
  <2>1. \A k \in 1 .. Len(ps), i \in Id : Removes(ps[k], i) => i[2] <= layer[Home(i)]
    <3> SUFFICES ASSUME NEW k \in 1 .. Len(ps), NEW i \in Id, Removes(ps[k], i)
                 PROVE  i[2] <= layer[Home(i)]
      OBVIOUS
    <3>1. PICK t \in got : i = ObjectAt(t)
      BY <1>3
    <3>2. i[2] = layer[t] /\ Home(i) = t /\ layer[t] \in Nat
      BY <1>1, <3>1
    <3> QED BY <3>2
  <2>2. \A q \in Players : member'[q] = "out" =>
          member[q] = "out" /\ \A k \in 1 .. Len(ps) : ~Removes(ps[k], q) /\ ~Tells(ps[k], q)
    BY <1>4, <1>5, <1>7
  <2> QED BY <1>2, <2>1, <2>2 DEF Quiet, QuietTypes
<1>9. OnMap' = OnMap
  BY SameMap
<1>10. \A i \in Id : i \in OnMap' /\ Home(i) \notin isDead' <=>
          i \in OnMap /\ Home(i) \notin isDead /\ \A k \in 1 .. Len(ps) : ~Removes(ps[k], i)
  <2> SUFFICES ASSUME NEW i \in Id, i \in OnMap, Home(i) \notin isDead
               PROVE  Home(i) \notin got <=> \A k \in 1 .. Len(ps) : ~Removes(ps[k], i)
    BY <1>9
  <2>1. i = ObjectAt(Home(i))
    BY <1>1
  <2>2. ASSUME Home(i) \in got
        PROVE  \E k \in 1 .. Len(ps) : Removes(ps[k], i)
    BY <2>1, <2>2 DEF Removes, StateNews
  <2>3. ASSUME NEW k \in 1 .. Len(ps), Removes(ps[k], i)
        PROVE  Home(i) \in got
    <3>1. PICK t \in got : i = ObjectAt(t)
      BY <1>3, <2>3
    <3>2. Home(i) = t
      BY <1>1, <3>1
    <3> QED BY <3>2
  <2> QED BY <2>2, <2>3
<1>11. history.ghosts \subseteq Players /\ \A q \in history.ghosts : member[q] \in {"dead", "gone"}
  BY DEF IInv, Link, Linked, Ghosts, Types, HistoryType
<1>12. \A q \in Players : (\A k \in 1 .. Len(ps) : ~Tells(ps[k], q)) => mainState'[q] = mainState[q]
  BY DEF Tells, StateNews
<1>13. QuietRoom(ps)
  <2>1. \A q \in Players : member'[q] = "in" <=>
          member[q] = "in" /\ \A k \in 1 .. Len(ps) : ~Removes(ps[k], q)
    BY <1>7
  <2>2. \A q \in history.ghosts :
          member'[q] \in {"dead", "gone"} /\ \A k \in 1 .. Len(ps) : ~Removes(ps[k], q)
    BY <1>7, <1>11
  <2>3. \A q \in Players : member'[q] = "in" =>
          /\ \A k \in 1 .. Len(ps) : Tells(ps[k], q) => Told(ps[k], q) = mainState'[q]
          /\ (\A k \in 1 .. Len(ps) : ~Tells(ps[k], q)) => mainState'[q] = mainState[q]
    <3> SUFFICES ASSUME NEW q \in Players
                 PROVE  /\ \A k \in 1 .. Len(ps) : Tells(ps[k], q) => Told(ps[k], q) = mainState'[q]
                        /\ (\A k \in 1 .. Len(ps) : ~Tells(ps[k], q)) => mainState'[q] = mainState[q]
      OBVIOUS
    <3>1. \A k \in 1 .. Len(ps) : Tells(ps[k], q) => Told(ps[k], q) = mainState'[q]
      BY <1>4
    <3>2. (\A k \in 1 .. Len(ps) : ~Tells(ps[k], q)) => mainState'[q] = mainState[q]
      BY <1>12
    <3> QED BY <3>1, <3>2
  <2>4. history'.relisted = history.relisted /\ \A k \in 1 .. Len(ps) : ps[k].type # "S_Explode"
    BY <1>2
  <2> QED BY <1>10, <2>1, <2>2, <2>3, <2>4, Zenon DEF QuietRoom
<1> QED BY <1>8, <1>13, QuietStep

LEMMA NeedleTells ==
  ASSUME IInv, RoomMay, NEW p \in Players, UseNeedleAndTell(p), UNCHANGED <<layer, sceneVars, clientCrash>>
  PROVE  IInv'
<1>1. FeedKept
  BY NeedleKeepsFeed DEF IInv
<1>2. /\ p \in Alive /\ mainState' = [q \in Players |-> IF q \in {p} THEN "ESCAPE" ELSE mainState[q]]
      /\ UNCHANGED <<member, mapObj, isDead, phase, history>>
      /\ inbox' = IF member'[Me] = "in" THEN inbox \o <<S_MainState(p, "ESCAPE")>> ELSE inbox
  BY DEF UseNeedleAndTell, UseNeedle, Tell, SetStates
<1>3. CASE member[Me] # "in"
  BY <1>1, <1>2, <1>3, NobodyTells
<1>4. CASE member[Me] = "in"
  <2>1. PICK ps : ps = <<S_MainState(p, "ESCAPE")>>
    OBVIOUS
  <2>2. S_MainState(p, "ESCAPE") \in [type : {"S_MainState"}, player : Players, state : MainState]
    BY DEF S_MainState, MainState
  <2>3. ps \in Seq(Packets) /\ Len(ps) = 1 /\ ps[1] = S_MainState(p, "ESCAPE")
    BY <2>1, <2>2 DEF Packets
  <2>4. StateNews(ps, {p}, {})
    <3>1. \A k \in 1 .. Len(ps) : k = 1
      BY <2>3
    <3>2. ps[1].type = "S_MainState" /\ ps[1].player = p /\ ps[1].state = mainState'[p]
      BY <2>3, <1>2 DEF S_MainState
    <3>3. 1 \in 1 .. Len(ps)
      BY <2>3
    <3> QED BY <3>1, <3>2, <3>3 DEF StateNews
  <2>5. \A q \in Players : q \notin {p} => mainState'[q] = mainState[q]
    BY <1>2
  <2>6. {p} \in SUBSET Alive /\ {} \in SUBSET Tiles /\ isDead' = isDead \cup {}
    BY <1>2
  <2> QED BY <1>1, <1>2, <1>4, <2>1, <2>3, <2>4, <2>5, <2>6, StateTells DEF RoomMay
<1> QED BY <1>3, <1>4

LEMMA TimeUpTells ==
  ASSUME IInv, RoomMay, NEW p \in Players, TimeUpAndTell(p), UNCHANGED <<layer, sceneVars, clientCrash>>
  PROVE  IInv'
<1>1. FeedKept
  BY TimeUpKeepsFeed DEF IInv
<1>2. PICK s \in MainState :
         /\ mainState' = [q \in Players |-> IF q \in {p} THEN s ELSE mainState[q]]
         /\ p \in Alive
         /\ UNCHANGED <<member, mapObj, isDead, phase, history>>
  <2>1. {"DEAD", "NORMAL"} \subseteq MainState
    BY DEF MainState
  <2> QED BY <2>1 DEF TimeUpAndTell, TimeUp, SetStates
<1>3. mainState'[p] = s
  BY <1>2
<1>4. inbox' = IF member'[Me] = "in" THEN inbox \o <<S_MainState(p, s)>> ELSE inbox
  BY <1>3 DEF TimeUpAndTell, Tell
<1>5. CASE member[Me] # "in"
  BY <1>1, <1>2, <1>4, <1>5, NobodyTells
<1>6. CASE member[Me] = "in"
  <2>1. PICK ps : ps = <<S_MainState(p, s)>>
    OBVIOUS
  <2>2. S_MainState(p, s) \in [type : {"S_MainState"}, player : Players, state : MainState]
    BY DEF S_MainState
  <2>3. ps \in Seq(Packets) /\ Len(ps) = 1 /\ ps[1] = S_MainState(p, s)
    BY <2>1, <2>2 DEF Packets
  <2>4. StateNews(ps, {p}, {})
    <3>1. \A k \in 1 .. Len(ps) : k = 1
      BY <2>3
    <3>2. ps[1].type = "S_MainState" /\ ps[1].player = p /\ ps[1].state = mainState'[p]
      BY <2>3, <1>3 DEF S_MainState
    <3>3. 1 \in 1 .. Len(ps)
      BY <2>3
    <3> QED BY <3>1, <3>2, <3>3 DEF StateNews
  <2>5. \A q \in Players : q \notin {p} => mainState'[q] = mainState[q]
    BY <1>2
  <2>6. {p} \in SUBSET Alive /\ {} \in SUBSET Tiles /\ isDead' = isDead \cup {}
    BY <1>2
  <2> QED BY <1>1, <1>2, <1>4, <1>6, <2>1, <2>3, <2>4, <2>5, <2>6, StateTells DEF RoomMay
<1> QED BY <1>5, <1>6

LEMMA BeginTickTells ==
  ASSUME IInv, RoomMay, BeginTick, UNCHANGED <<inbox, history, layer, sceneVars, clientCrash>>
  PROVE  IInv'
<1>1. FeedKept
  BY BeginTickKeepsFeed DEF IInv
<1>2. UNCHANGED <<member, mainState, mapObj, isDead>>
  BY DEF BeginTick
<1>3. CASE member[Me] # "in"
  BY <1>1, <1>2, <1>3, NobodyTells
<1>4. CASE member[Me] = "in"
  <2>1. inbox \in Seq(Packets)
    BY DEF IInv, Types
  <2>2. PICK ps : ps = <<>>
    OBVIOUS
  <2>3. ps \in Seq(Packets) /\ Len(ps) = 0 /\ inbox' = inbox \o ps
    BY <2>1, <2>2, ConcatEmptySeq
  <2>4. StateNews(ps, {}, {})
    BY <2>3 DEF StateNews
  <2>5. {} \in SUBSET Alive /\ {} \in SUBSET Tiles /\ isDead' = isDead \cup {}
    BY <1>2
  <2> QED BY <1>1, <1>2, <1>4, <2>3, <2>4, <2>5, StateTells DEF RoomMay
<1> QED BY <1>3, <1>4

\* What GetNews holds: a removal of each item, a speed for each roller, and the
\* speeds grow.
News(news, taken, got) ==
    /\ news \in Seq(Packets)
    /\ \A k \in 1 .. Len(news) :
          \/ news[k].type = "S_RemoveItem" /\ \E t \in got : news[k].id = ObjectAt(t)
          \/ news[k].type = "S_PlayerNormalSpeed" /\ news[k].rollers \in Speeds(taken)
    /\ \A t \in got : \E k \in 1 .. Len(news) : news[k].type = "S_RemoveItem" /\ news[k].id = ObjectAt(t)
    /\ \A s \in Speeds(taken) :
          \E k \in 1 .. Len(news) : news[k].type = "S_PlayerNormalSpeed" /\ news[k].rollers = s
    /\ \A k, m \in 1 .. Len(news) :
          news[k].type = "S_PlayerNormalSpeed" /\ news[m].type = "S_PlayerNormalSpeed" /\ m < k
             => news[m].rollers < news[k].rollers

LEMMA SpeedFacts ==
  ASSUME NEW taken, IsFiniteSet(taken), rollers \in Nat
  PROVE  /\ Cardinality(taken) \in Nat
         /\ IsFiniteSet(Speeds(taken))
         /\ \A s \in Speeds(taken) : s \in Int /\ rollers < s /\ s <= rollers + Cardinality(taken)
         /\ taken # {} => rollers + Cardinality(taken) \in Speeds(taken)
<1>1. Cardinality(taken) \in Nat /\ (taken # {} => Cardinality(taken) # 0)
  BY FS_CardinalityType, FS_EmptySet
<1>2. PICK k \in Nat : k = Cardinality(taken)
  BY <1>1
<1>3. Speeds(taken) = {rollers + n : n \in 1 .. k}
  BY <1>2 DEF Speeds
<1>4. IsFiniteSet(1 .. k)
  BY FS_Interval
<1>5. IsFiniteSet(Speeds(taken))
  <2> DEFINE f == [n \in 1 .. k |-> rollers + n]
  <2>1. f \in Surjection(1 .. k, Speeds(taken))
    BY <1>3 DEF Surjection
  <2> HIDE DEF f
  <2> QED BY <1>4, <2>1, FS_Surjection
<1>6. \A s \in Speeds(taken) : s \in Int /\ rollers < s /\ s <= rollers + k
  BY <1>3
<1>7. ASSUME taken # {}
      PROVE  rollers + k \in Speeds(taken)
  <2>1. k \in 1 .. k
    BY <1>1, <1>2, <1>7
  <2> QED BY <1>3, <2>1
<1> QED BY <1>1, <1>2, <1>5, <1>6, <1>7

LEMMA NewsTold ==
  ASSUME Types, rollers \in Nat \ {0}, NEW got \in SUBSET Tiles, NEW taken \in SUBSET got,
         rollers + Cardinality(taken) <= MaxRollers, NEW news \in GetNews(taken, got)
  PROVE  News(news, taken, got)
<1> DEFINE S == {S_PlayerNormalSpeed(n) : n \in Speeds(taken)}
           R == {S_RemoveItem(ObjectAt(t)) : t \in got}
<1>1. IsFiniteSet(got) /\ IsFiniteSet(taken)
  <2>1. got \in SUBSET Tiles /\ taken \in SUBSET Tiles
    OBVIOUS
  <2> QED BY <2>1, MirrorKinds, FS_Subset
<1>2. /\ IsFiniteSet(Speeds(taken))
      /\ \A s \in Speeds(taken) : s \in 1 .. MaxRollers
  <2>1. /\ Cardinality(taken) \in Nat /\ IsFiniteSet(Speeds(taken))
        /\ \A s \in Speeds(taken) : s \in Int /\ rollers < s /\ s <= rollers + Cardinality(taken)
    BY <1>1, SpeedFacts
  <2> QED BY <2>1, MirrorAssumption
<1>3. IsFiniteSet(R)
  <2> DEFINE f == [t \in got |-> S_RemoveItem(ObjectAt(t))]
  <2>1. f \in Surjection(got, R)
    BY DEF Surjection
  <2> HIDE DEF f, R
  <2> QED BY <1>1, <2>1, FS_Surjection
<1>4. IsFiniteSet(S)
  <2> DEFINE f == [n \in Speeds(taken) |-> S_PlayerNormalSpeed(n)]
  <2>1. f \in Surjection(Speeds(taken), S)
    BY DEF Surjection
  <2> HIDE DEF f, S
  <2> QED BY <1>2, <2>1, FS_Surjection
<1>5. \A pk \in R : pk \in Packets /\ pk.type = "S_RemoveItem" /\ \E t \in got : pk.id = ObjectAt(t)
  <2> SUFFICES ASSUME NEW t \in got
               PROVE  LET pk == S_RemoveItem(ObjectAt(t))
                      IN  pk \in Packets /\ pk.type = "S_RemoveItem" /\ pk.id = ObjectAt(t)
    BY Zenon DEF R
  <2>1. ObjectAt(t) \in Id
    BY ObjectFacts
  <2>2. S_RemoveItem(ObjectAt(t)) \in [type : {"S_RemoveItem"}, id : Id]
    BY <2>1 DEF S_RemoveItem
  <2>3. S_RemoveItem(ObjectAt(t)) \in Packets
    BY <2>2 DEF Packets
  <2> QED BY <2>3 DEF S_RemoveItem
<1>6. \A pk \in S : pk \in Packets /\ pk.type = "S_PlayerNormalSpeed" /\ pk.rollers \in Speeds(taken)
  <2> SUFFICES ASSUME NEW n \in Speeds(taken)
               PROVE  LET pk == S_PlayerNormalSpeed(n)
                      IN  pk \in Packets /\ pk.type = "S_PlayerNormalSpeed" /\ pk.rollers = n
    BY Zenon DEF S
  <2>1. S_PlayerNormalSpeed(n) \in [type : {"S_PlayerNormalSpeed"}, rollers : 1 .. MaxRollers]
    BY <1>2 DEF S_PlayerNormalSpeed
  <2>2. S_PlayerNormalSpeed(n) \in Packets
    BY <2>1 DEF Packets
  <2> QED BY <2>2 DEF S_PlayerNormalSpeed
<1>7. \A t \in got : S_RemoveItem(ObjectAt(t)) \in R /\ S_RemoveItem(ObjectAt(t)).id = ObjectAt(t)
  BY DEF S_RemoveItem
<1>8. \A s \in Speeds(taken) : S_PlayerNormalSpeed(s) \in S /\ S_PlayerNormalSpeed(s).rollers = s
  BY DEF S_PlayerNormalSpeed
<1>9. /\ news \in SetToSeqs(S \cup R)
      /\ \A n \in DOMAIN news : news[n].type = "S_PlayerNormalSpeed" =>
            \A m \in 1 .. (n - 1) :
               news[m].type = "S_PlayerNormalSpeed" => news[m].rollers < news[n].rollers
  BY DEF GetNews
<1> HIDE DEF S, R
<1>10. IsFiniteSet(S \cup R)
  BY <1>3, <1>4, FS_Union
<1>11. news \in Seq(S \cup R) /\ \A x \in S \cup R : \E k \in 1 .. Len(news) : news[k] = x
  <2>1. PICK U : U = S \cup R
    OBVIOUS
  <2>2. IsFiniteSet(U) /\ news \in SetToSeqs(U)
    BY <1>9, <1>10, <2>1
  <2>3. news \in Seq(U) /\ \A x \in U : \E k \in 1 .. Len(news) : news[k] = x
    BY <2>2, SetInAnyOrder
  <2> QED BY <2>1, <2>3
<1>12. \A k \in 1 .. Len(news) : news[k] \in S \/ news[k] \in R
  BY <1>11, ElementOfSeq
<1>13. \A x \in S \cup R : x \in Packets
  BY <1>5, <1>6
<1>14. news \in Seq(Packets)
  BY <1>11, <1>13, SeqMonotonic
<1>15. \A k \in 1 .. Len(news) :
          \/ news[k].type = "S_RemoveItem" /\ \E t \in got : news[k].id = ObjectAt(t)
          \/ news[k].type = "S_PlayerNormalSpeed" /\ news[k].rollers \in Speeds(taken)
  BY <1>5, <1>6, <1>12
<1>16. \A t \in got : \E k \in 1 .. Len(news) : news[k].type = "S_RemoveItem" /\ news[k].id = ObjectAt(t)
  <2> SUFFICES ASSUME NEW t \in got
               PROVE  \E k \in 1 .. Len(news) : news[k].type = "S_RemoveItem" /\ news[k].id = ObjectAt(t)
    OBVIOUS
  <2>1. PICK pk \in R : pk.id = ObjectAt(t)
    BY <1>7
  <2>2. PICK k \in 1 .. Len(news) : news[k] = pk
    BY <1>11, <2>1
  <2> QED BY <1>5, <2>1, <2>2
<1>17. \A s \in Speeds(taken) :
          \E k \in 1 .. Len(news) : news[k].type = "S_PlayerNormalSpeed" /\ news[k].rollers = s
  <2> SUFFICES ASSUME NEW s \in Speeds(taken)
               PROVE  \E k \in 1 .. Len(news) : news[k].type = "S_PlayerNormalSpeed" /\ news[k].rollers = s
    OBVIOUS
  <2>1. PICK pk \in S : pk.rollers = s
    BY <1>8
  <2>2. PICK k \in 1 .. Len(news) : news[k] = pk
    BY <1>11, <2>1
  <2> QED BY <1>6, <2>1, <2>2
<1>18. ASSUME NEW k \in 1 .. Len(news), NEW m \in 1 .. Len(news), m < k,
              news[k].type = "S_PlayerNormalSpeed", news[m].type = "S_PlayerNormalSpeed"
       PROVE  news[m].rollers < news[k].rollers
  <2>1. k \in DOMAIN news
    BY <1>14
  <2>2. m \in 1 .. (k - 1)
    BY <1>14, <1>18, LenProperties
  <2> QED BY <1>9, <1>18, <2>1, <2>2
<1> QED BY <1>14, <1>15, <1>16, <1>17, <1>18 DEF News

\* the packets that a player sends of its update
KillNews(p, killed, got, a, b) ==
    /\ a = TellStates(killed, "DEAD") /\ News(b, MyRollers(p, got), got)
    /\ inbox' = IF member'[Me] = "in" THEN inbox \o (a \o b) ELSE inbox
    /\ rollers' = rollers + Cardinality(MyRollers(p, got)) /\ rollers' <= MaxRollers

LEMMA KillSends ==
  ASSUME Types, rollers \in Nat \ {0}, NEW p \in Players, NEW killed \in SUBSET Trapped,
         NEW got \in SUBSET Of(Items), KillAndGetAndTell(p, killed, got)
  PROVE  \E a, b : KillNews(p, killed, got, a, b)
<1>1. /\ rollers' = rollers + Cardinality(MyRollers(p, got)) /\ rollers' <= MaxRollers
      /\ \E news \in GetNews(MyRollers(p, got), got) : Tell(TellStates(killed, "DEAD") \o news)
  BY DEF KillAndGetAndTell
<1>2. PICK b \in GetNews(MyRollers(p, got), got) : Tell(TellStates(killed, "DEAD") \o b)
  BY <1>1
<1>3. got \in SUBSET Tiles /\ MyRollers(p, got) \in SUBSET got
  BY DEF Of, MyRollers
<1>4. News(b, MyRollers(p, got), got)
  <2>1. PICK taken : taken = MyRollers(p, got)
    OBVIOUS
  <2>2. /\ taken \in SUBSET got /\ b \in GetNews(taken, got)
        /\ rollers + Cardinality(taken) <= MaxRollers
    BY <1>1, <1>2, <1>3, <2>1
  <2>3. News(b, taken, got)
    BY <1>3, <2>2, NewsTold
  <2> QED BY <2>1, <2>3
<1>5. PICK a : a = TellStates(killed, "DEAD")
  OBVIOUS
<1>6. inbox' = IF member'[Me] = "in" THEN inbox \o (a \o b) ELSE inbox
  BY <1>2, <1>5 DEF Tell
<1> QED BY <1>1, <1>4, <1>5, <1>6 DEF KillNews

StatePackets(a, who, s) ==
    /\ a \in Seq(Packets)
    /\ \A k \in 1 .. Len(a) : a[k].type = "S_MainState" /\ a[k].player \in who /\ a[k].state = s
    /\ \A p \in who : \E k \in 1 .. Len(a) : a[k].player = p

LEMMA StatePacketsTold ==
  \A who \in SUBSET Players, s \in MainState : StatePackets(TellStates(who, s), who, s)
<1> SUFFICES ASSUME NEW who \in SUBSET Players, NEW s \in MainState
             PROVE  StatePackets(TellStates(who, s), who, s)
  OBVIOUS
<1>1. /\ TellStates(who, s) \in Seq(Packets)
      /\ \A k \in 1 .. Len(TellStates(who, s)) :
            LET pk == TellStates(who, s)[k]
            IN  pk.type = "S_MainState" /\ pk.player \in who /\ pk.state = s
      /\ \A p \in who : \E k \in 1 .. Len(TellStates(who, s)) : TellStates(who, s)[k].player = p
  BY StatesTold, Zenon
<1> QED BY <1>1 DEF StatePackets

LEMMA KillTells ==
  ASSUME IInv, RoomMay, rollers \in Nat \ {0}, NEW p \in Players, NEW killed \in SUBSET Trapped,
         NEW got \in SUBSET Of(Items),
         KillAndGetAndTell(p, killed, got), UNCHANGED <<layer, sceneVars, clientCrash>>
  PROVE  IInv'
<1>1. FeedKept
  BY KillKeepsFeed DEF IInv
<1>2. /\ mainState' = [q \in Players |-> IF q \in killed THEN "DEAD" ELSE mainState[q]]
      /\ isDead' = isDead \cup got
      /\ UNCHANGED <<member, mapObj, phase, history>>
  BY DEF KillAndGetAndTell, KillAndGet, SetStates
<1>3. killed \in SUBSET Alive /\ got \in SUBSET Tiles
  BY DEF Trapped, Of
<1>4. PICK a, b : KillNews(p, killed, got, a, b)
  BY KillSends DEF IInv
<1>5. /\ a = TellStates(killed, "DEAD") /\ News(b, MyRollers(p, got), got)
      /\ inbox' = IF member'[Me] = "in" THEN inbox \o (a \o b) ELSE inbox
  BY <1>4 DEF KillNews
<1>6. CASE member[Me] # "in"
  BY <1>1, <1>2, <1>5, <1>6, NobodyTells
<1>7. CASE member[Me] = "in"
  <2>1. killed \in SUBSET Players /\ "DEAD" \in MainState
    BY <1>3 DEF Alive, MainState
  <2>2. /\ a \in Seq(Packets)
        /\ \A k \in 1 .. Len(a) : a[k].type = "S_MainState" /\ a[k].player \in killed /\ a[k].state = "DEAD"
        /\ \A q \in killed : \E k \in 1 .. Len(a) : a[k].player = q
    <3>1. StatePackets(TellStates(killed, "DEAD"), killed, "DEAD")
      BY <2>1, StatePacketsTold
    <3> QED BY <1>5, <3>1 DEF StatePackets
  <2>3. /\ b \in Seq(Packets)
        /\ \A k \in 1 .. Len(b) : \/ b[k].type = "S_RemoveItem" /\ \E t \in got : b[k].id = ObjectAt(t)
                                  \/ b[k].type = "S_PlayerNormalSpeed"
        /\ \A t \in got : \E k \in 1 .. Len(b) : b[k].type = "S_RemoveItem" /\ b[k].id = ObjectAt(t)
    BY <1>5 DEF News
  <2>4. PICK ps : ps = a \o b
    OBVIOUS
  <2>5. ps \in Seq(Packets)
    BY <2>2, <2>3, <2>4, ConcatProperties
  <2>6. \A n \in 1 .. Len(ps) : (\E k \in 1 .. Len(a) : ps[n] = a[k]) \/ (\E k \in 1 .. Len(b) : ps[n] = b[k])
    <3>1. \A n \in 1 .. Len(a \o b) : (\E k \in 1 .. Len(a) : (a \o b)[n] = a[k]) \/ (\E k \in 1 .. Len(b) : (a \o b)[n] = b[k])
      BY <2>2, <2>3, BothListed
    <3> QED BY <2>4, <3>1
  <2>7. /\ \A k \in 1 .. Len(a) : \E n \in 1 .. Len(ps) : ps[n] = a[k]
        /\ \A k \in 1 .. Len(b) : \E n \in 1 .. Len(ps) : ps[n] = b[k]
    <3>1. /\ \A k \in 1 .. Len(a) : \E n \in 1 .. Len(a \o b) : (a \o b)[n] = a[k]
          /\ \A k \in 1 .. Len(b) : \E n \in 1 .. Len(a \o b) : (a \o b)[n] = b[k]
      BY <2>2, <2>3, BothListed
    <3> QED BY <2>4, <3>1
  <2>8. \A q \in killed : mainState'[q] = "DEAD"
    BY <1>2, <2>1
  <2>9. StateNews(ps, killed, got)
    <3>1. \A k \in 1 .. Len(ps) :
            \/ ps[k].type = "S_MainState" /\ ps[k].player \in killed /\ ps[k].state = mainState'[ps[k].player]
            \/ ps[k].type = "S_RemoveItem" /\ \E t \in got : ps[k].id = ObjectAt(t)
            \/ ps[k].type = "S_PlayerNormalSpeed"
      <4> SUFFICES ASSUME NEW n \in 1 .. Len(ps)
                   PROVE  \/ ps[n].type = "S_MainState" /\ ps[n].player \in killed /\ ps[n].state = mainState'[ps[n].player]
                          \/ ps[n].type = "S_RemoveItem" /\ \E t \in got : ps[n].id = ObjectAt(t)
                          \/ ps[n].type = "S_PlayerNormalSpeed"
        OBVIOUS
      <4>1. CASE \E k \in 1 .. Len(a) : ps[n] = a[k]
        BY <4>1, <2>2, <2>8
      <4>2. CASE \E k \in 1 .. Len(b) : ps[n] = b[k]
        BY <4>2, <2>3
      <4> QED BY <4>1, <4>2, <2>6
    <3>2. \A q \in killed : \E k \in 1 .. Len(ps) : ps[k].type = "S_MainState" /\ ps[k].player = q
      <4> SUFFICES ASSUME NEW q \in killed
                   PROVE  \E k \in 1 .. Len(ps) : ps[k].type = "S_MainState" /\ ps[k].player = q
        OBVIOUS
      <4>1. PICK k \in 1 .. Len(a) : a[k].type = "S_MainState" /\ a[k].player = q
        BY <2>2
      <4>2. PICK n \in 1 .. Len(ps) : ps[n] = a[k]
        BY <2>7
      <4> QED BY <4>1, <4>2
    <3>3. \A t \in got : \E k \in 1 .. Len(ps) : ps[k].type = "S_RemoveItem" /\ ps[k].id = ObjectAt(t)
      <4> SUFFICES ASSUME NEW t \in got
                   PROVE  \E k \in 1 .. Len(ps) : ps[k].type = "S_RemoveItem" /\ ps[k].id = ObjectAt(t)
        OBVIOUS
      <4>1. PICK k \in 1 .. Len(b) : b[k].type = "S_RemoveItem" /\ b[k].id = ObjectAt(t)
        BY <2>3
      <4>2. PICK n \in 1 .. Len(ps) : ps[n] = b[k]
        BY <2>7
      <4> QED BY <4>1, <4>2
    <3> QED BY <3>1, <3>2, <3>3 DEF StateNews
  <2>10. \A q \in Players : q \notin killed => mainState'[q] = mainState[q]
    BY <1>2
  <2>11. inbox' = inbox \o ps
    BY <1>2, <1>5, <1>7, <2>4
  <2> QED BY <1>1, <1>2, <1>3, <1>7, <2>5, <2>9, <2>10, <2>11, StateTells DEF RoomMay
<1> QED BY <1>6, <1>7

LEMMA EndTickTells ==
  ASSUME IInv, RoomMay, EndTickAndTell, UNCHANGED <<layer, sceneVars, clientCrash>>
  PROVE  IInv'
<1>1. FeedKept
  BY EndTickKeepsFeed DEF IInv
<1>2. /\ member'    = [p \in Players |-> IF member[p] = "dead" THEN "gone" ELSE member[p]]
      /\ mainState' = [p \in Players |-> IF member[p] = "dead" THEN "NORMAL" ELSE mainState[p]]
      /\ mapObj'    = [t \in Tiles |-> IF t \in isDead THEN "NONE" ELSE mapObj[t]]
      /\ isDead' = {} /\ inbox' = inbox
      /\ history' = [history EXCEPT !.listed = {}]
  BY DEF EndTickAndTell, EndTick
<1>3. history' \in HistoryType /\ history \in HistoryType
  BY <1>1 DEF FeedKept, IInv, Types
<1>4. /\ history'.ghosts = history.ghosts /\ history'.overtaken = history.overtaken
      /\ history'.twins = history.twins /\ history'.relisted = history.relisted
      /\ history'.missing = history.missing
  BY <1>2, <1>3 DEF HistoryType
<1>5. CASE member[Me] # "in"
  <2>1. member'[Me] # "in"
    BY <1>2, <1>5, MirrorAssumption
  <2> QED BY <1>1, <1>2, <1>4, <1>5, <2>1, NobodyTells
<1>6. CASE member[Me] = "in"
  <2>1. inbox \in Seq(Packets)
    BY DEF IInv, Types
  <2>2. PICK ps : ps = <<>>
    OBVIOUS
  <2>3. ps \in Seq(Packets) /\ inbox' = inbox \o ps /\ \A k \in 1 .. Len(ps) : FALSE
    BY <2>1, <2>2, <1>2, ConcatEmptySeq
  <2>4. member'[Me] = "in"
    BY <1>2, <1>6, MirrorAssumption
  <2>5. Quiet(ps)
    <3>1. \A p \in Players : member'[p] = "out" => member[p] = "out"
      BY <1>2
    <3> QED BY <1>4, <1>6, <2>3, <2>4, <3>1 DEF Quiet, RoomMay
  <2>6. \A i \in Id : i \in OnMap' /\ Home(i) \notin isDead' <=> i \in OnMap /\ Home(i) \notin isDead
    <3>1. layer \in [Tiles -> 0 .. MaxPlants]
      BY DEF IInv, Types, SceneTypes
    <3>2. \A t \in Tiles : ObjectAt(t)' = ObjectAt(t) /\ Home(ObjectAt(t)) = t
      BY DEF ObjectAt, Home
    <3>3. OnMap' = {ObjectAt(t)' : t \in {t \in Tiles : mapObj'[t] # "NONE"}}
      BY DEF OnMap
    <3>4. \A i : i \in OnMap' <=> \E t \in Tiles : mapObj'[t] # "NONE" /\ i = ObjectAt(t)
      BY <3>2, <3>3
    <3>5. \A i : i \in OnMap <=> \E t \in Tiles : mapObj[t] # "NONE" /\ i = ObjectAt(t)
      BY DEF OnMap
    <3> QED BY <1>2, <3>2, <3>4, <3>5
  <2>7. \A p \in Players : member'[p] = "in" <=> member[p] = "in"
    BY <1>2
  <2>8. \A p \in history.ghosts : member'[p] \in {"dead", "gone"}
    <3>1. \A p \in history.ghosts : p \in Players /\ member[p] \in {"dead", "gone"}
      BY <1>6 DEF IInv, Link, Linked, Ghosts, Types, HistoryType, RoomMay
    <3> QED BY <1>2, <3>1
  <2>9. \A p \in Players : member'[p] = "in" => mainState'[p] = mainState[p]
    BY <1>2
  <2>10. QuietRoom(ps)
    BY <1>4, <2>3, <2>6, <2>7, <2>8, <2>9 DEF QuietRoom
  <2> QED BY <1>1, <2>3, <2>5, <2>10, QuietStep
<1> QED BY <1>5, <1>6

Explosions(order, destroyed) ==
    [n \in 1 .. Len(order) |-> S_Explode(ObjectAt(order[n]), destroyed[order[n]])]

ExplosionPackets(b, order, destroyed) ==
    /\ b \in Seq(Packets) /\ Len(b) = Len(order)
    /\ \A k \in 1 .. Len(b) : b[k].type = "S_Explode"
    /\ \A k \in 1 .. Len(b) : \A x : Removes(b[k], x) <=>
          x = ObjectAt(order[k]) \/ \E t \in destroyed[order[k]] : x = ObjectAt(t)
    /\ \A k \in 1 .. Len(b) : \A x \in b[k].blocks :
          \E t \in destroyed[order[k]] : x = ObjectAt(t) /\ mapObj[t] = "BREAKABLE"

\* The packets of a chain.
LEMMA ExplosionsTold ==
  ASSUME Types
  PROVE  \A fired \in SUBSET Bombs :
            \A destroyed \in [fired -> SUBSET Of(Items \cup {"BREAKABLE"})], order \in Seq(fired) :
               ExplosionPackets(Explosions(order, destroyed), order, destroyed)
<1> SUFFICES ASSUME NEW fired \in SUBSET Bombs,
                    NEW destroyed \in [fired -> SUBSET Of(Items \cup {"BREAKABLE"})],
                    NEW order \in Seq(fired)
             PROVE  ExplosionPackets(Explosions(order, destroyed), order, destroyed)
  OBVIOUS
<1>1. PICK b : b = [n \in 1 .. Len(order) |-> S_Explode(ObjectAt(order[n]), destroyed[order[n]])]
  OBVIOUS
<1>2. ASSUME NEW n \in 1 .. Len(order)
      PROVE  /\ b[n] \in Packets /\ b[n].type = "S_Explode"
             /\ \A x : Removes(b[n], x) <=>
                   x = ObjectAt(order[n]) \/ \E t \in destroyed[order[n]] : x = ObjectAt(t)
             /\ \A x \in b[n].blocks : \E t \in destroyed[order[n]] : x = ObjectAt(t) /\ mapObj[t] = "BREAKABLE"
  <2>1. PICK u : u = order[n]
    OBVIOUS
  <2>2. u \in fired /\ u \in Tiles
    BY <2>1, ElementOfSeq DEF Bombs, Of
  <2>3. \A t \in destroyed[u] : t \in Tiles /\ mapObj[t] \in Items \cup {"BREAKABLE"}
    BY <2>2 DEF Of
  <2>4. PICK pk : pk = S_Explode(ObjectAt(u), destroyed[u])
    OBVIOUS
  <2>5. b[n] = pk
    BY <1>1, <2>1, <2>4
  <2>6. \A t \in Tiles : ObjectAt(t) \in Id
    BY ObjectFacts
  <2>7. /\ pk.type = "S_Explode" /\ pk.id = ObjectAt(u)
        /\ pk.blocks = {ObjectAt(t) : t \in {t \in destroyed[u] : mapObj[t] = "BREAKABLE"}}
        /\ pk.items = {ObjectAt(t) : t \in {t \in destroyed[u] : mapObj[t] \in Items}}
    BY <2>4 DEF S_Explode
  <2>8. pk.blocks \subseteq Id /\ pk.items \subseteq Id /\ pk.id \in Id
    BY <2>2, <2>3, <2>6, <2>7
  <2>9. pk = [type |-> "S_Explode", id |-> pk.id, blocks |-> pk.blocks, items |-> pk.items]
    BY <2>4 DEF S_Explode
  <2>10. pk \in [type : {"S_Explode"}, id : Id, blocks : SUBSET Id, items : SUBSET Id]
    BY <2>8, <2>9
  <2>11. pk \in Packets
    BY <2>10 DEF Packets
  <2>12. \A x : Removes(pk, x) <=> x = pk.id \/ x \in pk.blocks \/ x \in pk.items
    BY <2>7 DEF Removes
  <2>13. \A x : (x \in pk.blocks \/ x \in pk.items) <=> \E t \in destroyed[u] : x = ObjectAt(t)
    BY <2>3, <2>7
  <2>14. \A x \in pk.blocks : \E t \in destroyed[u] : x = ObjectAt(t) /\ mapObj[t] = "BREAKABLE"
    BY <2>7
  <2>15. \A x : Removes(pk, x) <=> x = ObjectAt(u) \/ \E t \in destroyed[u] : x = ObjectAt(t)
    BY <2>7, <2>12, <2>13
  <2> QED BY <2>1, <2>5, <2>7, <2>11, <2>14, <2>15
<1>3. Len(order) \in Nat
  BY LenProperties
<1>4. b \in Seq(Packets) /\ Len(b) = Len(order)
  <2>1. b = [n \in 1 .. Len(order) |-> b[n]]
    BY <1>1
  <2>2. \A n \in 1 .. Len(order) : b[n] \in Packets
    BY <1>2
  <2>3. b \in [1 .. Len(order) -> Packets]
    BY <2>1, <2>2
  <2> QED BY <1>3, <2>3
<1>5. Explosions(order, destroyed) = b
  BY <1>1 DEF Explosions
<1>6. \A n \in 1 .. Len(b) : n \in 1 .. Len(order)
  BY <1>4
<1>7. \A k \in 1 .. Len(b) : \A x : Removes(b[k], x) <=>
         x = ObjectAt(order[k]) \/ \E t \in destroyed[order[k]] : x = ObjectAt(t)
  BY <1>2, <1>6
<1>8. \A k \in 1 .. Len(b) : \A x \in b[k].blocks :
         \E t \in destroyed[order[k]] : x = ObjectAt(t) /\ mapObj[t] = "BREAKABLE"
  BY <1>2, <1>6
<1>9. \A k \in 1 .. Len(b) : b[k].type = "S_Explode"
  BY <1>2, <1>6
<1> QED BY <1>4, <1>5, <1>7, <1>8, <1>9, Zenon DEF ExplosionPackets

LEMMA BlastTells ==
  ASSUME IInv, RoomMay, NEW fired \in SUBSET (Bombs \ isDead), NEW caught \in SUBSET (Alive \ Trapped),
         NEW destroyed \in [fired -> SUBSET Of(Items \cup {"BREAKABLE"})],
         BlastAndTell(fired, caught, destroyed), UNCHANGED <<layer, sceneVars, clientCrash>>
  PROVE  IInv'
<1>1. FeedKept
  BY BlastKeepsFeed DEF IInv
<1> DEFINE broken == UNION {destroyed[t] : t \in fired}
           again  == {t \in broken : Cardinality({u \in fired : t \in destroyed[u]}) > 1}
<1>2. /\ GoOff(fired, caught, broken)
      /\ history' = [history EXCEPT
                       !.listed   = @ \cup broken,
                       !.relisted = @ \cup {ObjectAt(t) : t \in again \cup (broken \cap history.listed)}]
  BY DEF BlastAndTell
<1>3. /\ UNCHANGED <<member, mapObj, phase>>
      /\ isDead' = isDead \cup fired \cup broken
      /\ mainState' = [q \in Players |-> IF q \in caught THEN "TRAPPED" ELSE mainState[q]]
  BY <1>2 DEF GoOff, SetStates
<1>4. history' \in HistoryType /\ history \in HistoryType
  BY <1>1 DEF FeedKept, IInv, Types
<1>5. /\ history'.ghosts = history.ghosts /\ history'.overtaken = history.overtaken
      /\ history'.twins = history.twins /\ history'.missing = history.missing
      /\ history'.relisted = history.relisted \cup {ObjectAt(t) : t \in again \cup (broken \cap history.listed)}
  <2> HIDE DEF broken, again
  <2> QED BY <1>2, <1>4 DEF HistoryType
<1>6. PICK order \in SetToSeqs(fired) :
         Tell(TellStates(caught, "TRAPPED")
              \o [n \in 1 .. Len(order) |-> S_Explode(ObjectAt(order[n]), destroyed[order[n]])])
  BY DEF BlastAndTell
<1>7. PICK a, b : /\ a = TellStates(caught, "TRAPPED")
                  /\ b = [n \in 1 .. Len(order) |-> S_Explode(ObjectAt(order[n]), destroyed[order[n]])]
  OBVIOUS
<1>8. inbox' = IF member'[Me] = "in" THEN inbox \o (a \o b) ELSE inbox
  BY <1>6, <1>7 DEF Tell
<1>9. CASE member[Me] # "in"
  BY <1>1, <1>3, <1>5, <1>8, <1>9, NobodyTells
<1>10. CASE member[Me] = "in"
  <2>1. /\ fired \in SUBSET Bombs /\ \A t \in fired : t \in Tiles /\ mapObj[t] = "WATER_BOMB"
        /\ IsFiniteSet(fired)
    <3>1. \A t \in fired : t \in Tiles /\ mapObj[t] = "WATER_BOMB"
      BY DEF Bombs, Of
    <3>2. fired \in SUBSET Tiles
      BY <3>1
    <3> QED BY <3>1, <3>2, MirrorKinds, FS_Subset
  <2>2. /\ order \in Seq(fired)
        /\ \A t \in fired : \E k \in 1 .. Len(order) : order[k] = t
        /\ \A k, l \in 1 .. Len(order) : k # l => order[k] # order[l]
    BY <2>1, SetInAnyOrder
  <2>3. \A k \in 1 .. Len(order) : order[k] \in fired
    BY <2>2, ElementOfSeq
  <2>4. caught \in SUBSET Alive
    OBVIOUS
  <2>5. /\ a \in Seq(Packets)
        /\ \A k \in 1 .. Len(a) : a[k].type = "S_MainState" /\ a[k].player \in caught /\ a[k].state = "TRAPPED"
        /\ \A q \in caught : \E k \in 1 .. Len(a) : a[k].player = q
    <3>1. caught \in SUBSET Players /\ "TRAPPED" \in MainState
      BY DEF Alive, MainState
    <3>2. StatePackets(TellStates(caught, "TRAPPED"), caught, "TRAPPED")
      BY <3>1, StatePacketsTold
    <3> QED BY <1>7, <3>2 DEF StatePackets
  <2>6. /\ b \in Seq(Packets) /\ Len(b) = Len(order)
        /\ \A k \in 1 .. Len(b) : b[k].type = "S_Explode"
        /\ \A k \in 1 .. Len(b) : \A x : Removes(b[k], x) <=>
              x = ObjectAt(order[k]) \/ \E t \in destroyed[order[k]] : x = ObjectAt(t)
        /\ \A k \in 1 .. Len(b) : \A x \in b[k].blocks :
              \E t \in destroyed[order[k]] : x = ObjectAt(t) /\ mapObj[t] = "BREAKABLE"
    <3>1. Types /\ fired \in SUBSET Bombs /\ order \in Seq(fired)
      BY <2>1, <2>2 DEF IInv
    <3>2. destroyed \in [fired -> SUBSET Of(Items \cup {"BREAKABLE"})]
      OBVIOUS
    <3>3. ExplosionPackets(Explosions(order, destroyed), order, destroyed)
      BY <3>1, <3>2, ExplosionsTold
    <3> QED BY <1>7, <3>3 DEF ExplosionPackets, Explosions
  <2>7. PICK ps : ps = a \o b
    OBVIOUS
  <2>8. ps \in Seq(Packets)
    BY <2>5, <2>6, <2>7, ConcatProperties
  <2>9. /\ Len(a) \in Nat /\ Len(b) \in Nat /\ Len(ps) = Len(a) + Len(b)
        /\ \A n \in 1 .. Len(a) : ps[n] = a[n]
        /\ \A k \in 1 .. Len(b) : ps[Len(a) + k] = b[k]
        /\ \A n \in 1 .. Len(ps) : n > Len(a) => \E k \in 1 .. Len(b) : n = Len(a) + k
    <3>1. LET r == a \o b
          IN  /\ r \in Seq(Packets) /\ Len(a) \in Nat /\ Len(b) \in Nat /\ Len(r) = Len(a) + Len(b)
              /\ \A n \in 1 .. Len(a) : r[n] = a[n]
              /\ \A k \in 1 .. Len(b) : r[Len(a) + k] = b[k]
              /\ \A n \in 1 .. Len(r) : n > Len(a) => \E k \in 1 .. Len(b) : n = Len(a) + k
      BY <2>5, <2>6, Appended
    <3> QED BY <3>1, <2>7
  <2>10. \A n \in 1 .. Len(ps) : \/ n \in 1 .. Len(a) /\ ps[n] = a[n]
                                 \/ \E k \in 1 .. Len(b) : n = Len(a) + k /\ ps[n] = b[k]
    <3> SUFFICES ASSUME NEW n \in 1 .. Len(ps)
                 PROVE  \/ n \in 1 .. Len(a) /\ ps[n] = a[n]
                        \/ \E k \in 1 .. Len(b) : n = Len(a) + k /\ ps[n] = b[k]
      OBVIOUS
    <3>1. CASE n > Len(a)
      BY <3>1, <2>9
    <3>2. CASE n \in 1 .. Len(a)
      BY <3>2, <2>9
    <3> QED BY <3>1, <3>2, <2>9
  <2>11. /\ \A k \in 1 .. Len(a) : \E n \in 1 .. Len(ps) : ps[n] = a[k]
         /\ \A k \in 1 .. Len(b) : \E n \in 1 .. Len(ps) : ps[n] = b[k]
    <3>1. /\ \A k \in 1 .. Len(a) : \E n \in 1 .. Len(a \o b) : (a \o b)[n] = a[k]
          /\ \A k \in 1 .. Len(b) : \E n \in 1 .. Len(a \o b) : (a \o b)[n] = b[k]
      BY <2>5, <2>6, BothListed
    <3> QED BY <2>7, <3>1
  <2>12. \A n \in 1 .. Len(a) : /\ \A x : ~Removes(a[n], x)
                                /\ \A q : Tells(a[n], q) <=> q = a[n].player
                                /\ \A q : Told(a[n], q) = "TRAPPED"
    BY <2>5, StateEffects
  <2>13. \A n \in 1 .. Len(b) : \A q : ~Tells(b[n], q)
    BY <2>6, RemovalEffects
  <2>14. \A x : (\E n \in 1 .. Len(ps) : Removes(ps[n], x)) <=> \E t \in fired \cup broken : x = ObjectAt(t)
    <3>1. ASSUME NEW x, NEW n \in 1 .. Len(ps), Removes(ps[n], x)
          PROVE  \E t \in fired \cup broken : x = ObjectAt(t)
      <4>1. PICK k \in 1 .. Len(b) : ps[n] = b[k]
        BY <2>10, <2>12, <3>1
      <4>2. x = ObjectAt(order[k]) \/ \E t \in destroyed[order[k]] : x = ObjectAt(t)
        BY <2>6, <3>1, <4>1
      <4>3. order[k] \in fired
        BY <2>3, <2>6
      <4> QED BY <4>2, <4>3
    <3>2. ASSUME NEW x, NEW t \in fired \cup broken, x = ObjectAt(t)
          PROVE  \E n \in 1 .. Len(ps) : Removes(ps[n], x)
      <4>1. PICK u \in fired : t = u \/ t \in destroyed[u]
        OBVIOUS
      <4>2. PICK k \in 1 .. Len(b) : order[k] = u
        BY <2>2, <2>6
      <4>3. Removes(b[k], x)
        BY <2>6, <3>2, <4>1, <4>2
      <4>4. PICK n \in 1 .. Len(ps) : ps[n] = b[k]
        BY <2>11
      <4> QED BY <4>3, <4>4
    <3> HIDE DEF broken
    <3> QED BY <3>1, <3>2, Zenon
  <2>15. /\ \A t \in Tiles : ObjectAt(t) \in Id /\ Home(ObjectAt(t)) = t /\ ObjectAt(t)[2] = layer[t] /\ layer[t] \in Nat
         /\ \A i \in Id : Home(i) \in Tiles /\ (i \in OnMap <=> i = ObjectAt(Home(i)) /\ mapObj[Home(i)] # "NONE")
    BY ObjectFacts DEF IInv
  <2>16. \A t \in fired \cup broken : t \in Tiles /\ ObjectAt(t) \in Id /\ ObjectAt(t) \notin Players
    <3>1. \A t \in broken : t \in Tiles
      BY DEF Of
    <3> QED BY <2>1, <2>15, <3>1, MirrorKinds
  <2>17. \A n \in 1 .. Len(ps) : \A q \in Players : ~Removes(ps[n], q)
    BY <2>14, <2>16
  <2>18. \A q \in Players : member[q] = "out" => q \notin caught
    BY <2>4 DEF Alive
  <2>21. \A q \in Players : (\E n \in 1 .. Len(ps) : Tells(ps[n], q)) <=> q \in caught
    <3>1. ASSUME NEW q \in Players, NEW n \in 1 .. Len(ps), Tells(ps[n], q)
          PROVE  q \in caught
      <4>1. PICK k \in 1 .. Len(a) : ps[n] = a[k]
        BY <2>10, <2>13, <3>1
      <4>2. Tells(a[k], q)
        BY <3>1, <4>1
      <4>3. q = a[k].player
        BY <2>12, <4>2
      <4> QED BY <2>5, <4>3
    <3>2. ASSUME NEW q \in caught
          PROVE  \E n \in 1 .. Len(ps) : Tells(ps[n], q)
      <4>1. PICK k \in 1 .. Len(a) : Tells(a[k], q)
        BY <2>5, <2>12
      <4>2. PICK n \in 1 .. Len(ps) : ps[n] = a[k]
        BY <2>11
      <4> QED BY <4>1, <4>2
    <3> QED BY <3>1, <3>2, Zenon
  <2>19. Quiet(ps)
    <3>1. \A k \in 1 .. Len(ps) : ps[k].type \in QuietTypes
      BY <2>5, <2>6, <2>10 DEF QuietTypes
    <3>2. \A k \in 1 .. Len(ps), i \in Id : Removes(ps[k], i) => i[2] <= layer[Home(i)]
      <4> SUFFICES ASSUME NEW k \in 1 .. Len(ps), NEW i \in Id, Removes(ps[k], i)
                   PROVE  i[2] <= layer[Home(i)]
        OBVIOUS
      <4>1. PICK t \in fired \cup broken : i = ObjectAt(t)
        BY <2>14
      <4>2. i[2] = layer[t] /\ Home(i) = t /\ layer[t] \in Nat
        BY <2>15, <2>16, <4>1
      <4> QED BY <4>2
    <3>3. \A q \in Players : member'[q] = "out" =>
            member[q] = "out" /\ \A k \in 1 .. Len(ps) : ~Removes(ps[k], q) /\ ~Tells(ps[k], q)
      <4> SUFFICES ASSUME NEW q \in Players, member'[q] = "out", NEW k \in 1 .. Len(ps)
                   PROVE  member[q] = "out" /\ ~Removes(ps[k], q) /\ ~Tells(ps[k], q)
        BY <1>3
      <4>1. member[q] = "out" /\ q \notin caught
        BY <1>3, <2>18
      <4>2. ~Tells(ps[k], q)
        BY <2>21, <4>1
      <4> QED BY <2>17, <4>1, <4>2
    <3> QED BY <1>3, <1>5, <1>8, <1>10, <2>7, <3>1, <3>2, <3>3 DEF Quiet, RoomMay
  <2>20. \A i \in Id : i \in OnMap' /\ Home(i) \notin isDead' <=>
            i \in OnMap /\ Home(i) \notin isDead /\ \A k \in 1 .. Len(ps) : ~Removes(ps[k], i)
    <3>1. OnMap' = OnMap
      BY <1>3, SameMap
    <3> SUFFICES ASSUME NEW i \in Id, i \in OnMap, Home(i) \notin isDead
                 PROVE  Home(i) \notin fired \cup broken <=> \A k \in 1 .. Len(ps) : ~Removes(ps[k], i)
      BY <1>3, <3>1
    <3>2. i = ObjectAt(Home(i))
      BY <2>15
    <3>3. (\E t \in fired \cup broken : i = ObjectAt(t)) <=> Home(i) \in fired \cup broken
      BY <2>15, <2>16, <3>2
    <3> QED BY <2>14, <3>3
  <2>22. \A q \in Players, n \in 1 .. Len(ps) : Tells(ps[n], q) => Told(ps[n], q) = "TRAPPED"
    BY <2>10, <2>12, <2>13
  <2>23. ASSUME NEW k \in 1 .. Len(ps), ps[k].type = "S_Explode", NEW x \in ps[k].blocks \ history'.relisted
         PROVE  x \in Id /\ Stays(x) /\ \A l \in 1 .. Len(ps) : l < k => ~Removes(ps[l], x)
    <3>1. PICK m \in 1 .. Len(b) : k = Len(a) + m /\ ps[k] = b[m]
      BY <2>5, <2>10, <2>23
    <3>2. PICK t \in destroyed[order[m]] : x = ObjectAt(t) /\ mapObj[t] = "BREAKABLE"
      BY <2>6, <2>23, <3>1
    <3>3. order[m] \in fired
      BY <2>3, <2>6
    <3>4. t \in broken /\ t \in Tiles
      BY <2>16, <3>3
    <3>5. t \notin history.listed /\ t \notin again
      <4> HIDE DEF broken, again
      <4> QED BY <1>5, <2>23, <3>2, <3>4
    <3>6. t \notin isDead
      BY <3>2, <3>5 DEF IInv, BrokenListed
    <3>7. x \in Id /\ Home(x) = t /\ x \in OnMap
      BY <2>15, <3>2, <3>4
    <3>8. Stays(x)
      BY <1>10, <3>6, <3>7 DEF IInv, Link, Linked, RoomMay, ObjectsAgree
    <3>9. ASSUME NEW l \in 1 .. Len(ps), l < k, Removes(ps[l], x)
          PROVE  FALSE
      <4>1. PICK o \in 1 .. Len(b) : l = Len(a) + o /\ ps[l] = b[o]
        BY <2>10, <2>12, <3>9
      <4>2. o # m
        BY <3>1, <3>9, <4>1, <2>9
      <4>3. order[o] \in fired /\ order[o] # order[m]
        BY <2>2, <2>3, <2>6, <4>2
      <4>4. x = ObjectAt(order[o]) \/ \E v \in destroyed[order[o]] : x = ObjectAt(v)
        BY <2>6, <3>9, <4>1
      <4>5. t = order[o] \/ t \in destroyed[order[o]]
        <5>1. ObjectAt(order[o]) = x => order[o] = t
          BY <2>15, <2>16, <3>7, <4>3
        <5>2. \A v \in destroyed[order[o]] : v \in broken
          BY <4>3
        <5>3. \A v \in destroyed[order[o]] : x = ObjectAt(v) => v = t
          BY <2>15, <2>16, <3>7, <5>2
        <5> QED BY <4>4, <5>1, <5>3
      <4>6. t \in destroyed[order[o]]
        BY <2>1, <3>2, <4>3, <4>5
      <4> DEFINE U == {u \in fired : t \in destroyed[u]}
      <4>7. order[o] \in U /\ order[m] \in U /\ IsFiniteSet(U)
        <5>1. U \in SUBSET fired
          OBVIOUS
        <5>2. IsFiniteSet(U)
          BY <2>1, <5>1, FS_Subset
        <5> QED BY <3>3, <4>3, <4>6, <5>2
      <4>8. Cardinality(U) > 1
        <5> HIDE DEF U
        <5> QED BY <4>3, <4>7, TwoAreMore
      <4>9. t \in again
        BY <3>4, <4>8
      <4> QED BY <3>5, <4>9
    <3> QED BY <3>7, <3>8, <3>9
  <2>24. history.relisted \subseteq history'.relisted
    BY <1>5
  <2>25. \A q \in history.ghosts : q \in Players /\ member[q] \in {"dead", "gone"}
    BY <1>10 DEF IInv, Link, Linked, RoomMay, Ghosts, Types, HistoryType
  <2>26. QuietRoom(ps)
    <3>1. \A q \in Players : member'[q] = "in" <=>
            member[q] = "in" /\ \A k \in 1 .. Len(ps) : ~Removes(ps[k], q)
      BY <1>3, <2>17
    <3>2. \A q \in history.ghosts :
            member'[q] \in {"dead", "gone"} /\ \A k \in 1 .. Len(ps) : ~Removes(ps[k], q)
      BY <1>3, <2>17, <2>25
    <3>3. \A q \in Players : member'[q] = "in" =>
            /\ \A k \in 1 .. Len(ps) : Tells(ps[k], q) => Told(ps[k], q) = mainState'[q]
            /\ (\A k \in 1 .. Len(ps) : ~Tells(ps[k], q)) => mainState'[q] = mainState[q]
      <4> SUFFICES ASSUME NEW q \in Players
                   PROVE  /\ \A k \in 1 .. Len(ps) : Tells(ps[k], q) => Told(ps[k], q) = mainState'[q]
                          /\ (\A k \in 1 .. Len(ps) : ~Tells(ps[k], q)) => mainState'[q] = mainState[q]
        OBVIOUS
      <4>1. mainState'[q] = IF q \in caught THEN "TRAPPED" ELSE mainState[q]
        BY <1>3
      <4> QED BY <2>21, <2>22, <4>1
    <3> HIDE DEF broken, again
    <3> QED BY <2>20, <2>23, <2>24, <3>1, <3>2, <3>3, Zenon DEF QuietRoom
  <2> QED BY <1>1, <2>8, <2>19, <2>26, QuietStep
<1> QED BY <1>9, <1>10

-----------------------------------------------------------------------------
(* The room announces one thing that is new. *)

Announces(pk, x) ==
    /\ member[Me] = "in" /\ member'[Me] = "in" /\ clientCrash = "none"
    /\ inbox' = inbox \o <<pk>>
    /\ UNCHANGED <<sceneVars, clientCrash, history>>
    /\ pk.type \in {"S_OtherPlayers", "S_WaterBomb"}
    /\ \A y : Adds(pk, y) <=> y = x
    /\ \A n \in Places : ~AddedAt(n, x) /\ ~RemovedAt(n, x)
    /\ \A n \in 1 .. Len(inbox) : x \in Players => ~Tells(inbox[n], x)
    /\ \A i \in Id : i[2] <= layer[Home(i)] => i[2] <= layer'[Home(i)]
    /\ x \in Id => x[2] <= layer'[Home(x)]
    /\ \A p \in Players : member'[p] = "out" => member[p] = "out" /\ p # x /\ ~Tells(pk, p)
    /\ x \in Id => \A n \in Places, i \in Id : AddedAt(n, i) /\ Home(i) = Home(x) =>
                      ~ (x[2] < i[2]) /\ \E k \in Places : RemovedAt(k, i)

\* Where things are after the packet pk has been sent.
LEMMA AnnouncePlaces ==
  ASSUME IInv, NEW pk \in Packets, NEW x, Announces(pk, x)
  PROVE  /\ inbox \in Seq(Packets) /\ Len(inbox) \in Nat
         /\ inbox' \in Seq(Packets) /\ Len(inbox') = Len(inbox) + 1
         /\ Places \subseteq Places'
         /\ \A n \in 1 .. Len(inbox) : n \in 1 .. Len(inbox') /\ inbox'[n] = inbox[n]
         /\ Len(inbox) + 1 \in 1 .. Len(inbox') /\ inbox'[Len(inbox) + 1] = pk
         /\ \A n \in 1 .. Len(inbox') : n \in 1 .. Len(inbox) \/ (n = Len(inbox) + 1 /\ inbox'[n] = pk)
         /\ \A n \in Places : n <= Len(inbox) /\ n \in Int
         /\ \A n \in Places : \A y : (AddedAt(n, y)' <=> AddedAt(n, y)) /\ (RemovedAt(n, y)' <=> RemovedAt(n, y))
         /\ \A n \in Places' : n \in Places \/ n = Len(inbox) + 1
         /\ \A n \in Places' : n = Len(inbox) + 1 => \A y : (AddedAt(n, y)' <=> y = x) /\ ~RemovedAt(n, y)'
<1>1. inbox \in Seq(Packets) /\ inbox' = inbox \o <<pk>>
  BY DEF IInv, Types, Announces
<1>2. PICK ps : ps = <<pk>>
  OBVIOUS
<1>3. ps \in Seq(Packets) /\ Len(ps) = 1 /\ ps[1] = pk
  BY <1>2
<1>4. /\ inbox' \in Seq(Packets) /\ Len(inbox) \in Nat /\ Len(inbox') = Len(inbox) + 1
      /\ \A n \in 1 .. Len(inbox) : inbox'[n] = inbox[n]
      /\ inbox'[Len(inbox) + 1] = pk
  <2>1. LET r == inbox \o ps
        IN  /\ r \in Seq(Packets) /\ Len(inbox) \in Nat /\ Len(ps) \in Nat /\ Len(r) = Len(inbox) + Len(ps)
            /\ \A n \in 1 .. Len(inbox) : r[n] = inbox[n]
            /\ \A k \in 1 .. Len(ps) : r[Len(inbox) + k] = ps[k]
    BY <1>1, <1>3, Appended
  <2>2. inbox' = inbox \o ps
    BY <1>1, <1>2
  <2> QED BY <2>1, <2>2, <1>3
<1>5. scene' = scene /\ flagged' = flagged
  BY DEF Announces, sceneVars
<1>6. \A n \in Places : n = 0 \/ n \in 1 .. Len(inbox)
  BY <1>4 DEF Places
<1>7. \A n \in Places' : n \in Places \/ n = Len(inbox) + 1
  BY <1>4 DEF Places
<1>8. Places \subseteq Places'
  BY <1>4 DEF Places
<1>9. \A n \in Places : \A y : (AddedAt(n, y)' <=> AddedAt(n, y)) /\ (RemovedAt(n, y)' <=> RemovedAt(n, y))
  BY <1>4, <1>5, <1>6 DEF AddedAt, RemovedAt
<1>10. \A y : (Adds(pk, y) <=> y = x) /\ ~Removes(pk, y)
  BY DEF Announces, Removes
<1>11. ASSUME NEW n \in Places', n = Len(inbox) + 1
       PROVE  \A y : (AddedAt(n, y)' <=> y = x) /\ ~RemovedAt(n, y)'
  <2>1. n # 0 /\ inbox'[n] = pk
    BY <1>4, <1>11
  <2> QED BY <2>1, <1>10 DEF AddedAt, RemovedAt
<1>12. \A n \in Places : n <= Len(inbox) /\ n \in Int
  BY <1>4 DEF Places
<1>13. \A n \in 1 .. Len(inbox') : n \in 1 .. Len(inbox) \/ (n = Len(inbox) + 1 /\ inbox'[n] = pk)
  <2>1. \A n \in 1 .. Len(inbox') : n \in 1 .. Len(inbox) \/ n = Len(inbox) + 1
    BY <1>4
  <2>2. \A n \in 1 .. Len(inbox') : n = Len(inbox) + 1 => inbox'[n] = pk
    <3>1. inbox'[Len(inbox) + 1] = pk
      BY <1>4
    <3> QED BY <3>1, Zenon
  <2> QED BY <2>1, <2>2
<1>14. /\ Len(inbox) + 1 \in 1 .. Len(inbox')
       /\ \A n \in 1 .. Len(inbox) : n \in 1 .. Len(inbox')
  BY <1>4
<1> QED BY <1>1, <1>4, <1>7, <1>8, <1>9, <1>11, <1>12, <1>13, <1>14

\* The order of what comes is as it should be.
LEMMA AnnounceLink ==
  ASSUME IInv, NEW pk \in Packets, NEW x, Announces(pk, x)
  PROVE  /\ Fresh' /\ Outsiders' /\ Once' /\ Order' /\ AddedFirst'
         /\ Succession' /\ Overtakers' /\ SlotsFilled' /\ MyPlayerFirst' /\ MapFirst' /\ SlotsShown'
         /\ BlocksThere'
         /\ \A y : Stays(y)' <=> Stays(y) \/ y = x
<1>1. /\ inbox \in Seq(Packets) /\ Len(inbox) \in Nat
      /\ inbox' \in Seq(Packets) /\ Len(inbox') = Len(inbox) + 1
      /\ Places \subseteq Places'
  BY AnnouncePlaces
<1>2. /\ \A n \in 1 .. Len(inbox) : n \in 1 .. Len(inbox') /\ inbox'[n] = inbox[n]
      /\ Len(inbox) + 1 \in 1 .. Len(inbox') /\ inbox'[Len(inbox) + 1] = pk
      /\ \A n \in 1 .. Len(inbox') : n \in 1 .. Len(inbox) \/ (n = Len(inbox) + 1 /\ inbox'[n] = pk)
  BY AnnouncePlaces
<1>3. \A n \in Places : n <= Len(inbox) /\ n \in Int
  BY AnnouncePlaces
<1>4. \A n \in Places : \A y : (AddedAt(n, y)' <=> AddedAt(n, y)) /\ (RemovedAt(n, y)' <=> RemovedAt(n, y))
  BY AnnouncePlaces
<1>5. \A n \in Places' : n \in Places \/ n = Len(inbox) + 1
  BY AnnouncePlaces
<1>6. \A n \in Places' : n = Len(inbox) + 1 => \A y : (AddedAt(n, y)' <=> y = x) /\ ~RemovedAt(n, y)'
  BY AnnouncePlaces
<1>7. Link /\ SlotsShown
  BY DEF IInv, Linked, Announces
<1>8. scene' = scene /\ flagged' = flagged /\ slots' = slots /\ history' = history
  BY DEF Announces, sceneVars
<1>9. \A n \in Places : ~AddedAt(n, x) /\ ~RemovedAt(n, x)
  BY DEF Announces
<1>10. pk.type \in {"S_OtherPlayers", "S_WaterBomb"}
  BY DEF Announces
<1>11. Fresh'
  <2> SUFFICES ASSUME NEW n \in Places', NEW i \in Id, AddedAt(n, i)' \/ RemovedAt(n, i)'
               PROVE  i[2] <= layer'[Home(i)]
    BY DEF Fresh, Home
  <2>1. CASE n \in Places
    <3>1. i[2] <= layer[Home(i)]
      BY <2>1, <1>4, <1>7 DEF Link, Fresh
    <3> QED BY <3>1 DEF Announces
  <2>2. CASE n = Len(inbox) + 1
    <3>1. i = x
      BY <2>2, <1>6
    <3> QED BY <3>1 DEF Announces
  <2> QED BY <2>1, <2>2, <1>5
<1>12. Outsiders'
  <2> SUFFICES ASSUME NEW p \in Players, member'[p] = "out", NEW n \in Places'
               PROVE  ~AddedAt(n, p)' /\ ~RemovedAt(n, p)' /\ (n # 0 => ~Tells(inbox'[n], p))
    BY DEF Outsiders
  <2>1. member[p] = "out" /\ p # x /\ ~Tells(pk, p)
    BY DEF Announces
  <2>2. CASE n \in Places
    <3>1. ~AddedAt(n, p) /\ ~RemovedAt(n, p) /\ (n # 0 => ~Tells(inbox[n], p))
      BY <2>1, <2>2, <1>7 DEF Link, Outsiders
    <3>2. n # 0 => n \in 1 .. Len(inbox)
      BY <2>2, <1>1 DEF Places
    <3> QED BY <3>1, <3>2, <1>2, <1>4, <2>2
  <2>3. CASE n = Len(inbox) + 1
    BY <2>1, <2>3, <1>2, <1>6
  <2> QED BY <2>2, <2>3, <1>5
<1>13. Once'
  <2> SUFFICES ASSUME NEW n \in Places', NEW m \in Places', NEW y \in Thing, AddedAt(n, y)', AddedAt(m, y)'
               PROVE  n = m
    BY DEF Once
  <2>1. CASE n \in Places /\ m \in Places
    BY <2>1, <1>4, <1>7 DEF Link, Once
  <2>2. CASE n = Len(inbox) + 1 /\ m \in Places
    BY <2>2, <1>4, <1>6, <1>9
  <2>3. CASE m = Len(inbox) + 1 /\ n \in Places
    BY <2>3, <1>4, <1>6, <1>9
  <2> QED BY <2>1, <2>2, <2>3, <1>5
<1>14. Order'
  <2> SUFFICES ASSUME NEW n \in Places', NEW m \in Places', NEW y \in Thing, AddedAt(n, y)', RemovedAt(m, y)'
               PROVE  n <= m
    BY DEF Order
  <2>1. m \in Places /\ RemovedAt(m, y)
    BY <1>4, <1>5, <1>6
  <2>2. n \in Places /\ AddedAt(n, y)
    BY <2>1, <1>4, <1>5, <1>6, <1>9
  <2> QED BY <2>1, <2>2, <1>7 DEF Link, Order
<1>15. AddedFirst'
  <2> SUFFICES ASSUME NEW n \in 1 .. Len(inbox'), NEW m \in 1 .. Len(inbox'), NEW p \in Players,
                      Adds(inbox'[n], p), m < n
               PROVE  ~Tells(inbox'[m], p)
    BY DEF AddedFirst
  <2>1. m \in 1 .. Len(inbox)
    BY <1>1
  <2>2. CASE n \in 1 .. Len(inbox)
    BY <2>1, <2>2, <1>2, <1>7 DEF Link, AddedFirst
  <2>3. CASE inbox'[n] = pk
    <3>1. p = x
      BY <2>3 DEF Announces
    <3>2. ~Tells(inbox[m], x)
      BY <2>1, <3>1 DEF Announces
    <3> QED BY <2>1, <3>1, <3>2, <1>2
  <2> QED BY <2>2, <2>3, <1>2
<1>16. Succession'
  <2> SUFFICES ASSUME NEW n \in Places', NEW m \in Places', NEW i \in Id, NEW j \in Id,
                      AddedAt(n, i)', AddedAt(m, j)', Home(i) = Home(j), i[2] < j[2]
               PROVE  \E k \in Places' : k <= m /\ RemovedAt(k, i)'
    BY DEF Succession
  <2>1. CASE n \in Places /\ m \in Places
    <3>1. \E k \in Places : k <= m /\ RemovedAt(k, i)
      BY <2>1, <1>4, <1>7 DEF Link, Succession
    <3> QED BY <3>1, <1>1, <1>4
  <2>2. CASE n \in Places /\ m = Len(inbox) + 1
    <3>1. j = x /\ AddedAt(n, i)
      BY <2>2, <1>4, <1>6
    <3>2. PICK k \in Places : RemovedAt(k, i)
      BY <2>2, <3>1 DEF Announces
    <3>3. k <= m
      BY <2>2, <1>1, <1>3
    <3> QED BY <3>2, <3>3, <1>1, <1>4
  <2>3. CASE n = Len(inbox) + 1
    <3>1. i = x /\ i # j
      <4>1. i[2] \in Int /\ j[2] \in Int
        BY MirrorAssumption DEF Id
      <4> QED BY <2>3, <1>6, <4>1
    <3>2. m \in Places /\ AddedAt(m, j)
      BY <3>1, <1>4, <1>5, <1>6
    <3> QED BY <3>1, <3>2 DEF Announces
  <2> QED BY <2>1, <2>2, <2>3, <1>5
<1>17. Overtakers' /\ SlotsFilled' /\ SlotsShown'
  BY <1>7, <1>8 DEF Link, Overtakers, SlotsFilled, SlotsShown
<1>18. MyPlayerFirst'
  <2>1. CASE Me \in scene
    BY <2>1, <1>8 DEF MyPlayerFirst
  <2>2. CASE inbox # <<>> /\ inbox[1].type = "S_MyPlayer"
    <3>1. 1 \in 1 .. Len(inbox)
      BY <2>2, <1>1, EmptySeq
    <3>2. inbox'[1] = inbox[1] /\ inbox' # <<>>
      BY <3>1, <1>2, <1>1, EmptySeq
    <3> QED BY <2>2, <3>2 DEF MyPlayerFirst
  <2> QED BY <2>1, <2>2, <1>7 DEF Link, MyPlayerFirst
<1>19. MapFirst'
  <2>1. \A n \in 1 .. Len(inbox') : inbox'[n].type = "S_Tilemap" => n \in 1 .. Len(inbox) /\ inbox[n].type = "S_Tilemap"
    BY <1>2, <1>10
  <2>2. \A n, m \in 1 .. Len(inbox') : inbox'[n].type = "S_Tilemap" /\ m < n
           => inbox'[m].type \in {"S_MyPlayer", "S_OtherPlayers"}
    <3> SUFFICES ASSUME NEW n \in 1 .. Len(inbox'), NEW m \in 1 .. Len(inbox'), inbox'[n].type = "S_Tilemap", m < n
                 PROVE  inbox'[m].type \in {"S_MyPlayer", "S_OtherPlayers"}
      OBVIOUS
    <3>1. n \in 1 .. Len(inbox) /\ m \in 1 .. Len(inbox) /\ inbox[n].type = "S_Tilemap"
      BY <2>1, <1>1
    <3>2. inbox[m].type \in {"S_MyPlayer", "S_OtherPlayers"}
      BY <3>1, <1>7 DEF Link, MapFirst
    <3> QED BY <3>1, <3>2, <1>2
  <2>3. (\A n \in 1 .. Len(inbox') : inbox'[n].type # "S_Tilemap") => DOMAIN slots = Tiles
    BY <1>2, <1>7 DEF Link, MapFirst
  <2>4. (\E n \in 1 .. Len(inbox') : inbox'[n].type = "S_Tilemap") => scene \cap Id = {}
    BY <2>1, <1>7 DEF Link, MapFirst
  <2> QED BY <2>2, <2>3, <2>4, <1>8 DEF MapFirst
<1>20. BlocksThere'
  <2> SUFFICES ASSUME NEW n \in 1 .. Len(inbox'), inbox'[n].type = "S_Explode",
                      NEW b \in inbox'[n].blocks \ history'.relisted
               PROVE  /\ \E m \in Places' : AddedAt(m, b)'
                      /\ \A m \in Places' : m < n => ~RemovedAt(m, b)'
    BY DEF BlocksThere
  <2>1. n \in 1 .. Len(inbox) /\ inbox'[n] = inbox[n]
    BY <1>2, <1>10
  <2>2. (\E m \in Places : AddedAt(m, b)) /\ \A m \in Places : m < n => ~RemovedAt(m, b)
    BY <2>1, <1>7, <1>8 DEF Link, BlocksThere
  <2>3. \A m \in Places' : m \in Places \/ ~RemovedAt(m, b)'
    BY <1>5, <1>6
  <2> QED BY <2>2, <2>3, <1>1, <1>4
<1>21. \A y : Stays(y)' <=> Stays(y) \/ y = x
  <2> SUFFICES ASSUME NEW y
               PROVE  Stays(y)' <=> Stays(y) \/ y = x
    OBVIOUS
  <2>1. PICK n : n = Len(inbox) + 1
    OBVIOUS
  <2>2. n \in Places' /\ (AddedAt(n, y)' <=> y = x)
    <3>1. n \in Places'
      BY <2>1, <1>1 DEF Places
    <3> QED BY <3>1, <2>1, <1>6
  <2>3. (\E m \in Places' : AddedAt(m, y)') <=> (\E m \in Places : AddedAt(m, y)) \/ y = x
    BY <2>1, <2>2, <1>1, <1>4, <1>5, <1>6
  <2>4. (\A m \in Places' : ~RemovedAt(m, y)') <=> (\A m \in Places : ~RemovedAt(m, y))
    BY <1>1, <1>4, <1>5, <1>6
  <2>5. y = x => \A m \in Places : ~RemovedAt(m, y)
    BY <1>9
  <2> QED BY <2>3, <2>4, <2>5 DEF Stays
<1> QED BY <1>11, <1>12, <1>13, <1>14, <1>15, <1>16, <1>17, <1>18, <1>19, <1>20, <1>21

\* the packet tells what the step does to the room
AnnouncesRoom(pk, x) ==
    /\ \A i \in Id : i \in OnMap' /\ Home(i) \notin isDead' <=>
          (i \in OnMap /\ Home(i) \notin isDead) \/ i = x
    /\ \A p \in Players : member'[p] = "in" <=> member[p] = "in" \/ p = x
    /\ \A p \in history.ghosts : member'[p] \in {"dead", "gone"} /\ p # x
    /\ \A p \in Players : member'[p] = "in" =>
          /\ Tells(pk, p) => Told(pk, p) = mainState'[p]
          /\ ~Tells(pk, p) => member[p] = "in" /\ mainState'[p] = mainState[p]

LEMMA AnnounceStates ==
  ASSUME IInv, NEW pk \in Packets, NEW x, Announces(pk, x), AnnouncesRoom(pk, x)
  PROVE  StatesAgree'
<1>1. /\ inbox \in Seq(Packets) /\ Len(inbox) \in Nat /\ Len(inbox') = Len(inbox) + 1
      /\ \A n \in 1 .. Len(inbox) : n \in 1 .. Len(inbox') /\ inbox'[n] = inbox[n]
      /\ Len(inbox) + 1 \in 1 .. Len(inbox') /\ inbox'[Len(inbox) + 1] = pk
      /\ \A n \in 1 .. Len(inbox') : n \in 1 .. Len(inbox) \/ (n = Len(inbox) + 1 /\ inbox'[n] = pk)
  BY AnnouncePlaces
<1>2. StatesAgree /\ shownState' = shownState
  BY DEF IInv, Link, Linked, Announces, sceneVars
<1> SUFFICES ASSUME NEW p \in Players, member'[p] = "in"
             PROVE  /\ \A n \in 1 .. Len(inbox') :
                          Tells(inbox'[n], p) /\ (\A m \in 1 .. Len(inbox') : m > n => ~Tells(inbox'[m], p))
                              => Told(inbox'[n], p) = mainState'[p]
                    /\ (\A n \in 1 .. Len(inbox') : ~Tells(inbox'[n], p)) => shownState'[p] = mainState'[p]
  BY DEF StatesAgree
<1>3. /\ Tells(pk, p) => Told(pk, p) = mainState'[p]
      /\ ~Tells(pk, p) => member[p] = "in" /\ mainState'[p] = mainState[p]
  BY DEF AnnouncesRoom
<1>4. member[p] = "in" =>
        /\ \A n \in 1 .. Len(inbox) :
              Tells(inbox[n], p) /\ (\A m \in 1 .. Len(inbox) : m > n => ~Tells(inbox[m], p))
                  => Told(inbox[n], p) = mainState[p]
        /\ (\A n \in 1 .. Len(inbox) : ~Tells(inbox[n], p)) => shownState[p] = mainState[p]
  BY <1>2 DEF StatesAgree
<1>5. ASSUME NEW n \in 1 .. Len(inbox'), Tells(inbox'[n], p),
             \A m \in 1 .. Len(inbox') : m > n => ~Tells(inbox'[m], p)
      PROVE  Told(inbox'[n], p) = mainState'[p]
  <2>1. CASE inbox'[n] = pk
    BY <2>1, <1>3, <1>5
  <2>2. CASE n \in 1 .. Len(inbox)
    <3>1. ~Tells(pk, p)
      <4>1. Len(inbox) + 1 > n
        BY <2>2, <1>1
      <4> QED BY <4>1, <1>1, <1>5
    <3>2. Tells(inbox[n], p) /\ inbox'[n] = inbox[n]
      BY <2>2, <1>1, <1>5
    <3>3. \A m \in 1 .. Len(inbox) : m > n => ~Tells(inbox[m], p)
      BY <1>1, <1>5
    <3> QED BY <3>1, <3>2, <3>3, <2>2, <1>3, <1>4
  <2> QED BY <2>1, <2>2, <1>1
<1>6. ASSUME \A n \in 1 .. Len(inbox') : ~Tells(inbox'[n], p)
      PROVE  shownState'[p] = mainState'[p]
  <2>1. ~Tells(pk, p) /\ \A n \in 1 .. Len(inbox) : ~Tells(inbox[n], p)
    BY <1>6, <1>1
  <2> QED BY <2>1, <1>2, <1>3, <1>4
<1> QED BY <1>5, <1>6

\* A step of the room that announces one thing truly keeps IInv.
LEMMA AnnounceKeeps ==
  ASSUME IInv, NEW pk \in Packets, NEW x, Announces(pk, x), AnnouncesRoom(pk, x),
         Types', BrokenListed'
  PROVE  IInv'
<1>1. Link
  BY DEF IInv, Linked, Announces
<1>2. /\ Fresh' /\ Outsiders' /\ Once' /\ Order' /\ AddedFirst'
      /\ Succession' /\ Overtakers' /\ SlotsFilled' /\ MyPlayerFirst' /\ MapFirst' /\ SlotsShown'
      /\ BlocksThere'
      /\ \A y : Stays(y)' <=> Stays(y) \/ y = x
  BY AnnounceLink
<1>3. StatesAgree'
  BY AnnounceStates
<1>4. ObjectsAgree'
  <2> SUFFICES ASSUME NEW i \in Id
               PROVE  Stays(i)' <=> i \in OnMap' /\ Home(i) \notin isDead'
    BY DEF ObjectsAgree
  <2>1. Stays(i) <=> i \in OnMap /\ Home(i) \notin isDead
    BY <1>1 DEF Link, ObjectsAgree
  <2>2. i \in OnMap' /\ Home(i) \notin isDead' <=> (i \in OnMap /\ Home(i) \notin isDead) \/ i = x
    BY DEF AnnouncesRoom
  <2> QED BY <1>2, <2>1, <2>2
<1>5. history' = history /\ clientCrash' = "none"
  BY DEF Announces
<1>6. PlayersAgree'
  <2> SUFFICES ASSUME NEW p \in Players
               PROVE  Stays(p)' <=> member'[p] = "in" \/ p \in history'.ghosts
    BY DEF PlayersAgree
  <2>1. Stays(p) <=> member[p] = "in" \/ p \in history.ghosts
    BY <1>1 DEF Link, PlayersAgree
  <2>2. member'[p] = "in" <=> member[p] = "in" \/ p = x
    BY DEF AnnouncesRoom
  <2> QED BY <1>2, <1>5, <2>1, <2>2
<1>7. Ghosts'
  BY <1>5 DEF Ghosts, AnnouncesRoom
<1>8. BeforeEntry' /\ NoTwins' /\ CrashesAreKnown'
  BY <1>5 DEF BeforeEntry, NoTwins, CrashesAreKnown, Announces, IInv
<1> QED BY <1>2, <1>3, <1>4, <1>6, <1>7, <1>8 DEF IInv, Link

LEMMA EnterOtherTells ==
  ASSUME IInv, RoomMay, NEW p \in Players, EnterOther(p), UNCHANGED <<layer, sceneVars, clientCrash>>
  PROVE  IInv'
<1>1. /\ p # Me /\ member[p] = "out" /\ member' = [member EXCEPT ![p] = "in"] /\ phase = "idle"
      /\ UNCHANGED <<mainState, mapObj, isDead, phase, history>>
      /\ inbox' = IF member'[Me] = "in" THEN inbox \o <<S_OtherPlayers({p})>> ELSE inbox
  BY DEF EnterOther, Enter, Tell
<1>2. FeedKept
  <2>1. Types /\ BrokenListed /\ Enter(p) /\ history' \in HistoryType /\ history'.listed = history.listed
    BY <1>1 DEF IInv, Types, EnterOther
  <2> QED BY <2>1, EnterKeepsFeed
<1>3. member'[Me] = member[Me] /\ \A q \in Players : member'[q] = IF q = p THEN "in" ELSE member[q]
  BY <1>1, MirrorAssumption DEF IInv, Types, FeedTypes
<1>4. CASE member[Me] # "in"
  BY <1>1, <1>2, <1>3, <1>4, NobodyTells
<1>5. CASE member[Me] = "in"
  <2>1. PICK pk : pk = S_OtherPlayers({p})
    OBVIOUS
  <2>2. pk.type = "S_OtherPlayers" /\ pk.infos = [q \in {p} |-> mainState[q]]
    BY <2>1 DEF S_OtherPlayers
  <2>3. pk \in Packets
    <3>1. mainState[p] \in MainState
      BY DEF IInv, Types, FeedTypes
    <3>2. pk.infos \in [{p} -> MainState] /\ {p} \in SUBSET Players
      BY <2>2, <3>1
    <3>3. pk.infos \in UNION {[who -> MainState] : who \in SUBSET Players}
      BY <3>2
    <3>4. pk = [type |-> "S_OtherPlayers", infos |-> pk.infos]
      BY <2>1 DEF S_OtherPlayers
    <3>5. pk \in [type : {"S_OtherPlayers"}, infos : UNION {[who -> MainState] : who \in SUBSET Players}]
      BY <3>3, <3>4
    <3> QED BY <3>5 DEF Packets
  <2>4. \A y : /\ Adds(pk, y) <=> y = p
               /\ Tells(pk, y) <=> y = p
    BY <1>1, <2>2 DEF Adds, Tells
  <2>5. Told(pk, p) = mainState[p]
    BY <2>2 DEF Told
  <2>6. Link
    BY <1>5 DEF IInv, Linked, RoomMay
  <2>7. /\ \A n \in Places : ~AddedAt(n, p) /\ ~RemovedAt(n, p)
        /\ \A n \in 1 .. Len(inbox) : ~Tells(inbox[n], p)
    <3>1. \A n \in Places : ~AddedAt(n, p) /\ ~RemovedAt(n, p) /\ (n # 0 => ~Tells(inbox[n], p))
      BY <1>1, <2>6 DEF Link, Outsiders
    <3>2. \A n \in 1 .. Len(inbox) : n \in Places /\ n # 0
      <4>1. Len(inbox) \in Nat
        BY LenProperties DEF IInv, Types
      <4> QED BY <4>1 DEF Places
    <3> QED BY <3>1, <3>2
  <2>8. p \notin Id
    BY MirrorKinds
  <2>9. Announces(pk, p)
    <3>1. \A q \in Players : member'[q] = "out" => member[q] = "out" /\ q # p /\ ~Tells(pk, q)
      BY <1>3, <2>4
    <3>2. clientCrash = "none" /\ UNCHANGED <<sceneVars, clientCrash, history>>
      BY <1>1 DEF RoomMay
    <3>3. member'[Me] = "in" /\ inbox' = inbox \o <<pk>>
      BY <1>1, <1>3, <1>5, <2>1
    <3> QED BY <1>5, <2>2, <2>4, <2>7, <2>8, <3>1, <3>2, <3>3 DEF Announces
  <2>10. \A q \in history.ghosts : q \in Players /\ member[q] \in {"dead", "gone"}
    BY <2>6 DEF IInv, Link, Ghosts, Types, HistoryType
  <2>11. AnnouncesRoom(pk, p)
    <3>1. OnMap' = OnMap
      BY <1>1, SameMap
    <3>2. \A i \in Id : i \in OnMap' /\ Home(i) \notin isDead' <=>
             (i \in OnMap /\ Home(i) \notin isDead) \/ i = p
      BY <1>1, <2>8, <3>1
    <3>3. \A q \in Players : member'[q] = "in" <=> member[q] = "in" \/ q = p
      BY <1>3
    <3>4. \A q \in history.ghosts : member'[q] \in {"dead", "gone"} /\ q # p
      BY <1>1, <1>3, <2>10
    <3>5. \A q \in Players : member'[q] = "in" =>
            /\ Tells(pk, q) => Told(pk, q) = mainState'[q]
            /\ ~Tells(pk, q) => member[q] = "in" /\ mainState'[q] = mainState[q]
      BY <1>1, <1>3, <2>4, <2>5
    <3> QED BY <3>2, <3>3, <3>4, <3>5 DEF AnnouncesRoom
  <2>12. Types' /\ BrokenListed'
    <3>1. inbox' \in Seq(Packets)
      BY <2>3, <2>9, AnnouncePlaces
    <3>2. Types'
      BY <1>2, <3>1, RoomKeepsTypes DEF IInv
    <3> QED BY <1>2, <3>2 DEF FeedKept
  <2> QED BY <2>3, <2>9, <2>11, <2>12, AnnounceKeeps
<1> QED BY <1>4, <1>5

\* A new bomb lies above everything that the client has heard of on its tile,
\* and all of that has been removed: the slot of the tile was free.
LEMMA BombIsNew ==
  ASSUME IInv, Linked, NEW t \in Tiles, mapObj[t] = "NONE", NEW x \in Id,
         Home(x) = t, x[2] = layer[t] + 1
  PROVE  /\ \A n \in Places : ~AddedAt(n, x) /\ ~RemovedAt(n, x)
         /\ \A n \in Places, i \in Id : AddedAt(n, i) /\ Home(i) = Home(x) =>
               ~ (x[2] < i[2]) /\ \E k \in Places : RemovedAt(k, i)
<1>1. Link /\ Types
  BY DEF IInv
<1>2. /\ \A i \in Id : Home(i) \in Tiles /\ i[2] \in Nat
      /\ \A i \in Id : i \in OnMap <=> i = ObjectAt(Home(i)) /\ mapObj[Home(i)] # "NONE"
      /\ layer[t] \in Nat
  BY <1>1, ObjectFacts
<1>3. ASSUME NEW n \in Places
      PROVE  ~AddedAt(n, x) /\ ~RemovedAt(n, x)
  <2>1. AddedAt(n, x) \/ RemovedAt(n, x) => x[2] <= layer[Home(x)]
    BY <1>1 DEF Link, Fresh
  <2>2. ~ (x[2] <= layer[Home(x)])
    BY <1>2
  <2> QED BY <2>1, <2>2
<1>4. ASSUME NEW n \in Places, NEW i \in Id, AddedAt(n, i), Home(i) = Home(x)
      PROVE  ~ (x[2] < i[2]) /\ \E k \in Places : RemovedAt(k, i)
  <2>1. i[2] <= layer[t]
    BY <1>1, <1>4 DEF Link, Fresh
  <2>2. ~ (x[2] < i[2])
    BY <2>1, <1>2
  <2>3. ~Stays(i)
    <3>1. i \notin OnMap
      BY <1>2, <1>4
    <3> QED BY <3>1, <1>1 DEF Link, ObjectsAgree
  <2>4. \E k \in Places : RemovedAt(k, i)
    BY <2>3, <1>4 DEF Stays
  <2> QED BY <2>2, <2>4
<1> QED BY <1>3, <1>4

LEMMA PlantTells ==
  ASSUME IInv, PlantStep
  PROVE  IInv'
<1>1. /\ clientCrash = "none" /\ UNCHANGED <<sceneVars, clientCrash>>
      /\ \E p \in Players, t \in Tiles : PlantAndTell(p, t)
  BY DEF PlantStep, RoomMay
<1>2. PICK p \in Players, t \in Tiles : PlantAndTell(p, t)
  BY <1>1
<1>3. FeedKept /\ layer' \in [Tiles -> 0 .. MaxPlants]
  BY <1>2, PlantKeepsFeed DEF IInv
<1>4. PICK x : x = <<t, layer'[t]>>
  OBVIOUS
<1>5. /\ phase = "idle" /\ mapObj[t] = "NONE" /\ mapObj' = [mapObj EXCEPT ![t] = "WATER_BOMB"]
      /\ UNCHANGED <<member, mainState, isDead, phase, history>>
      /\ layer' = [layer EXCEPT ![t] = @ + 1]
      /\ inbox' = IF member[Me] = "in" THEN inbox \o <<S_WaterBomb(x)>> ELSE inbox
  BY <1>2, <1>4 DEF PlantAndTell, Plant, Tell
<1>6. layer \in [Tiles -> 0 .. MaxPlants] /\ mapObj \in [Tiles -> MapType] /\ isDead = {}
  BY <1>5 DEF IInv, Types, SceneTypes, FeedTypes
<1>7. layer'[t] = layer[t] + 1 /\ \A u \in Tiles : u # t => layer'[u] = layer[u] /\ mapObj'[u] = mapObj[u]
  BY <1>5, <1>6
<1>8. x \in Id /\ Home(x) = t /\ x[2] = layer[t] + 1
  BY <1>3, <1>4, <1>7 DEF Id, Home
<1>9. inbox' \in Seq(Packets) => Types' /\ BrokenListed'
  BY <1>1, <1>3, <1>5 DEF IInv, Types, FeedKept, SceneTypes, sceneVars
<1>10. CASE member[Me] # "in"
  <2>1. inbox' = inbox
    BY <1>5, <1>10
  <2>2. Types' /\ BrokenListed'
    BY <1>9, <2>1 DEF IInv, Types
  <2> QED BY <1>1, <1>5, <1>10, <2>1, <2>2
        DEF IInv, BeforeEntry, SlotsShown, NoTwins, CrashesAreKnown, Linked, sceneVars
<1>11. CASE member[Me] = "in"
  <2>1. PICK pk : pk = S_WaterBomb(x)
    OBVIOUS
  <2>2. pk.type = "S_WaterBomb" /\ pk.id = x
    BY <2>1 DEF S_WaterBomb
  <2>3. pk \in Packets
    <3>1. pk \in [type : {"S_WaterBomb"}, id : Id]
      BY <1>8, <2>1 DEF S_WaterBomb
    <3> QED BY <3>1 DEF Packets
  <2>4. \A y : (Adds(pk, y) <=> y = x) /\ ~Tells(pk, y)
    BY <2>2 DEF Adds, Tells
  <2>5. Linked /\ x \notin Players
    BY <1>1, <1>8, <1>11, MirrorKinds DEF Linked
  <2>6. /\ \A n \in Places : ~AddedAt(n, x) /\ ~RemovedAt(n, x)
        /\ \A n \in Places, i \in Id : AddedAt(n, i) /\ Home(i) = Home(x) =>
              ~ (x[2] < i[2]) /\ \E k \in Places : RemovedAt(k, i)
    BY <1>5, <1>8, <2>5, BombIsNew
  <2>7. /\ \A i \in Id : i[2] <= layer[Home(i)] => i[2] <= layer'[Home(i)]
        /\ x[2] <= layer'[Home(x)]
    <3>1. \A i \in Id : Home(i) \in Tiles /\ i[2] \in Nat
      BY ObjectFacts DEF IInv
    <3>2. \A u \in Tiles : layer[u] \in Nat /\ layer'[u] \in Nat
      BY <1>3, <1>6, MirrorAssumption
    <3> QED BY <1>7, <1>8, <3>1, <3>2
  <2>8. Announces(pk, x)
    <3>1. inbox' = inbox \o <<pk>> /\ member'[Me] = "in" /\ UNCHANGED history
      BY <1>5, <1>11, <2>1
    <3>2. \A q \in Players : member'[q] = "out" => member[q] = "out" /\ q # x /\ ~Tells(pk, q)
      BY <1>5, <2>4, <2>5
    <3> QED BY <1>1, <1>11, <2>2, <2>4, <2>5, <2>6, <2>7, <3>1, <3>2 DEF Announces
  <2>9. \A q \in history.ghosts : q \in Players /\ member[q] \in {"dead", "gone"}
    BY <2>5 DEF IInv, Link, Ghosts, Types, HistoryType
  <2>10. Types' /\ BrokenListed'
    BY <1>9, <2>3, <2>8, AnnouncePlaces
  <2>11. \A i \in Id : i \in OnMap' <=> i \in OnMap \/ i = x
    <3>1. \A i \in Id : i \in OnMap <=> i = ObjectAt(Home(i)) /\ mapObj[Home(i)] # "NONE"
      BY ObjectFacts DEF IInv
    <3>2. \A i \in Id : i \in OnMap' <=> i = ObjectAt(Home(i))' /\ mapObj'[Home(i)] # "NONE"
      <4>1. \A i \in Id : i = <<i[1], i[2]>> /\ i[1] \in Tiles
        BY DEF Id
      <4>2. OnMap' = {<<u, layer'[u]>> : u \in {u \in Tiles : mapObj'[u] # "NONE"}}
        BY DEF OnMap, ObjectAt
      <4> QED BY <4>1, <4>2 DEF Home, ObjectAt
    <3>3. \A i \in Id : ObjectAt(Home(i)) = <<Home(i), layer[Home(i)]>>
                        /\ ObjectAt(Home(i))' = <<Home(i), layer'[Home(i)]>> /\ Home(i) \in Tiles
      BY DEF ObjectAt, Home, Id
    <3>4. mapObj'[t] # "NONE"
      BY <1>5, <1>6
    <3>5. \A i \in Id : Home(i) = t => (i \in OnMap' <=> i = x) /\ i \notin OnMap
      BY <1>4, <1>5, <3>1, <3>2, <3>3, <3>4
    <3>6. \A i \in Id : Home(i) # t => (i \in OnMap' <=> i \in OnMap) /\ i # x
      BY <1>7, <1>8, <3>1, <3>2, <3>3
    <3> QED BY <3>5, <3>6
  <2>12. AnnouncesRoom(pk, x)
    <3>1. \A i \in Id : i \in OnMap' /\ Home(i) \notin isDead' <=>
             (i \in OnMap /\ Home(i) \notin isDead) \/ i = x
      BY <1>5, <1>6, <2>11
    <3>2. \A q \in Players : member'[q] = "in" <=> member[q] = "in" \/ q = x
      BY <1>5, <2>5
    <3>3. \A q \in history.ghosts : member'[q] \in {"dead", "gone"} /\ q # x
      BY <1>5, <2>5, <2>9
    <3>4. \A q \in Players : member'[q] = "in" =>
            /\ Tells(pk, q) => Told(pk, q) = mainState'[q]
            /\ ~Tells(pk, q) => member[q] = "in" /\ mainState'[q] = mainState[q]
      BY <1>5, <2>4
    <3> QED BY <3>1, <3>2, <3>3, <3>4 DEF AnnouncesRoom
  <2> QED BY <2>3, <2>8, <2>10, <2>12, AnnounceKeeps
<1> QED BY <1>10, <1>11

\* This client enters: all it is told comes in the four packets of the snapshot.
LEMMA EnterMeTells ==
  ASSUME IInv, RoomMay, EnterMe, UNCHANGED <<layer, sceneVars, clientCrash>>
  PROVE  IInv'
<1>1. /\ member[Me] = "out" /\ member' = [member EXCEPT ![Me] = "in"] /\ phase = "idle"
      /\ UNCHANGED <<mainState, mapObj, isDead, phase>>
      /\ history' = [history EXCEPT !.ghosts = {p \in Players : member[p] = "dead"}]
  BY DEF EnterMe, Enter
<1>2. PICK A, B, C, D : /\ A = S_MyPlayer /\ B = S_OtherPlayers(Alive \cup {Me})
                        /\ C = S_Tilemap /\ D = S_OtherPlayers({Me})
  OBVIOUS
<1>3. inbox' = <<A, B, C, D>>
  BY <1>2 DEF EnterMe
<1>4. Types /\ mainState \in [Players -> MainState] /\ isDead = {} /\ Me \in Players
  BY <1>1, MirrorAssumption DEF IInv, Types, FeedTypes
<1>5. /\ scene = {} /\ flagged = {} /\ slots = <<>> /\ clientCrash = "none" /\ history.twins = {}
      /\ scene' = {} /\ flagged' = {} /\ slots' = <<>> /\ clientCrash' = "none"
  BY <1>1 DEF IInv, BeforeEntry, sceneVars
<1>6. history' \in HistoryType /\ history'.ghosts = {p \in Players : member[p] = "dead"}
      /\ history'.listed = history.listed /\ history'.twins = {}
      /\ history'.missing = history.missing /\ history'.relisted = history.relisted
  BY <1>1, <1>4, <1>5 DEF Types, HistoryType
<1>7. FeedKept
  <2>1. BrokenListed /\ Enter(Me)
    BY DEF IInv, EnterMe
  <2> QED BY <1>4, <1>6, <2>1, EnterKeepsFeed
<1>8. \A p \in Players : member'[p] = IF p = Me THEN "in" ELSE member[p]
  BY <1>1, <1>4 DEF Types, FeedTypes
<1>9. Me \notin Alive /\ Alive \subseteq Players /\ \A p \in Players : p \in Alive <=> member[p] \in {"in", "dead"}
  BY <1>1 DEF Alive
<1>10. OnMap \subseteq Id /\ \A i \in OnMap : i \notin Players /\ i[2] <= layer[Home(i)] /\ i = ObjectAt(Home(i))
  <2>1. /\ \A t \in Tiles : ObjectAt(t) \in Id /\ Home(ObjectAt(t)) = t /\ ObjectAt(t)[2] = layer[t]
        /\ \A t \in Tiles : layer[t] \in Nat
    BY <1>4, ObjectFacts
  <2> QED BY <2>1, MirrorKinds DEF OnMap
<1>11. /\ A.type = "S_MyPlayer" /\ A.state = mainState[Me]
       /\ B.type = "S_OtherPlayers" /\ B.infos = [p \in Alive \cup {Me} |-> mainState[p]]
       /\ C.type = "S_Tilemap" /\ C.infos = OnMap
       /\ D.type = "S_OtherPlayers" /\ D.infos = [p \in {Me} |-> mainState[p]]
  BY <1>2 DEF S_MyPlayer, S_OtherPlayers, S_Tilemap
<1>12. A \in Packets
  <2>1. A \in [type : {"S_MyPlayer"}, state : MainState]
    BY <1>2, <1>4 DEF S_MyPlayer
  <2> QED BY <2>1 DEF Packets
<1>13. ASSUME NEW who \in SUBSET Players
       PROVE  S_OtherPlayers(who) \in Packets
  <2>1. [p \in who |-> mainState[p]] \in [who -> MainState]
    BY <1>4
  <2>2. [p \in who |-> mainState[p]] \in UNION {[w -> MainState] : w \in SUBSET Players}
    BY <2>1
  <2>3. S_OtherPlayers(who) \in [type : {"S_OtherPlayers"}, infos : UNION {[w -> MainState] : w \in SUBSET Players}]
    BY <2>2 DEF S_OtherPlayers
  <2> QED BY <2>3 DEF Packets
<1>14. B \in Packets /\ D \in Packets
  <2>1. Alive \cup {Me} \in SUBSET Players /\ {Me} \in SUBSET Players
    BY <1>4, <1>9
  <2> QED BY <1>2, <1>13, <2>1
<1>15. C \in Packets
  <2>1. C \in [type : {"S_Tilemap"}, infos : SUBSET Id]
    BY <1>2, <1>10 DEF S_Tilemap
  <2> QED BY <2>1 DEF Packets
<1>16. /\ inbox' \in Seq(Packets) /\ Len(inbox') = 4 /\ inbox' # <<>>
       /\ inbox'[1] = A /\ inbox'[2] = B /\ inbox'[3] = C /\ inbox'[4] = D
  BY <1>3, <1>12, <1>14, <1>15
<1>17. Places' = 0 .. 4 /\ \A n \in 1 .. Len(inbox') : n \in {1, 2, 3, 4}
  BY <1>16 DEF Places
<1>18. \A x : /\ Adds(A, x) <=> x = Me
              /\ Adds(B, x) <=> x \in Alive
              /\ Adds(C, x) <=> x \in OnMap
              /\ ~Adds(D, x)
  BY <1>9, <1>11 DEF Adds
<1>19. \A x : ~Removes(A, x) /\ ~Removes(B, x) /\ ~Removes(C, x) /\ ~Removes(D, x)
  BY <1>11 DEF Removes
<1>20. \A p : /\ Tells(A, p) <=> p = Me
              /\ Tells(B, p) <=> p \in Alive
              /\ ~Tells(C, p) /\ ~Tells(D, p)
  BY <1>9, <1>11 DEF Tells
<1>21. \A x : /\ ~AddedAt(0, x)' /\ (AddedAt(1, x)' <=> x = Me) /\ (AddedAt(2, x)' <=> x \in Alive)
              /\ (AddedAt(3, x)' <=> x \in OnMap) /\ ~AddedAt(4, x)'
  BY <1>5, <1>16, <1>18 DEF AddedAt
<1>22. \A n \in Places' : \A x : ~RemovedAt(n, x)'
  <2> SUFFICES ASSUME NEW n \in Places', NEW x
               PROVE  ~RemovedAt(n, x)'
    OBVIOUS
  <2>1. n = 0 \/ n \in {1, 2, 3, 4}
    BY <1>17
  <2> QED BY <2>1, <1>5, <1>16, <1>19 DEF RemovedAt
<1>23. \A n \in Places' : \A x : AddedAt(n, x)' <=>
          \/ n = 1 /\ x = Me
          \/ n = 2 /\ x \in Alive
          \/ n = 3 /\ x \in OnMap
  <2> SUFFICES ASSUME NEW n \in Places', NEW x
               PROVE  AddedAt(n, x)' <=> \/ n = 1 /\ x = Me
                                         \/ n = 2 /\ x \in Alive
                                         \/ n = 3 /\ x \in OnMap
    OBVIOUS
  <2>1. n \in {0, 1, 2, 3, 4}
    BY <1>17
  <2> QED BY <2>1, <1>21
<1>24. Types' /\ BrokenListed'
  BY <1>4, <1>7, <1>16, RoomKeepsTypes DEF FeedKept
<1>25. BeforeEntry' /\ NoTwins' /\ CrashesAreKnown' /\ SlotsShown'
  BY <1>4, <1>5, <1>6, <1>8 DEF BeforeEntry, NoTwins, CrashesAreKnown, SlotsShown, IInv
<1>26. Fresh' /\ Order' /\ BlocksThere'
  <2>1. Fresh'
    <3> SUFFICES ASSUME NEW n \in Places', NEW i \in Id, AddedAt(n, i)' \/ RemovedAt(n, i)'
                 PROVE  i[2] <= layer[Home(i)]
      BY DEF Fresh, Home
    <3>1. i \in OnMap
      BY <1>4, <1>9, <1>22, <1>23, MirrorKinds
    <3> QED BY <3>1, <1>10
  <2>2. Order'
    BY <1>22 DEF Order
  <2>3. BlocksThere'
    BY <1>11, <1>16, <1>17 DEF BlocksThere
  <2> QED BY <2>1, <2>2, <2>3
<1>27. Outsiders'
  <2> SUFFICES ASSUME NEW p \in Players, member'[p] = "out", NEW n \in Places'
               PROVE  ~AddedAt(n, p)' /\ ~RemovedAt(n, p)' /\ (n # 0 => ~Tells(inbox'[n], p))
    BY DEF Outsiders
  <2>1. p # Me /\ p \notin Alive /\ p \notin OnMap
    BY <1>8, <1>9, <1>10
  <2>2. n # 0 => ~Tells(inbox'[n], p)
    <3>1. n # 0 => n \in {1, 2, 3, 4}
      BY <1>17
    <3> QED BY <2>1, <3>1, <1>16, <1>20
  <2> QED BY <2>1, <2>2, <1>22, <1>23
<1>28. Once'
  <2> SUFFICES ASSUME NEW n \in Places', NEW m \in Places', NEW x \in Thing, AddedAt(n, x)', AddedAt(m, x)'
               PROVE  n = m
    BY DEF Once
  <2> QED BY <1>4, <1>9, <1>10, <1>23
<1>29. ObjectsAgree' /\ PlayersAgree' /\ Ghosts'
  <2>1. \A x : Stays(x)' <=> x = Me \/ x \in Alive \/ x \in OnMap
    <3>1. 1 \in Places' /\ 2 \in Places' /\ 3 \in Places'
      BY <1>17
    <3> QED BY <3>1, <1>22, <1>23 DEF Stays
  <2>2. OnMap' = OnMap
    BY <1>1, SameMap
  <2>3. \A i \in Id : i # Me /\ i \notin Alive
    BY <1>4, <1>9, MirrorKinds
  <2>4. ObjectsAgree'
    <3> SUFFICES ASSUME NEW i \in Id
                 PROVE  Stays(i)' <=> i \in OnMap' /\ Home(i) \notin isDead'
      BY DEF ObjectsAgree
    <3> QED BY <1>1, <1>4, <2>1, <2>2, <2>3
  <2>5. PlayersAgree'
    <3> SUFFICES ASSUME NEW p \in Players
                 PROVE  Stays(p)' <=> member'[p] = "in" \/ p \in history'.ghosts
      BY DEF PlayersAgree
    <3>1. p \notin OnMap
      BY <1>10
    <3>2. p \in history'.ghosts <=> member[p] = "dead"
      BY <1>6
    <3> QED BY <1>8, <1>9, <2>1, <3>1, <3>2
  <2>6. Ghosts'
    BY <1>1, <1>6, <1>8 DEF Ghosts
  <2> QED BY <2>4, <2>5, <2>6
<1>30. StatesAgree'
  <2> SUFFICES ASSUME NEW p \in Players, member'[p] = "in"
               PROVE  /\ \A n \in 1 .. Len(inbox') : Tells(inbox'[n], p) => Told(inbox'[n], p) = mainState'[p]
                      /\ \E n \in 1 .. Len(inbox') : Tells(inbox'[n], p)
    BY DEF StatesAgree
  <2>1. p = Me \/ p \in Alive
    BY <1>8, <1>9
  <2>2. 1 \in 1 .. Len(inbox') /\ 2 \in 1 .. Len(inbox')
    BY <1>16
  <2>3. \E n \in 1 .. Len(inbox') : Tells(inbox'[n], p)
    BY <2>1, <2>2, <1>16, <1>20
  <2>4. (p = Me => Told(A, p) = mainState'[p]) /\ (p \in Alive => Told(B, p) = mainState'[p])
    BY <1>1, <1>11 DEF Told
  <2>5. ASSUME NEW n \in 1 .. Len(inbox'), Tells(inbox'[n], p)
        PROVE  Told(inbox'[n], p) = mainState'[p]
    <3>1. n \in {1, 2, 3, 4}
      BY <1>17
    <3> QED BY <2>4, <2>5, <3>1, <1>16, <1>20
  <2> QED BY <2>3, <2>5
<1>31. AddedFirst'
  <2> SUFFICES ASSUME NEW n \in 1 .. Len(inbox'), NEW m \in 1 .. Len(inbox'), NEW p \in Players,
                      Adds(inbox'[n], p), m < n
               PROVE  ~Tells(inbox'[m], p)
    BY DEF AddedFirst
  <2>1. n \in {1, 2, 3, 4} /\ m \in {1, 2, 3, 4}
    BY <1>17
  <2>2. n = 2 /\ p \in Alive
    <3>1. p \notin OnMap
      BY <1>10
    <3>2. ~ (m < 1)
      BY <2>1
    <3> QED BY <2>1, <3>1, <3>2, <1>16, <1>18
  <2>3. m = 1
    BY <2>1, <2>2
  <2> QED BY <2>2, <2>3, <1>9, <1>16, <1>20
<1>32. Succession'
  <2> SUFFICES ASSUME NEW n \in Places', NEW m \in Places', NEW i \in Id, NEW j \in Id,
                      AddedAt(n, i)', AddedAt(m, j)', Home(i) = Home(j), i[2] < j[2]
               PROVE  FALSE
    BY DEF Succession
  <2>1. i \in OnMap /\ j \in OnMap
    BY <1>4, <1>9, <1>23, MirrorKinds
  <2>2. i = j
    BY <2>1, <1>10
  <2>3. i[2] \in Int
    BY MirrorAssumption DEF Id
  <2> QED BY <2>2, <2>3
<1>33. Overtakers' /\ SlotsFilled'
  BY <1>5 DEF Overtakers, SlotsFilled
<1>34. MyPlayerFirst' /\ MapFirst'
  <2>1. 3 \in 1 .. Len(inbox')
    BY <1>16
  <2>2. \A n, m \in 1 .. Len(inbox') : inbox'[n].type = "S_Tilemap" /\ m < n
           => inbox'[m].type \in {"S_MyPlayer", "S_OtherPlayers"}
    BY <1>11, <1>16, <1>17
  <2>3. MyPlayerFirst'
    BY <1>11, <1>16 DEF MyPlayerFirst
  <2> QED BY <2>1, <2>2, <2>3, <1>5, <1>11, <1>16 DEF MapFirst
<1> QED BY <1>24, <1>25, <1>26, <1>27, <1>28, <1>29, <1>30, <1>31, <1>32, <1>33, <1>34 DEF IInv, Link

LEMMA RoomTells ==
  ASSUME IInv, rollers \in Nat \ {0}, RoomStep
  PROVE  IInv'
<1>1. RoomMay /\ (OtherAction \/ KillAction) /\ UNCHANGED <<layer, sceneVars, clientCrash>>
  BY RoomStepActs
<1>2. ASSUME NEW p \in Players, EnterOther(p) \/ LeaveOther(p) \/ UseNeedleAndTell(p) \/ TimeUpAndTell(p)
      PROVE  IInv'
  BY <1>1, <1>2, EnterOtherTells, LeaveTells, NeedleTells, TimeUpTells
<1>3. ASSUME EnterMe
      PROVE  IInv'
  BY <1>1, <1>3, EnterMeTells
<1>4. ASSUME BeginTick, UNCHANGED <<inbox, history>>
      PROVE  IInv'
  BY <1>1, <1>4, BeginTickTells
<1>5. ASSUME NEW p \in Players, NEW killed \in SUBSET Trapped, NEW got \in SUBSET Of(Items),
             KillAndGetAndTell(p, killed, got)
      PROVE  IInv'
  BY <1>1, <1>5, KillTells
<1>6. ASSUME NEW fired \in SUBSET (Bombs \ isDead), NEW caught \in SUBSET (Alive \ Trapped),
             NEW destroyed \in [fired -> SUBSET Of(Items \cup {"BREAKABLE"})],
             BlastAndTell(fired, caught, destroyed)
      PROVE  IInv'
  BY <1>1, <1>6, BlastTells
<1>7. ASSUME EndTickAndTell
      PROVE  IInv'
  BY <1>1, <1>7, EndTickTells
<1> QED BY <1>1, <1>2, <1>3, <1>4, <1>5, <1>6, <1>7, Zenon DEF OtherAction, KillAction
-----------------------------------------------------------------------------
(* The client handles the first packet. *)

\* where what is at place n is then
Shift(n) == IF n <= 1 THEN 0 ELSE n - 1

\* what a handler does that does not end in a crash
Handled(pk) ==
    /\ clientCrash = "none" /\ clientCrash' = "none" /\ member[Me] = "in"
    /\ inbox # <<>> /\ pk = Head(inbox) /\ inbox' = Tail(inbox) /\ UNCHANGED roomVars
    /\ \A x : x \in scene' <=> x \in scene \/ Adds(pk, x)
    /\ \A x : x \in flagged' <=> x \in flagged \/ (x \in scene /\ Removes(pk, x))
    /\ \A p \in Players : member[p] = "in" =>
          shownState'[p] = IF Tells(pk, p) THEN Told(pk, p) ELSE shownState[p]
    /\ history'.ghosts = history.ghosts /\ history'.listed = history.listed
    /\ history'.relisted = history.relisted /\ history.overtaken \subseteq history'.overtaken
    /\ history'.missing = history.missing
    /\ IF pk.type = "S_Tilemap" THEN DOMAIN slots' = Tiles ELSE DOMAIN slots' = DOMAIN slots

LEMMA HandledInbox ==
  ASSUME IInv, NEW pk, Handled(pk)
  PROVE  /\ inbox \in Seq(Packets) /\ pk \in Packets /\ pk = inbox[1]
         /\ inbox' \in Seq(Packets) /\ Len(inbox) \in Nat /\ Len(inbox) >= 1 /\ Len(inbox') = Len(inbox) - 1
         /\ \A n \in 1 .. Len(inbox') : n + 1 \in 2 .. Len(inbox) /\ inbox'[n] = inbox[n + 1]
         /\ \A m \in 2 .. Len(inbox) : m - 1 \in 1 .. Len(inbox') /\ inbox'[m - 1] = inbox[m]
<1>1. inbox \in Seq(Packets) /\ inbox # <<>> /\ pk = Head(inbox) /\ inbox' = Tail(inbox)
  BY DEF IInv, Types, Handled
<1>2. LET r == Tail(inbox) IN
      /\ r \in Seq(Packets) /\ Head(inbox) \in Packets /\ Head(inbox) = inbox[1]
      /\ Len(inbox) \in Nat /\ Len(inbox) >= 1 /\ Len(r) = Len(inbox) - 1
      /\ \A n \in 1 .. Len(r) : n + 1 \in 2 .. Len(inbox) /\ r[n] = inbox[n + 1]
  BY <1>1, Beheaded
<1>3. /\ inbox' \in Seq(Packets) /\ pk \in Packets /\ pk = inbox[1]
      /\ Len(inbox) \in Nat /\ Len(inbox) >= 1 /\ Len(inbox') = Len(inbox) - 1
      /\ \A n \in 1 .. Len(inbox') : n + 1 \in 2 .. Len(inbox) /\ inbox'[n] = inbox[n + 1]
  BY <1>1, <1>2
<1>4. ASSUME NEW m \in 2 .. Len(inbox)
      PROVE  m - 1 \in 1 .. Len(inbox') /\ inbox'[m - 1] = inbox[m]
  <2>1. PICK n : n = m - 1
    OBVIOUS
  <2>2. n \in 1 .. Len(inbox') /\ n + 1 = m
    BY <2>1, <1>3
  <2>3. inbox'[n] = inbox[n + 1]
    BY <2>2, <1>3
  <2> QED BY <2>1, <2>2, <2>3
<1> QED BY <1>1, <1>3, <1>4

\* Where things are after the packet was handled.
LEMMA HandledPlaces ==
  ASSUME IInv, NEW pk, Handled(pk)
  PROVE  /\ \A m \in Places : Shift(m) \in Places'
         /\ \A m \in Places : \A x : AddedAt(m, x) => AddedAt(Shift(m), x)'
         /\ \A n \in Places' : \A x : AddedAt(n, x)' => \E m \in Places : AddedAt(m, x) /\ Shift(m) = n
         /\ \A n \in Places' : \A x : RemovedAt(n, x)' => \E m \in Places : RemovedAt(m, x) /\ Shift(m) = n
         /\ \A m, k \in Places : \A x \in Thing : RemovedAt(m, x) /\ AddedAt(k, x) => RemovedAt(Shift(m), x)'
<1>1. /\ pk \in Packets /\ pk = inbox[1]
      /\ Len(inbox) \in Nat /\ Len(inbox) >= 1 /\ Len(inbox') = Len(inbox) - 1
  BY HandledInbox
<1>2. \A n \in 1 .. Len(inbox') : n + 1 \in 2 .. Len(inbox) /\ inbox'[n] = inbox[n + 1]
  BY HandledInbox
<1>3. \A m \in 2 .. Len(inbox) : m - 1 \in 1 .. Len(inbox') /\ inbox'[m - 1] = inbox[m]
  BY HandledInbox
<1>4. \A m \in Places : m = 0 \/ m = 1 \/ m \in 2 .. Len(inbox)
  BY <1>1 DEF Places
<1>5. 0 \in Places /\ 1 \in Places /\ 0 \in Places'
  BY <1>1 DEF Places
<1>6. \A m \in 2 .. Len(inbox) : m \in Places /\ Shift(m) = m - 1 /\ m - 1 \in Places' /\ m # 0 /\ m - 1 # 0
  BY <1>1 DEF Places, Shift
<1>7. Shift(0) = 0 /\ Shift(1) = 0
  BY DEF Shift
<1>8. \A m \in Places : Shift(m) \in Places'
  BY <1>4, <1>5, <1>6, <1>7
<1>9. \A n \in Places' : n = 0 \/ n \in 1 .. Len(inbox')
  BY <1>1 DEF Places
<1>10. \A x : /\ AddedAt(0, x)' <=> AddedAt(0, x) \/ AddedAt(1, x)
              /\ RemovedAt(0, x)' <=> RemovedAt(0, x) \/ (AddedAt(0, x) /\ RemovedAt(1, x))
  <2>1. \A x : /\ x \in scene' <=> x \in scene \/ Adds(pk, x)
               /\ x \in flagged' <=> x \in flagged \/ (x \in scene /\ Removes(pk, x))
    BY DEF Handled
  <2> QED BY <2>1, <1>1 DEF AddedAt, RemovedAt
<1>11. ASSUME NEW m \in 2 .. Len(inbox)
       PROVE  \A x : (AddedAt(Shift(m), x)' <=> AddedAt(m, x)) /\ (RemovedAt(Shift(m), x)' <=> RemovedAt(m, x))
  <2>1. PICK n : n = Shift(m)
    OBVIOUS
  <2>2. n # 0 /\ m # 0 /\ inbox'[n] = inbox[m]
    BY <2>1, <1>3, <1>6
  <2>3. \A x : (AddedAt(n, x)' <=> AddedAt(m, x)) /\ (RemovedAt(n, x)' <=> RemovedAt(m, x))
    BY <2>2 DEF AddedAt, RemovedAt
  <2>4. Shift(m)' = Shift(m)
    BY DEF Shift
  <2> QED BY <2>1, <2>3, <2>4
<1>12. \A n \in 1 .. Len(inbox') : n + 1 \in 2 .. Len(inbox) /\ Shift(n + 1) = n
  BY <1>1 DEF Shift
<1>13. ASSUME NEW m \in Places, NEW x, AddedAt(m, x)
       PROVE  AddedAt(Shift(m), x)'
  <2>1. CASE m = 0 \/ m = 1
    <3>1. AddedAt(0, x)'
      BY <2>1, <1>10, <1>13
    <3>2. Shift(m) = 0
      BY <2>1, <1>7
    <3> QED BY <3>1, <3>2
  <2>2. CASE m \in 2 .. Len(inbox)
    BY <2>2, <1>11, <1>13
  <2> QED BY <2>1, <2>2, <1>4
<1>14. ASSUME NEW n \in Places', NEW x, AddedAt(n, x)'
       PROVE  \E m \in Places : AddedAt(m, x) /\ Shift(m) = n
  <2>1. CASE n = 0
    BY <2>1, <1>5, <1>7, <1>10, <1>14
  <2>2. CASE n \in 1 .. Len(inbox')
    <3>1. PICK m \in 2 .. Len(inbox) : Shift(m) = n
      BY <2>2, <1>12
    <3>2. AddedAt(m, x)
      BY <3>1, <1>11, <1>14
    <3> QED BY <3>1, <3>2, <1>6
  <2> QED BY <2>1, <2>2, <1>9
<1>15. ASSUME NEW n \in Places', NEW x, RemovedAt(n, x)'
       PROVE  \E m \in Places : RemovedAt(m, x) /\ Shift(m) = n
  <2>1. CASE n = 0
    BY <2>1, <1>5, <1>7, <1>10, <1>15
  <2>2. CASE n \in 1 .. Len(inbox')
    <3>1. PICK m \in 2 .. Len(inbox) : Shift(m) = n
      BY <2>2, <1>12
    <3>2. RemovedAt(m, x)
      BY <3>1, <1>11, <1>15
    <3> QED BY <3>1, <3>2, <1>6
  <2> QED BY <2>1, <2>2, <1>9
<1>16. ASSUME NEW m \in Places, NEW k \in Places, NEW x \in Thing, RemovedAt(m, x), AddedAt(k, x)
       PROVE  RemovedAt(Shift(m), x)'
  <2>1. CASE m = 0
    BY <2>1, <1>7, <1>10, <1>16
  <2>2. CASE m = 1
    <3>1. k <= 1
      BY <2>2, <1>16 DEF IInv, Linked, Link, Handled, Order
    <3>2. k # 1
      <4>1. RemovedAt(1, x) /\ AddedAt(k, x)
        BY <2>2, <1>16
      <4>2. Removes(pk, x)
        BY <4>1, <1>1 DEF RemovedAt
      <4>3. ~Adds(pk, x)
        BY <4>2, <1>1, PacketEffects
      <4> QED BY <4>1, <4>3, <1>1 DEF AddedAt
    <3>3. k = 0
      BY <3>1, <3>2, <1>1 DEF Places
    <3>4. RemovedAt(0, x)'
      BY <2>2, <3>3, <1>10, <1>16
    <3> QED BY <2>2, <3>4, <1>7
  <2>3. CASE m \in 2 .. Len(inbox)
    BY <2>3, <1>11, <1>16
  <2> QED BY <2>1, <2>2, <2>3, <1>4
<1> QED BY <1>8, <1>13, <1>14, <1>15, <1>16

\* Nothing that concerns the order of what comes is disturbed.
LEMMA HandledLink ==
  ASSUME IInv, NEW pk, Handled(pk)
  PROVE  /\ Fresh' /\ Outsiders' /\ Once' /\ Order' /\ AddedFirst'
         /\ ObjectsAgree' /\ PlayersAgree' /\ Ghosts' /\ StatesAgree'
         /\ Succession' /\ MyPlayerFirst' /\ MapFirst' /\ BlocksThere'
<1>1. /\ inbox \in Seq(Packets) /\ pk \in Packets /\ pk = inbox[1]
      /\ Len(inbox) \in Nat /\ Len(inbox) >= 1 /\ Len(inbox') = Len(inbox) - 1
  BY HandledInbox
<1>2. /\ \A n \in 1 .. Len(inbox') : n + 1 \in 2 .. Len(inbox) /\ inbox'[n] = inbox[n + 1]
      /\ \A m \in 2 .. Len(inbox) : m - 1 \in 1 .. Len(inbox') /\ inbox'[m - 1] = inbox[m]
  BY HandledInbox
<1>3. /\ \A m \in Places : Shift(m) \in Places'
      /\ \A m \in Places : \A x : AddedAt(m, x) => AddedAt(Shift(m), x)'
  BY HandledPlaces
<1>4. \A n \in Places' : \A x : AddedAt(n, x)' => \E m \in Places : AddedAt(m, x) /\ Shift(m) = n
  BY HandledPlaces
<1>5. \A n \in Places' : \A x : RemovedAt(n, x)' => \E m \in Places : RemovedAt(m, x) /\ Shift(m) = n
  BY HandledPlaces
<1>6. \A m, k \in Places : \A x \in Thing : RemovedAt(m, x) /\ AddedAt(k, x) => RemovedAt(Shift(m), x)'
  BY HandledPlaces
<1>7. Link
  BY DEF IInv, Linked, Handled
<1>8. UNCHANGED <<member, mainState, mapObj, isDead, phase, layer>>
  BY DEF Handled, roomVars, feedVars
<1>9. history'.ghosts = history.ghosts /\ history'.relisted = history.relisted
  BY DEF Handled
<1>10. \A m \in Places : m \in Int /\ m >= 0 /\ m <= Len(inbox)
  BY <1>1 DEF Places
<1>11. \A m, k \in Places : m <= k => Shift(m) <= Shift(k)
  BY <1>10 DEF Shift
<1>12. \A x : x \in scene' <=> x \in scene \/ Adds(pk, x)
  BY DEF Handled
<1>13. Fresh'
  <2> SUFFICES ASSUME NEW n \in Places', NEW i \in Id, AddedAt(n, i)' \/ RemovedAt(n, i)'
               PROVE  i[2] <= layer[Home(i)]
    BY <1>8 DEF Fresh
  <2>1. \E m \in Places : AddedAt(m, i) \/ RemovedAt(m, i)
    BY <1>4, <1>5
  <2> QED BY <2>1, <1>7 DEF Link, Fresh
<1>14. Outsiders'
  <2> SUFFICES ASSUME NEW p \in Players, member[p] = "out", NEW n \in Places'
               PROVE  ~AddedAt(n, p)' /\ ~RemovedAt(n, p)' /\ (n # 0 => ~Tells(inbox'[n], p))
    BY <1>8 DEF Outsiders
  <2>1. \A m \in Places : ~AddedAt(m, p) /\ ~RemovedAt(m, p) /\ (m # 0 => ~Tells(inbox[m], p))
    BY <1>7 DEF Link, Outsiders
  <2>2. ASSUME n # 0
        PROVE  ~Tells(inbox'[n], p)
    <3>1. n \in 1 .. Len(inbox')
      BY <2>2, <1>1 DEF Places
    <3>2. n + 1 \in Places /\ n + 1 # 0 /\ inbox'[n] = inbox[n + 1]
      BY <3>1, <1>1, <1>2 DEF Places
    <3> QED BY <2>1, <3>2
  <2> QED BY <2>1, <2>2, <1>4, <1>5
<1>15. Once'
  <2> SUFFICES ASSUME NEW n \in Places', NEW m \in Places', NEW x \in Thing, AddedAt(n, x)', AddedAt(m, x)'
               PROVE  n = m
    BY DEF Once
  <2>1. PICK n0 \in Places : AddedAt(n0, x) /\ Shift(n0) = n
    BY <1>4
  <2>2. PICK m0 \in Places : AddedAt(m0, x) /\ Shift(m0) = m
    BY <1>4
  <2>3. n0 = m0
    BY <2>1, <2>2, <1>7 DEF Link, Once
  <2> QED BY <2>1, <2>2, <2>3
<1>16. Order'
  <2> SUFFICES ASSUME NEW n \in Places', NEW m \in Places', NEW x \in Thing, AddedAt(n, x)', RemovedAt(m, x)'
               PROVE  n <= m
    BY DEF Order
  <2>1. PICK n0 \in Places : AddedAt(n0, x) /\ Shift(n0) = n
    BY <1>4
  <2>2. PICK m0 \in Places : RemovedAt(m0, x) /\ Shift(m0) = m
    BY <1>5
  <2>3. n0 <= m0
    BY <2>1, <2>2, <1>7 DEF Link, Order
  <2> QED BY <2>1, <2>2, <2>3, <1>11
<1>17. AddedFirst'
  <2> SUFFICES ASSUME NEW n \in 1 .. Len(inbox'), NEW m \in 1 .. Len(inbox'), NEW p \in Players,
                      Adds(inbox'[n], p), m < n
               PROVE  ~Tells(inbox'[m], p)
    BY DEF AddedFirst
  <2>1. PICK n1, m1 : n1 = n + 1 /\ m1 = m + 1
    OBVIOUS
  <2>2. n1 \in 1 .. Len(inbox) /\ m1 \in 1 .. Len(inbox) /\ m1 < n1
    BY <2>1, <1>2
  <2>3. inbox'[n] = inbox[n1] /\ inbox'[m] = inbox[m1]
    BY <2>1, <1>2
  <2> QED BY <2>2, <2>3, <1>7 DEF Link, AddedFirst
<1>18. \A x \in Thing : Stays(x)' <=> Stays(x)
  <2> SUFFICES ASSUME NEW x \in Thing
               PROVE  Stays(x)' <=> Stays(x)
    OBVIOUS
  <2>1. (\E n \in Places' : AddedAt(n, x)') <=> (\E m \in Places : AddedAt(m, x))
    BY <1>3, <1>4
  <2>2. (\A m \in Places : ~RemovedAt(m, x)) => (\A n \in Places' : ~RemovedAt(n, x)')
    BY <1>5
  <2>3. (\E m \in Places : AddedAt(m, x)) /\ (\A n \in Places' : ~RemovedAt(n, x)')
           => \A m \in Places : ~RemovedAt(m, x)
    BY <1>3, <1>6
  <2> QED BY <2>1, <2>2, <2>3 DEF Stays
<1>19. ObjectsAgree' /\ PlayersAgree' /\ Ghosts'
  <2>1. OnMap' = OnMap
    BY <1>8, SameMap
  <2>2. ObjectsAgree'
    <3> SUFFICES ASSUME NEW i \in Id
                 PROVE  Stays(i)' <=> i \in OnMap' /\ Home(i) \notin isDead'
      BY DEF ObjectsAgree
    <3>1. Stays(i)' <=> Stays(i)
      BY <1>18 DEF Thing
    <3>2. Stays(i) <=> i \in OnMap /\ Home(i) \notin isDead
      BY <1>7 DEF Link, ObjectsAgree
    <3> QED BY <3>1, <3>2, <2>1, <1>8
  <2>3. PlayersAgree'
    <3> SUFFICES ASSUME NEW p \in Players
                 PROVE  Stays(p)' <=> member'[p] = "in" \/ p \in history'.ghosts
      BY DEF PlayersAgree
    <3>1. Stays(p)' <=> Stays(p)
      BY <1>18 DEF Thing
    <3>2. Stays(p) <=> member[p] = "in" \/ p \in history.ghosts
      BY <1>7 DEF Link, PlayersAgree
    <3> QED BY <3>1, <3>2, <1>8, <1>9
  <2>4. Ghosts'
    BY <1>7, <1>8, <1>9 DEF Link, Ghosts
  <2> QED BY <2>2, <2>3, <2>4
<1>20. StatesAgree'
  <2> SUFFICES ASSUME NEW p \in Players, member[p] = "in"
               PROVE  /\ \A n \in 1 .. Len(inbox') :
                            Tells(inbox'[n], p) /\ (\A m \in 1 .. Len(inbox') : m > n => ~Tells(inbox'[m], p))
                                => Told(inbox'[n], p) = mainState[p]
                      /\ (\A n \in 1 .. Len(inbox') : ~Tells(inbox'[n], p)) => shownState'[p] = mainState[p]
    BY <1>8 DEF StatesAgree
  <2>1. /\ \A n \in 1 .. Len(inbox) :
              Tells(inbox[n], p) /\ (\A m \in 1 .. Len(inbox) : m > n => ~Tells(inbox[m], p))
                  => Told(inbox[n], p) = mainState[p]
        /\ (\A n \in 1 .. Len(inbox) : ~Tells(inbox[n], p)) => shownState[p] = mainState[p]
    BY <1>7 DEF Link, StatesAgree
  <2>2. shownState'[p] = IF Tells(pk, p) THEN Told(pk, p) ELSE shownState[p]
    BY DEF Handled
  <2>3. ASSUME NEW n \in 1 .. Len(inbox'), Tells(inbox'[n], p),
               \A m \in 1 .. Len(inbox') : m > n => ~Tells(inbox'[m], p)
        PROVE  Told(inbox'[n], p) = mainState[p]
    <3>1. PICK n1 : n1 = n + 1
      OBVIOUS
    <3>2. n1 \in 1 .. Len(inbox) /\ inbox'[n] = inbox[n1]
      BY <3>1, <1>2
    <3>3. ASSUME NEW m \in 1 .. Len(inbox), m > n1
          PROVE  ~Tells(inbox[m], p)
      <4>1. PICK m1 : m1 = m - 1
        OBVIOUS
      <4>2. m \in 2 .. Len(inbox) /\ m1 > n
        BY <3>1, <3>2, <3>3, <4>1
      <4>3. m1 \in 1 .. Len(inbox') /\ inbox'[m1] = inbox[m]
        BY <4>1, <4>2, <1>2
      <4> QED BY <4>2, <4>3, <2>3
    <3> QED BY <3>2, <3>3, <2>1, <2>3
  <2>4. ASSUME \A n \in 1 .. Len(inbox') : ~Tells(inbox'[n], p)
        PROVE  shownState'[p] = mainState[p]
    <3>1. ASSUME NEW m \in 2 .. Len(inbox)
          PROVE  ~Tells(inbox[m], p)
      <4>1. PICK m1 : m1 = m - 1
        OBVIOUS
      <4>2. m1 \in 1 .. Len(inbox') /\ inbox'[m1] = inbox[m]
        BY <4>1, <1>2
      <4> QED BY <4>2, <2>4
    <3>2. 1 \in 1 .. Len(inbox) /\ \A m \in 1 .. Len(inbox) : m = 1 \/ m \in 2 .. Len(inbox)
      BY <1>1
    <3>3. CASE Tells(pk, p)
      <4>1. \A m \in 1 .. Len(inbox) : m > 1 => ~Tells(inbox[m], p)
        BY <3>1, <3>2
      <4>2. Tells(inbox[1], p)
        BY <3>3, <1>1
      <4>3. Told(inbox[1], p) = mainState[p]
        BY <2>1, <3>2, <4>1, <4>2
      <4> QED BY <2>2, <3>3, <4>3, <1>1
    <3>4. CASE ~Tells(pk, p)
      <4>1. \A m \in 1 .. Len(inbox) : ~Tells(inbox[m], p)
        BY <3>1, <3>2, <3>4, <1>1
      <4> QED BY <2>1, <2>2, <3>4, <4>1
    <3> QED BY <3>3, <3>4
  <2> QED BY <2>3, <2>4
<1>21. Succession'
  <2> SUFFICES ASSUME NEW n \in Places', NEW m \in Places', NEW i \in Id, NEW j \in Id,
                      AddedAt(n, i)', AddedAt(m, j)', Home(i) = Home(j), i[2] < j[2]
               PROVE  \E k \in Places' : k <= m /\ RemovedAt(k, i)'
    BY DEF Succession
  <2>1. PICK n0 \in Places : AddedAt(n0, i) /\ Shift(n0) = n
    BY <1>4
  <2>2. PICK m0 \in Places : AddedAt(m0, j) /\ Shift(m0) = m
    BY <1>4
  <2>3. PICK k0 \in Places : k0 <= m0 /\ RemovedAt(k0, i)
    BY <2>1, <2>2, <1>7 DEF Link, Succession
  <2>4. PICK k : k = Shift(k0)
    OBVIOUS
  <2>5. i \in Thing
    BY DEF Thing
  <2>6. Shift(k0) \in Places' /\ RemovedAt(Shift(k0), i)' /\ Shift(k0)' = Shift(k0)
    BY <2>1, <2>3, <2>5, <1>3, <1>6 DEF Shift
  <2>7. k \in Places' /\ RemovedAt(k, i)'
    BY <2>4, <2>6
  <2>8. k <= m
    BY <2>2, <2>3, <2>4, <1>11
  <2> QED BY <2>7, <2>8
<1>22. MyPlayerFirst'
  <2>1. CASE Me \in scene
    BY <2>1, <1>12 DEF MyPlayerFirst
  <2>2. CASE pk.type = "S_MyPlayer"
    <3>1. Adds(pk, Me)
      BY <2>2 DEF Adds
    <3> QED BY <3>1, <1>12 DEF MyPlayerFirst
  <2> QED BY <2>1, <2>2, <1>1, <1>7 DEF Link, MyPlayerFirst
<1>23. MapFirst'
  <2>1. \A n, m \in 1 .. Len(inbox) : inbox[n].type = "S_Tilemap" /\ m < n
           => inbox[m].type \in {"S_MyPlayer", "S_OtherPlayers"}
    BY <1>7 DEF Link, MapFirst
  <2>2. ASSUME NEW n \in 1 .. Len(inbox'), NEW m \in 1 .. Len(inbox'), inbox'[n].type = "S_Tilemap", m < n
        PROVE  inbox'[m].type \in {"S_MyPlayer", "S_OtherPlayers"}
    <3>1. PICK n1, m1 : n1 = n + 1 /\ m1 = m + 1
      OBVIOUS
    <3>2. n1 \in 1 .. Len(inbox) /\ m1 \in 1 .. Len(inbox) /\ m1 < n1
      BY <2>2, <3>1, <1>2
    <3>3. inbox'[n] = inbox[n1] /\ inbox'[m] = inbox[m1]
      BY <3>1, <1>2
    <3> QED BY <2>1, <2>2, <3>2, <3>3
  <2>3. ASSUME \A n \in 1 .. Len(inbox') : inbox'[n].type # "S_Tilemap"
        PROVE  DOMAIN slots' = Tiles
    <3>1. CASE pk.type = "S_Tilemap"
      BY <3>1 DEF Handled
    <3>2. CASE pk.type # "S_Tilemap"
      <4>1. ASSUME NEW m \in 2 .. Len(inbox)
            PROVE  inbox[m].type # "S_Tilemap"
        <5>1. PICK m1 : m1 = m - 1
          OBVIOUS
        <5>2. m1 \in 1 .. Len(inbox') /\ inbox'[m1] = inbox[m]
          BY <5>1, <1>2
        <5> QED BY <5>2, <2>3
      <4>2. \A m \in 1 .. Len(inbox) : m = 1 \/ m \in 2 .. Len(inbox)
        BY <1>1
      <4>3. \A m \in 1 .. Len(inbox) : inbox[m].type # "S_Tilemap"
        BY <3>2, <4>1, <4>2, <1>1
      <4>4. DOMAIN slots = Tiles
        BY <4>3, <1>7 DEF Link, MapFirst
      <4> QED BY <3>2, <4>4 DEF Handled
    <3> QED BY <3>1, <3>2
  <2>4. ASSUME NEW n \in 1 .. Len(inbox'), inbox'[n].type = "S_Tilemap"
        PROVE  scene' \cap Id = {}
    <3>1. PICK n1 : n1 = n + 1
      OBVIOUS
    <3>2. n1 \in 1 .. Len(inbox) /\ 1 < n1 /\ 1 \in 1 .. Len(inbox) /\ inbox'[n] = inbox[n1]
      BY <3>1, <1>1, <1>2
    <3>3. pk.type \in {"S_MyPlayer", "S_OtherPlayers"}
      BY <2>1, <2>4, <3>2, <1>1
    <3>4. \A i \in Id : ~Adds(pk, i)
      BY <3>3, <1>1, PacketEffects
    <3>5. scene \cap Id = {}
      BY <2>4, <3>2, <1>7 DEF Link, MapFirst
    <3> QED BY <3>4, <3>5, <1>12
  <2> QED BY <2>2, <2>3, <2>4 DEF MapFirst
<1>24. BlocksThere'
  <2> SUFFICES ASSUME NEW n \in 1 .. Len(inbox'), inbox'[n].type = "S_Explode",
                      NEW b \in inbox'[n].blocks \ history.relisted
               PROVE  /\ \E m \in Places' : AddedAt(m, b)'
                      /\ \A m \in Places' : m < n => ~RemovedAt(m, b)'
    BY <1>9 DEF BlocksThere
  <2>1. PICK n1 : n1 = n + 1
    OBVIOUS
  <2>2. n1 \in 1 .. Len(inbox) /\ inbox'[n] = inbox[n1]
    BY <2>1, <1>2
  <2>3. (\E m \in Places : AddedAt(m, b)) /\ \A m \in Places : m < n1 => ~RemovedAt(m, b)
    BY <2>2, <1>7 DEF Link, BlocksThere
  <2>4. \E m \in Places' : AddedAt(m, b)'
    <3>1. PICK m0 \in Places : AddedAt(m0, b)
      BY <2>3
    <3>2. PICK m : m = Shift(m0)
      OBVIOUS
    <3>3. Shift(m0) \in Places' /\ AddedAt(Shift(m0), b)' /\ Shift(m0)' = Shift(m0)
      BY <3>1, <1>3 DEF Shift
    <3> QED BY <3>2, <3>3
  <2>5. ASSUME NEW m \in Places', m < n, RemovedAt(m, b)'
        PROVE  FALSE
    <3>1. PICK m0 \in Places : RemovedAt(m0, b) /\ Shift(m0) = m
      BY <2>5, <1>5
    <3>2. m0 < n1
      BY <2>1, <2>5, <3>1, <1>10 DEF Shift
    <3> QED BY <2>3, <3>1, <3>2
  <2> QED BY <2>4, <2>5
<1> QED BY <1>13, <1>14, <1>15, <1>16, <1>17, <1>19, <1>20, <1>21, <1>22, <1>23, <1>24

LEMMA HandledKeeps ==
  ASSUME IInv, NEW pk, Handled(pk), Types', SlotsShown', Overtakers', SlotsFilled', NoTwins'
  PROVE  IInv'
<1>1. Link'
  BY HandledLink DEF Link
<1>2. BrokenListed'
  BY DEF IInv, BrokenListed, Handled, roomVars, feedVars
<1>3. BeforeEntry' /\ CrashesAreKnown'
  BY DEF BeforeEntry, CrashesAreKnown, Handled, IInv, roomVars, feedVars
<1> QED BY <1>1, <1>2, <1>3 DEF IInv

\* What no handler changes of the types.
LEMMA HandledTypes ==
  ASSUME IInv, inbox # <<>>, inbox' = Tail(inbox), UNCHANGED roomVars, SceneTypes', history' \in HistoryType
  PROVE  Types'
<1>1. inbox \in Seq(Packets) /\ FeedTypes
  BY DEF IInv, Types
<1>2. Tail(inbox) \in Seq(Packets)
  BY <1>1, HeadTailProperties
<1>3. FeedTypes'
  BY <1>1 DEF FeedTypes, roomVars, feedVars
<1> QED BY <1>2, <1>3 DEF Types

\* The handlers that add no object and leave the tile map alone.
LEMMA SameSlots ==
  ASSUME IInv, NEW pk, Handled(pk), \A i \in Id : ~Adds(pk, i),
         slots' = slots, history'.overtaken = history.overtaken
  PROVE  SlotsShown' /\ Overtakers' /\ SlotsFilled'
<1>1. SlotsShown /\ Overtakers /\ SlotsFilled
  BY DEF IInv, Link, Linked, Handled
<1>2. /\ \A x : x \in scene' <=> x \in scene \/ Adds(pk, x)
      /\ \A x : x \in flagged' <=> x \in flagged \/ (x \in scene /\ Removes(pk, x))
  BY DEF Handled
<1>3. SlotsShown'
  BY <1>1, <1>2 DEF SlotsShown
<1>4. Overtakers'
  BY <1>1, <1>2 DEF Overtakers
<1>5. SlotsFilled'
  BY <1>1, <1>2 DEF SlotsFilled
<1> QED BY <1>3, <1>4, <1>5

\* what every handler finds
AtHead(pk) ==
    /\ IInv /\ clientCrash = "none" /\ inbox # <<>> /\ pk = Head(inbox) /\ inbox' = Tail(inbox)
    /\ UNCHANGED roomVars

LEMMA HeadFacts ==
  ASSUME NEW pk, AtHead(pk)
  PROVE  /\ member[Me] = "in" /\ Link /\ Types
         /\ inbox \in Seq(Packets) /\ pk \in Packets /\ pk = inbox[1] /\ Len(inbox) \in Nat /\ Len(inbox) >= 1
         /\ \A x : (AddedAt(1, x) <=> Adds(pk, x)) /\ (RemovedAt(1, x) <=> Removes(pk, x))
         /\ \A x : (AddedAt(0, x) <=> x \in scene) /\ (RemovedAt(0, x) <=> x \in flagged)
         /\ 0 \in Places /\ 1 \in Places
<1>1. member[Me] = "in" /\ Types
  BY DEF AtHead, IInv, BeforeEntry
<1>2. Link
  BY <1>1 DEF AtHead, IInv, Linked
<1>3. inbox \in Seq(Packets) /\ inbox # <<>> /\ pk = Head(inbox)
  BY <1>1 DEF AtHead, Types
<1>4. LET r == Tail(inbox) IN
      /\ r \in Seq(Packets) /\ Head(inbox) \in Packets /\ Head(inbox) = inbox[1]
      /\ Len(inbox) \in Nat /\ Len(inbox) >= 1 /\ Len(r) = Len(inbox) - 1
      /\ \A n \in 1 .. Len(r) : n + 1 \in 2 .. Len(inbox) /\ r[n] = inbox[n + 1]
  BY <1>3, Beheaded
<1>5. pk \in Packets /\ pk = inbox[1] /\ Len(inbox) \in Nat /\ Len(inbox) >= 1
  BY <1>3, <1>4
<1>6. 0 \in Places /\ 1 \in Places
  BY <1>5 DEF Places
<1>7. \A x : (AddedAt(1, x) <=> Adds(pk, x)) /\ (RemovedAt(1, x) <=> Removes(pk, x))
  BY <1>5 DEF AddedAt, RemovedAt
<1>8. \A x : (AddedAt(0, x) <=> x \in scene) /\ (RemovedAt(0, x) <=> x \in flagged)
  BY DEF AddedAt, RemovedAt
<1> QED BY <1>1, <1>2, <1>3, <1>5, <1>6, <1>7, <1>8

\* What a packet adds is not there yet.
LEMMA AddsNew ==
  ASSUME NEW pk, AtHead(pk), NEW x, Adds(pk, x)
  PROVE  x \notin scene
<1>1. x \in Thing
  BY HeadFacts, PacketEffects
<1>2. Once /\ 0 \in Places /\ 1 \in Places /\ AddedAt(1, x) /\ (AddedAt(0, x) <=> x \in scene)
  BY HeadFacts DEF Link
<1> QED BY <1>1, <1>2 DEF Once

\* This client's own player is there when another packet than S_MyPlayer is handled,
LEMMA MyPlayerIsThere ==
  ASSUME NEW pk, AtHead(pk), pk.type # "S_MyPlayer"
  PROVE  Me \in scene
BY HeadFacts DEF Link, MyPlayerFirst

\* and so is the map when a bomb comes.
LEMMA MapIsThere ==
  ASSUME NEW pk, AtHead(pk), pk.type \notin {"S_MyPlayer", "S_OtherPlayers", "S_Tilemap"}
  PROVE  DOMAIN slots = Tiles
<1>1. pk = inbox[1] /\ Len(inbox) \in Nat /\ Len(inbox) >= 1 /\ MapFirst
  BY HeadFacts DEF Link
<1> SUFFICES ASSUME NEW n \in 1 .. Len(inbox), inbox[n].type = "S_Tilemap"
             PROVE  FALSE
  BY <1>1 DEF MapFirst
<1>2. n # 1 /\ 1 \in 1 .. Len(inbox)
  BY <1>1
<1>3. 1 < n
  BY <1>2
<1>4. inbox[1].type \in {"S_MyPlayer", "S_OtherPlayers"}
  BY <1>1, <1>2, <1>3 DEF MapFirst
<1> QED BY <1>1, <1>4

\* A block that is missing when its explosion is handled, and that ends the client.
LEMMA CrashKeeps ==
  ASSUME NEW pk, AtHead(pk), pk.type = "S_Explode", clientCrash' = "nullBlock", UNCHANGED sceneVars,
         history' = [history EXCEPT !.missing = pk.blocks \ scene],
         pk.blocks \ scene \subseteq history.relisted
  PROVE  IInv'
<1>1. /\ member[Me] = "in" /\ Types /\ IInv /\ inbox # <<>> /\ inbox' = Tail(inbox) /\ UNCHANGED roomVars
      /\ pk \in Packets
  BY HeadFacts DEF AtHead
<1>2. history \in HistoryType /\ pk.blocks \subseteq Id
  BY <1>1, PacketFields DEF Types
<1>3. /\ history' \in HistoryType /\ history'.missing = pk.blocks \ scene
      /\ history'.relisted = history.relisted /\ history'.listed = history.listed
      /\ history'.twins = history.twins
  BY <1>2 DEF HistoryType
<1>4. SceneTypes'
  BY <1>1 DEF Types, SceneTypes, Causes, sceneVars, roomVars
<1>5. Types'
  BY <1>1, <1>3, <1>4, HandledTypes DEF Types
<1>6. BrokenListed' /\ BeforeEntry'
  BY <1>1, <1>3 DEF IInv, BrokenListed, BeforeEntry, roomVars, feedVars
<1>7. SlotsShown' /\ NoTwins' /\ CrashesAreKnown' /\ ~Linked'
  BY <1>1, <1>3 DEF IInv, SlotsShown, NoTwins, CrashesAreKnown, Linked, sceneVars
<1> QED BY <1>5, <1>6, <1>7 DEF IInv

-----------------------------------------------------------------------------
(* The handlers, one by one *)

LEMMA MyPlayerHandled ==
  ASSUME NEW pk, AtHead(pk), Handle_S_MyPlayer
  PROVE  IInv'
<1>1. /\ pk.type = "S_MyPlayer" /\ scene' = scene \cup {Me}
      /\ shownState' = [shownState EXCEPT ![Me] = pk.state]
      /\ UNCHANGED <<flagged, slots, overlapBombs, history, clientCrash>> /\ clientCrash = "none"
  BY DEF AtHead, Handle_S_MyPlayer, Handles, Packet, ClientLives
<1>2. member[Me] = "in" /\ Types /\ pk \in Packets /\ IInv
  BY HeadFacts DEF AtHead
<1>3. pk.state \in MainState
  BY <1>1, <1>2, PacketFields
<1>4. \A x : (Adds(pk, x) <=> x = Me) /\ ~Removes(pk, x) /\ (Tells(pk, x) <=> x = Me) /\ Told(pk, x) = pk.state
  BY <1>1 DEF Adds, Removes, Tells, Told
<1>5. Me \in Players /\ shownState \in [Players -> MainState]
  BY <1>2, MirrorAssumption DEF Types, SceneTypes
<1>6. Handled(pk)
  <2>1. \A p \in Players : shownState'[p] = IF Tells(pk, p) THEN Told(pk, p) ELSE shownState[p]
    BY <1>1, <1>4, <1>5
  <2>2. \A x : x \in scene' <=> x \in scene \/ Adds(pk, x)
    BY <1>1, <1>4
  <2>3. \A x : x \in flagged' <=> x \in flagged \/ (x \in scene /\ Removes(pk, x))
    BY <1>1, <1>4
  <2> QED BY <1>1, <1>2, <2>1, <2>2, <2>3 DEF Handled, AtHead
<1>7. Types'
  <2>1. SceneTypes'
    <3>1. shownState' \in [Players -> MainState]
      BY <1>1, <1>3, <1>5
    <3> QED BY <1>1, <1>2, <1>5, <3>1 DEF Types, SceneTypes, AtHead, roomVars
  <2> QED BY <1>1, <1>2, <2>1, HandledTypes DEF AtHead, Types
<1>8. \A i \in Id : ~Adds(pk, i)
  BY <1>4, <1>5, MirrorKinds
<1>9. SlotsShown' /\ Overtakers' /\ SlotsFilled'
  BY <1>1, <1>2, <1>6, <1>8, SameSlots
<1>10. NoTwins'
  BY <1>1, <1>2 DEF IInv, NoTwins
<1> QED BY <1>2, <1>6, <1>7, <1>9, <1>10, HandledKeeps

LEMMA OtherPlayersHandled ==
  ASSUME NEW pk, AtHead(pk), Handle_S_OtherPlayers
  PROVE  IInv'
<1>1. pk.type = "S_OtherPlayers" /\ clientCrash = "none"
  BY DEF AtHead, Handle_S_OtherPlayers, Handles, Packet
<1>2. Me \in scene
  BY <1>1, MyPlayerIsThere
<1>3. PICK new : new = Newcomers(pk.infos)
  OBVIOUS
<1>4. /\ scene' = scene \cup new
      /\ shownState' = [p \in Players |-> IF p \in new THEN pk.infos[p] ELSE shownState[p]]
      /\ history' = [history EXCEPT !.twins = @ \cup (new \cap scene)]
      /\ UNCHANGED <<flagged, slots, overlapBombs, clientCrash>>
  BY <1>2, <1>3 DEF AtHead, Handle_S_OtherPlayers, Packet, ClientLives
<1>5. member[Me] = "in" /\ Types /\ pk \in Packets /\ IInv
  BY HeadFacts DEF AtHead
<1>6. new \subseteq Players /\ \A p \in new : pk.infos[p] \in MainState
  BY <1>1, <1>3, <1>5, PacketFields DEF Newcomers
<1>7. \A x : /\ Adds(pk, x) <=> x \in new
             /\ ~Removes(pk, x)
             /\ Tells(pk, x) <=> x \in new
             /\ Told(pk, x) = pk.infos[x]
  BY <1>1, <1>3 DEF Adds, Removes, Tells, Told, Newcomers
<1>8. new \cap scene = {}
  BY <1>7, AddsNew
<1>9. history \in HistoryType
  BY <1>5 DEF Types
<1>10. history' = [history EXCEPT !.twins = history.twins]
  BY <1>4, <1>8
<1>11. history' = history
  BY <1>9, <1>10 DEF HistoryType
<1>12. Handled(pk)
  <2>1. \A p \in Players : shownState'[p] = IF Tells(pk, p) THEN Told(pk, p) ELSE shownState[p]
    BY <1>4, <1>7
  <2>2. \A x : x \in scene' <=> x \in scene \/ Adds(pk, x)
    BY <1>4, <1>7
  <2>3. \A x : x \in flagged' <=> x \in flagged \/ (x \in scene /\ Removes(pk, x))
    BY <1>4, <1>7
  <2> QED BY <1>1, <1>4, <1>5, <1>11, <2>1, <2>2, <2>3 DEF Handled, AtHead
<1>13. Types'
  <2>1. SceneTypes'
    <3>1. shownState' \in [Players -> MainState]
      BY <1>4, <1>5, <1>6 DEF Types, SceneTypes
    <3>2. scene' \subseteq Id \cup Players /\ flagged' \subseteq scene'
      BY <1>4, <1>5, <1>6 DEF Types, SceneTypes
    <3> QED BY <1>4, <1>5, <3>1, <3>2 DEF Types, SceneTypes, AtHead, roomVars
  <2> QED BY <1>5, <1>9, <1>11, <2>1, HandledTypes DEF AtHead
<1>14. \A i \in Id : ~Adds(pk, i)
  BY <1>6, <1>7, MirrorKinds
<1>15. SlotsShown' /\ Overtakers' /\ SlotsFilled'
  BY <1>4, <1>5, <1>11, <1>12, <1>14, SameSlots
<1>16. NoTwins'
  BY <1>5, <1>11 DEF IInv, NoTwins
<1> QED BY <1>5, <1>12, <1>13, <1>15, <1>16, HandledKeeps

\* The handlers that only flag.
LEMMA FlaggingHandled ==
  ASSUME NEW pk, AtHead(pk), pk.type \in {"S_PlayerLeave", "S_RemoveItem", "S_Explode"},
         NEW gone, flagged' = flagged \cup (gone \cap scene), \A x : x \in gone <=> Removes(pk, x),
         UNCHANGED <<scene, shownState, slots, overlapBombs, history, clientCrash>>
  PROVE  IInv'
<1>1. member[Me] = "in" /\ Types /\ pk \in Packets /\ IInv
  BY HeadFacts DEF AtHead
<1>2. \A x : ~Adds(pk, x) /\ ~Tells(pk, x)
  BY DEF Adds, Tells
<1>3. Handled(pk)
  <2>1. \A p \in Players : shownState'[p] = IF Tells(pk, p) THEN Told(pk, p) ELSE shownState[p]
    BY <1>2
  <2>2. \A x : x \in scene' <=> x \in scene \/ Adds(pk, x)
    BY <1>2
  <2>3. \A x : x \in flagged' <=> x \in flagged \/ (x \in scene /\ Removes(pk, x))
    OBVIOUS
  <2> QED BY <1>1, <2>1, <2>2, <2>3 DEF Handled, AtHead
<1>4. Types'
  <2>1. SceneTypes'
    BY <1>1 DEF Types, SceneTypes, AtHead, roomVars
  <2> QED BY <1>1, <2>1, HandledTypes DEF AtHead, Types
<1>5. SlotsShown' /\ Overtakers' /\ SlotsFilled'
  BY <1>1, <1>2, <1>3, SameSlots
<1>6. NoTwins'
  BY <1>1 DEF IInv, NoTwins
<1> QED BY <1>1, <1>3, <1>4, <1>5, <1>6, HandledKeeps

LEMMA PlayerLeaveHandled ==
  ASSUME NEW pk, AtHead(pk), Handle_S_PlayerLeave
  PROVE  IInv'
<1>1. /\ pk.type = "S_PlayerLeave"
      /\ flagged' = flagged \cup ({pk.player} \cap scene)
      /\ UNCHANGED <<scene, shownState, slots, overlapBombs, history, clientCrash>>
  BY DEF AtHead, Handle_S_PlayerLeave, Handles, Packet, Found, ClientLives
<1>2. \A x : x \in {pk.player} <=> Removes(pk, x)
  BY <1>1 DEF Removes
<1> QED BY <1>1, <1>2, FlaggingHandled

LEMMA RemoveItemHandled ==
  ASSUME NEW pk, AtHead(pk), Handle_S_RemoveItem
  PROVE  IInv'
<1>1. /\ pk.type = "S_RemoveItem"
      /\ flagged' = flagged \cup ({pk.id} \cap scene)
      /\ UNCHANGED <<scene, shownState, slots, overlapBombs, history, clientCrash>>
  BY DEF AtHead, Handle_S_RemoveItem, Handles, Packet, Found, ClientLives
<1>2. \A x : x \in {pk.id} <=> Removes(pk, x)
  BY <1>1 DEF Removes
<1> QED BY <1>1, <1>2, FlaggingHandled

LEMMA ExplodeHandled ==
  ASSUME NEW pk, AtHead(pk), Handle_S_Explode
  PROVE  IInv'
<1>1. pk.type = "S_Explode" /\ clientCrash = "none"
  BY DEF AtHead, Handle_S_Explode, Handles, Packet
<1>2. CASE pk.blocks \subseteq scene
  <2>1. PICK gone : gone = {pk.id} \cup pk.blocks \cup pk.items
    OBVIOUS
  <2>2. /\ flagged' = flagged \cup (gone \cap scene)
        /\ UNCHANGED <<scene, shownState, slots, overlapBombs, history, clientCrash>>
    BY <1>2, <2>1 DEF AtHead, Handle_S_Explode, Packet, Found, ClientLives
  <2>3. \A x : x \in gone <=> Removes(pk, x)
    BY <1>1, <2>1 DEF Removes
  <2> QED BY <1>1, <2>2, <2>3, FlaggingHandled
<1>3. CASE ~ (pk.blocks \subseteq scene)
  <2>1. /\ clientCrash' = "nullBlock" /\ UNCHANGED sceneVars
        /\ history' = [history EXCEPT !.missing = pk.blocks \ scene]
    BY <1>3 DEF AtHead, Handle_S_Explode, Packet
  <2>2. /\ Link /\ pk \in Packets /\ pk = inbox[1] /\ Len(inbox) \in Nat /\ Len(inbox) >= 1
        /\ \A x : (AddedAt(1, x) <=> Adds(pk, x)) /\ (RemovedAt(1, x) <=> Removes(pk, x))
        /\ \A x : (AddedAt(0, x) <=> x \in scene) /\ 0 \in Places /\ 1 \in Places
    BY HeadFacts
  <2>3. ASSUME NEW b \in pk.blocks, b \notin scene, b \notin history.relisted
        PROVE  FALSE
    <3>1. 1 \in 1 .. Len(inbox)
      BY <2>2
    <3>2. PICK m \in Places : AddedAt(m, b)
      BY <1>1, <2>2, <2>3, <3>1 DEF Link, BlocksThere
    <3>3. b \in Thing
      BY <1>1, <2>2, <2>3, PacketFields DEF Thing
    <3>4. RemovedAt(1, b)
      BY <1>1, <2>2, <2>3 DEF Removes
    <3>5. m <= 1
      BY <2>2, <3>2, <3>3, <3>4 DEF Link, Order
    <3>6. m # 0
      BY <2>2, <2>3, <3>2
    <3>7. m = 1
      BY <3>5, <3>6, <2>2 DEF Places
    <3>8. ~Adds(pk, b)
      BY <1>1, <2>2, NothingAdded
    <3> QED BY <2>2, <3>2, <3>7, <3>8
  <2>4. pk.blocks \ scene \subseteq history.relisted
    BY <2>3
  <2> QED BY <1>1, <2>1, <2>4, CrashKeeps
<1> QED BY <1>2, <1>3

LEMMA MainStateHandled ==
  ASSUME NEW pk, AtHead(pk), Handle_S_MainState
  PROVE  IInv'
<1>1. /\ pk.type = "S_MainState" /\ clientCrash = "none"
      /\ shownState' = IF pk.player \in scene
                       THEN [shownState EXCEPT ![pk.player] = pk.state]
                       ELSE shownState
      /\ UNCHANGED <<scene, flagged, slots, overlapBombs, history, clientCrash>>
  BY DEF AtHead, Handle_S_MainState, Handles, Packet, ClientLives
<1>2. /\ member[Me] = "in" /\ Link /\ Types /\ pk \in Packets /\ IInv /\ pk = inbox[1]
      /\ Len(inbox) \in Nat /\ Len(inbox) >= 1
      /\ \A x : AddedAt(0, x) <=> x \in scene
  BY HeadFacts DEF AtHead
<1>3. pk.player \in Players /\ pk.state \in MainState
  BY <1>1, <1>2, PacketFields
<1>4. \A x : ~Adds(pk, x) /\ ~Removes(pk, x) /\ (Tells(pk, x) <=> x = pk.player) /\ Told(pk, x) = pk.state
  BY <1>1 DEF Adds, Removes, Tells, Told
<1>5. shownState \in [Players -> MainState]
  BY <1>2 DEF Types, SceneTypes
<1>6. ASSUME member[pk.player] = "in"
      PROVE  pk.player \in scene
  <2>1. Stays(pk.player)
    BY <1>2, <1>3, <1>6 DEF Link, PlayersAgree
  <2>2. PICK n \in Places : AddedAt(n, pk.player)
    BY <2>1 DEF Stays
  <2>3. CASE n = 0
    BY <2>2, <2>3, <1>2
  <2>4. CASE n # 0
    <3>1. n \in 1 .. Len(inbox) /\ 1 \in 1 .. Len(inbox)
      BY <2>4, <1>2 DEF Places
    <3>2. Adds(inbox[n], pk.player)
      BY <2>2, <2>4 DEF AddedAt
    <3>3. n # 1
      BY <3>2, <1>2, <1>4
    <3>4. 1 < n
      BY <3>1, <3>3
    <3>5. ~Tells(inbox[1], pk.player)
      BY <3>1, <3>2, <3>4, <1>2, <1>3 DEF Link, AddedFirst
    <3> QED BY <3>5, <1>2, <1>4
  <2> QED BY <2>3, <2>4
<1>7. Handled(pk)
  <2>1. \A p \in Players : member[p] = "in" =>
          shownState'[p] = IF Tells(pk, p) THEN Told(pk, p) ELSE shownState[p]
    BY <1>1, <1>3, <1>4, <1>5, <1>6
  <2>2. \A x : x \in scene' <=> x \in scene \/ Adds(pk, x)
    BY <1>1, <1>4
  <2>3. \A x : x \in flagged' <=> x \in flagged \/ (x \in scene /\ Removes(pk, x))
    BY <1>1, <1>4
  <2> QED BY <1>1, <1>2, <2>1, <2>2, <2>3 DEF Handled, AtHead
<1>8. Types'
  <2>1. SceneTypes'
    <3>1. shownState' \in [Players -> MainState]
      BY <1>1, <1>3, <1>5
    <3> QED BY <1>1, <1>2, <3>1 DEF Types, SceneTypes, AtHead, roomVars
  <2> QED BY <1>1, <1>2, <2>1, HandledTypes DEF AtHead, Types
<1>9. SlotsShown' /\ Overtakers' /\ SlotsFilled'
  BY <1>1, <1>2, <1>4, <1>7, SameSlots
<1>10. NoTwins'
  BY <1>1, <1>2 DEF IInv, NoTwins
<1> QED BY <1>2, <1>7, <1>8, <1>9, <1>10, HandledKeeps

LEMMA NormalSpeedHandled ==
  ASSUME NEW pk, AtHead(pk), Handle_S_PlayerNormalSpeed
  PROVE  IInv'
<1>1. pk.type = "S_PlayerNormalSpeed" /\ clientCrash = "none"
  BY DEF AtHead, Handle_S_PlayerNormalSpeed, Handles, Packet
<1>2. Me \in scene
  BY <1>1, MyPlayerIsThere
<1>3. UNCHANGED <<scene, flagged, shownState, slots, overlapBombs, history, clientCrash>>
  BY <1>2 DEF Handle_S_PlayerNormalSpeed, ClientLives
<1>4. member[Me] = "in" /\ Types /\ pk \in Packets /\ IInv
  BY HeadFacts DEF AtHead
<1>5. \A x : ~Adds(pk, x) /\ ~Removes(pk, x) /\ ~Tells(pk, x)
  BY <1>1 DEF Adds, Removes, Tells
<1>6. Handled(pk)
  BY <1>1, <1>3, <1>4, <1>5 DEF Handled, AtHead
<1>7. Types'
  <2>1. SceneTypes'
    BY <1>3, <1>4 DEF Types, SceneTypes, AtHead, roomVars
  <2> QED BY <1>3, <1>4, <2>1, HandledTypes DEF AtHead, Types
<1>8. SlotsShown' /\ Overtakers' /\ SlotsFilled'
  BY <1>3, <1>4, <1>5, <1>6, SameSlots
<1>9. NoTwins'
  BY <1>3, <1>4 DEF IInv, NoTwins
<1> QED BY <1>4, <1>6, <1>7, <1>8, <1>9, HandledKeeps

\* The snapshot has at most one object per tile.
LEMMA OnePerTile ==
  ASSUME NEW pk, AtHead(pk), pk.type = "S_Tilemap"
  PROVE  /\ pk.infos \subseteq Id /\ scene \cap Id = {}
         /\ \A i, j \in pk.infos : Home(i) = Home(j) => i = j
<1>1. /\ Link /\ Types /\ pk \in Packets /\ pk = inbox[1] /\ Len(inbox) \in Nat /\ Len(inbox) >= 1
      /\ \A x : (AddedAt(1, x) <=> Adds(pk, x)) /\ (RemovedAt(1, x) <=> Removes(pk, x))
      /\ \A x : RemovedAt(0, x) <=> x \in flagged
      /\ 1 \in Places
  BY HeadFacts
<1>2. pk.infos \subseteq Id
  BY <1>1, PacketFields
<1>3. scene \cap Id = {}
  <2>1. 1 \in 1 .. Len(inbox)
    BY <1>1
  <2> QED BY <1>1, <2>1 DEF Link, MapFirst
<1>4. ASSUME NEW i \in pk.infos, NEW j \in pk.infos, Home(i) = Home(j), i[2] < j[2]
      PROVE  FALSE
  <2>1. AddedAt(1, i) /\ AddedAt(1, j) /\ i \in Id /\ j \in Id
    BY <1>1, <1>2 DEF Adds
  <2>2. PICK k \in Places : k <= 1 /\ RemovedAt(k, i)
    BY <1>1, <1>4, <2>1 DEF Link, Succession
  <2>3. k = 0 \/ k = 1
    BY <2>2, <1>1 DEF Places
  <2>4. ~Removes(pk, i)
    BY DEF Removes
  <2>5. i \notin flagged
    BY <1>1, <1>3, <2>1 DEF Types, SceneTypes
  <2> QED BY <1>1, <2>2, <2>3, <2>4, <2>5
<1>5. ASSUME NEW i \in pk.infos, NEW j \in pk.infos, Home(i) = Home(j)
      PROVE  i = j
  <2>1. /\ i \in Id /\ j \in Id /\ i = <<Home(i), i[2]>> /\ j = <<Home(j), j[2]>>
        /\ i[2] \in Nat /\ j[2] \in Nat
    BY <1>1, <1>2, ObjectFacts
  <2>2. ~ (i[2] < j[2]) /\ ~ (j[2] < i[2])
    BY <1>4, <1>5
  <2>3. i[2] = j[2]
    BY <2>1, <2>2
  <2> QED BY <1>5, <2>1, <2>3
<1> QED BY <1>2, <1>3, <1>5

LEMMA TilemapHandled ==
  ASSUME NEW pk, AtHead(pk), Handle_S_Tilemap
  PROVE  IInv'
<1>1. /\ pk.type = "S_Tilemap" /\ clientCrash = "none"
      /\ slots' = [t \in Tiles |-> IF \E i \in pk.infos : Home(i) = t
                                   THEN CHOOSE i \in pk.infos : Home(i) = t
                                   ELSE Null]
      /\ scene' = scene \cup pk.infos
      /\ UNCHANGED <<flagged, shownState, overlapBombs, history, clientCrash>>
  BY DEF AtHead, Handle_S_Tilemap, Handles, Packet, ClientLives
<1>2. /\ pk.infos \subseteq Id /\ scene \cap Id = {}
      /\ \A i, j \in pk.infos : Home(i) = Home(j) => i = j
  BY <1>1, OnePerTile
<1>3. member[Me] = "in" /\ Types /\ pk \in Packets /\ IInv /\ Link
  BY HeadFacts DEF AtHead
<1>4. \A x : (Adds(pk, x) <=> x \in pk.infos) /\ ~Removes(pk, x) /\ ~Tells(pk, x)
  BY <1>1 DEF Adds, Removes, Tells
<1>5. \A i \in Id : Home(i) \in Tiles
  BY DEF Id, Home
<1>6. \A t \in Tiles : \/ slots'[t] = Null
                       \/ slots'[t] \in pk.infos /\ Home(slots'[t]) = t
  BY <1>1
<1>7. \A i \in pk.infos : slots'[Home(i)] = i
  <2> SUFFICES ASSUME NEW i \in pk.infos
               PROVE  slots'[Home(i)] = i
    OBVIOUS
  <2>1. Home(i) \in Tiles
    BY <1>2, <1>5
  <2>2. slots'[Home(i)] = CHOOSE j \in pk.infos : Home(j) = Home(i)
    BY <1>1, <2>1
  <2>3. slots'[Home(i)] \in pk.infos /\ Home(slots'[Home(i)]) = Home(i)
    BY <2>2
  <2> QED BY <1>2, <2>3
<1>8. DOMAIN slots' = Tiles
  BY <1>1
<1>9. Handled(pk)
  <2>1. \A p \in Players : shownState'[p] = IF Tells(pk, p) THEN Told(pk, p) ELSE shownState[p]
    BY <1>1, <1>4
  <2>2. \A x : x \in scene' <=> x \in scene \/ Adds(pk, x)
    BY <1>1, <1>4
  <2>3. \A x : x \in flagged' <=> x \in flagged \/ (x \in scene /\ Removes(pk, x))
    BY <1>1, <1>4
  <2> QED BY <1>1, <1>3, <1>8, <2>1, <2>2, <2>3 DEF Handled, AtHead
<1>10. Types'
  <2>1. SceneTypes'
    <3>1. \A t \in Tiles : slots'[t] \in Id \cup {Null}
      BY <1>2, <1>6
    <3>2. scene' \subseteq Id \cup Players /\ flagged' \subseteq scene'
      BY <1>1, <1>2, <1>3 DEF Types, SceneTypes
    <3> QED BY <1>1, <1>3, <1>8, <3>1, <3>2 DEF Types, SceneTypes, AtHead, roomVars
  <2> QED BY <1>1, <1>3, <2>1, HandledTypes DEF AtHead, Types
<1>11. SlotsShown'
  BY <1>1, <1>6, <1>8 DEF SlotsShown
<1>12. \A i \in scene' \cap Id : i \in pk.infos
  BY <1>1, <1>2
<1>13. Overtakers'
  <2> SUFFICES ASSUME NEW i \in scene' \cap Id, NEW j \in scene' \cap Id, Home(i) = Home(j), i[2] < j[2]
               PROVE  FALSE
    BY DEF Overtakers
  <2>1. i = j
    BY <1>2, <1>12
  <2>2. i[2] \in Int
    BY MirrorAssumption DEF Id
  <2> QED BY <2>1, <2>2
<1>14. SlotsFilled'
  BY <1>7, <1>12 DEF SlotsFilled
<1>15. NoTwins'
  BY <1>1, <1>3 DEF IInv, NoTwins
<1> QED BY <1>3, <1>9, <1>10, <1>11, <1>13, <1>14, <1>15, HandledKeeps

\* A new bomb is the newest object that is shown on its tile, and what lies
\* there below it has been flagged.
LEMMA BombOnTop ==
  ASSUME NEW pk, AtHead(pk), pk.type = "S_WaterBomb", NEW i \in scene \cap Id, Home(i) = Home(pk.id)
  PROVE  i[2] < pk.id[2] /\ i \in flagged
<1>1. /\ Link /\ Types /\ pk \in Packets /\ pk = inbox[1] /\ Len(inbox) \in Nat /\ Len(inbox) >= 1
      /\ \A x : (AddedAt(1, x) <=> Adds(pk, x)) /\ (RemovedAt(1, x) <=> Removes(pk, x))
      /\ \A x : (AddedAt(0, x) <=> x \in scene) /\ (RemovedAt(0, x) <=> x \in flagged)
      /\ 0 \in Places /\ 1 \in Places
  BY HeadFacts
<1>2. PICK j : j = pk.id
  OBVIOUS
<1>3. j \in Id /\ AddedAt(1, j) /\ AddedAt(0, i) /\ Home(i) = Home(j)
  BY <1>1, <1>2, PacketFields DEF Adds
<1>4. i # j
  <2>1. Adds(pk, j)
    BY <1>2 DEF Adds
  <2> QED BY <2>1, AddsNew
<1>5. /\ i = <<Home(i), i[2]>> /\ j = <<Home(j), j[2]>> /\ i[2] \in Nat /\ j[2] \in Nat
  BY <1>1, <1>3, ObjectFacts
<1>6. ~ (j[2] < i[2])
  <2> SUFFICES ASSUME j[2] < i[2]
               PROVE  FALSE
    OBVIOUS
  <2>1. PICK k \in Places : k <= 0 /\ RemovedAt(k, j)
    BY <1>1, <1>3 DEF Link, Succession
  <2>2. k = 0
    BY <2>1, <1>1 DEF Places
  <2>3. j \in flagged
    BY <2>1, <2>2, <1>1
  <2>4. j \in scene
    BY <2>3, <1>1 DEF Types, SceneTypes
  <2>5. Adds(pk, j)
    BY <1>2 DEF Adds
  <2> QED BY <2>4, <2>5, AddsNew
<1>7. i[2] < j[2]
  BY <1>3, <1>4, <1>5, <1>6
<1>8. i \in flagged
  <2>1. PICK k \in Places : k <= 1 /\ RemovedAt(k, i)
    BY <1>1, <1>3, <1>7 DEF Link, Succession
  <2>2. k = 0 \/ k = 1
    BY <2>1, <1>1 DEF Places
  <2>3. ~Removes(pk, i)
    BY DEF Removes
  <2> QED BY <2>1, <2>2, <2>3, <1>1
<1> QED BY <1>2, <1>7, <1>8

LEMMA WaterBombHandled ==
  ASSUME NEW pk, AtHead(pk), Handle_S_WaterBomb
  PROVE  IInv'
<1>1. pk.type = "S_WaterBomb" /\ clientCrash = "none"
  BY DEF AtHead, Handle_S_WaterBomb, Handles, Packet
<1>2. /\ member[Me] = "in" /\ Types /\ pk \in Packets /\ IInv /\ Link
      /\ history \in HistoryType /\ flagged \subseteq scene
  BY HeadFacts DEF AtHead, Types, SceneTypes
<1>3. PICK j : j = pk.id
  OBVIOUS
<1>4. j \in Id /\ Home(j) \in Tiles
  <2>1. j \in Id
    BY <1>1, <1>2, <1>3, PacketFields
  <2> QED BY <2>1 DEF Id, Home
<1>5. DOMAIN slots = Tiles /\ Me \in scene
  BY <1>1, MapIsThere, MyPlayerIsThere
<1>6. /\ scene' = scene \cup {j}
      /\ slots' = [slots EXCEPT ![Home(j)] = j]
      /\ overlapBombs' \subseteq overlapBombs \cup {j}
      /\ history' = [history EXCEPT !.overtaken =
                       IF \E i \in scene \cap Id : Home(i) = Home(j)
                       THEN @ \cup {j} ELSE @]
      /\ UNCHANGED <<flagged, shownState, clientCrash>>
  <2>1. Home(pk.id) \in DOMAIN slots
    BY <1>3, <1>4, <1>5
  <2>2. /\ scene' = scene \cup {pk.id}
        /\ slots' = [slots EXCEPT ![Home(pk.id)] = pk.id]
        /\ \E touches \in BOOLEAN :
              overlapBombs' = IF touches THEN overlapBombs \cup {pk.id} ELSE overlapBombs
        /\ history' = [history EXCEPT !.overtaken =
                         IF \E i \in scene \cap Id : Home(i) = Home(pk.id)
                         THEN @ \cup {pk.id} ELSE @]
        /\ UNCHANGED <<flagged, shownState, clientCrash>>
    BY <2>1, <1>5 DEF AtHead, Handle_S_WaterBomb, Packet, ClientLives
  <2> QED BY <1>3, <2>2
<1>7. /\ history' \in HistoryType /\ history'.ghosts = history.ghosts /\ history'.listed = history.listed
      /\ history'.relisted = history.relisted /\ history'.twins = history.twins
      /\ history'.missing = history.missing
      /\ history.overtaken \subseteq history'.overtaken
      /\ \A i \in scene \cap Id : Home(i) = Home(j) => j \in history'.overtaken
  <2>1. PICK o \in SUBSET Id :
           /\ o = IF \E i \in scene \cap Id : Home(i) = Home(j)
                  THEN history.overtaken \cup {j} ELSE history.overtaken
    BY <1>2, <1>4 DEF HistoryType
  <2>2. history' = [history EXCEPT !.overtaken = o]
    BY <1>6, <2>1
  <2> QED BY <1>2, <2>1, <2>2 DEF HistoryType
<1>8. \A x : (Adds(pk, x) <=> x = j) /\ ~Removes(pk, x) /\ ~Tells(pk, x)
  BY <1>1, <1>3 DEF Adds, Removes, Tells
<1>9. /\ DOMAIN slots' = Tiles /\ slots'[Home(j)] = j
      /\ \A t \in Tiles : t # Home(j) => slots'[t] = slots[t]
  BY <1>4, <1>5, <1>6
<1>10. Handled(pk)
  <2>1. \A p \in Players : shownState'[p] = IF Tells(pk, p) THEN Told(pk, p) ELSE shownState[p]
    BY <1>6, <1>8
  <2>2. \A x : x \in scene' <=> x \in scene \/ Adds(pk, x)
    BY <1>6, <1>8
  <2>3. \A x : x \in flagged' <=> x \in flagged \/ (x \in scene /\ Removes(pk, x))
    BY <1>6, <1>8
  <2> QED BY <1>1, <1>2, <1>5, <1>6, <1>7, <1>9, <2>1, <2>2, <2>3 DEF Handled, AtHead
<1>11. Types'
  <2>1. SceneTypes'
    <3>1. \A t \in Tiles : slots'[t] \in Id \cup {Null}
      BY <1>2, <1>4, <1>5, <1>9 DEF Types, SceneTypes
    <3>2. scene' \subseteq Id \cup Players /\ flagged' \subseteq scene' /\ overlapBombs' \subseteq Id
      BY <1>2, <1>4, <1>6 DEF Types, SceneTypes
    <3> QED BY <1>2, <1>6, <1>9, <3>1, <3>2 DEF Types, SceneTypes, AtHead, roomVars
  <2> QED BY <1>2, <1>7, <2>1, HandledTypes DEF AtHead
<1>12. SlotsShown'
  BY <1>2, <1>5, <1>6, <1>9 DEF IInv, SlotsShown
<1>13. \A i \in scene \cap Id : Home(i) = Home(j) => i[2] < j[2] /\ i \in flagged
  BY <1>1, <1>3, BombOnTop
<1>14. Overtakers'
  <2> SUFFICES ASSUME NEW i \in scene' \cap Id, NEW k \in scene' \cap Id, Home(i) = Home(k), i[2] < k[2]
               PROVE  k \in history'.overtaken
    BY DEF Overtakers
  <2>1. i[2] \in Int /\ k[2] \in Int
    BY MirrorAssumption DEF Id
  <2>2. CASE i \in scene /\ k \in scene
    BY <2>2, <1>2, <1>7 DEF Link, Overtakers
  <2>3. CASE i \in scene /\ k = j
    BY <2>3, <1>7
  <2>4. CASE i = j
    BY <2>1, <2>4, <1>6, <1>13
  <2> QED BY <2>2, <2>3, <2>4, <1>6
<1>15. SlotsFilled'
  <2> SUFFICES ASSUME NEW i \in (scene' \cap Id) \ flagged
               PROVE  slots'[Home(i)] = i \/ i \in history'.overtaken
    BY <1>6 DEF SlotsFilled
  <2>1. CASE i = j
    BY <2>1, <1>9
  <2>2. CASE i \in scene
    <3>1. Home(i) # Home(j) /\ Home(i) \in Tiles
      <4>1. Home(i) \in Tiles
        BY DEF Home, Id
      <4> QED BY <2>2, <4>1, <1>13
    <3>2. slots[Home(i)] = i \/ i \in history.overtaken
      BY <2>2, <1>2 DEF Link, SlotsFilled
    <3> QED BY <3>1, <3>2, <1>7, <1>9
  <2> QED BY <2>1, <2>2, <1>6
<1>16. NoTwins'
  BY <1>2, <1>7 DEF IInv, NoTwins
<1> QED BY <1>2, <1>10, <1>11, <1>12, <1>14, <1>15, <1>16, HandledKeeps

LEMMA HandleKeeps ==
  ASSUME IInv, Handle
  PROVE  IInv'
<1>1. PICK pk : pk = Head(inbox)
  OBVIOUS
<1>2. AtHead(pk)
  BY <1>1 DEF AtHead, Handle, Handle_S_Tilemap, Handle_S_MyPlayer, Handle_S_OtherPlayers,
        Handle_S_PlayerLeave, Handle_S_MainState, Handle_S_WaterBomb, Handle_S_Explode,
        Handle_S_RemoveItem, Handle_S_PlayerNormalSpeed, Handles
<1> QED BY <1>2, TilemapHandled, MyPlayerHandled, OtherPlayersHandled, PlayerLeaveHandled,
      MainStateHandled, WaterBombHandled, ExplodeHandled, RemoveItemHandled, NormalSpeedHandled DEF Handle

-----------------------------------------------------------------------------
(* The end of a frame *)

\* what a frame does that does not end in a crash
Framed ==
    /\ IInv /\ clientCrash = "none" /\ member[Me] = "in"
    /\ RemoveDeadObjects
    /\ UNCHANGED <<roomVars, inbox, shownState, clientCrash, history>>

LEMMA FramePlaces ==
  ASSUME Framed
  PROVE  /\ Link /\ Types /\ Places' = Places /\ 0 \in Places
         /\ \A n \in Places : \A x : AddedAt(n, x)' <=> AddedAt(n, x) /\ (n = 0 => ~RemovedAt(0, x))
         /\ \A n \in Places : \A x : RemovedAt(n, x)' <=> RemovedAt(n, x) /\ n # 0
         /\ \A x : RemovedAt(0, x) => AddedAt(0, x)
         /\ \A x : (AddedAt(0, x) <=> x \in scene) /\ (RemovedAt(0, x) <=> x \in flagged)
<1>1. Link /\ Types
  BY DEF Framed, IInv, Linked
<1>2. scene' = scene \ flagged /\ flagged' = {} /\ inbox' = inbox
  BY DEF Framed, RemoveDeadObjects
<1>3. Places' = Places
  BY <1>2 DEF Places
<1>4. 0 \in Places
  BY <1>1, LenProperties DEF Places, Types
<1>5. \A n \in Places : \A x : AddedAt(n, x)' <=> AddedAt(n, x) /\ (n = 0 => ~RemovedAt(0, x))
  BY <1>2 DEF AddedAt, RemovedAt
<1>6. \A n \in Places : \A x : RemovedAt(n, x)' <=> RemovedAt(n, x) /\ n # 0
  BY <1>2 DEF RemovedAt
<1>7. flagged \subseteq scene
  BY <1>1 DEF Types, SceneTypes
<1>8. \A x : (AddedAt(0, x) <=> x \in scene) /\ (RemovedAt(0, x) <=> x \in flagged)
  BY DEF AddedAt, RemovedAt
<1> QED BY <1>1, <1>3, <1>4, <1>5, <1>6, <1>7, <1>8

LEMMA FrameLink ==
  ASSUME Framed
  PROVE  /\ Fresh' /\ Outsiders' /\ Once' /\ Order' /\ AddedFirst'
         /\ ObjectsAgree' /\ PlayersAgree' /\ Ghosts' /\ StatesAgree'
         /\ Succession' /\ MyPlayerFirst' /\ BlocksThere'
<1>1. Link /\ Types /\ Places' = Places /\ 0 \in Places
  BY FramePlaces
<1>2. \A n \in Places : \A x : AddedAt(n, x)' <=> AddedAt(n, x) /\ (n = 0 => ~RemovedAt(0, x))
  BY FramePlaces
<1>3. \A n \in Places : \A x : RemovedAt(n, x)' <=> RemovedAt(n, x) /\ n # 0
  BY FramePlaces
<1>4. \A x : RemovedAt(0, x) => AddedAt(0, x)
  BY FramePlaces
<1>5. UNCHANGED <<member, mainState, mapObj, isDead, layer, inbox, shownState, history>>
  BY DEF Framed, roomVars, feedVars
<1>6. Fresh'
  BY <1>1, <1>2, <1>3, <1>5 DEF Link, Fresh
<1>7. Outsiders'
  <2> SUFFICES ASSUME NEW p \in Players, member[p] = "out", NEW n \in Places
               PROVE  ~AddedAt(n, p)' /\ ~RemovedAt(n, p)' /\ (n # 0 => ~Tells(inbox[n], p))
    BY <1>1, <1>5 DEF Outsiders
  <2>1. ~AddedAt(n, p) /\ ~RemovedAt(n, p) /\ (n # 0 => ~Tells(inbox[n], p))
    BY <1>1 DEF Link, Outsiders
  <2> QED BY <2>1, <1>2, <1>3
<1>8. Once'
  <2> SUFFICES ASSUME NEW n \in Places, NEW m \in Places, NEW x \in Thing, AddedAt(n, x)', AddedAt(m, x)'
               PROVE  n = m
    BY <1>1 DEF Once
  <2> QED BY <1>1, <1>2 DEF Link, Once
<1>9. Order'
  <2> SUFFICES ASSUME NEW n \in Places, NEW m \in Places, NEW x \in Thing, AddedAt(n, x)', RemovedAt(m, x)'
               PROVE  n <= m
    BY <1>1 DEF Order
  <2> QED BY <1>1, <1>2, <1>3 DEF Link, Order
<1>10. AddedFirst' /\ Ghosts' /\ StatesAgree'
  BY <1>1, <1>5 DEF Link, AddedFirst, Ghosts, StatesAgree
\* A thing that is flagged is in the scene, and so comes in no packet.
<1>11. ASSUME NEW n \in Places, NEW x \in Thing, AddedAt(n, x)'
       PROVE  ~RemovedAt(0, x)
  <2> SUFFICES ASSUME RemovedAt(0, x)
               PROVE  FALSE
    OBVIOUS
  <2>1. AddedAt(0, x) /\ AddedAt(n, x)
    BY <1>2, <1>4, <1>11
  <2>2. n = 0
    BY <2>1, <1>1 DEF Link, Once
  <2> QED BY <2>2, <1>2, <1>11
<1>12. \A x \in Thing : Stays(x)' <=> Stays(x)
  <2> SUFFICES ASSUME NEW x \in Thing
               PROVE  Stays(x)' <=> Stays(x)
    OBVIOUS
  <2>1. ASSUME Stays(x)
        PROVE  Stays(x)'
    <3>1. (\E n \in Places : AddedAt(n, x)) /\ (\A n \in Places : ~RemovedAt(n, x))
      BY <2>1 DEF Stays
    <3>2. (\E n \in Places : AddedAt(n, x)') /\ (\A n \in Places : ~RemovedAt(n, x)')
      BY <3>1, <1>1, <1>2, <1>3
    <3> QED BY <3>2, <1>1 DEF Stays
  <2>2. ASSUME Stays(x)'
        PROVE  Stays(x)
    <3>1. (\E n \in Places : AddedAt(n, x)') /\ (\A n \in Places : ~RemovedAt(n, x)')
      BY <2>2, <1>1 DEF Stays
    <3>2. ~RemovedAt(0, x) /\ \E n \in Places : AddedAt(n, x)
      BY <3>1, <1>2, <1>11
    <3>3. \A n \in Places : ~RemovedAt(n, x)
      BY <3>1, <3>2, <1>3
    <3> QED BY <3>2, <3>3 DEF Stays
  <2> QED BY <2>1, <2>2
<1>13. ObjectsAgree' /\ PlayersAgree'
  <2>1. OnMap' = OnMap
    BY <1>5, SameMap
  <2>2. ObjectsAgree'
    <3> SUFFICES ASSUME NEW i \in Id
                 PROVE  Stays(i)' <=> i \in OnMap' /\ Home(i) \notin isDead'
      BY DEF ObjectsAgree
    <3>1. Stays(i)' <=> Stays(i)
      BY <1>12 DEF Thing
    <3>2. Stays(i) <=> i \in OnMap /\ Home(i) \notin isDead
      BY <1>1 DEF Link, ObjectsAgree
    <3> QED BY <3>1, <3>2, <2>1, <1>5
  <2>3. PlayersAgree'
    <3> SUFFICES ASSUME NEW p \in Players
                 PROVE  Stays(p)' <=> member'[p] = "in" \/ p \in history'.ghosts
      BY DEF PlayersAgree
    <3>1. Stays(p)' <=> Stays(p)
      BY <1>12 DEF Thing
    <3>2. Stays(p) <=> member[p] = "in" \/ p \in history.ghosts
      BY <1>1 DEF Link, PlayersAgree
    <3> QED BY <3>1, <3>2, <1>5
  <2> QED BY <2>2, <2>3
<1>14. Succession'
  <2> SUFFICES ASSUME NEW n \in Places, NEW m \in Places, NEW i \in Id, NEW j \in Id,
                      AddedAt(n, i)', AddedAt(m, j)', Home(i) = Home(j), i[2] < j[2]
               PROVE  \E k \in Places : k <= m /\ RemovedAt(k, i)'
    BY <1>1 DEF Succession
  <2>1. PICK k \in Places : k <= m /\ RemovedAt(k, i)
    BY <1>1, <1>2 DEF Link, Succession
  <2>2. k # 0
    BY <2>1, <1>11 DEF Thing
  <2> QED BY <2>1, <2>2, <1>3
<1>15. MyPlayerFirst'
  <2>1. CASE Me \in scene
    <3>1. Stays(Me)
      BY <1>1, MirrorAssumption DEF Link, PlayersAgree, Framed
    <3>2. ~RemovedAt(0, Me)
      BY <3>1, <1>1 DEF Stays
    <3>3. Me \in scene'
      BY <2>1, <3>2 DEF RemovedAt, Framed, RemoveDeadObjects
    <3> QED BY <3>3 DEF MyPlayerFirst
  <2>2. CASE inbox # <<>> /\ inbox[1].type = "S_MyPlayer"
    BY <2>2, <1>5 DEF MyPlayerFirst
  <2> QED BY <2>1, <2>2, <1>1 DEF Link, MyPlayerFirst
<1>16. BlocksThere'
  <2> SUFFICES ASSUME NEW n \in 1 .. Len(inbox), inbox[n].type = "S_Explode",
                      NEW b \in inbox[n].blocks \ history.relisted
               PROVE  /\ \E m \in Places : AddedAt(m, b)'
                      /\ \A m \in Places : m < n => ~RemovedAt(m, b)'
    BY <1>1, <1>5 DEF BlocksThere
  <2>1. (\E m \in Places : AddedAt(m, b)) /\ \A m \in Places : m < n => ~RemovedAt(m, b)
    BY <1>1 DEF Link, BlocksThere
  <2>2. ~RemovedAt(0, b)
    BY <2>1, <1>1
  <2> QED BY <2>1, <2>2, <1>2, <1>3
<1> QED BY <1>6, <1>7, <1>8, <1>9, <1>10, <1>13, <1>14, <1>15, <1>16

\* The slots that are cleared are those of what has gone.
LEMMA FrameSlots ==
  ASSUME Framed
  PROVE  SlotsShown' /\ Overtakers' /\ SlotsFilled' /\ MapFirst' /\ DOMAIN slots' = DOMAIN slots
<1>1. Link /\ Types /\ SlotsShown /\ 0 \in Places
  BY FramePlaces DEF Framed, IInv
<1>2. \A x : (AddedAt(0, x) <=> x \in scene) /\ (RemovedAt(0, x) <=> x \in flagged)
  BY FramePlaces
<1>3. /\ scene' = scene \ flagged /\ flagged' = {} /\ inbox' = inbox /\ history' = history
      /\ slots' = [t \in DOMAIN slots |-> IF t \in Cleared THEN Null ELSE slots[t]]
  BY DEF Framed, RemoveDeadObjects
<1>4. DOMAIN slots' = DOMAIN slots
  BY <1>3
<1>5. flagged \subseteq scene /\ \A t \in DOMAIN slots : slots[t] \in Id \cup {Null}
  BY <1>1 DEF Types, SceneTypes
<1>6. SlotsShown'
  <2> SUFFICES ASSUME NEW t \in DOMAIN slots, slots'[t] # Null
               PROVE  slots'[t] \in scene' /\ Home(slots'[t]) = t
    BY <1>4 DEF SlotsShown, Home
  <2>1. t \notin Cleared /\ slots'[t] = slots[t]
    BY <1>3
  <2>2. slots[t] \in scene /\ Home(slots[t]) = t /\ slots[t] \in Id
    BY <2>1, <1>1, <1>5 DEF SlotsShown
  <2>3. slots[t] \notin flagged
    BY <2>1, <2>2 DEF Cleared
  <2> QED BY <2>1, <2>2, <2>3, <1>3
<1>7. Overtakers'
  BY <1>1, <1>3 DEF Link, Overtakers
<1>8. MapFirst'
  BY <1>1, <1>3, <1>4 DEF Link, MapFirst
<1>9. SlotsFilled'
  <2> SUFFICES ASSUME NEW i \in (scene \ flagged) \cap Id
               PROVE  slots'[Home(i)] = i \/ i \in history.overtaken
    BY <1>3 DEF SlotsFilled
  <2>1. slots[Home(i)] = i \/ i \in history.overtaken
    BY <1>1 DEF Link, SlotsFilled
  <2>2. Home(i) \in DOMAIN slots
    <3>1. scene \cap Id # {}
      OBVIOUS
    <3>2. DOMAIN slots = Tiles
      BY <3>1, <1>1 DEF Link, MapFirst
    <3> QED BY <3>2 DEF Home, Id
  <2>3. ASSUME Home(i) \in Cleared
        PROVE  i \in history.overtaken
    <3>1. PICK j \in flagged \cap Id : Home(j) = Home(i)
      BY <2>3 DEF Cleared
    <3>2. /\ i = <<Home(i), i[2]>> /\ j = <<Home(j), j[2]>> /\ i[2] \in Nat /\ j[2] \in Nat
      BY <1>1, ObjectFacts
    <3>3. i # j /\ i \in scene /\ j \in scene
      BY <3>1, <1>5
    <3>4. i[2] # j[2]
      BY <3>1, <3>2, <3>3
    <3>5. CASE j[2] < i[2]
      BY <3>1, <3>3, <3>5, <1>1 DEF Link, Overtakers
    <3>6. CASE i[2] < j[2]
      <4>1. PICK k \in Places : k <= 0 /\ RemovedAt(k, i)
        BY <3>1, <3>3, <3>6, <1>1, <1>2 DEF Link, Succession
      <4>2. k = 0
        BY <4>1, <1>1, LenProperties DEF Places, Types
      <4> QED BY <4>1, <4>2, <1>2
    <3> QED BY <3>2, <3>4, <3>5, <3>6
  <2> QED BY <2>1, <2>2, <2>3, <1>3
<1> QED BY <1>4, <1>6, <1>7, <1>8, <1>9

LEMMA FrameKeeps ==
  ASSUME IInv, Frame
  PROVE  IInv'
<1>1. member[Me] = "in" /\ clientCrash = "none" /\ Types
  <2>1. clientCrash = "none" /\ (flagged # {} \/ scene # {})
    BY DEF Frame, FrameAtRest, FrameWalking
  <2> QED BY <2>1 DEF IInv, BeforeEntry
<1>2. UNCHANGED <<roomVars, inbox, history, shownState>>
  BY DEF Frame, FrameAtRest, FrameWalking, ClientDies, sceneVars
<1>3. CASE RemoveDeadObjects /\ UNCHANGED clientCrash
  <2>1. Framed
    BY <1>1, <1>2, <1>3 DEF Framed
  <2>2. Link' /\ SlotsShown' /\ DOMAIN slots' = DOMAIN slots
    BY <2>1, FrameLink, FrameSlots DEF Link
  <2>3. overlapBombs' \subseteq overlapBombs
    BY DEF Frame, FrameAtRest, FrameWalking, ClientDies, sceneVars
  <2>4. SceneTypes'
    <3>1. \A t \in DOMAIN slots' : slots'[t] \in Id \cup {Null}
      BY <1>1, <1>3 DEF Types, SceneTypes, RemoveDeadObjects
    <3>2. scene' \subseteq Id \cup Players /\ flagged' \subseteq scene'
      BY <1>1, <1>3 DEF Types, SceneTypes, RemoveDeadObjects
    <3> QED BY <1>1, <1>2, <1>3, <2>2, <2>3, <3>1, <3>2 DEF Types, SceneTypes, roomVars
  <2>5. Types'
    BY <1>1, <1>2, <2>4 DEF Types, FeedTypes, roomVars, feedVars
  <2>6. BrokenListed' /\ BeforeEntry' /\ NoTwins' /\ CrashesAreKnown'
    BY <1>1, <1>2, <1>3 DEF IInv, BrokenListed, BeforeEntry, NoTwins, CrashesAreKnown, roomVars, feedVars
  <2> QED BY <2>2, <2>5, <2>6 DEF IInv
<1>4. CASE ClientDies("dangling")
  <2>1. clientCrash' = "dangling" /\ UNCHANGED sceneVars
    BY <1>4 DEF ClientDies
  <2>2. Types'
    BY <1>1, <1>2, <2>1 DEF Types, SceneTypes, FeedTypes, Causes, roomVars, feedVars, sceneVars
  <2>3. BrokenListed' /\ BeforeEntry' /\ NoTwins' /\ CrashesAreKnown' /\ SlotsShown' /\ ~Linked'
    BY <1>1, <1>2, <2>1 DEF IInv, BrokenListed, BeforeEntry, NoTwins, CrashesAreKnown, SlotsShown,
                            Linked, roomVars, feedVars, sceneVars
  <2> QED BY <2>2, <2>3 DEF IInv
<1> QED BY <1>3, <1>4 DEF Frame, FrameAtRest, FrameWalking
-----------------------------------------------------------------------------
(* All steps together *)

LEMMA MirrorInitKeeps == MirrorInit => IInv
<1> SUFFICES ASSUME MirrorInit
             PROVE  IInv
  OBVIOUS
<1>1. FeedTypes
  BY RoomFeedAssumption, MirrorAssumption DEF MirrorInit, Init, FeedTypes, Membership, MainState, MapType
<1>2. SceneTypes
  BY MirrorAssumption DEF MirrorInit, SceneTypes, MainState, Causes
<1>3. inbox \in Seq(Packets) /\ history \in HistoryType
  BY DEF MirrorInit, HistoryType
<1>4. member[Me] = "out" /\ isDead = {}
  BY MirrorAssumption DEF MirrorInit, Init
<1> QED BY <1>1, <1>2, <1>3, <1>4
    DEF IInv, Types, BrokenListed, BeforeEntry, SlotsShown, NoTwins, CrashesAreKnown, Linked, MirrorInit

LEMMA MirrorNextKeeps == IInv /\ rollers \in Nat \ {0} /\ [MirrorNext]_vars => IInv'
<1> SUFFICES ASSUME IInv, rollers \in Nat \ {0}, [MirrorNext]_vars
             PROVE  IInv'
  OBVIOUS
<1>1. CASE RoomStep
  BY <1>1, RoomTells
<1>2. CASE PlantStep
  BY <1>2, PlantTells
<1>3. CASE Handle
  BY <1>3, HandleKeeps
<1>4. CASE Frame
  BY <1>4, FrameKeeps
<1>5. CASE UNCHANGED vars
  <2>1. UNCHANGED <<member, mainState, mapObj, isDead, phase, layer, inbox, scene, flagged, shownState,
                    slots, overlapBombs, clientCrash, history>>
    BY <1>5 DEF vars, roomVars, feedVars, mirrorVars, sceneVars
  <2>2. Types' /\ BrokenListed' /\ BeforeEntry' /\ SlotsShown' /\ NoTwins' /\ CrashesAreKnown'
    BY <2>1 DEF IInv, Types, SceneTypes, FeedTypes, BrokenListed, BeforeEntry, SlotsShown, NoTwins, CrashesAreKnown
  <2>3. Places' = Places
    BY <2>1 DEF Places
  <2>4. /\ \A n, x : AddedAt(n, x)' <=> AddedAt(n, x)
        /\ \A n, x : RemovedAt(n, x)' <=> RemovedAt(n, x)
        /\ \A x : Stays(x)' <=> Stays(x)
    BY <2>1, <2>3 DEF AddedAt, RemovedAt, Stays
  <2>5. OnMap' = OnMap /\ (Linked' <=> Linked)
    BY <2>1 DEF OnMap, ObjectAt, Linked
  <2>6. ASSUME Link
        PROVE  Link'
    <3>1. Fresh' /\ Outsiders' /\ Once' /\ Order'
      BY <2>1, <2>3, <2>4, <2>6 DEF Link, Fresh, Outsiders, Once, Order
    <3>2. ObjectsAgree' /\ PlayersAgree' /\ Ghosts' /\ StatesAgree' /\ AddedFirst'
      BY <2>1, <2>4, <2>5, <2>6 DEF Link, ObjectsAgree, PlayersAgree, Ghosts, StatesAgree, AddedFirst
    <3>3. Succession' /\ Overtakers' /\ SlotsFilled' /\ MyPlayerFirst' /\ MapFirst' /\ BlocksThere'
      BY <2>1, <2>3, <2>4, <2>6 DEF Link, Succession, Overtakers, SlotsFilled, MyPlayerFirst, MapFirst, BlocksThere
    <3> QED BY <3>1, <3>2, <3>3 DEF Link
  <2> QED BY <2>2, <2>5, <2>6 DEF IInv
<1> QED BY <1>1, <1>2, <1>3, <1>4, <1>5 DEF MirrorNext

\* When the client has caught up, nothing is on its way and nothing is to go,
\* so that what stays is what the scene holds.
LEMMA CaughtUpShows ==
  ASSUME IInv, CaughtUp
  PROVE  /\ ShowsTheRoom
         /\ \A i \in OnMap : slots[Home(i)] = i \/ i \in history.overtaken
<1>1. /\ Link /\ Types /\ clientCrash = "none" /\ phase = "idle" /\ isDead = {}
      /\ inbox = <<>> /\ flagged = {}
  BY DEF IInv, Linked, CaughtUp, Types, FeedTypes
<1>2. Len(inbox) = 0
  BY <1>1
<1>3. Places = {0}
  BY <1>2 DEF Places
<1>4. \A x : Stays(x) <=> x \in scene
  BY <1>1, <1>3 DEF Stays, AddedAt, RemovedAt
<1>5. OnMap \subseteq Id
  BY <1>1, ObjectFacts DEF OnMap
<1>6. scene \cap Id = OnMap
  BY <1>1, <1>4, <1>5 DEF Link, ObjectsAgree
<1>7. history.ghosts \subseteq Players
  BY <1>1 DEF Types, HistoryType
<1>8. scene \cap Players = {p \in Players : member[p] = "in"} \cup history.ghosts
  BY <1>1, <1>4, <1>7 DEF Link, PlayersAgree
<1>9. \A p \in (scene \cap Players) \ history.ghosts : shownState[p] = mainState[p]
  <2> SUFFICES ASSUME NEW p \in Players, member[p] = "in"
               PROVE  shownState[p] = mainState[p]
    BY <1>8
  <2>1. \A n \in 1 .. Len(inbox) : FALSE
    BY <1>2
  <2> QED BY <2>1, <1>1 DEF Link, StatesAgree
<1>10. \A i \in OnMap : slots[Home(i)] = i \/ i \in history.overtaken
  BY <1>1, <1>6 DEF Link, SlotsFilled
<1> QED BY <1>6, <1>8, <1>9, <1>10 DEF ShowsTheRoom

-----------------------------------------------------------------------------
(* The speed of the client's player *)

IsSpeed(pk) == pk.type = "S_PlayerNormalSpeed"

\* the last packet about the speed holds it
SpeedAgrees ==
    /\ \A n \in 1 .. Len(inbox) :
          IsSpeed(inbox[n]) /\ (\A m \in 1 .. Len(inbox) : m > n => ~IsSpeed(inbox[m]))
             => inbox[n].rollers = rollers
    /\ (\A n \in 1 .. Len(inbox) : ~IsSpeed(inbox[n])) /\ rollers > 1 => speed = rollers

SpeedInv ==
    /\ rollers \in 1 .. MaxRollers
    /\ speed \in 0 .. MaxRollers
    /\ clientCrash = "none" => SpeedAgrees

\* A step of the room keeps it whose last packet about the speed tells the new
\* one, and that has such a packet if there is a new one.
LEMMA SpeedAppended ==
  ASSUME SpeedAgrees, inbox \in Seq(Packets), NEW ps \in Seq(Packets), inbox' = inbox \o ps,
         UNCHANGED speed,
         (\A k \in 1 .. Len(ps) : ~IsSpeed(ps[k])) => rollers' = rollers,
         \A k \in 1 .. Len(ps) :
            IsSpeed(ps[k]) /\ (\A l \in 1 .. Len(ps) : l > k => ~IsSpeed(ps[l])) => ps[k].rollers = rollers'
  PROVE  SpeedAgrees'
<1>1. /\ Len(inbox) \in Nat /\ Len(ps) \in Nat /\ Len(inbox') = Len(inbox) + Len(ps)
      /\ \A n \in 1 .. Len(inbox) : inbox'[n] = inbox[n]
      /\ \A k \in 1 .. Len(ps) : inbox'[Len(inbox) + k] = ps[k]
      /\ \A n \in 1 .. Len(inbox') : n > Len(inbox) => \E k \in 1 .. Len(ps) : n = Len(inbox) + k
  BY Appended
<1>2. /\ \A n \in 1 .. Len(inbox) : n \in 1 .. Len(inbox')
      /\ \A k \in 1 .. Len(ps) : Len(inbox) + k \in 1 .. Len(inbox')
  BY <1>1
<1>3. ASSUME NEW n \in 1 .. Len(inbox'), IsSpeed(inbox'[n]),
             \A m \in 1 .. Len(inbox') : m > n => ~IsSpeed(inbox'[m])
      PROVE  inbox'[n].rollers = rollers'
  <2>1. CASE n > Len(inbox)
    <3>1. PICK k \in 1 .. Len(ps) : n = Len(inbox) + k
      BY <1>1, <2>1
    <3>2. inbox'[n] = ps[k]
      BY <1>1, <3>1
    <3>3. ASSUME NEW l \in 1 .. Len(ps), l > k
          PROVE  ~IsSpeed(ps[l])
      <4>1. Len(inbox) + l > n
        BY <1>1, <3>1, <3>3
      <4>2. Len(inbox) + l \in 1 .. Len(inbox') /\ inbox'[Len(inbox) + l] = ps[l]
        BY <1>1, <1>2
      <4> QED BY <1>3, <4>1, <4>2
    <3> QED BY <1>3, <3>2, <3>3
  <2>2. CASE n <= Len(inbox)
    <3>1. n \in 1 .. Len(inbox) /\ inbox'[n] = inbox[n]
      BY <1>1, <2>2
    <3>2. ASSUME NEW l \in 1 .. Len(ps)
          PROVE  ~IsSpeed(ps[l])
      <4>1. Len(inbox) + l > n
        BY <1>1, <2>2
      <4>2. Len(inbox) + l \in 1 .. Len(inbox') /\ inbox'[Len(inbox) + l] = ps[l]
        BY <1>1, <1>2
      <4> QED BY <1>3, <4>1, <4>2
    <3>3. ASSUME NEW m \in 1 .. Len(inbox), m > n
          PROVE  ~IsSpeed(inbox[m])
      BY <1>1, <1>2, <1>3, <3>3
    <3>4. inbox[n].rollers = rollers
      BY <1>3, <3>1, <3>3 DEF SpeedAgrees
    <3> QED BY <3>1, <3>2, <3>4
  <2> QED BY <1>1, <2>1, <2>2
<1>4. ASSUME \A n \in 1 .. Len(inbox') : ~IsSpeed(inbox'[n]), rollers' > 1
      PROVE  speed' = rollers'
  <2>1. \A n \in 1 .. Len(inbox) : ~IsSpeed(inbox[n])
    BY <1>1, <1>2, <1>4
  <2>2. \A k \in 1 .. Len(ps) : ~IsSpeed(ps[k])
    BY <1>1, <1>2, <1>4
  <2> QED BY <1>4, <2>1, <2>2 DEF SpeedAgrees
<1> QED BY <1>3, <1>4 DEF SpeedAgrees

\* what a step sends that takes no roller
TellsNoSpeed ==
    \E ps \in Seq(Packets) : inbox' = inbox \o ps /\ \A k \in 1 .. Len(ps) : ~IsSpeed(ps[k])

LEMMA NothingTold ==
  ASSUME Types, UNCHANGED inbox
  PROVE  TellsNoSpeed
<1>1. inbox \in Seq(Packets)
  BY DEF Types
<1>2. PICK ps : ps = <<>>
  OBVIOUS
<1>3. ps \in Seq(Packets) /\ Len(ps) = 0 /\ inbox \o ps = inbox
  BY <1>1, <1>2, ConcatEmptySeq
<1>4. \A k \in 1 .. Len(ps) : ~IsSpeed(ps[k])
  BY <1>3
<1>5. inbox' = inbox \o ps
  BY <1>3
<1> QED BY <1>3, <1>4, <1>5 DEF TellsNoSpeed

LEMMA OneTold ==
  ASSUME Types, NEW pk \in Packets, ~IsSpeed(pk), Tell(<<pk>>)
  PROVE  TellsNoSpeed
<1>1. CASE member'[Me] = "in"
  <2>1. PICK ps : ps = <<pk>>
    OBVIOUS
  <2>2. ps \in Seq(Packets) /\ Len(ps) = 1 /\ ps[1] = pk
    BY <2>1
  <2>3. inbox' = inbox \o ps
    BY <1>1, <2>1 DEF Tell
  <2> QED BY <2>2, <2>3 DEF TellsNoSpeed
<1>2. CASE member'[Me] # "in"
  BY <1>2, NothingTold DEF Tell
<1> QED BY <1>1, <1>2

LEMMA BlastTold ==
  ASSUME IInv, NEW fired \in SUBSET (Bombs \ isDead), NEW caught \in SUBSET (Alive \ Trapped),
         NEW destroyed \in [fired -> SUBSET Of(Items \cup {"BREAKABLE"})],
         BlastAndTell(fired, caught, destroyed)
  PROVE  TellsNoSpeed
<1>1. PICK order \in SetToSeqs(fired) :
         Tell(TellStates(caught, "TRAPPED") \o Explosions(order, destroyed))
  BY DEF BlastAndTell, Explosions
<1>2. fired \in SUBSET Bombs /\ IsFiniteSet(fired)
  <2>1. fired \in SUBSET Bombs /\ fired \in SUBSET Tiles
    BY DEF Bombs, Of
  <2> QED BY <2>1, MirrorKinds, FS_Subset
<1>3. order \in Seq(fired)
  BY <1>2, SetInAnyOrder
<1>4. ExplosionPackets(Explosions(order, destroyed), order, destroyed)
  BY <1>2, <1>3, ExplosionsTold DEF IInv
<1>5. StatePackets(TellStates(caught, "TRAPPED"), caught, "TRAPPED")
  <2>1. caught \in SUBSET Players /\ "TRAPPED" \in MainState
    BY DEF Alive, MainState
  <2> QED BY <2>1, StatePacketsTold
<1>6. PICK a, b : a = TellStates(caught, "TRAPPED") /\ b = Explosions(order, destroyed)
  OBVIOUS
<1>7. /\ a \in Seq(Packets) /\ b \in Seq(Packets)
      /\ \A k \in 1 .. Len(a) : a[k].type = "S_MainState"
      /\ \A k \in 1 .. Len(b) : b[k].type = "S_Explode"
  BY <1>4, <1>5, <1>6 DEF StatePackets, ExplosionPackets
<1>8. PICK ps : ps = a \o b
  OBVIOUS
<1>9. ps \in Seq(Packets)
  BY <1>7, <1>8, ConcatProperties
<1>10. \A n \in 1 .. Len(ps) : (\E k \in 1 .. Len(a) : ps[n] = a[k]) \/ (\E k \in 1 .. Len(b) : ps[n] = b[k])
  <2>1. \A n \in 1 .. Len(a \o b) : (\E k \in 1 .. Len(a) : (a \o b)[n] = a[k]) \/ (\E k \in 1 .. Len(b) : (a \o b)[n] = b[k])
    BY <1>7, BothListed
  <2> QED BY <1>8, <2>1
<1>11. \A n \in 1 .. Len(ps) : ~IsSpeed(ps[n])
  BY <1>7, <1>10 DEF IsSpeed
<1>12. Tell(ps)
  BY <1>1, <1>6, <1>8
<1>13. CASE member'[Me] = "in"
  BY <1>9, <1>11, <1>12, <1>13 DEF Tell, TellsNoSpeed
<1>14. CASE member'[Me] # "in"
  BY <1>12, <1>14, NothingTold DEF Tell, IInv
<1> QED BY <1>13, <1>14

LEMMA EnterMeTold ==
  ASSUME IInv, IInv', EnterMe
  PROVE  TellsNoSpeed
<1>1. inbox = <<>>
  BY DEF IInv, BeforeEntry, EnterMe, Enter
<1>2. inbox' \in Seq(Packets)
  BY DEF IInv, Types
<1>3. PICK A, B, C, D : /\ A = S_MyPlayer /\ B = S_OtherPlayers(Alive \cup {Me})
                        /\ C = S_Tilemap /\ D = S_OtherPlayers({Me})
  OBVIOUS
<1>4. PICK ps : ps = <<A, B, C, D>>
  OBVIOUS
<1>5. inbox' = ps
  BY <1>3, <1>4 DEF EnterMe
<1>6. ps \in Seq(Packets) /\ inbox' = inbox \o ps
  BY <1>1, <1>2, <1>5, ConcatEmptySeq
<1>7. ~IsSpeed(A) /\ ~IsSpeed(B) /\ ~IsSpeed(C) /\ ~IsSpeed(D)
  BY <1>3 DEF IsSpeed, S_MyPlayer, S_OtherPlayers, S_Tilemap
<1>8. Len(ps) = 4 /\ ps[1] = A /\ ps[2] = B /\ ps[3] = C /\ ps[4] = D
  BY <1>4
<1>9. \A k \in 1 .. Len(ps) : k \in {1, 2, 3, 4}
  BY <1>8
<1>10. \A k \in 1 .. Len(ps) : ~IsSpeed(ps[k])
  BY <1>7, <1>8, <1>9
<1> QED BY <1>6, <1>10 DEF TellsNoSpeed

LEMMA OtherTellsNoSpeed ==
  ASSUME IInv, IInv', OtherAction
  PROVE  TellsNoSpeed
<1>1. Types /\ mainState' \in [Players -> MainState]
  BY DEF IInv, Types, FeedTypes
<1>2. ASSUME NEW p \in Players, EnterOther(p)
      PROVE  TellsNoSpeed
  <2>1. S_OtherPlayers({p}).type = "S_OtherPlayers" /\ Tell(<<S_OtherPlayers({p})>>)
    BY <1>2 DEF EnterOther, S_OtherPlayers
  <2>2. [q \in {p} |-> mainState[q]] \in [{p} -> MainState] /\ {p} \in SUBSET Players
    BY <1>1 DEF Types, FeedTypes
  <2>3. S_OtherPlayers({p}) \in Packets
    BY <2>2 DEF Packets, S_OtherPlayers
  <2> QED BY <1>1, <2>1, <2>3, OneTold DEF IsSpeed
<1>3. ASSUME NEW p \in Players, LeaveOther(p)
      PROVE  TellsNoSpeed
  <2>1. S_PlayerLeave(p) \in Packets /\ ~IsSpeed(S_PlayerLeave(p))
    BY DEF Packets, S_PlayerLeave, IsSpeed
  <2> QED BY <1>1, <1>3, <2>1, OneTold DEF LeaveOther
<1>4. ASSUME NEW p \in Players, NEW s \in MainState, Tell(<<S_MainState(p, s)>>)
      PROVE  TellsNoSpeed
  <2>1. S_MainState(p, s) \in Packets /\ ~IsSpeed(S_MainState(p, s))
    BY DEF Packets, S_MainState, IsSpeed
  <2> QED BY <1>1, <1>4, <2>1, OneTold
<1>5. ASSUME NEW p \in Players, UseNeedleAndTell(p)
      PROVE  TellsNoSpeed
  <2>1. "ESCAPE" \in MainState
    BY DEF MainState
  <2> QED BY <1>4, <1>5, <2>1 DEF UseNeedleAndTell
<1>6. ASSUME NEW p \in Players, TimeUpAndTell(p)
      PROVE  TellsNoSpeed
  <2>1. mainState'[p] \in MainState
    BY <1>1
  <2> QED BY <1>4, <1>6, <2>1 DEF TimeUpAndTell
<1>7. ASSUME UNCHANGED inbox
      PROVE  TellsNoSpeed
  BY <1>1, <1>7, NothingTold
<1>8. EndTickAndTell => UNCHANGED inbox
  BY DEF EndTickAndTell
<1> QED BY <1>2, <1>3, <1>5, <1>6, <1>7, <1>8, EnterMeTold, BlastTold DEF OtherAction

\* A player that gets items tells each speed of this client's player, and the
\* last one last.
LEMMA KillTellsSpeed ==
  ASSUME IInv, SpeedInv, clientCrash = "none", UNCHANGED speed, KillAction
  PROVE  rollers' \in 1 .. MaxRollers /\ SpeedAgrees'
<1>1. rollers \in Nat \ {0} /\ SpeedAgrees /\ Types /\ inbox \in Seq(Packets)
  BY MirrorAssumption DEF SpeedInv, IInv, Types
<1>2. PICK p \in Players, killed \in SUBSET Trapped, got \in SUBSET Of(Items) :
         KillAndGetAndTell(p, killed, got)
  BY DEF KillAction
<1>3. PICK a, b : KillNews(p, killed, got, a, b)
  BY <1>1, <1>2, KillSends
<1>4. PICK taken : taken = MyRollers(p, got)
  OBVIOUS
<1>5. /\ a = TellStates(killed, "DEAD") /\ News(b, taken, got)
      /\ inbox' = IF member'[Me] = "in" THEN inbox \o (a \o b) ELSE inbox
      /\ rollers' = rollers + Cardinality(taken) /\ rollers' <= MaxRollers
  BY <1>3, <1>4 DEF KillNews
<1>6. taken \in SUBSET Tiles /\ (taken # {} => p = Me) /\ IsFiniteSet(taken)
  <2>1. taken \in SUBSET Tiles /\ (taken # {} => p = Me)
    BY <1>4 DEF MyRollers, Of
  <2> QED BY <2>1, MirrorKinds, FS_Subset
<1>7. /\ Cardinality(taken) \in Nat
      /\ \A s \in Speeds(taken) : s \in Int /\ rollers < s /\ s <= rollers'
      /\ taken # {} => rollers' \in Speeds(taken)
  BY <1>1, <1>5, <1>6, SpeedFacts
<1>8. rollers' \in 1 .. MaxRollers
  BY <1>1, <1>5, <1>7, MirrorAssumption
<1>9. taken = {} => rollers' = rollers
  BY <1>1, <1>5, FS_EmptySet
<1>10. StatePackets(a, killed, "DEAD")
  <2>1. killed \in SUBSET Players /\ "DEAD" \in MainState
    BY DEF Trapped, Alive, MainState
  <2> QED BY <1>5, <2>1, StatePacketsTold
<1>11. /\ a \in Seq(Packets) /\ b \in Seq(Packets)
       /\ \A k \in 1 .. Len(a) : ~IsSpeed(a[k])
       /\ \A k \in 1 .. Len(b) : IsSpeed(b[k]) => b[k].rollers \in Speeds(taken)
       /\ \A s \in Speeds(taken) : \E k \in 1 .. Len(b) : IsSpeed(b[k]) /\ b[k].rollers = s
       /\ \A k, m \in 1 .. Len(b) : IsSpeed(b[k]) /\ IsSpeed(b[m]) /\ m < k => b[m].rollers < b[k].rollers
  BY <1>5, <1>10 DEF News, StatePackets, IsSpeed
<1>12. ASSUME NEW k \in 1 .. Len(b), IsSpeed(b[k]), \A l \in 1 .. Len(b) : l > k => ~IsSpeed(b[l])
       PROVE  b[k].rollers = rollers'
  <2>1. b[k].rollers \in Speeds(taken) /\ b[k].rollers \in Int /\ b[k].rollers <= rollers'
    BY <1>7, <1>11, <1>12
  <2>2. taken # {}
    <3> SUFFICES ASSUME taken = {}
                 PROVE  FALSE
      OBVIOUS
    <3>1. rollers' = rollers
      BY <1>9
    <3> QED BY <1>7, <1>1, <2>1, <3>1
  <2>3. PICK m \in 1 .. Len(b) : IsSpeed(b[m]) /\ b[m].rollers = rollers'
    BY <1>7, <1>11, <2>2
  <2>4. ~(m > k)
    BY <1>12, <2>3
  <2>5. ~(m < k)
    <3> SUFFICES ASSUME m < k
                 PROVE  FALSE
      OBVIOUS
    <3>1. b[m].rollers < b[k].rollers
      BY <1>11, <1>12, <2>3
    <3> QED BY <1>8, <2>1, <2>3, <3>1
  <2>6. m = k
    BY <2>4, <2>5
  <2> QED BY <2>3, <2>6
<1>13. CASE member'[Me] # "in"
  <2>1. taken = {}
    <3>1. p \in Alive /\ member' = member
      BY <1>2 DEF KillAndGetAndTell, KillAndGet
    <3>2. member[Me] \in {"out", "in"}
      BY <1>1 DEF Types, FeedTypes
    <3>3. p # Me
      BY <1>13, <3>1, <3>2 DEF Alive
    <3> QED BY <1>6, <3>3
  <2>2. UNCHANGED <<rollers, speed, inbox>>
    BY <1>5, <1>9, <1>13, <2>1
  <2> QED BY <1>1, <1>8, <2>2 DEF SpeedAgrees
<1>14. CASE member'[Me] = "in"
  <2>1. PICK ps : ps = a \o b
    OBVIOUS
  <2>2. inbox' = inbox \o ps
    BY <1>5, <1>14, <2>1
  <2>3. /\ ps \in Seq(Packets) /\ Len(a) \in Nat /\ Len(b) \in Nat /\ Len(ps) = Len(a) + Len(b)
        /\ \A n \in 1 .. Len(a) : ps[n] = a[n]
        /\ \A k \in 1 .. Len(b) : ps[Len(a) + k] = b[k]
        /\ \A n \in 1 .. Len(ps) : n > Len(a) => \E k \in 1 .. Len(b) : n = Len(a) + k
    BY <1>11, <2>1, Appended
  <2>4. \A k \in 1 .. Len(b) : Len(a) + k \in 1 .. Len(ps)
    BY <2>3
  <2>5. ASSUME \A n \in 1 .. Len(ps) : ~IsSpeed(ps[n])
        PROVE  rollers' = rollers
    <3>1. \A k \in 1 .. Len(b) : ~IsSpeed(b[k])
      BY <2>3, <2>4, <2>5
    <3>2. taken = {}
      BY <1>7, <1>11, <3>1
    <3> QED BY <1>9, <3>2
  <2>6. ASSUME NEW n \in 1 .. Len(ps), IsSpeed(ps[n]), \A l \in 1 .. Len(ps) : l > n => ~IsSpeed(ps[l])
        PROVE  ps[n].rollers = rollers'
    <3>1. n > Len(a)
      <4> SUFFICES ASSUME n <= Len(a)
                   PROVE  FALSE
        BY <2>3
      <4>1. n \in 1 .. Len(a)
        BY <2>3
      <4>2. ps[n] = a[n] /\ ~IsSpeed(a[n])
        BY <1>11, <2>3, <4>1
      <4> QED BY <2>6, <4>2
    <3>2. PICK k \in 1 .. Len(b) : n = Len(a) + k
      BY <2>3, <3>1
    <3>3. ps[n] = b[k]
      BY <2>3, <3>2
    <3>4. ASSUME NEW l \in 1 .. Len(b), l > k
          PROVE  ~IsSpeed(b[l])
      <4>1. Len(a) + l > n
        BY <2>3, <3>2, <3>4
      <4>2. Len(a) + l \in 1 .. Len(ps) /\ ps[Len(a) + l] = b[l]
        BY <2>3, <2>4
      <4> QED BY <2>6, <4>1, <4>2
    <3> QED BY <1>12, <2>6, <3>3, <3>4
  <2> QED BY <1>1, <1>8, <2>2, <2>3, <2>5, <2>6, SpeedAppended
<1> QED BY <1>13, <1>14

\* The handler of the packet takes the speed over, and no other one touches it.
LEMMA HandleTellsSpeed ==
  ASSUME IInv, SpeedInv, Handle
  PROVE  SpeedInv'
<1>1. PICK pk : pk = Head(inbox)
  OBVIOUS
<1>2. AtHead(pk)
  BY <1>1 DEF AtHead, Handle, Handle_S_Tilemap, Handle_S_MyPlayer, Handle_S_OtherPlayers,
        Handle_S_PlayerLeave, Handle_S_MainState, Handle_S_WaterBomb, Handle_S_Explode,
        Handle_S_RemoveItem, Handle_S_PlayerNormalSpeed, Handles
<1>3. /\ clientCrash = "none" /\ inbox # <<>> /\ inbox' = Tail(inbox) /\ UNCHANGED roomVars
      /\ pk \in Packets /\ inbox \in Seq(Packets)
  BY <1>2, HeadFacts DEF AtHead, IInv, Types
<1>4. /\ SpeedAgrees /\ rollers' = rollers /\ rollers \in 1 .. MaxRollers /\ speed \in 0 .. MaxRollers
  BY <1>3 DEF SpeedInv, roomVars
<1>5. \/ UNCHANGED speed /\ (IsSpeed(pk) => clientCrash' # "none")
      \/ IsSpeed(pk) /\ speed' = pk.rollers
  <2>1. ASSUME ~IsSpeed(pk)
        PROVE  UNCHANGED speed
    BY <1>1, <2>1 DEF IsSpeed, Handle, Handle_S_Tilemap, Handle_S_MyPlayer, Handle_S_OtherPlayers,
        Handle_S_PlayerLeave, Handle_S_MainState, Handle_S_WaterBomb, Handle_S_Explode,
        Handle_S_RemoveItem, Handle_S_PlayerNormalSpeed, Handles, ClientDies, sceneVars, Packet
  <2>2. ASSUME IsSpeed(pk)
        PROVE  Handle_S_PlayerNormalSpeed
    BY <1>1, <2>2 DEF IsSpeed, Handle, Handle_S_Tilemap, Handle_S_MyPlayer, Handle_S_OtherPlayers,
        Handle_S_PlayerLeave, Handle_S_MainState, Handle_S_WaterBomb, Handle_S_Explode,
        Handle_S_RemoveItem, Handles
  <2>3. Handle_S_PlayerNormalSpeed =>
           (UNCHANGED speed /\ clientCrash' = "noMyPlayer") \/ speed' = pk.rollers
    BY <1>1 DEF Handle_S_PlayerNormalSpeed, ClientDies, sceneVars, Packet
  <2> QED BY <2>1, <2>2, <2>3
<1>6. speed' \in 0 .. MaxRollers
  <2>1. IsSpeed(pk) => pk.rollers \in 1 .. MaxRollers
    BY <1>3, PacketFields DEF IsSpeed
  <2> QED BY <1>4, <1>5, <2>1, MirrorAssumption
<1>7. /\ pk = inbox[1] /\ Len(inbox) \in Nat /\ Len(inbox) >= 1 /\ Len(inbox') = Len(inbox) - 1
      /\ \A n \in 1 .. Len(inbox') : n + 1 \in 2 .. Len(inbox) /\ inbox'[n] = inbox[n + 1]
  BY <1>1, <1>3, Beheaded
<1>8. \A m \in 1 .. Len(inbox) : m # 1 => m - 1 \in 1 .. Len(inbox') /\ inbox'[m - 1] = inbox[m]
  <2> SUFFICES ASSUME NEW m \in 1 .. Len(inbox), m # 1
               PROVE  m - 1 \in 1 .. Len(inbox') /\ inbox'[m - 1] = inbox[m]
    OBVIOUS
  <2>1. PICK n : n = m - 1
    OBVIOUS
  <2>2. n \in 1 .. Len(inbox') /\ n + 1 = m
    BY <2>1, <1>7
  <2> QED BY <1>7, <2>1, <2>2
<1>9. ASSUME clientCrash' = "none"
      PROVE  SpeedAgrees'
  <2>1. ASSUME NEW n \in 1 .. Len(inbox'), IsSpeed(inbox'[n]),
               \A m \in 1 .. Len(inbox') : m > n => ~IsSpeed(inbox'[m])
        PROVE  inbox'[n].rollers = rollers'
    <3>1. n + 1 \in 1 .. Len(inbox) /\ inbox'[n] = inbox[n + 1]
      BY <1>7
    <3>2. ASSUME NEW m \in 1 .. Len(inbox), m > n + 1
          PROVE  ~IsSpeed(inbox[m])
      <4>1. m - 1 \in 1 .. Len(inbox') /\ inbox'[m - 1] = inbox[m]
        BY <1>7, <1>8, <3>2
      <4>2. m - 1 > n
        BY <1>7, <3>2
      <4> QED BY <2>1, <4>1, <4>2
    <3> QED BY <1>4, <2>1, <3>1, <3>2 DEF SpeedAgrees
  <2>2. ASSUME \A n \in 1 .. Len(inbox') : ~IsSpeed(inbox'[n]), rollers' > 1
        PROVE  speed' = rollers'
    <3>1. \A m \in 1 .. Len(inbox) : m # 1 => ~IsSpeed(inbox[m])
      BY <1>8, <2>2
    <3>2. CASE IsSpeed(pk)
      <4>1. 1 \in 1 .. Len(inbox) /\ \A m \in 1 .. Len(inbox) : m > 1 => m # 1
        BY <1>7
      <4>2. pk.rollers = rollers
        BY <1>4, <1>7, <3>1, <3>2, <4>1 DEF SpeedAgrees
      <4> QED BY <1>4, <1>5, <1>9, <3>2, <4>2
    <3>3. CASE ~IsSpeed(pk)
      <4>1. \A m \in 1 .. Len(inbox) : ~IsSpeed(inbox[m])
        BY <1>7, <3>1, <3>3
      <4> QED BY <1>4, <1>5, <2>2, <3>3, <4>1 DEF SpeedAgrees
    <3> QED BY <3>2, <3>3
  <2> QED BY <2>1, <2>2 DEF SpeedAgrees
<1> QED BY <1>4, <1>6, <1>9 DEF SpeedInv

LEMMA SpeedKept ==
  ASSUME IInv, SpeedInv, IInv', [MirrorNext]_vars
  PROVE  SpeedInv'
<1>1. CASE RoomStep
  <2>1. /\ clientCrash = "none" /\ UNCHANGED <<speed, clientCrash>>
        /\ (OtherAction /\ UNCHANGED rollers) \/ KillAction
    BY <1>1, RoomStepActs DEF RoomMay, sceneVars
  <2>2. CASE OtherAction /\ UNCHANGED rollers
    <3>1. TellsNoSpeed
      BY <2>2, OtherTellsNoSpeed
    <3>2. SpeedAgrees'
      BY <2>1, <2>2, <3>1, SpeedAppended DEF TellsNoSpeed, SpeedInv, IInv, Types
    <3> QED BY <2>1, <2>2, <3>2 DEF SpeedInv
  <2>3. CASE KillAction
    <3>1. rollers' \in 1 .. MaxRollers /\ SpeedAgrees'
      BY <2>1, <2>3, KillTellsSpeed
    <3> QED BY <2>1, <3>1 DEF SpeedInv
  <2> QED BY <2>1, <2>2, <2>3
<1>2. CASE PlantStep
  <2>1. clientCrash = "none" /\ UNCHANGED <<rollers, speed, clientCrash>>
    BY <1>2 DEF PlantStep, RoomMay, sceneVars
  <2>2. PICK p \in Players, t \in Tiles : PlantAndTell(p, t)
    BY <1>2 DEF PlantStep
  <2>3. PICK i : i = <<t, layer'[t]>>
    OBVIOUS
  <2>4. i \in Id
    BY <2>3 DEF IInv, Types, SceneTypes, Id
  <2>5. S_WaterBomb(i) \in Packets /\ ~IsSpeed(S_WaterBomb(i)) /\ Tell(<<S_WaterBomb(i)>>)
    BY <2>2, <2>3, <2>4 DEF PlantAndTell, Packets, S_WaterBomb, IsSpeed
  <2>6. TellsNoSpeed
    BY <2>5, OneTold DEF IInv
  <2>7. SpeedAgrees'
    BY <2>1, <2>6, SpeedAppended DEF TellsNoSpeed, SpeedInv, IInv, Types
  <2> QED BY <2>1, <2>7 DEF SpeedInv
<1>3. CASE Handle
  BY <1>3, HandleTellsSpeed
<1>4. CASE Frame \/ UNCHANGED vars
  <2>1. UNCHANGED <<rollers, speed, inbox>> /\ (clientCrash' = "none" => clientCrash = "none")
    BY <1>4 DEF Frame, FrameAtRest, FrameWalking, ClientDies, RemoveDeadObjects,
                vars, roomVars, mirrorVars, sceneVars
  <2> QED BY <2>1 DEF SpeedInv, SpeedAgrees
<1> QED BY <1>1, <1>2, <1>3, <1>4 DEF MirrorNext
-----------------------------------------------------------------------------
(* The theorems *)

MirrorInv == IInv /\ SpeedInv

LEMMA MirrorInvInit == MirrorInit => MirrorInv
<1> SUFFICES ASSUME MirrorInit
             PROVE  SpeedInv
  BY MirrorInitKeeps DEF MirrorInv
<1>1. rollers = 1 /\ speed = 0 /\ inbox = <<>> /\ 1 \in 1 .. MaxRollers /\ 0 \in 0 .. MaxRollers
  BY MirrorAssumption DEF MirrorInit
<1>2. Len(inbox) = 0
  BY <1>1
<1> QED BY <1>1, <1>2 DEF SpeedInv, SpeedAgrees

LEMMA MirrorInvKept == MirrorInv /\ [MirrorNext]_vars => MirrorInv'
<1>1. SpeedInv => rollers \in Nat \ {0}
  BY MirrorAssumption DEF SpeedInv
<1> QED BY <1>1, MirrorNextKeeps, SpeedKept DEF MirrorInv

\* The type invariant of the client.
THEOREM MirrorTypes == MirrorSpec => []TypeOK
<1>1. MirrorInv => TypeOK
  BY DEF MirrorInv, IInv, Types, SceneTypes, SpeedInv, TypeOK
<1> QED BY <1>1, MirrorInvInit, MirrorInvKept, PTL DEF MirrorSpec

\* Whenever all that was sent has been handled and the dead have been removed,
\* the client shows the room: its objects, its players and their main states,
\* however its frames and handlers fell between the steps of the room.
THEOREM MirrorShowsTheRoom == MirrorSpec => []ShowsTheRoom
<1>1. MirrorInv => ShowsTheRoom
  BY CaughtUpShows DEF MirrorInv, ShowsTheRoom
<1> QED BY <1>1, MirrorInvInit, MirrorInvKept, PTL DEF MirrorSpec

\* The tile map of the client points to what is shown on the tile, never to a
\* freed object, and lacks an object only if a bomb overtook its predecessor.
THEOREM MirrorSlots == MirrorSpec => []SlotsTellTheTruth
<1>1. MirrorInv => SlotsTellTheTruth
  BY CaughtUpShows DEF MirrorInv, SlotsTellTheTruth, IInv, SlotsShown
<1> QED BY <1>1, MirrorInvInit, MirrorInvKept, PTL DEF MirrorSpec

\* No player is shown twice.
THEOREM MirrorNoTwins == MirrorSpec => []NoTwins
<1>1. MirrorInv => NoTwins
  BY DEF MirrorInv, IInv
<1> QED BY <1>1, MirrorInvInit, MirrorInvKept, PTL DEF MirrorSpec

\* Once the client has handled all that was sent, its player has the speed of
\* the room, however many rollers were taken in one tick and in what order.
THEOREM MirrorSpeed == MirrorSpec => []SpeedIsTold
<1>1. MirrorInv => SpeedIsTold
  <2> SUFFICES ASSUME SpeedInv, CaughtUp, rollers > 1
               PROVE  speed = rollers
    BY DEF MirrorInv, SpeedIsTold
  <2>1. inbox = <<>> /\ SpeedAgrees
    BY DEF CaughtUp, SpeedInv
  <2>2. Len(inbox) = 0
    BY <2>1
  <2> QED BY <2>1, <2>2 DEF SpeedAgrees
<1> QED BY <1>1, MirrorInvInit, MirrorInvKept, PTL DEF MirrorSpec

\* The client's player and the map have come before any packet that needs them,
\* a speed included; and each block that an S_Explode does not find is one that
\* two bombs of one tick have destroyed.
THEOREM MirrorCrashes == MirrorSpec => []CrashesAreKnown
<1>1. MirrorInv => CrashesAreKnown
  BY DEF MirrorInv, IInv
<1> QED BY <1>1, MirrorInvInit, MirrorInvKept, PTL DEF MirrorSpec
-----------------------------------------------------------------------------
(* The room of the mirror is RoomFeed                                      *)

LEMMA RoomStepFeeds == RoomStep => Next
<1> SUFFICES ASSUME RoomStep
             PROVE  Next
  OBVIOUS
<1>1. OtherAction \/ KillAction
  BY RoomStepActs
<1>2. ASSUME NEW p \in Players,
             EnterOther(p) \/ LeaveOther(p) \/ UseNeedleAndTell(p) \/ TimeUpAndTell(p)
      PROVE  Next
  BY <1>2 DEF EnterOther, LeaveOther, UseNeedleAndTell, TimeUpAndTell, Next, Tick
<1>3. ASSUME EnterMe
      PROVE  Next
  BY <1>3, MirrorAssumption DEF EnterMe, Next
<1>4. ASSUME NEW p \in Players, NEW killed \in SUBSET Trapped, NEW got \in SUBSET Of(Items),
             KillAndGetAndTell(p, killed, got)
      PROVE  Next
  BY <1>4 DEF KillAndGetAndTell, Next, Tick
<1>5. ASSUME NEW fired \in SUBSET (Bombs \ isDead), NEW caught \in SUBSET (Alive \ Trapped),
             NEW destroyed \in [fired -> SUBSET Of(Items \cup {"BREAKABLE"})],
             BlastAndTell(fired, caught, destroyed)
      PROVE  Next
  <2> DEFINE broken == UNION {destroyed[t] : t \in fired}
  <2>1. GoOff(fired, caught, broken)
    BY <1>5 DEF BlastAndTell
  <2>2. \A t \in fired : destroyed[t] \in SUBSET Of(Items \cup {"BREAKABLE"})
    OBVIOUS
  <2>3. broken \in SUBSET Of(Items \cup {"BREAKABLE"})
    BY <2>2
  <2> HIDE DEF broken
  <2> QED BY <2>1, <2>3 DEF Next, Tick
<1>6. BeginTick \/ EndTickAndTell => Next
  BY DEF EndTickAndTell, Next, Tick
<1> QED BY <1>1, <1>2, <1>3, <1>4, <1>5, <1>6 DEF OtherAction, KillAction

\* Whatever the client does, and whenever: the room it mirrors takes the steps
\* of the feed that GameRoom implements, and no other.
THEOREM MirrorIsAFeed == MirrorSpec => Spec
<1>1. MirrorInit => Init
  BY DEF MirrorInit
<1>2. [MirrorNext]_vars => [Next]_feedVars
  <2>1. PlantStep => Next
    BY DEF PlantStep, PlantAndTell, Next
  <2>2. Handle \/ Frame \/ UNCHANGED vars => UNCHANGED feedVars
    BY DEF Handle, Frame, FrameAtRest, FrameWalking, vars, roomVars
  <2> QED BY <2>1, <2>2, RoomStepFeeds DEF MirrorNext
<1> QED BY <1>1, <1>2, PTL DEF MirrorSpec, Spec
=============================================================================
