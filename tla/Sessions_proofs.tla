--------------------------- MODULE Sessions_proofs ---------------------------
(* Proofs about Sessions, for every set of sessions and any number of moves *)
(* and failures.                                                            *)
EXTENDS Sessions, SequenceTheorems, TLAPS

Ops == {"Send", "Offer", "RegisterSend", "SendFailed", "Disconnect", "Release",
        "EnterRoom", "OtherPlayers", "Join", "RegisterRecv"}

Kinds == {"", "EnterGame", "MyPlayer", "OtherPlayers", "Tilemap", "Join", "Leave", "Move", "State"}

SessionCall == [op : Ops, s : Session, kind : Kinds, about : SUBSET Session]
CallT       == SessionCall \cup {Call("RemoveDead", "")}

\* some call of q is in K; no two of them are; the only one that may is the last
Has(q, K)      == \E i \in 1 .. Len(q) : q[i] \in K
Once(q, K)     == \A i, j \in 1 .. Len(q) : q[i] \in K /\ q[j] \in K => i = j
LastOnly(q, K) == \A i \in 1 .. Len(q) : q[i] \in K => i = Len(q)

\* the calls of one of these operations on s
CallsTo(ops, s) == {c \in SessionCall : c.op \in ops /\ c.s = s}

Token(s)  == CallsTo({"RegisterSend", "SendFailed"}, s)
Speaks(s) == CallsTo({"Send", "OtherPlayers", "Join", "EnterRoom"}, s)
             \cup {c \in SessionCall : c.op \in {"Send", "Offer"} /\ s \in c.about}
Removal   == {Call("RemoveDead", "")}
-----------------------------------------------------------------------------
(* Sequences of calls *)

LEMMA HasConcat ==
  ASSUME NEW p \in Seq(CallT), NEW q \in Seq(CallT), NEW K
  PROVE  /\ Has(p \o q, K) <=> Has(p, K) \/ Has(q, K)
         /\ Once(p \o q, K) <=> Once(p, K) /\ Once(q, K) /\ ~(Has(p, K) /\ Has(q, K))
         /\ ~Has(p, K) /\ LastOnly(q, K) => LastOnly(p \o q, K)
<1> DEFINE r == p \o q
           m == Len(p)
           n == Len(q)
<1>1. m \in Nat /\ n \in Nat /\ Len(r) = m + n
  BY ConcatProperties
<1>2. \A i \in 1 .. m : r[i] = p[i] /\ i \in 1 .. m + n
  BY <1>1, ConcatProperties
<1>3. \A i \in 1 .. n : r[m + i] = q[i] /\ m + i \in 1 .. m + n
  <2> TAKE i \in 1 .. n
  <2>1. m + i \in 1 .. m + n /\ ~(m + i <= m) /\ (m + i) - m = i
    BY <1>1
  <2> QED BY <2>1, ConcatProperties
<1>4. \A i \in 1 .. m + n : \/ i \in 1 .. m
                            \/ \E j \in 1 .. n : i = m + j
  <2> TAKE i \in 1 .. m + n
  <2>1. i \in 1 .. m \/ (i - m \in 1 .. n /\ i = m + (i - m))
    BY <1>1
  <2> QED BY <2>1
<1> HIDE DEF r, m, n
<1>5. Has(r, K) <=> Has(p, K) \/ Has(q, K)
  <2>1. ASSUME Has(r, K)
        PROVE  Has(p, K) \/ Has(q, K)
    <3>1. PICK i \in 1 .. m + n : r[i] \in K
      BY <1>1, <2>1 DEF Has
    <3>2. CASE i \in 1 .. m
      BY <1>2, <3>1, <3>2 DEF Has, m
    <3>3. CASE \E j \in 1 .. n : i = m + j
      BY <1>3, <3>1, <3>3 DEF Has, n
    <3> QED BY <1>4, <3>2, <3>3
  <2>2. Has(p, K) => Has(r, K)
    BY <1>1, <1>2 DEF Has, m
  <2>3. Has(q, K) => Has(r, K)
    BY <1>1, <1>3 DEF Has, n
  <2> QED BY <2>1, <2>2, <2>3
<1>6. Once(r, K) => Once(p, K) /\ Once(q, K) /\ ~(Has(p, K) /\ Has(q, K))
  <2> SUFFICES ASSUME Once(r, K)
               PROVE  Once(p, K) /\ Once(q, K) /\ ~(Has(p, K) /\ Has(q, K))
    OBVIOUS
  <2>1. Once(p, K)
    BY <1>1, <1>2 DEF Once, m
  <2>2. ASSUME NEW i \in 1 .. n, NEW j \in 1 .. n, q[i] \in K, q[j] \in K
        PROVE  i = j
    <3>1. m + i = m + j
      BY <1>1, <1>3, <2>2 DEF Once
    <3> QED BY <1>1, <3>1
  <2>3. ASSUME NEW i \in 1 .. m, NEW j \in 1 .. n, p[i] \in K, q[j] \in K
        PROVE  FALSE
    <3>1. i = m + j
      BY <1>1, <1>2, <1>3, <2>3 DEF Once
    <3> QED BY <1>1, <3>1
  <2> QED BY <2>1, <2>2, <2>3 DEF Once, Has, m, n
<1>7. Once(p, K) /\ Once(q, K) /\ ~(Has(p, K) /\ Has(q, K)) => Once(r, K)
  <2> SUFFICES ASSUME Once(p, K), Once(q, K), ~(Has(p, K) /\ Has(q, K)),
                      NEW i \in 1 .. m + n, NEW j \in 1 .. m + n, r[i] \in K, r[j] \in K
               PROVE  i = j
    BY <1>1 DEF Once
  <2>1. \A k \in 1 .. m, l \in 1 .. n : ~(p[k] \in K /\ q[l] \in K)
    BY DEF Has, m, n
  <2>2. \A k, l \in 1 .. m : p[k] \in K /\ p[l] \in K => k = l
    BY DEF Once, m
  <2>3. \A k, l \in 1 .. n : q[k] \in K /\ q[l] \in K => k = l
    BY DEF Once, n
  <2>4. CASE i \in 1 .. m
    BY <1>2, <1>3, <1>4, <2>1, <2>2, <2>4
  <2>5. CASE i \notin 1 .. m
    <3>1. PICK k \in 1 .. n : i = m + k
      BY <1>4, <2>5
    <3>2. q[k] \in K
      BY <1>3, <3>1
    <3>3. PICK l \in 1 .. n : j = m + l
      BY <1>2, <1>4, <2>1, <3>2
    <3> QED BY <1>3, <2>3, <3>1, <3>2, <3>3
  <2> QED BY <2>4, <2>5
<1>8. ~Has(p, K) /\ LastOnly(q, K) => LastOnly(r, K)
  <2> SUFFICES ASSUME ~Has(p, K), LastOnly(q, K), NEW i \in 1 .. m + n, r[i] \in K
               PROVE  i = m + n
    BY <1>1 DEF LastOnly
  <2>1. i \notin 1 .. m
    BY <1>2 DEF Has, m
  <2>2. PICK k \in 1 .. n : i = m + k
    BY <1>4, <2>1
  <2>3. k = n
    BY <1>3, <2>2 DEF LastOnly, n
  <2> QED BY <2>2, <2>3
<1> QED BY <1>5, <1>6, <1>7, <1>8 DEF r

LEMMA HasFew ==
  ASSUME NEW K
  PROVE  /\ <<>> \in Seq(CallT) /\ ~Has(<<>>, K) /\ Once(<<>>, K) /\ LastOnly(<<>>, K)
         /\ \A c \in CallT : /\ <<c>> \in Seq(CallT)
                             /\ Has(<<c>>, K) <=> c \in K
                             /\ Once(<<c>>, K) /\ LastOnly(<<c>>, K)
BY DEF Has, Once, LastOnly

\* The running call and those that wait for it.
LEMMA HasHeadTail ==
  ASSUME NEW q \in Seq(CallT), q # <<>>, NEW K
  PROVE  /\ Head(q) \in CallT /\ Tail(q) \in Seq(CallT)
         /\ Has(q, K) <=> Head(q) \in K \/ Has(Tail(q), K)
         /\ Once(q, K) <=> Once(Tail(q), K) /\ ~(Head(q) \in K /\ Has(Tail(q), K))
         /\ LastOnly(q, K) => LastOnly(Tail(q), K) /\ (Head(q) \in K => Tail(q) = <<>>)
<1> DEFINE t == Tail(q)
<1>a. /\ Head(q) \in CallT /\ t \in Seq(CallT)
      /\ Len(t) = Len(q) - 1
      /\ \A i \in 1 .. Len(t) : t[i] = q[i + 1]
  BY HeadTailProperties
<1>b. Len(q) \in Nat \ {0} /\ Head(q) = q[1]
  BY EmptySeq
<1>2. <<Head(q)>> \in Seq(CallT) /\ Len(<<Head(q)>>) = 1 /\ <<Head(q)>>[1] = Head(q)
  BY <1>a
<1> DEFINE u == <<Head(q)>>
<1>c. q = u \o t
  <2> HIDE DEF t, u
  <2>1. u \in Seq(CallT) /\ Len(u) = 1 /\ u[1] = Head(q)
    BY <1>2 DEF u
  <2>2. /\ u \o t \in Seq(CallT) /\ Len(u \o t) = Len(q)
        /\ \A i \in 1 .. Len(q) : (u \o t)[i] = IF i <= 1 THEN u[i] ELSE t[i - 1]
    <3>1. Len(u) + Len(t) = Len(q)
      BY <1>a, <1>b, <2>1
    <3>2. /\ u \o t \in Seq(CallT) /\ Len(u \o t) = Len(u) + Len(t)
          /\ \A i \in 1 .. Len(u) + Len(t) :
                 (u \o t)[i] = IF i <= Len(u) THEN u[i] ELSE t[i - Len(u)]
      <4>1. u \in Seq(CallT) /\ t \in Seq(CallT)
        BY <1>a, <2>1
      <4> QED BY <4>1, ConcatProperties, Zenon
    <3> QED BY <2>1, <3>1, <3>2
  <2>3. \A i \in 1 .. Len(q) : q[i] = (u \o t)[i]
    <3> TAKE i \in 1 .. Len(q)
    <3>1. CASE i = 1
      BY <1>b, <2>1, <2>2, <3>1
    <3>2. CASE i # 1
      <4>1. i - 1 \in 1 .. Len(t) /\ ~(i <= 1) /\ (i - 1) + 1 = i
        BY <1>a, <1>b, <3>2
      <4> QED BY <1>a, <2>2, <4>1
    <3> QED BY <3>1, <3>2
  <2> QED BY <2>2, <2>3, SeqEqual
<1>1. /\ Head(q) \in CallT /\ Tail(q) \in Seq(CallT) /\ q = <<Head(q)>> \o Tail(q)
      /\ Len(q) \in Nat \ {0} /\ Len(Tail(q)) = Len(q) - 1
      /\ \A i \in 1 .. Len(Tail(q)) : Tail(q)[i] = q[i + 1]
      /\ Head(q) = q[1]
  BY <1>a, <1>b, <1>c
<1>3. LastOnly(q, K) => LastOnly(Tail(q), K)
  <2> SUFFICES ASSUME LastOnly(q, K), NEW i \in 1 .. Len(t), t[i] \in K
               PROVE  i = Len(t)
    BY DEF LastOnly
  <2> HIDE DEF t
  <2>1. i + 1 \in 1 .. Len(q)
    BY <1>a, <1>b
  <2>2. i + 1 = Len(q)
    BY <1>a, <2>1 DEF LastOnly
  <2> QED BY <1>a, <1>b, <2>2
<1>4. LastOnly(q, K) /\ Head(q) \in K => Tail(q) = <<>>
  <2> SUFFICES ASSUME LastOnly(q, K), Head(q) \in K
               PROVE  Tail(q) = <<>>
    OBVIOUS
  <2>1. 1 \in 1 .. Len(q) /\ q[1] \in K
    BY <1>b
  <2>2. Len(q) = 1
    BY <2>1 DEF LastOnly
  <2>3. Len(t) = 0 /\ t \in Seq(CallT)
    BY <1>a, <2>2
  <2>4. t = <<>>
    <3> HIDE DEF t
    <3> QED BY <2>3, EmptySeq
  <2> QED BY <2>4
<1>5. Has(<<Head(q)>> \o Tail(q), K) <=> Has(<<Head(q)>>, K) \/ Has(Tail(q), K)
  BY <1>1, <1>2, HasConcat
<1>6. Once(<<Head(q)>> \o Tail(q), K) <=> /\ Once(<<Head(q)>>, K) /\ Once(Tail(q), K)
                                          /\ ~(Has(<<Head(q)>>, K) /\ Has(Tail(q), K))
  BY <1>1, <1>2, HasConcat
<1>7. Once(<<Head(q)>>, K) /\ (Has(<<Head(q)>>, K) <=> Head(q) \in K)
  BY <1>1, HasFew
<1> QED BY <1>1, <1>3, <1>4, <1>5, <1>6, <1>7

LEMMA HasMore ==
  ASSUME NEW K, NEW a \in CallT, NEW b \in CallT, NEW c \in CallT, NEW d \in CallT
  PROVE  /\ <<a, b>> \in Seq(CallT) /\ <<a, b, c>> \in Seq(CallT) /\ <<a, b, c, d>> \in Seq(CallT)
         /\ Has(<<a, b>>, K) <=> a \in K \/ b \in K
         /\ Once(<<a, b>>, K) <=> ~(a \in K /\ b \in K)
         /\ Has(<<a, b, c>>, K) <=> a \in K \/ b \in K \/ c \in K
         /\ Once(<<a, b, c>>, K) <=> /\ ~(a \in K /\ b \in K)
                                     /\ ~(a \in K /\ c \in K)
                                     /\ ~(b \in K /\ c \in K)
         /\ Has(<<a, b, c, d>>, K) <=> a \in K \/ b \in K \/ c \in K \/ d \in K
         /\ a \notin K /\ b \notin K /\ c \notin K /\ d \notin K => Once(<<a, b, c, d>>, K)
<1>1. /\ Has(<<a, b>>, K) <=> a \in K \/ b \in K
      /\ Once(<<a, b>>, K) <=> ~(a \in K /\ b \in K)
  BY DEF Has, Once
<1>2. /\ Has(<<a, b, c>>, K) <=> a \in K \/ b \in K \/ c \in K
      /\ Once(<<a, b, c>>, K) <=> /\ ~(a \in K /\ b \in K)
                                  /\ ~(a \in K /\ c \in K)
                                  /\ ~(b \in K /\ c \in K)
  BY DEF Has, Once
<1>3. /\ Has(<<a, b, c, d>>, K) <=> a \in K \/ b \in K \/ c \in K \/ d \in K
      /\ a \notin K /\ b \notin K /\ c \notin K /\ d \notin K => Once(<<a, b, c, d>>, K)
  BY DEF Has, Once
<1>4. <<a, b>> \in Seq(CallT) /\ <<a, b, c>> \in Seq(CallT) /\ <<a, b, c, d>> \in Seq(CallT)
  OBVIOUS
<1> QED BY <1>1, <1>2, <1>3, <1>4

\* The call that runs is replaced by those it makes.
LEMMA Pushing ==
  ASSUME calls \in Seq(CallT), calls # <<>>, NEW more \in Seq(CallT), Then(more), NEW K
  PROVE  /\ Head(calls) \in CallT /\ Tail(calls) \in Seq(CallT) /\ calls' \in Seq(CallT)
         /\ Has(calls, K) <=> Head(calls) \in K \/ Has(Tail(calls), K)
         /\ Once(calls, K) <=> /\ Once(Tail(calls), K)
                               /\ ~(Head(calls) \in K /\ Has(Tail(calls), K))
         /\ Has(calls', K) <=> Has(more, K) \/ Has(Tail(calls), K)
         /\ Once(calls', K) <=> /\ Once(more, K) /\ Once(Tail(calls), K)
                                /\ ~(Has(more, K) /\ Has(Tail(calls), K))
         /\ LastOnly(calls, K) /\ ~Has(more, K) => LastOnly(calls', K)
         /\ LastOnly(calls, K) /\ Head(calls) \in K => Tail(calls) = <<>>
<1> DEFINE q == Tail(calls)
<1>1. /\ Head(calls) \in CallT /\ q \in Seq(CallT)
      /\ Has(calls, K) <=> Head(calls) \in K \/ Has(q, K)
      /\ Once(calls, K) <=> Once(q, K) /\ ~(Head(calls) \in K /\ Has(q, K))
      /\ LastOnly(calls, K) => LastOnly(q, K) /\ (Head(calls) \in K => q = <<>>)
  BY HasHeadTail
<1>2. calls' = more \o q
  BY DEF Then
<1> HIDE DEF q
<1>3. more \o q \in Seq(CallT)
  BY <1>1, ConcatProperties, Zenon
<1>4. /\ Has(more \o q, K) <=> Has(more, K) \/ Has(q, K)
      /\ Once(more \o q, K) <=> Once(more, K) /\ Once(q, K) /\ ~(Has(more, K) /\ Has(q, K))
      /\ ~Has(more, K) /\ LastOnly(q, K) => LastOnly(more \o q, K)
  BY <1>1, HasConcat
<1>5. calls' \in Seq(CallT)
  BY <1>2, <1>3, Zenon
<1> QED BY <1>1, <1>2, <1>4, <1>5 DEF q

LEMMA NoneOnce ==
  ASSUME NEW q, NEW K, ~Has(q, K)
  PROVE  Once(q, K) /\ LastOnly(q, K)
BY DEF Has, Once, LastOnly

LEMMA CallFacts ==
  /\ \A op \in Ops, s \in Session :
        /\ Call(op, s) \in SessionCall
        /\ Call(op, s).op = op /\ Call(op, s).s = s /\ Call(op, s).about = {}
  /\ \A s \in Session, kind \in Kinds, about \in SUBSET Session :
        /\ CallSend(s, kind, about) \in SessionCall
        /\ CallSend(s, kind, about).op = "Send" /\ CallSend(s, kind, about).s = s
        /\ CallSend(s, kind, about).about = about
BY DEF Call, CallSend, SessionCall, Ops, Kinds

\* no Offer about s is in K
NoOffer(s, K) == \A c \in SessionCall : c.op = "Offer" /\ c.about = {s} => c \notin K

LEMMA BroadcastCalls ==
  ASSUME roster \in Seq(Session), NEW kind \in Kinds, NEW about \in SUBSET Session, NEW K
  PROVE  /\ Broadcast(kind, about) \in Seq(CallT)
         /\ (\A c \in SessionCall : c.op = "Offer" /\ c.about = about => c \notin K)
               => ~Has(Broadcast(kind, about), K)
<1> DEFINE b == Broadcast(kind, about)
<1>1. /\ Len(roster) \in Nat
      /\ b = [i \in 1 .. Len(roster) |->
                [op |-> "Offer", s |-> roster[i], kind |-> kind, about |-> about]]
  BY LenProperties DEF Broadcast
<1>2. \A i \in 1 .. Len(roster) :
        /\ b[i] \in SessionCall /\ b[i].op = "Offer" /\ b[i].about = about
  <2> TAKE i \in 1 .. Len(roster)
  <2>1. roster[i] \in Session
    BY ElementOfSeq
  <2>2. b[i] = [op |-> "Offer", s |-> roster[i], kind |-> kind, about |-> about]
    BY <1>1
  <2> HIDE DEF b
  <2>3. "Offer" \in Ops
    BY DEF Ops
  <2> QED BY <2>1, <2>2, <2>3 DEF SessionCall
<1> HIDE DEF b
<1>3. b \in Seq(CallT) /\ Len(b) = Len(roster)
  <2> DEFINE n == Len(roster)
  <2>1. b \in [1 .. n -> CallT] /\ n \in Nat
    BY <1>1, <1>2 DEF CallT
  <2> HIDE DEF n
  <2>2. b \in Seq(CallT)
    BY <2>1, SeqDef
  <2>3. Len(b) = n
    <3>1. Len(b) \in Nat /\ 1 .. Len(b) = 1 .. n
      BY <2>1, <2>2, LenProperties
    <3> QED BY <2>1, <3>1
  <2> QED BY <2>2, <2>3 DEF n
<1> QED BY <1>2, <1>3 DEF b, Has
-----------------------------------------------------------------------------
(* The inductive invariant *)

Types == TypeOK /\ calls \in Seq(CallT)

\* A WSASend is outstanding, or RegisterSend or its failure is about to run:
\* one of these at most, and only while _sendRegistered is set.
Link(s) ==
    /\ s \in sendPosted \/ Has(calls, Token(s)) => s \in sendRegistered
    /\ ~(s \in sendPosted /\ Has(calls, Token(s)))
    /\ Once(calls, Token(s))

\* A session that has never connected was sent nothing and will be sent
\* nothing.
New(s) == s \notin connected /\ player[s] = "none" /\ s \notin early
Fresh(s) ==
    New(s) => /\ s \notin sendRegistered /\ sendQueue[s] = <<>>
              /\ ~Has(calls, CallsTo({"Send", "OtherPlayers", "Join", "EnterRoom"}, s))

\* _sendRegistered of an open session is set while something is queued, and
\* somebody is at work who will clear it.
Awake(s) ==
    s \in connected =>
        /\ sendQueue[s] # <<>> =>
              s \in sendRegistered \/ Has(calls, CallsTo({"Disconnect"}, s))
        /\ s \in sendRegistered =>
              \/ s \in sendPosted
              \/ Has(calls, CallsTo({"RegisterSend"}, s)) \/ Has(calls, CallsTo({"Disconnect"}, s))
              \/ calls # <<>> /\ Head(calls) \in CallsTo({"SendFailed"}, s) /\ sendQueue[s] = <<>>

\* Closing a session and telling the service are one step but for the calls
\* in between.
Served(s) ==
    /\ s \in inService <=> s \in connected \/ Has(calls, CallsTo({"Release"}, s))
    /\ s \in connected => ~Has(calls, CallsTo({"Release"}, s))
    /\ Once(calls, CallsTo({"Release"}, s))

\* A session enters the room once, and a closed one only if it was early.
Entered(s) ==
    /\ Has(calls, CallsTo({"EnterRoom"}, s)) => player[s] = "none"
    /\ Once(calls, CallsTo({"EnterRoom"}, s))
    /\ s \notin connected /\ (player[s] = "in" \/ Has(calls, CallsTo({"EnterRoom"}, s)))
         => s \in early

\* Nothing that the thread has still to do speaks to or of a player that is
\* gone, for RemoveDeadObjects is the last call there is.
Silent(s) == player[s] = "gone" => ~Has(calls, Speaks(s))

\* Numbers in the queues increase and none is missing but the lost ones.
Ordered(s) ==
    LET all == outgoing[s] \o sendQueue[s]
    IN  /\ \A i, j \in 1 .. Len(all) : i < j => all[i] < all[j]
        /\ Range(all) = (1 .. pushed[s]) \ lost[s]
        /\ lost[s] \subseteq 1 .. pushed[s]

IInv ==
    /\ Types
    /\ LastOnly(calls, Removal)
    /\ \A s \in Session :
          Link(s) /\ Fresh(s) /\ Awake(s) /\ Served(s) /\ Entered(s) /\ Silent(s) /\ Ordered(s)
-----------------------------------------------------------------------------
(* What each operation does to calls *)

\* The running call has returned; of what it calls itself, something is in K
\* if N.
Pushes(N, K) ==
    /\ calls' \in Seq(CallT)
    /\ Has(calls, K) <=> Head(calls) \in K \/ Has(Tail(calls), K)
    /\ Once(calls, K) <=> Once(Tail(calls), K) /\ ~(Head(calls) \in K /\ Has(Tail(calls), K))
    /\ Has(calls', K) <=> N \/ Has(Tail(calls), K)
    /\ ~N /\ Once(Tail(calls), K) => Once(calls', K)
    /\ ~N /\ LastOnly(calls, K) => LastOnly(calls', K)

\* as Pushes, and at most one call is in K
Adds(N, K) ==
    /\ Pushes(N, K)
    /\ ~Has(Tail(calls), K) => Once(calls', K)

LEMMA RunningCall ==
  ASSUME Types, NEW op \in Ops, Running(op)
  PROVE  /\ calls # <<>> /\ calls \in Seq(CallT)
         /\ Head(calls) \in SessionCall /\ Of \in Session /\ Head(calls).op = op
         /\ Head(calls).s = Of /\ Head(calls).about \in SUBSET Session
<1>1. calls # <<>> /\ calls \in Seq(CallT) /\ Head(calls).op = op
  BY DEF Running, Types
<1>2. Head(calls) \in CallT
  BY <1>1, HeadTailProperties
<1>3. Head(calls) \in SessionCall
  <2>1. Call("RemoveDead", "").op = "RemoveDead" /\ op # "RemoveDead"
    BY DEF Call, Ops
  <2> QED BY <1>1, <1>2, <2>1 DEF CallT
<1> QED BY <1>1, <1>3 DEF Of, SessionCall

LEMMA PushesMore ==
  ASSUME Types, calls # <<>>, NEW more \in Seq(CallT), Then(more), NEW K
  PROVE  /\ Pushes(Has(more, K), K)
         /\ Once(more, K) => Adds(Has(more, K), K)
<1>1. calls \in Seq(CallT)
  BY DEF Types
<1>2. ~Has(more, K) => Once(more, K)
  BY NoneOnce
<1>3. ~Has(Tail(calls), K) => Once(Tail(calls), K)
  BY NoneOnce
<1> QED BY <1>1, <1>2, <1>3, Pushing DEF Pushes, Adds

LEMMA ReturnStep ==
  ASSUME Types, calls # <<>>, Then(<<>>), NEW K
  PROVE  Adds(FALSE, K)
<1>1. <<>> \in Seq(CallT) /\ Once(<<>>, K) /\ (Has(<<>>, K) <=> FALSE)
  BY HasFew
<1>2. Adds(Has(<<>>, K), K)
  BY <1>1, PushesMore
<1> QED BY <1>1, <1>2 DEF Adds, Pushes

LEMMA SendStep ==
  ASSUME Types, Send, NEW K
  PROVE  /\ Of \in Session /\ Head(calls) \in SessionCall
         /\ Head(calls).s = Of /\ Head(calls).op \in {"Send", "Offer"}
         /\ Adds(Of \notin sendRegistered /\ Call("RegisterSend", Of) \in K, K)
<1>1. PICK op \in {"Send", "Offer"} : Running(op)
  BY DEF Send, Sending
<1>2. /\ calls # <<>> /\ Of \in Session /\ Head(calls) \in SessionCall
      /\ Head(calls).s = Of /\ Head(calls).op \in {"Send", "Offer"}
  BY <1>1, RunningCall DEF Ops
<1> DEFINE c == Call("RegisterSend", Of)
           more == IF FirstToRegister(Of) THEN <<c>> ELSE <<>>
<1>3. c \in CallT
  BY <1>2, CallFacts DEF Ops, CallT
<1>4. Then(more)
  BY DEF Send
<1> HIDE DEF c
<1>5. more \in Seq(CallT) /\ Once(more, K) /\ (Has(more, K) <=> Of \notin sendRegistered /\ c \in K)
  <2>1. CASE FirstToRegister(Of)
    BY <1>3, <2>1, HasFew DEF FirstToRegister
  <2>2. CASE ~FirstToRegister(Of)
    BY <2>2, HasFew DEF FirstToRegister
  <2> QED BY <2>1, <2>2
<1> HIDE DEF more
<1>6. Adds(Has(more, K), K)
  BY <1>2, <1>4, <1>5, PushesMore
<1> QED BY <1>2, <1>5, <1>6 DEF c, Adds, Pushes

LEMMA FailedStep ==
  ASSUME Types, NEW reset \in BOOLEAN, RegisterSendFailed(reset), NEW K
  PROVE  LET N == \/ reset /\ Call("Disconnect", Of) \in K
                  \/ Call("SendFailed", Of) \in K
         IN  /\ Pushes(N, K)
             /\ Call("Disconnect", Of) \notin K => Adds(N, K)
<1>1. calls # <<>> /\ Of \in Session
  BY RunningCall DEF RegisterSendFailed, Ops
<1> DEFINE c == Call("Disconnect", Of)
           d == Call("SendFailed", Of)
           more == IF reset THEN <<c, d>> ELSE <<d>>
<1>2. c \in CallT /\ d \in CallT
  BY <1>1, CallFacts DEF Ops, CallT
<1>3. Then(more)
  BY DEF RegisterSendFailed
<1> HIDE DEF c, d
<1>4. /\ more \in Seq(CallT)
      /\ Has(more, K) <=> (reset /\ c \in K) \/ d \in K
      /\ c \notin K => Once(more, K)
  <2>1. CASE reset
    BY <1>2, <2>1, HasMore
  <2>2. CASE ~reset
    BY <1>2, <2>2, HasFew
  <2> QED BY <2>1, <2>2
<1> HIDE DEF more
<1>5. Pushes(Has(more, K), K) /\ (c \notin K => Adds(Has(more, K), K))
  BY <1>1, <1>3, <1>4, PushesMore
<1> QED BY <1>4, <1>5 DEF c, d, Adds, Pushes

LEMMA RecvFailedStep ==
  ASSUME Types, NEW reset \in BOOLEAN, RegisterRecvFailed(reset), NEW K
  PROVE  Adds(reset /\ Call("Disconnect", Of) \in K, K)
<1>1. calls # <<>> /\ Of \in Session
  BY RunningCall DEF RegisterRecvFailed, Ops
<1> DEFINE c == Call("Disconnect", Of)
           more == IF reset THEN <<c>> ELSE <<>>
<1>2. c \in CallT
  BY <1>1, CallFacts DEF Ops, CallT
<1>3. Then(more)
  BY DEF RegisterRecvFailed, Then
<1> HIDE DEF c
<1>4. /\ more \in Seq(CallT) /\ Once(more, K)
      /\ Has(more, K) <=> reset /\ c \in K
  <2>1. CASE reset
    BY <1>2, <2>1, HasFew
  <2>2. CASE ~reset
    BY <1>2, <2>2, HasFew
  <2> QED BY <2>1, <2>2
<1> HIDE DEF more
<1>5. Adds(Has(more, K), K)
  BY <1>1, <1>3, <1>4, PushesMore
<1> QED BY <1>4, <1>5 DEF c, Adds, Pushes

\* A Broadcast about the session only, or none, and one more call.
LEMMA BroadcastAndOne ==
  ASSUME roster \in Seq(Session), NEW kind \in Kinds, NEW s \in Session, NEW p,
         p = <<>> \/ p = Broadcast(kind, {s}), NEW c \in CallT, NEW K
  PROVE  /\ p \o <<c>> \in Seq(CallT)
         /\ p = <<>> \/ NoOffer(s, K) => /\ Once(p \o <<c>>, K) /\ LastOnly(p \o <<c>>, K)
                                         /\ Has(p \o <<c>>, K) <=> c \in K
<1>1. p \in Seq(CallT) /\ (p = <<>> \/ NoOffer(s, K) => ~Has(p, K))
  <2>1. CASE p = Broadcast(kind, {s})
    BY <2>1, BroadcastCalls, HasFew DEF NoOffer
  <2>2. CASE p = <<>>
    BY <2>2, HasFew
  <2> QED BY <2>1, <2>2
<1>2. /\ <<c>> \in Seq(CallT) /\ Once(<<c>>, K) /\ LastOnly(<<c>>, K)
      /\ Has(<<c>>, K) <=> c \in K
  BY HasFew
<1>3. ~Has(p, K) => Once(p, K)
  BY NoneOnce
<1>4. p \o <<c>> \in Seq(CallT)
  BY <1>1, <1>2, ConcatProperties, Zenon
<1>5. /\ Has(p \o <<c>>, K) <=> Has(p, K) \/ Has(<<c>>, K)
      /\ Once(p \o <<c>>, K) <=> Once(p, K) /\ Once(<<c>>, K) /\ ~(Has(p, K) /\ Has(<<c>>, K))
      /\ ~Has(p, K) /\ LastOnly(<<c>>, K) => LastOnly(p \o <<c>>, K)
  BY <1>1, <1>2, HasConcat
<1> QED BY <1>1, <1>2, <1>3, <1>4, <1>5

LEMMA DisconnectStep ==
  ASSUME Types, Disconnect, NEW K
  PROVE  /\ calls' \in Seq(CallT)
         /\ ~Locks(Of) \/ NoOffer(Of, K) => Adds(Call("Release", Of) \in K, K)
<1>1. calls # <<>> /\ Of \in Session
  BY RunningCall DEF Disconnect, Ops
<1> DEFINE c == Call("Release", Of)
           p == IF Locks(Of) THEN Broadcast("Leave", {Of}) ELSE <<>>
           more == p \o <<c>>
<1>2. c \in CallT
  BY <1>1, CallFacts DEF Ops, CallT
<1>3. Then(more)
  BY DEF Disconnect
<1> HIDE DEF c
<1>4. /\ more \in Seq(CallT)
      /\ ~Locks(Of) \/ NoOffer(Of, K) => Once(more, K) /\ (Has(more, K) <=> c \in K)
  <2>1. roster \in Seq(Session) /\ "Leave" \in Kinds
    BY DEF Types, TypeOK, Kinds
  <2>2. p = <<>> \/ p = Broadcast("Leave", {Of})
    OBVIOUS
  <2>3. ~Locks(Of) => p = <<>>
    OBVIOUS
  <2> HIDE DEF p
  <2>4. /\ p \o <<c>> \in Seq(CallT)
        /\ p = <<>> \/ NoOffer(Of, K) => /\ Once(p \o <<c>>, K) /\ LastOnly(p \o <<c>>, K)
                                         /\ Has(p \o <<c>>, K) <=> c \in K
    BY <1>1, <1>2, <2>1, <2>2, BroadcastAndOne
  <2> QED BY <2>3, <2>4
<1> HIDE DEF more
<1>5. Pushes(Has(more, K), K) /\ (Once(more, K) => Adds(Has(more, K), K))
  BY <1>1, <1>3, <1>4, PushesMore
<1> QED BY <1>4, <1>5 DEF c, Adds, Pushes

LEMMA EnterStep ==
  ASSUME Types, EnterRoom, NEW K
  PROVE  Pushes(\/ CallSend(Of, "MyPlayer", {Of}) \in K \/ Call("OtherPlayers", Of) \in K
                \/ CallSend(Of, "Tilemap", {}) \in K \/ Call("Join", Of) \in K, K)
<1>1. calls # <<>> /\ Of \in Session
  BY RunningCall DEF EnterRoom, Ops
<1> DEFINE a == CallSend(Of, "MyPlayer", {Of})
           b == Call("OtherPlayers", Of)
           c == CallSend(Of, "Tilemap", {})
           d == Call("Join", Of)
           more == <<a, b, c, d>>
<1>2. a \in CallT /\ b \in CallT /\ c \in CallT /\ d \in CallT
  <2>1. {Of} \in SUBSET Session /\ {} \in SUBSET Session
    BY <1>1
  <2>2. "MyPlayer" \in Kinds /\ "Tilemap" \in Kinds /\ "OtherPlayers" \in Ops /\ "Join" \in Ops
    BY DEF Kinds, Ops
  <2>3. a \in SessionCall /\ c \in SessionCall
    BY <1>1, <2>1, <2>2, CallFacts
  <2>4. b \in SessionCall /\ d \in SessionCall
    BY <1>1, <2>2, CallFacts
  <2> QED BY <2>3, <2>4 DEF CallT
<1>3. Then(more)
  BY DEF EnterRoom
<1> HIDE DEF a, b, c, d
<1>4. more \in Seq(CallT) /\ (Has(more, K) <=> a \in K \/ b \in K \/ c \in K \/ d \in K)
  BY <1>2, HasMore
<1> HIDE DEF more
<1>5. Pushes(Has(more, K), K)
  BY <1>1, <1>3, <1>4, PushesMore
<1> QED BY <1>4, <1>5 DEF a, b, c, d, Pushes

LEMMA OthersStep ==
  ASSUME Types, OtherPlayers, NEW K
  PROVE  Adds(CallSend(Of, "OtherPlayers", {s \in Range(roster) : Locks(s)}) \in K, K)
<1>1. calls # <<>> /\ Of \in Session
  BY RunningCall DEF OtherPlayers, Ops
<1> DEFINE c == CallSend(Of, "OtherPlayers", {s \in Range(roster) : Locks(s)})
<1>2. c \in CallT
  <2>1. {s \in Range(roster) : Locks(s)} \in SUBSET Session
    BY DEF Types, TypeOK, Range
  <2> QED BY <1>1, <2>1, CallFacts DEF Kinds, CallT
<1>3. Then(<<c>>)
  BY DEF OtherPlayers
<1> HIDE DEF c
<1>4. <<c>> \in Seq(CallT) /\ Once(<<c>>, K) /\ (Has(<<c>>, K) <=> c \in K)
  BY <1>2, HasFew
<1>5. Adds(Has(<<c>>, K), K)
  BY <1>1, <1>3, <1>4, PushesMore
<1> QED BY <1>4, <1>5 DEF c, Adds, Pushes

LEMMA JoinStep ==
  ASSUME Types, Join, NEW K
  PROVE  calls' \in Seq(CallT) /\ (NoOffer(Of, K) => Adds(FALSE, K))
<1>1. calls # <<>> /\ Of \in Session
  BY RunningCall DEF Join, Ops
<1> DEFINE b == Broadcast("Join", {Of})
<1>2. b \in Seq(CallT) /\ (NoOffer(Of, K) => ~Has(b, K))
  BY <1>1, BroadcastCalls DEF Types, TypeOK, Kinds, NoOffer
<1>3. Then(b)
  BY DEF Join
<1> HIDE DEF b
<1>4. ~Has(b, K) => Once(b, K)
  BY NoneOnce
<1>5. Pushes(Has(b, K), K) /\ (Once(b, K) => Adds(Has(b, K), K))
  BY <1>1, <1>2, <1>3, PushesMore
<1> QED BY <1>2, <1>4, <1>5 DEF Adds, Pushes

\* Events find nothing to do.
LEMMA IdleHas ==
  ASSUME Idle, NEW K
  PROVE  ~Has(calls, K) /\ Once(calls, K)
BY DEF Idle, Has, Once

LEMMA ConnectStep ==
  ASSUME Types, NEW s \in Session, ProcessConnect(s), NEW K
  PROVE  LET a == CallSend(s, "EnterGame", {})
             b == Call("EnterRoom", s)
             c == Call("RegisterRecv", s)
         IN  /\ calls' \in Seq(CallT)
             /\ Has(calls', K) <=> a \in K \/ b \in K \/ c \in K
             /\ a \notin K /\ c \notin K => Once(calls', K)
<1> DEFINE a == CallSend(s, "EnterGame", {})
           b == Call("EnterRoom", s)
           c == Call("RegisterRecv", s)
<1>1. calls' = <<a, b, c>>
  BY DEF ProcessConnect
<1>2. a \in CallT /\ b \in CallT /\ c \in CallT
  <2>1. {} \in SUBSET Session /\ "EnterGame" \in Kinds /\ "EnterRoom" \in Ops /\ "RegisterRecv" \in Ops
    BY DEF Kinds, Ops
  <2>2. a \in SessionCall
    BY <2>1, CallFacts
  <2>3. b \in SessionCall /\ c \in SessionCall
    BY <2>1, CallFacts
  <2> QED BY <2>2, <2>3 DEF CallT
<1> HIDE DEF a, b, c
<1> QED BY <1>1, <1>2, HasMore DEF a, b, c

\* An event that has one call made.
LEMMA OneStep ==
  ASSUME NEW c \in CallT, calls' = <<c>>, NEW K
  PROVE  /\ calls' \in Seq(CallT) /\ Once(calls', K) /\ LastOnly(calls', K)
         /\ Has(calls', K) <=> c \in K
BY HasFew

\* An event that has one call made, after a Broadcast perhaps.
LEMMA RecvStep ==
  ASSUME Types, NEW s \in Session, ProcessRecv(s), NEW K
  PROVE  /\ calls' \in Seq(CallT)
         /\ ~Locks(s) \/ NoOffer(s, K) =>
               /\ Once(calls', K) /\ LastOnly(calls', K)
               /\ Has(calls', K) <=> Call("RegisterRecv", s) \in K
<1> DEFINE c == Call("RegisterRecv", s)
<1> DEFINE p == IF Locks(s) THEN Broadcast("Move", {s}) ELSE <<>>
<1>1. calls' = p \o <<c>>
  BY DEF ProcessRecv
<1>2. c \in CallT
  BY CallFacts DEF Ops, CallT
<1>3. roster \in Seq(Session) /\ "Move" \in Kinds
  BY DEF Types, TypeOK, Kinds
<1>4. (p = <<>> \/ p = Broadcast("Move", {s})) /\ (~Locks(s) => p = <<>>)
  OBVIOUS
<1> HIDE DEF c, p
<1>5. /\ p \o <<c>> \in Seq(CallT)
      /\ p = <<>> \/ NoOffer(s, K) => /\ Once(p \o <<c>>, K) /\ LastOnly(p \o <<c>>, K)
                                      /\ Has(p \o <<c>>, K) <=> c \in K
  BY <1>2, <1>3, <1>4, BroadcastAndOne
<1> QED BY <1>1, <1>4, <1>5 DEF c

LEMMA StateStep ==
  ASSUME Types, NEW s \in Session, UpdateState(s), NEW K
  PROVE  /\ calls' \in Seq(CallT)
         /\ NoOffer(s, K) =>
               /\ Once(calls', K) /\ LastOnly(calls', K)
               /\ Has(calls', K) <=> Call("RemoveDead", "") \in K
<1> DEFINE c == Call("RemoveDead", "")
           b == Broadcast("State", {s})
<1>1. calls' = b \o <<c>>
  BY DEF UpdateState
<1>2. c \in CallT
  BY DEF CallT
<1>3. roster \in Seq(Session) /\ "State" \in Kinds
  BY DEF Types, TypeOK, Kinds
<1>4. b = Broadcast("State", {s})
  OBVIOUS
<1> HIDE DEF b, c
<1>5. /\ b \o <<c>> \in Seq(CallT)
      /\ NoOffer(s, K) => /\ Once(b \o <<c>>, K) /\ LastOnly(b \o <<c>>, K)
                          /\ Has(b \o <<c>>, K) <=> c \in K
  BY <1>2, <1>3, <1>4, BroadcastAndOne
<1> QED BY <1>1, <1>5 DEF c
-----------------------------------------------------------------------------
(* Types *)

LEMMA TypesNext ==
  ASSUME Types, [Next]_vars
  PROVE  Types'
<1> USE SessionsAssumption DEF linkVars, roomVars, sendVars
<1>1. ASSUME calls' \in Seq(CallT), UNCHANGED <<linkVars, roomVars, sendVars>>
      PROVE  Types'
  BY <1>1 DEF Types, TypeOK
<1>2. ASSUME calls # <<>>, Then(<<>>)
      PROVE  calls' \in Seq(CallT)
  BY <1>2, ReturnStep DEF Adds, Pushes
<1>3. CASE Send
  <2>1. Of \in Session /\ calls' \in Seq(CallT)
    BY <1>3, SendStep DEF Adds, Pushes
  <2>2. Append(sendQueue[Of], pushed[Of] + 1) \in Seq(Nat) /\ pushed[Of] + 1 \in Nat
    BY <2>1, AppendProperties DEF Types, TypeOK
  <2> QED BY <1>3, <2>1, <2>2 DEF Send, Types, TypeOK
<1>4. CASE OfferExpired
  BY <1>1, <1>2, <1>4 DEF OfferExpired, Running
<1>5. CASE RegisterSendClosed
  BY <1>1, <1>2, <1>5 DEF RegisterSendClosed, Running
<1>6. CASE RegisterSendPosted
  <2>1. Of \in Session /\ calls' \in Seq(CallT)
    BY <1>2, <1>6, RunningCall DEF RegisterSendPosted, Running, Ops
  <2>2. outgoing[Of] \o sendQueue[Of] \in Seq(Nat) /\ QueueLeft(Of) \in Seq(Nat)
    BY <2>1, ConcatProperties DEF Types, TypeOK, QueueLeft
  <2> QED BY <1>6, <2>1, <2>2 DEF RegisterSendPosted, Types, TypeOK
<1>7. ASSUME NEW reset \in BOOLEAN, RegisterSendFailed(reset)
      PROVE  Types'
  <2>1. Of \in Session /\ calls' \in Seq(CallT)
    BY <1>7, RunningCall, FailedStep DEF RegisterSendFailed, Pushes, Ops
  <2>2. Range(sendQueue[Of]) \in SUBSET Nat /\ <<>> \in Seq(Nat)
    BY <2>1, RangeOfSeq DEF Types, TypeOK
  <2>3. fails + 1 \in 0 .. MaxFails
    BY <1>7 DEF RegisterSendFailed, Types, TypeOK
  <2> QED BY <1>7, <2>1, <2>2, <2>3 DEF RegisterSendFailed, Types, TypeOK
<1>8. CASE SendFailed
  BY <1>2, <1>8 DEF SendFailed, Running, Types, TypeOK
<1>9. CASE DisconnectAgain
  BY <1>1, <1>2, <1>9 DEF DisconnectAgain, Running
<1>10. CASE Disconnect
  <2>1. Of \in Session
    BY <1>10, RunningCall DEF Disconnect, Ops
  <2>2. calls' \in Seq(CallT)
    BY <1>10, DisconnectStep
  <2>3. /\ player' \in [Session -> {"none", "in", "dead", "gone"}]
        /\ \A s \in Session : player'[s] = "none" <=> player[s] = "none"
    BY <1>10, <2>1 DEF Disconnect, LeaveRoom, Locks, Types, TypeOK
  <2> QED BY <1>10, <2>1, <2>2, <2>3 DEF Disconnect, Types, TypeOK
<1>11. CASE Release
  BY <1>2, <1>11 DEF Release, Running, Types, TypeOK
<1>12. CASE EnterRoom
  <2>1. Of \in Session /\ calls' \in Seq(CallT)
    BY <1>12, RunningCall, EnterStep DEF EnterRoom, Pushes, Ops
  <2>2. roster' \in Seq(Session) /\ Range(roster') = Range(roster) \cup {Of}
    <3>1. roster \in Seq(Session) /\ roster' = Append(roster, Of)
      BY <1>12 DEF EnterRoom, Types, TypeOK
    <3>2. roster' = roster \o <<Of>> /\ <<Of>> \in Seq(Session)
      BY <2>1, <3>1, AppendIsConcat
    <3>3. Range(<<Of>>) = {Of}
      BY DEF Range
    <3>4. Range(roster \o <<Of>>) = Range(roster) \cup Range(<<Of>>)
      BY <3>1, <3>2, RangeConcatenation
    <3>5. Append(roster, Of) \in Seq(Session)
      BY <2>1, <3>1, AppendProperties
    <3> QED BY <3>1, <3>2, <3>3, <3>4, <3>5
  <2>3. player' \in [Session -> {"none", "in", "dead", "gone"}]
    BY <1>12, <2>1 DEF EnterRoom, Types, TypeOK
  <2>4. \A s \in Session : player'[s] # "none" <=> s \in Range(roster')
    BY <1>12, <2>1, <2>2 DEF EnterRoom, Types, TypeOK
  <2> QED BY <1>12, <2>1, <2>2, <2>3, <2>4 DEF EnterRoom, Types, TypeOK
<1>13. CASE OtherPlayers
  BY <1>1, <1>13, OthersStep DEF OtherPlayers, Adds, Pushes
<1>14. CASE Join
  <2>1. calls' \in Seq(CallT)
    BY <1>14, JoinStep
  <2> QED BY <1>1, <1>14, <2>1 DEF Join
<1>15. CASE RegisterRecv
  <2>1. Of \in Session /\ calls' \in Seq(CallT)
    BY <1>2, <1>15, RunningCall DEF RegisterRecv, Running, Ops
  <2> QED BY <1>15, <2>1 DEF RegisterRecv, Types, TypeOK
<1>16. ASSUME NEW reset \in BOOLEAN, RegisterRecvFailed(reset)
       PROVE  Types'
  <2>1. calls' \in Seq(CallT)
    BY <1>16, RecvFailedStep DEF Adds, Pushes
  <2>2. fails + 1 \in 0 .. MaxFails
    BY <1>16 DEF RegisterRecvFailed, Types, TypeOK
  <2> QED BY <1>16, <2>1, <2>2 DEF RegisterRecvFailed, Types, TypeOK
<1>17. CASE RemoveDead
  <2>1. calls' \in Seq(CallT)
    BY <1>2, <1>17 DEF RemoveDead, Running
  <2>2. /\ player' \in [Session -> {"none", "in", "dead", "gone"}]
        /\ \A s \in Session : player'[s] = "none" <=> player[s] = "none"
    BY <1>17 DEF RemoveDead, Types, TypeOK
  <2> QED BY <1>17, <2>1, <2>2 DEF RemoveDead, Types, TypeOK
<1>18. ASSUME NEW s \in Session, ProcessConnect(s)
       PROVE  Types'
  <2>1. calls' \in Seq(CallT)
    BY <1>18, ConnectStep
  <2> QED BY <1>18, <2>1 DEF ProcessConnect, Types, TypeOK
<1>19. ASSUME NEW s \in Session, NEW op \in Ops
       PROVE  <<Call(op, s)>> \in Seq(CallT)
  BY CallFacts, HasFew DEF CallT
<1>20. ASSUME NEW s \in Session, ProcessRecvZero(s)
       PROVE  Types'
  BY <1>19, <1>20 DEF ProcessRecvZero, Ops, Types, TypeOK
<1>21. ASSUME NEW s \in Session, ProcessRecv(s)
       PROVE  Types'
  <2>1. calls' \in Seq(CallT)
    BY <1>21, RecvStep
  <2>2. moves + 1 \in 0 .. MaxMoves
    BY <1>21 DEF ProcessRecv, Types, TypeOK
  <2> QED BY <1>21, <2>1, <2>2 DEF ProcessRecv, Types, TypeOK
<1>22. ASSUME NEW s \in Session, ProcessSendZero(s)
       PROVE  Types'
  <2>1. calls' \in Seq(CallT)
    BY <1>19, <1>22 DEF ProcessSendZero, Ops
  <2>2. fails + 1 \in 0 .. MaxFails
    BY <1>22 DEF ProcessSendZero, Types, TypeOK
  <2> QED BY <1>22, <2>1, <2>2 DEF ProcessSendZero, Types, TypeOK
<1>23. ASSUME NEW s \in Session, ProcessSend(s)
       PROVE  Types'
  <2>1. calls' \in Seq(CallT)
    BY <1>19, <1>23 DEF ProcessSend, Ops, Types
  <2>2. sendRegistered' \subseteq Session
    BY <1>23 DEF ProcessSend, Types, TypeOK
  <2> QED BY <1>23, <2>1, <2>2 DEF ProcessSend, Types, TypeOK
<1>24. CASE Update
  <2>1. calls' \in Seq(CallT)
    BY <1>24, HasFew DEF Update, CallT
  <2> QED BY <1>1, <1>24, <2>1 DEF Update
<1>25. ASSUME NEW s \in Session, UpdateState(s)
       PROVE  Types'
  <2>1. calls' \in Seq(CallT)
    BY <1>25, StateStep
  <2>2. moves + 1 \in 0 .. MaxMoves
    <3>1. moves < MaxMoves /\ moves' = moves + 1 /\ moves \in 0 .. MaxMoves
      BY <1>25 DEF UpdateState, Types, TypeOK
    <3> QED BY <3>1
  <2> QED BY <1>25, <2>1, <2>2 DEF UpdateState, Types, TypeOK
<1>26. CASE UNCHANGED vars
  BY <1>26 DEF vars, Types, TypeOK
<1> QED
  BY <1>3, <1>4, <1>5, <1>6, <1>7, <1>8, <1>9, <1>10, <1>11, <1>12, <1>13, <1>14, <1>15,
     <1>16, <1>17, <1>18, <1>20, <1>21, <1>22, <1>23, <1>24, <1>25, <1>26
  DEF Next, Thread, Completion
-----------------------------------------------------------------------------
(* Which calls an operation leaves to be made *)

LEMMA Members ==
  ASSUME NEW s \in Session, NEW ops
  PROVE  /\ \A c \in SessionCall : c \in CallsTo(ops, s) <=> c.op \in ops /\ c.s = s
         /\ \A op \in Ops, r \in Session :
               Call(op, r) \in CallsTo(ops, s) <=> op \in ops /\ r = s
         /\ \A r \in Session, kind \in Kinds, about \in SUBSET Session :
               CallSend(r, kind, about) \in CallsTo(ops, s) <=> "Send" \in ops /\ r = s
         /\ Call("RemoveDead", "") \notin CallsTo(ops, s)
         /\ "Offer" \notin ops => \A r \in Session : NoOffer(r, CallsTo(ops, s))
<1>1. \A c : c \in CallsTo(ops, s) <=> c \in SessionCall /\ c.op \in ops /\ c.s = s
  BY DEF CallsTo
<1>2. Call("RemoveDead", "") \notin SessionCall
  BY DEF Call, SessionCall, Ops
<1>3. \A c \in SessionCall : c \in CallsTo(ops, s) <=> c.op \in ops /\ c.s = s
  BY <1>1
<1>4. \A op \in Ops, r \in Session : Call(op, r) \in CallsTo(ops, s) <=> op \in ops /\ r = s
  BY <1>3, CallFacts
<1>5. \A r \in Session, kind \in Kinds, about \in SUBSET Session :
         CallSend(r, kind, about) \in CallsTo(ops, s) <=> "Send" \in ops /\ r = s
  BY <1>3, CallFacts
<1>6. "Offer" \notin ops => \A r \in Session : NoOffer(r, CallsTo(ops, s))
  BY <1>3 DEF NoOffer
<1> QED BY <1>1, <1>2, <1>3, <1>4, <1>5, <1>6

-----------------------------------------------------------------------------
(* The links of a session to its WSASend *)

LEMMA LinkNext ==
  ASSUME Types, NEW s \in Session, Link(s), Next
  PROVE  Link(s)'
<1> DEFINE ops == {"RegisterSend", "SendFailed"}
           T == Token(s)
           Good == /\ s \in sendPosted \/ Has(calls, T) => s \in sendRegistered
                   /\ ~(s \in sendPosted /\ Has(calls, T))
                   /\ Once(calls, T)
<1> USE DEF linkVars, roomVars, sendVars
<1>1. T = CallsTo(ops, s)
  BY DEF Token
<1>a. "Offer" \notin ops /\ "Send" \notin ops
  OBVIOUS
<1> HIDE DEF T, ops
<1>b. \A c \in SessionCall : c \in T <=> c.op \in ops /\ c.s = s
  BY <1>1, Members
<1>2. \A op \in Ops, r \in Session : Call(op, r) \in T <=> op \in ops /\ r = s
  BY <1>b, CallFacts
<1>3. \A r \in Session, kind \in Kinds, about \in SUBSET Session : CallSend(r, kind, about) \notin T
  BY <1>1, <1>a, Members
<1>4. Call("RemoveDead", "") \notin T /\ \A r \in Session : NoOffer(r, T)
  BY <1>1, <1>a, Members
<1>5. Good
  BY DEF Link, T
<1>6. SUFFICES Good'
  BY DEF Link, T
<1>7. CASE Send
  <2>1. /\ Of \in Session /\ Head(calls) \notin T
        /\ Adds(Of \notin sendRegistered /\ Call("RegisterSend", Of) \in T, T)
    BY <1>b, <1>7, SendStep DEF ops
  <2>2. Call("RegisterSend", Of) \in T <=> Of = s
    BY <1>2, <2>1 DEF Ops, ops
  <2>3. sendPosted' = sendPosted /\ sendRegistered' = sendRegistered \cup {Of}
    BY <1>7 DEF Send
  <2> QED BY <1>5, <2>1, <2>2, <2>3 DEF Adds, Pushes
<1>8. ASSUME calls # <<>>, Then(<<>>), UNCHANGED <<sendPosted, sendRegistered>>
      PROVE  Good'
  <2>1. Adds(FALSE, T)
    BY <1>8, ReturnStep
  <2> QED BY <1>5, <1>8, <2>1 DEF Adds, Pushes
<1>9. CASE RegisterSendPosted
  <2>1. /\ calls # <<>> /\ Of \in Session
        /\ Head(calls) \in T <=> Of = s
    BY <1>b, <1>9, RunningCall DEF RegisterSendPosted, Ops, ops
  <2>2. Adds(FALSE, T)
    BY <1>9, <2>1, ReturnStep DEF RegisterSendPosted
  <2>3. sendPosted' = sendPosted \cup {Of} /\ sendRegistered' = sendRegistered
    BY <1>9 DEF RegisterSendPosted
  <2> QED BY <1>5, <2>1, <2>2, <2>3 DEF Adds, Pushes
<1>10. ASSUME NEW reset \in BOOLEAN, RegisterSendFailed(reset)
       PROVE  Good'
  <2>1. /\ calls # <<>> /\ Of \in Session
        /\ Head(calls) \in T <=> Of = s
    BY <1>b, <1>10, RunningCall DEF RegisterSendFailed, Ops, ops
  <2>2. Call("Disconnect", Of) \notin T /\ (Call("SendFailed", Of) \in T <=> Of = s)
    BY <1>2, <2>1 DEF Ops, ops
  <2>3. Adds(Of = s, T)
    BY <1>10, <2>2, FailedStep DEF Adds, Pushes
  <2>4. UNCHANGED <<sendPosted, sendRegistered>>
    BY <1>10 DEF RegisterSendFailed
  <2> QED BY <1>5, <2>1, <2>3, <2>4 DEF Adds, Pushes
<1>11. CASE SendFailed
  <2>1. /\ calls # <<>> /\ Of \in Session
        /\ Head(calls) \in T <=> Of = s
    BY <1>b, <1>11, RunningCall DEF SendFailed, Ops, ops
  <2>2. Adds(FALSE, T)
    BY <1>11, <2>1, ReturnStep DEF SendFailed
  <2>3. sendPosted' = sendPosted /\ sendRegistered' = sendRegistered \ {Of}
    BY <1>11 DEF SendFailed
  <2> QED BY <1>5, <2>1, <2>2, <2>3 DEF Adds, Pushes
<1>12. CASE Disconnect
  <2>1. Of \in Session /\ Call("Release", Of) \notin T
    BY <1>2, <1>12, RunningCall DEF Disconnect, Ops, ops
  <2>2. Adds(Call("Release", Of) \in T, T)
    BY <1>4, <1>12, <2>1, DisconnectStep
  <2> QED BY <1>5, <1>12, <2>1, <2>2 DEF Disconnect, Adds, Pushes
<1>13. CASE EnterRoom
  <2>1. Of \in Session
    BY <1>13, RunningCall DEF EnterRoom, Ops
  <2>2. /\ CallSend(Of, "MyPlayer", {Of}) \notin T /\ Call("OtherPlayers", Of) \notin T
        /\ CallSend(Of, "Tilemap", {}) \notin T /\ Call("Join", Of) \notin T
    BY <1>2, <1>3, <2>1 DEF Ops, Kinds, ops
  <2> QED BY <1>5, <1>13, <2>2, EnterStep DEF EnterRoom, Pushes
<1>14. CASE OtherPlayers
  <2>1. Of \in Session /\ {r \in Range(roster) : Locks(r)} \in SUBSET Session
    BY <1>14, RunningCall DEF OtherPlayers, Ops, Types, TypeOK, Range
  <2>2. CallSend(Of, "OtherPlayers", {r \in Range(roster) : Locks(r)}) \notin T
    BY <1>3, <2>1 DEF Kinds
  <2> QED BY <1>5, <1>14, <2>2, OthersStep DEF OtherPlayers, Adds, Pushes
<1>15. CASE Join
  <2>1. Of \in Session
    BY <1>15, RunningCall DEF Join, Ops
  <2> QED BY <1>4, <1>5, <1>15, <2>1, JoinStep DEF Join, Adds, Pushes
<1>16. ASSUME NEW reset \in BOOLEAN, RegisterRecvFailed(reset)
       PROVE  Good'
  <2>1. Of \in Session /\ Call("Disconnect", Of) \notin T
    BY <1>2, <1>16, RunningCall DEF RegisterRecvFailed, Ops, ops
  <2> QED BY <1>5, <1>16, <2>1, RecvFailedStep DEF RegisterRecvFailed, Adds, Pushes
<1>17. ASSUME NEW r \in Session, ProcessConnect(r)
       PROVE  Good'
  <2>1. /\ CallSend(r, "EnterGame", {}) \notin T
        /\ Call("EnterRoom", r) \notin T /\ Call("RegisterRecv", r) \notin T
    BY <1>2, <1>3 DEF Ops, Kinds, ops
  <2>2. ~Has(calls', T) /\ Once(calls', T)
    BY <1>17, <2>1, ConnectStep
  <2> QED BY <1>5, <1>17, <2>2 DEF ProcessConnect
<1>18. ASSUME NEW op \in Ops, NEW r \in Session, calls' = <<Call(op, r)>>
       PROVE  Once(calls', T) /\ (Has(calls', T) <=> op \in ops /\ r = s)
  BY <1>2, <1>18, CallFacts, OneStep DEF CallT
<1>19. ASSUME Idle
       PROVE  ~Has(calls, T)
  BY <1>19, IdleHas
<1>20. ASSUME NEW r \in Session, ProcessRecvZero(r)
       PROVE  Good'
  BY <1>5, <1>18, <1>20 DEF ProcessRecvZero, Ops, ops
<1>21. ASSUME NEW r \in Session, ProcessRecv(r)
       PROVE  Good'
  <2>1. Call("RegisterRecv", r) \notin T
    BY <1>2 DEF Ops, ops
  <2> QED BY <1>4, <1>5, <1>21, <2>1, RecvStep DEF ProcessRecv
<1>22. ASSUME NEW r \in Session, ProcessSendZero(r)
       PROVE  Good'
  <2>1. ~Has(calls', T) /\ Once(calls', T)
    BY <1>18, <1>22 DEF ProcessSendZero, Ops, ops
  <2> QED BY <1>5, <1>22, <2>1 DEF ProcessSendZero
<1>23. ASSUME NEW r \in Session, ProcessSend(r)
       PROVE  Good'
  <2>1. CASE sendQueue[r] = <<>>
    BY <1>5, <1>19, <1>23, <2>1 DEF ProcessSend
  <2>2. CASE sendQueue[r] # <<>>
    <3>1. Once(calls', T) /\ (Has(calls', T) <=> r = s)
      BY <1>18, <1>23, <2>2 DEF ProcessSend, Ops, ops
    <3> QED BY <1>5, <1>23, <2>2, <3>1 DEF ProcessSend
  <2> QED BY <2>1, <2>2
<1>24. CASE Update
  <2>1. calls' = <<Call("RemoveDead", "")>> /\ Call("RemoveDead", "") \in CallT
    BY <1>24 DEF Update, CallT
  <2> QED BY <1>4, <1>5, <1>24, <2>1, OneStep DEF Update
<1>25. ASSUME NEW r \in Session, UpdateState(r)
       PROVE  Good'
  BY <1>4, <1>5, <1>25, StateStep DEF UpdateState
<1>26. CASE OfferExpired
  BY <1>8, <1>26 DEF OfferExpired, Running
<1>27. CASE RegisterSendClosed
  BY <1>8, <1>27 DEF RegisterSendClosed, Running
<1>28. CASE DisconnectAgain
  BY <1>8, <1>28 DEF DisconnectAgain, Running
<1>29. CASE Release
  BY <1>8, <1>29 DEF Release, Running
<1>30. CASE RegisterRecv
  BY <1>8, <1>30 DEF RegisterRecv, Running
<1>31. CASE RemoveDead
  BY <1>8, <1>31 DEF RemoveDead, Running
<1> QED
  BY <1>7, <1>9, <1>10, <1>11, <1>12, <1>13, <1>14, <1>15, <1>16, <1>17, <1>20, <1>21, <1>22,
     <1>23, <1>24, <1>25, <1>26, <1>27, <1>28, <1>29, <1>30, <1>31
  DEF Next, Thread, Completion
-----------------------------------------------------------------------------
(* Steps that make no call of certain operations *)

\* the step may have the thread call one of these operations
Makes(ops) ==
    \/ "RegisterSend" \in ops /\ (Send \/ \E r \in Session : ProcessSend(r))
    \/ "SendFailed" \in ops /\ \E reset \in BOOLEAN : RegisterSendFailed(reset)
    \/ /\ "Disconnect" \in ops
       /\ \/ \E reset \in BOOLEAN : RegisterSendFailed(reset) \/ RegisterRecvFailed(reset)
          \/ \E r \in Session : ProcessRecvZero(r) \/ ProcessSendZero(r)
    \/ "Release" \in ops /\ Disconnect
    \/ "EnterRoom" \in ops /\ \E r \in Session : ProcessConnect(r)
    \/ "Send" \in ops /\ (EnterRoom \/ OtherPlayers \/ \E r \in Session : ProcessConnect(r))
    \/ ops \cap {"OtherPlayers", "Join"} # {} /\ EnterRoom

LEMMA Quiet ==
  ASSUME Types, Next, NEW s \in Session, NEW ops, "Offer" \notin ops, "RegisterRecv" \notin ops,
         ~Makes(ops)
  PROVE  LET K == CallsTo(ops, s)
         IN  /\ Has(calls', K) => Has(calls, K)
             /\ Has(calls, K) => \/ Has(calls', K)
                                 \/ Head(calls) \in K
             /\ Once(calls, K) => /\ Once(calls', K)
                                  /\ Head(calls) \in K => ~Has(calls', K)
<1> DEFINE K == CallsTo(ops, s)
           Good == /\ Has(calls', K) => Has(calls, K)
                   /\ Has(calls, K) => \/ Has(calls', K)
                                       \/ Head(calls) \in K
                   /\ Once(calls, K) => /\ Once(calls', K)
                                        /\ Head(calls) \in K => ~Has(calls', K)
<1>1. \A op \in Ops, r \in Session : op \notin ops => Call(op, r) \notin K
  BY Members
<1>2. "Send" \notin ops =>
        \A r \in Session, kind \in Kinds, about \in SUBSET Session : CallSend(r, kind, about) \notin K
  BY Members
<1>3. Call("RemoveDead", "") \notin K /\ \A r \in Session : NoOffer(r, K)
  BY Members
<1> SUFFICES Good
  OBVIOUS
<1> HIDE DEF K
<1>4. ASSUME Pushes(FALSE, K)
      PROVE  Good
  BY <1>4 DEF Pushes
<1>5. ASSUME calls # <<>>, Then(<<>>)
      PROVE  Good
  BY <1>4, <1>5, ReturnStep DEF Adds
<1>6. ASSUME Idle, ~Has(calls', K), Once(calls', K)
      PROVE  Good
  BY <1>6, IdleHas
<1> HIDE DEF Good
<1>7. CASE Send
  <2>1. "RegisterSend" \notin ops
    BY <1>7 DEF Makes
  <2>2. Of \in Session /\ Adds(Of \notin sendRegistered /\ Call("RegisterSend", Of) \in K, K)
    BY <1>7, SendStep
  <2>3. Call("RegisterSend", Of) \notin K
    BY <1>1, <2>1, <2>2 DEF Ops
  <2> QED BY <1>4, <2>2, <2>3 DEF Adds, Pushes
<1>8. ASSUME NEW reset \in BOOLEAN, RegisterSendFailed(reset)
      PROVE  Good
  <2>1. Of \in Session /\ "SendFailed" \notin ops /\ "Disconnect" \notin ops
    BY <1>8, RunningCall DEF RegisterSendFailed, Ops, Makes
  <2>2. Call("SendFailed", Of) \notin K /\ Call("Disconnect", Of) \notin K
    BY <1>1, <2>1 DEF Ops
  <2> QED BY <1>4, <1>8, <2>2, FailedStep DEF Pushes
<1>9. CASE Disconnect
  <2>1. Of \in Session /\ "Release" \notin ops
    BY <1>9, RunningCall DEF Disconnect, Ops, Makes
  <2>2. Call("Release", Of) \notin K
    BY <1>1, <2>1 DEF Ops
  <2> QED BY <1>3, <1>4, <1>9, <2>1, <2>2, DisconnectStep DEF Adds, Pushes
<1>10. CASE EnterRoom
  <2>1. Of \in Session /\ "Send" \notin ops /\ "OtherPlayers" \notin ops /\ "Join" \notin ops
    BY <1>10, RunningCall DEF EnterRoom, Ops, Makes
  <2>2. Call("OtherPlayers", Of) \notin K /\ Call("Join", Of) \notin K
    BY <1>1, <2>1 DEF Ops
  <2>3. CallSend(Of, "MyPlayer", {Of}) \notin K /\ CallSend(Of, "Tilemap", {}) \notin K
    BY <1>2, <2>1 DEF Kinds
  <2> QED BY <1>4, <1>10, <2>2, <2>3, EnterStep DEF Pushes
<1>11. CASE OtherPlayers
  <2>1. Of \in Session /\ "Send" \notin ops /\ {r \in Range(roster) : Locks(r)} \in SUBSET Session
    BY <1>11, RunningCall DEF OtherPlayers, Ops, Types, TypeOK, Range, Makes
  <2>2. CallSend(Of, "OtherPlayers", {r \in Range(roster) : Locks(r)}) \notin K
    BY <1>2, <2>1 DEF Kinds
  <2> QED BY <1>4, <1>11, <2>2, OthersStep DEF Adds, Pushes
<1>12. CASE Join
  <2>1. Of \in Session
    BY <1>12, RunningCall DEF Join, Ops
  <2> QED BY <1>3, <1>4, <1>12, <2>1, JoinStep DEF Adds
<1>13. ASSUME NEW reset \in BOOLEAN, RegisterRecvFailed(reset)
       PROVE  Good
  <2>1. Of \in Session /\ "Disconnect" \notin ops
    BY <1>13, RunningCall DEF RegisterRecvFailed, Ops, Makes
  <2>2. Call("Disconnect", Of) \notin K
    BY <1>1, <2>1 DEF Ops
  <2> QED BY <1>4, <1>13, <2>2, RecvFailedStep DEF Adds, Pushes
<1>14. ASSUME NEW r \in Session, ProcessConnect(r)
       PROVE  Good
  <2>1. "Send" \notin ops /\ "EnterRoom" \notin ops
    BY <1>14 DEF Makes
  <2>2. CallSend(r, "EnterGame", {}) \notin K
    BY <1>2, <2>1 DEF Kinds
  <2>3. Call("EnterRoom", r) \notin K /\ Call("RegisterRecv", r) \notin K
    BY <1>1, <2>1 DEF Ops
  <2> QED BY <1>6, <1>14, <2>2, <2>3, ConnectStep DEF ProcessConnect
<1>15. ASSUME NEW op \in Ops, NEW r \in Session, op \notin ops, Idle, calls' = <<Call(op, r)>>
       PROVE  Good
  <2>1. Call(op, r) \in CallT /\ Call(op, r) \notin K
    BY <1>1, <1>15, CallFacts DEF CallT
  <2> QED BY <1>6, <1>15, <2>1, OneStep
<1>16. ASSUME NEW r \in Session, ProcessRecvZero(r) \/ ProcessSendZero(r)
       PROVE  Good
  <2>1. "Disconnect" \notin ops
    BY <1>16 DEF Makes
  <2>2. calls' = <<Call("Disconnect", r)>> /\ Idle
    BY <1>16 DEF ProcessRecvZero, ProcessSendZero
  <2> QED BY <1>15, <2>1, <2>2 DEF Ops
<1>17. ASSUME NEW r \in Session, ProcessRecv(r)
       PROVE  Good
  <2>1. Call("RegisterRecv", r) \notin K
    BY <1>1 DEF Ops
  <2> QED BY <1>3, <1>6, <1>17, <2>1, RecvStep DEF ProcessRecv
<1>18. ASSUME NEW r \in Session, ProcessSend(r)
       PROVE  Good
  <2>1. "RegisterSend" \notin ops
    BY <1>18 DEF Makes
  <2>2. CASE calls' = calls
    BY <1>6, <1>18, <2>2, IdleHas DEF ProcessSend
  <2>3. CASE calls' = <<Call("RegisterSend", r)>>
    BY <1>15, <1>18, <2>1, <2>3 DEF ProcessSend, Ops
  <2> QED BY <1>18, <2>2, <2>3 DEF ProcessSend
<1>19. CASE Update
  <2>1. calls' = <<Call("RemoveDead", "")>> /\ Call("RemoveDead", "") \in CallT /\ Idle
    BY <1>19 DEF Update, CallT
  <2> QED BY <1>3, <1>6, <2>1, OneStep
<1>20. ASSUME NEW r \in Session, UpdateState(r)
       PROVE  Good
  BY <1>3, <1>6, <1>20, StateStep DEF UpdateState
<1>21. ASSUME OfferExpired \/ RegisterSendClosed \/ RegisterSendPosted \/ SendFailed \/ DisconnectAgain
              \/ Release \/ RegisterRecv \/ RemoveDead
       PROVE  Good
  BY <1>5, <1>21
  DEF OfferExpired, RegisterSendClosed, RegisterSendPosted, SendFailed, DisconnectAgain, Release,
      RegisterRecv, RemoveDead, Running
<1> QED
  BY <1>7, <1>8, <1>9, <1>10, <1>11, <1>12, <1>13, <1>14, <1>16, <1>17, <1>18, <1>19, <1>20, <1>21
  DEF Next, Thread, Completion
-----------------------------------------------------------------------------
(* What changes for a session *)

WSASendFails == \E reset \in BOOLEAN : RegisterSendFailed(reset)

Effects(s) ==
    /\ \/ s \in sendRegistered' <=> s \in sendRegistered
       \/ Send /\ Of = s /\ s \in sendRegistered'
       \/ SendFailed /\ Of = s
       \/ ProcessSend(s) /\ sendQueue[s] = <<>>
    /\ \/ sendQueue'[s] = sendQueue[s]
       \/ Send /\ Of = s
       \/ (RegisterSendPosted \/ WSASendFails) /\ Of = s /\ sendQueue'[s] = <<>>
    /\ \/ s \in sendPosted' <=> s \in sendPosted
       \/ RegisterSendPosted /\ Of = s /\ s \in sendPosted'
       \/ ProcessSend(s) \/ ProcessSendZero(s)
    /\ \/ s \in connected' <=> s \in connected
       \/ /\ Disconnect /\ Of = s /\ s \notin connected'
          /\ player'[s] # "in" /\ (player[s] = "none" => s \in early')
       \/ ProcessConnect(s) /\ s \in connected'
    /\ \/ s \in inService' <=> s \in inService
       \/ Release /\ Of = s /\ s \notin inService'
       \/ ProcessConnect(s) /\ s \in inService'
    /\ \/ player'[s] = player[s]
       \/ EnterRoom /\ Of = s /\ player'[s] = "in"
       \/ Disconnect /\ Of = s /\ Locks(s) /\ player'[s] = "dead"
       \/ RemoveDead /\ player[s] = "dead" /\ player'[s] = "gone"
    /\ \/ s \in early' <=> s \in early
       \/ Disconnect /\ Of = s /\ player[s] = "none" /\ s \in early'

LEMMA EffectsNext ==
  ASSUME Types, Next, NEW s \in Session
  PROVE  Effects(s)
<1> USE DEF linkVars, roomVars, sendVars
<1>1. ASSUME UNCHANGED <<sendRegistered, sendQueue, sendPosted, connected, inService, player, early>>
      PROVE  Effects(s)
  BY <1>1 DEF Effects
<1>2. CASE Send
  <2>1. Of \in Session
    BY <1>2, SendStep
  <2> QED BY <1>2, <2>1 DEF Send, Effects, Types, TypeOK
<1>3. CASE RegisterSendPosted
  <2>1. Of \in Session
    BY <1>3, RunningCall DEF RegisterSendPosted, Ops
  <2> QED BY <1>3, <2>1 DEF RegisterSendPosted, QueueLeft, Effects, Types, TypeOK
<1>4. ASSUME NEW reset \in BOOLEAN, RegisterSendFailed(reset)
      PROVE  Effects(s)
  <2>1. Of \in Session /\ WSASendFails
    BY <1>4, RunningCall DEF RegisterSendFailed, Ops, WSASendFails
  <2>2. /\ UNCHANGED <<sendRegistered, sendPosted, connected, inService, player, early>>
        /\ sendQueue' = [sendQueue EXCEPT ![Of] = <<>>]
    BY <1>4 DEF RegisterSendFailed
  <2> QED BY <2>1, <2>2 DEF Effects, Types, TypeOK
<1>5. CASE SendFailed
  BY <1>5 DEF SendFailed, Effects
<1>6. CASE Disconnect
  <2>1. Of \in Session
    BY <1>6, RunningCall DEF Disconnect, Ops
  <2>2. \/ player'[s] = player[s]
        \/ Of = s /\ Locks(s) /\ player'[s] = "dead"
    BY <1>6, <2>1 DEF Disconnect, LeaveRoom, Types, TypeOK
  <2>3. Of = s => player'[s] # "in"
    BY <1>6, <2>1 DEF Disconnect, LeaveRoom, Locks, Types, TypeOK
  <2> QED BY <1>6, <2>1, <2>2, <2>3 DEF Disconnect, Effects, Types, TypeOK
<1>7. CASE Release
  BY <1>7 DEF Release, Effects
<1>8. CASE EnterRoom
  <2>1. Of \in Session
    BY <1>8, RunningCall DEF EnterRoom, Ops
  <2> QED BY <1>8, <2>1 DEF EnterRoom, Effects, Types, TypeOK
<1>9. CASE RemoveDead
  BY <1>9 DEF RemoveDead, Effects, Types, TypeOK
<1>10. ASSUME NEW r \in Session, ProcessConnect(r)
       PROVE  Effects(s)
  BY <1>10 DEF ProcessConnect, Effects
<1>11. ASSUME NEW r \in Session, ProcessSendZero(r)
       PROVE  Effects(s)
  BY <1>11 DEF ProcessSendZero, Effects
<1>12. ASSUME NEW r \in Session, ProcessSend(r)
       PROVE  Effects(s)
  BY <1>12 DEF ProcessSend, Effects
<1>13. ASSUME \/ OfferExpired \/ RegisterSendClosed \/ DisconnectAgain \/ OtherPlayers \/ Join
              \/ RegisterRecv \/ Update
              \/ \E reset \in BOOLEAN : RegisterRecvFailed(reset)
              \/ \E r \in Session : ProcessRecvZero(r) \/ ProcessRecv(r) \/ UpdateState(r)
       PROVE  Effects(s)
  BY <1>1, <1>13
  DEF OfferExpired, RegisterSendClosed, DisconnectAgain, OtherPlayers, Join, RegisterRecv, Update,
      RegisterRecvFailed, ProcessRecvZero, ProcessRecv, UpdateState
<1> QED
  BY <1>2, <1>3, <1>4, <1>5, <1>6, <1>7, <1>8, <1>9, <1>10, <1>11, <1>12, <1>13
  DEF Next, Thread, Completion

LEMMA FreshNext ==
  ASSUME Types, Next, NEW s \in Session, Link(s), Fresh(s)
  PROVE  Fresh(s)'
<1> DEFINE ops == {"Send", "OtherPlayers", "Join", "EnterRoom"}
           K == CallsTo(ops, s)
<1> SUFFICES ASSUME New(s)'
             PROVE  /\ s \notin sendRegistered' /\ sendQueue'[s] = <<>>
                    /\ ~Has(calls', K)
  BY DEF Fresh
<1>a. ops = {"Send", "OtherPlayers", "Join", "EnterRoom"}
  OBVIOUS
<1> HIDE DEF ops
<1>1. Effects(s)
  BY EffectsNext
<1>2. New(s)
  BY <1>1 DEF New, Effects, Locks
<1>3. s \notin sendRegistered /\ sendQueue[s] = <<>> /\ ~Has(calls, K)
  BY <1>2 DEF Fresh, ops
<1>4. \A c \in SessionCall : c \in K <=> c.op \in ops /\ c.s = s
  BY Members
<1>5. \A r \in Session, kind \in Kinds, about \in SUBSET Session : CallSend(r, kind, about) \in K => r = s
  BY Members
<1> HIDE DEF K
<1>6. ASSUME calls # <<>>
      PROVE  Head(calls) \notin K /\ ~Has(Tail(calls), K)
  BY <1>3, <1>6, HasHeadTail DEF Types
<1>7. ~(Send /\ Of = s)
  <2> SUFFICES ASSUME Send, Of = s
               PROVE  FALSE
    OBVIOUS
  <2>1. calls # <<>> /\ Head(calls) \in SessionCall /\ Head(calls).s = s /\ Head(calls).op = "Send"
    BY <1>2, RunningCall DEF Send, Sending, Running, Locks, New, Ops
  <2> QED BY <1>4, <1>6, <1>a, <2>1
<1>8. s \notin sendRegistered' /\ sendQueue'[s] = <<>>
  <2>1. ~(SendFailed /\ Of = s) \/ s \notin sendRegistered'
    BY DEF SendFailed
  <2>2. ~ProcessSend(s)
    BY <1>3 DEF ProcessSend, Link
  <2> QED BY <1>1, <1>3, <1>7, <2>1, <2>2 DEF Effects
<1>9. ~Has(calls', K)
  <2>1. CASE ~Makes(ops)
    BY <1>3, <1>a, <2>1, Quiet DEF K
  <2>2. CASE EnterRoom \/ OtherPlayers
    <3>1. calls # <<>> /\ Head(calls) \in SessionCall /\ Head(calls).op \in ops /\ Of \in Session
          /\ Head(calls).s = Of
      BY <1>a, <2>2, RunningCall DEF EnterRoom, OtherPlayers, Ops
    <3>2. Of # s
      BY <1>4, <1>6, <3>1
    <3>3. CASE EnterRoom
      <4>1. CallSend(Of, "MyPlayer", {Of}) \notin K /\ CallSend(Of, "Tilemap", {}) \notin K
        <5>1. {Of} \in SUBSET Session /\ {} \in SUBSET Session /\ "MyPlayer" \in Kinds /\ "Tilemap" \in Kinds
          BY <3>1 DEF Kinds
        <5> QED BY <1>5, <3>1, <3>2, <5>1
      <4>2. Call("OtherPlayers", Of) \notin K /\ Call("Join", Of) \notin K
        BY <1>4, <3>1, <3>2, CallFacts DEF Ops
      <4> QED BY <1>6, <3>1, <3>3, <4>1, <4>2, EnterStep DEF Pushes
    <3>4. CASE OtherPlayers
      <4>1. {r \in Range(roster) : Locks(r)} \in SUBSET Session
        BY DEF Types, TypeOK, Range
      <4>2. CallSend(Of, "OtherPlayers", {r \in Range(roster) : Locks(r)}) \notin K
        BY <1>5, <3>1, <3>2, <4>1 DEF Kinds
      <4> QED BY <1>6, <3>1, <3>4, <4>2, OthersStep DEF Adds, Pushes
    <3> QED BY <2>2, <3>3, <3>4
  <2>3. ASSUME NEW r \in Session, ProcessConnect(r)
        PROVE  ~Has(calls', K)
    <3>1. r # s
      BY <2>3 DEF ProcessConnect, New
    <3>2. CallSend(r, "EnterGame", {}) \notin K
      <4>1. {} \in SUBSET Session /\ "EnterGame" \in Kinds
        BY DEF Kinds
      <4> QED BY <1>5, <3>1, <4>1
    <3>3. Call("EnterRoom", r) \notin K /\ Call("RegisterRecv", r) \notin K
      BY <1>4, <3>1, CallFacts DEF Ops
    <3> QED BY <2>3, <3>2, <3>3, ConnectStep
  <2> QED BY <1>a, <2>1, <2>2, <2>3 DEF Makes
<1> QED BY <1>8, <1>9
-----------------------------------------------------------------------------
(* An open session with something queued is waited for *)

LEMMA Dispatch ==
  ASSUME Next, calls # <<>>
  PROVE  LET op == Head(calls).op
         IN  /\ op = "SendFailed" => SendFailed
             /\ op = "Release" => Release
             /\ op = "EnterRoom" => EnterRoom
             /\ op = "Disconnect" => Disconnect \/ DisconnectAgain
             /\ op = "RegisterSend" => RegisterSendClosed \/ RegisterSendPosted \/ WSASendFails
BY DEF Next, Thread, Completion, Idle, Running, WSASendFails, Send, Sending, OfferExpired,
       RegisterSendClosed, RegisterSendPosted, SendFailed, RegisterSendFailed, RegisterRecvFailed,
       DisconnectAgain, Disconnect, Release, EnterRoom, OtherPlayers, Join, RegisterRecv, RemoveDead,
       ProcessConnect, ProcessRecvZero, ProcessRecv, ProcessSendZero, ProcessSend, UpdateState, Update

\* Only the running call is over after a step.
LEMMA Keeps ==
  ASSUME Types, Next, NEW s \in Session, NEW ops, "Offer" \notin ops, Has(calls, CallsTo(ops, s))
  PROVE  Has(calls', CallsTo(ops, s)) \/ Head(calls) \in CallsTo(ops, s)
<1> DEFINE K == CallsTo(ops, s)
<1>1. \A r \in Session : NoOffer(r, K)
  BY Members
<1> SUFFICES Has(calls', K) \/ Head(calls) \in K
  OBVIOUS
<1>2. Has(calls, K)
  OBVIOUS
<1> HIDE DEF K
<1>3. ~Idle
  BY <1>2, IdleHas
<1>4. ASSUME NEW N, Pushes(N, K)
      PROVE  Has(calls', K) \/ Head(calls) \in K
  BY <1>2, <1>4 DEF Pushes
<1>5. ASSUME Then(<<>>)
      PROVE  Has(calls', K) \/ Head(calls) \in K
  BY <1>3, <1>4, <1>5, ReturnStep DEF Adds, Idle
<1>6. CASE Send
  BY <1>4, <1>6, SendStep DEF Adds
<1>7. ASSUME NEW reset \in BOOLEAN, RegisterSendFailed(reset)
      PROVE  Has(calls', K) \/ Head(calls) \in K
  BY <1>4, <1>7, FailedStep
<1>8. ASSUME NEW reset \in BOOLEAN, RegisterRecvFailed(reset)
      PROVE  Has(calls', K) \/ Head(calls) \in K
  BY <1>4, <1>8, RecvFailedStep DEF Adds
<1>9. CASE Disconnect
  <2>1. Of \in Session
    BY <1>9, RunningCall DEF Disconnect, Ops
  <2> QED BY <1>1, <1>4, <1>9, <2>1, DisconnectStep DEF Adds
<1>10. CASE EnterRoom
  BY <1>4, <1>10, EnterStep
<1>11. CASE OtherPlayers
  BY <1>4, <1>11, OthersStep DEF Adds
<1>12. CASE Join
  <2>1. Of \in Session
    BY <1>12, RunningCall DEF Join, Ops
  <2> QED BY <1>1, <1>4, <1>12, <2>1, JoinStep DEF Adds
<1>13. ASSUME OfferExpired \/ RegisterSendClosed \/ RegisterSendPosted \/ SendFailed \/ DisconnectAgain
              \/ Release \/ RegisterRecv \/ RemoveDead
       PROVE  Has(calls', K) \/ Head(calls) \in K
  BY <1>5, <1>13
  DEF OfferExpired, RegisterSendClosed, RegisterSendPosted, SendFailed, DisconnectAgain, Release,
      RegisterRecv, RemoveDead
<1>14. Thread
  BY <1>3 DEF Next, Completion, ProcessConnect, ProcessRecvZero, ProcessRecv, ProcessSendZero,
              ProcessSend, UpdateState, Update
<1> QED
  BY <1>6, <1>7, <1>8, <1>9, <1>10, <1>11, <1>12, <1>13, <1>14 DEF Thread

LEMMA AwakeNext ==
  ASSUME Types, Next, NEW s \in Session, Link(s), Fresh(s), Served(s), Awake(s)
  PROVE  Awake(s)'
<1> DEFINE R == CallsTo({"RegisterSend"}, s)
           F == CallsTo({"SendFailed"}, s)
           D == CallsTo({"Disconnect"}, s)
           Waits == \/ s \in sendPosted \/ Has(calls, R) \/ Has(calls, D)
                    \/ calls # <<>> /\ Head(calls) \in F /\ sendQueue[s] = <<>>
<1> SUFFICES ASSUME s \in connected'
             PROVE  /\ sendQueue'[s] # <<>> => s \in sendRegistered' \/ Has(calls', D)
                    /\ s \in sendRegistered' => Waits'
  BY DEF Awake
<1>1. Effects(s)
  BY EffectsNext
<1>2. \A c \in SessionCall : /\ c \in R <=> c.op = "RegisterSend" /\ c.s = s
                             /\ c \in F <=> c.op = "SendFailed" /\ c.s = s
                             /\ c \in D <=> c.op = "Disconnect" /\ c.s = s
                             /\ c \in Token(s) <=> c \in R \/ c \in F
  BY DEF CallsTo, Token
<1>3. R \subseteq Token(s) /\ F \subseteq Token(s)
      /\ R \subseteq SessionCall /\ F \subseteq SessionCall /\ D \subseteq SessionCall
  BY DEF CallsTo, Token
<1>4. CASE ProcessConnect(s)
  <2>1. s \notin sendRegistered /\ sendQueue[s] = <<>>
    BY <1>4 DEF ProcessConnect, Served, Fresh, New
  <2> QED BY <1>4, <2>1 DEF ProcessConnect, sendVars
<1>5. CASE ~ProcessConnect(s)
  <2>1. s \in connected
    BY <1>1, <1>5 DEF Effects
  <2>2. /\ sendQueue[s] # <<>> => s \in sendRegistered \/ Has(calls, D)
        /\ s \in sendRegistered => Waits
    BY <2>1 DEF Awake
  <2>3. Has(calls, D) => Has(calls', D)
    <3> SUFFICES ASSUME Has(calls, D), ~Has(calls', D)
                 PROVE  FALSE
      OBVIOUS
    <3>1. Head(calls) \in D
      BY Keeps
    <3>2. calls # <<>>
      BY IdleHas DEF Idle
    <3>3. Head(calls).op = "Disconnect" /\ Of = s
      BY <1>2, <1>3, <3>1 DEF Of
    <3> QED BY <2>1, <3>2, <3>3, Dispatch DEF Disconnect, DisconnectAgain
  <2>4. ASSUME WSASendFails, Of = s
        PROVE  Waits'
    <3>1. PICK reset \in BOOLEAN : RegisterSendFailed(reset)
      BY <2>4 DEF WSASendFails
    <3>2. CASE reset
      <4>1. Call("Disconnect", Of) \in D
        BY <1>2, <2>4, CallFacts DEF Ops
      <4> QED BY <3>1, <3>2, <4>1, FailedStep DEF Pushes
    <3>3. CASE ~reset
      <4> DEFINE c == Call("SendFailed", Of)
      <4>1. c \in F /\ c \in CallT /\ Tail(calls) \in Seq(CallT)
        <5>1. c \in SessionCall /\ c.op = "SendFailed" /\ c.s = s
          BY <2>4, CallFacts DEF Ops
        <5>2. calls \in Seq(CallT) /\ calls # <<>>
          BY <3>1, RunningCall DEF RegisterSendFailed, Ops
        <5> QED BY <1>2, <5>1, <5>2, HeadTailProperties DEF CallT
      <4>2. calls' = <<c>> \o Tail(calls)
        BY <3>1, <3>3 DEF RegisterSendFailed, Then
      <4>3. calls' # <<>> /\ Head(calls') = c
        <5> DEFINE u == <<c>>
                   v == Tail(calls)
        <5>1. u \in Seq(CallT) /\ v \in Seq(CallT) /\ Len(u) = 1 /\ u[1] = c
          BY <4>1
        <5> HIDE DEF u, v, c
        <5>2. /\ u \o v \in Seq(CallT) /\ Len(u \o v) = Len(u) + Len(v)
              /\ \A i \in 1 .. Len(u) + Len(v) :
                     (u \o v)[i] = IF i <= Len(u) THEN u[i] ELSE v[i - Len(u)]
          BY <5>1, ConcatProperties
        <5>3. Len(v) \in Nat
          BY <5>1, LenProperties
        <5>4. (u \o v)[1] = c /\ Len(u \o v) # 0
          BY <5>1, <5>2, <5>3
        <5>5. u \o v # <<>> /\ Head(u \o v) = c
          BY <5>2, <5>4
        <5> QED BY <4>2, <5>5 DEF u, v
      <4>4. sendQueue'[s] = <<>>
        BY <2>4, <3>1 DEF RegisterSendFailed, Types, TypeOK
      <4> QED BY <4>1, <4>3, <4>4
    <3> QED BY <3>2, <3>3
  <2>5. Has(calls, R) => Waits'
    <3> SUFFICES ASSUME Has(calls, R), ~Has(calls', R)
                 PROVE  Waits'
      OBVIOUS
    <3>1. Head(calls) \in R
      BY Keeps
    <3>2. calls # <<>>
      BY IdleHas DEF Idle
    <3>3. Head(calls).op = "RegisterSend" /\ Of = s
      BY <1>2, <1>3, <3>1 DEF Of
    <3>4. RegisterSendPosted \/ WSASendFails
      BY <2>1, <3>2, <3>3, Dispatch DEF RegisterSendClosed
    <3>5. CASE RegisterSendPosted
      BY <3>3, <3>5 DEF RegisterSendPosted
    <3> QED BY <2>4, <3>3, <3>4, <3>5
  <2>6. s \in sendPosted => Waits' \/ (s \notin sendRegistered' /\ sendQueue'[s] = <<>>)
    <3> SUFFICES ASSUME s \in sendPosted, s \notin sendPosted'
                 PROVE  Has(calls', R) \/ Has(calls', D)
                        \/ (s \notin sendRegistered' /\ sendQueue'[s] = <<>>)
      OBVIOUS
    <3>1. ProcessSend(s) \/ ProcessSendZero(s)
      BY <1>1 DEF Effects
    <3>2. ASSUME NEW op \in {"RegisterSend", "Disconnect"}, calls' = <<Call(op, s)>>
          PROVE  Has(calls', CallsTo({op}, s))
      <4>1. Call(op, s) \in SessionCall /\ Call(op, s).op = op /\ Call(op, s).s = s
        BY CallFacts DEF Ops
      <4>2. Call(op, s) \in CallsTo({op}, s) /\ Call(op, s) \in CallT
        BY <4>1 DEF CallsTo, CallT
      <4> QED BY <3>2, <4>2, OneStep
    <3>3. CASE ProcessSendZero(s)
      BY <3>2, <3>3 DEF ProcessSendZero
    <3>4. CASE ProcessSend(s)
      <4>1. CASE sendQueue[s] = <<>>
        BY <3>4, <4>1 DEF ProcessSend
      <4>2. CASE sendQueue[s] # <<>>
        BY <3>2, <3>4, <4>2 DEF ProcessSend
      <4> QED BY <4>1, <4>2
    <3> QED BY <3>1, <3>3, <3>4
  <2>7. calls # <<>> /\ Head(calls) \in F => SendFailed /\ s \notin sendRegistered'
    <3> SUFFICES ASSUME calls # <<>>, Head(calls) \in F
                 PROVE  SendFailed /\ s \notin sendRegistered'
      OBVIOUS
    <3>1. Head(calls).op = "SendFailed" /\ Of = s
      BY <1>2, <1>3 DEF Of
    <3>2. SendFailed
      BY <3>1, Dispatch
    <3> QED BY <3>1, <3>2 DEF SendFailed
  <2>8. s \in sendRegistered' => Waits'
    <3>1. CASE s \in sendRegistered
      BY <2>2, <2>3, <2>5, <2>6, <2>7, <3>1
    <3>2. CASE s \notin sendRegistered /\ s \in sendRegistered'
      <4>1. Send /\ Of = s
        BY <1>1, <3>2 DEF Effects, SendFailed, ProcessSend
      <4>2. Call("RegisterSend", Of) \in R
        BY <1>2, <4>1, CallFacts DEF Ops
      <4> QED BY <3>2, <4>1, <4>2, SendStep DEF Adds, Pushes
    <3> QED BY <3>1, <3>2
  <2>9. sendQueue'[s] # <<>> => s \in sendRegistered' \/ Has(calls', D)
    <3> SUFFICES ASSUME sendQueue'[s] # <<>>, s \notin sendRegistered'
                 PROVE  Has(calls', D)
      OBVIOUS
    <3>1. ~(Send /\ Of = s)
      BY DEF Send
    <3>2. sendQueue'[s] = sendQueue[s]
      BY <1>1, <3>1 DEF Effects
    <3>3. CASE s \in sendRegistered
      <4>1. SendFailed /\ Of = s
        BY <1>1, <3>1, <3>2, <3>3 DEF Effects
      <4>2. calls # <<>> /\ Head(calls) \in F /\ Head(calls) \notin R
        BY <1>2, <4>1, RunningCall DEF SendFailed, Ops
      <4>3. /\ Has(calls, Token(s)) <=> Head(calls) \in Token(s) \/ Has(Tail(calls), Token(s))
            /\ Once(calls, Token(s)) => ~(Head(calls) \in Token(s) /\ Has(Tail(calls), Token(s)))
            /\ Has(calls, R) <=> Head(calls) \in R \/ Has(Tail(calls), R)
        BY <4>2, HasHeadTail DEF Types
      <4>4. s \notin sendPosted /\ ~Has(Tail(calls), Token(s))
        BY <1>3, <4>2, <4>3 DEF Link
      <4>5. ~Has(calls, R)
        BY <1>3, <4>2, <4>3, <4>4 DEF Has
      <4> QED BY <2>2, <2>3, <3>2, <3>3, <4>4, <4>5
    <3>4. CASE s \notin sendRegistered
      BY <2>2, <2>3, <3>2, <3>4
    <3> QED BY <3>3, <3>4
  <2> QED BY <2>8, <2>9
<1> QED BY <1>4, <1>5
-----------------------------------------------------------------------------
(* The service and the room know who is there *)

LEMMA ServedNext ==
  ASSUME Types, Next, NEW s \in Session, Served(s)
  PROVE  Served(s)'
<1> DEFINE K == CallsTo({"Release"}, s)
           Good == /\ s \in inService <=> s \in connected \/ Has(calls, K)
                   /\ s \in connected => ~Has(calls, K)
                   /\ Once(calls, K)
<1>1. Effects(s)
  BY EffectsNext
<1>2. \A c \in SessionCall : c \in K <=> c.op = "Release" /\ c.s = s
  BY DEF CallsTo
<1>3. Good
  BY DEF Served
<1> SUFFICES Good'
  BY DEF Served
<1>4. CASE Disconnect
  <2>1. calls # <<>> /\ Of \in Session /\ Head(calls) \notin K /\ Of \in connected
    BY <1>2, <1>4, RunningCall DEF Disconnect, Ops
  <2>2. Call("Release", Of) \in K <=> Of = s
    BY <1>2, <2>1, CallFacts DEF Ops
  <2>3. NoOffer(Of, K)
    BY <2>1, Members
  <2>4. Adds(Of = s, K)
    BY <1>4, <2>2, <2>3, DisconnectStep DEF Adds, Pushes
  <2>5. connected' = connected \ {Of} /\ inService' = inService
    BY <1>4 DEF Disconnect
  <2> HIDE DEF K
  <2> QED BY <1>3, <2>1, <2>4, <2>5 DEF Adds, Pushes
<1>5. CASE ~Disconnect
  <2>1. /\ Has(calls', K) => Has(calls, K)
        /\ Has(calls, K) => Has(calls', K) \/ Head(calls) \in K
        /\ Once(calls, K) => Once(calls', K) /\ (Head(calls) \in K => ~Has(calls', K))
    BY <1>5, Quiet DEF Makes
  <2>2. ASSUME Has(calls, K), ~Has(calls', K)
        PROVE  s \notin inService' /\ s \notin connected'
    <3>1. calls # <<>> /\ Head(calls) \in K
      BY <2>1, <2>2, IdleHas DEF Idle
    <3>2. Head(calls).op = "Release" /\ Of = s
      BY <3>1 DEF CallsTo, Of
    <3>3. Release
      BY <3>1, <3>2, Dispatch
    <3> QED BY <1>3, <2>2, <3>2, <3>3 DEF Release
  <2>3. CASE ProcessConnect(s)
    <3>1. ~Has(calls', K)
      BY <2>1, <2>3, IdleHas DEF ProcessConnect
    <3> QED BY <1>3, <2>1, <2>3, <3>1 DEF ProcessConnect
  <2>4. CASE ~ProcessConnect(s)
    <3>1. s \in connected' <=> s \in connected
      BY <1>1, <1>5, <2>4 DEF Effects
    <3>2. ASSUME Release, Of = s
          PROVE  Has(calls, K) /\ ~Has(calls', K)
      <4>1. calls # <<>> /\ Head(calls) \in K
        BY <1>2, <3>2, RunningCall DEF Release, Ops
      <4>2. Has(calls, K)
        BY <4>1, HasHeadTail DEF Types
      <4> QED BY <1>3, <2>1, <4>1, <4>2
    <3>3. (s \in inService' <=> s \in inService) \/ (Release /\ Of = s /\ s \notin inService')
      BY <1>1, <2>4 DEF Effects
    <3> QED BY <1>3, <2>1, <2>2, <3>1, <3>2, <3>3
  <2> QED BY <2>3, <2>4
<1> QED BY <1>4, <1>5

LEMMA EnteredNext ==
  ASSUME Types, Next, NEW s \in Session, Entered(s)
  PROVE  Entered(s)'
<1> DEFINE K == CallsTo({"EnterRoom"}, s)
           Good == /\ Has(calls, K) => player[s] = "none"
                   /\ Once(calls, K)
                   /\ s \notin connected /\ (player[s] = "in" \/ Has(calls, K)) => s \in early
<1>1. Effects(s)
  BY EffectsNext
<1>2. \A c \in SessionCall : c \in K <=> c.op = "EnterRoom" /\ c.s = s
  BY DEF CallsTo
<1>3. Good
  BY DEF Entered
<1> SUFFICES Good'
  BY DEF Entered
<1>4. ASSUME NEW r \in Session, ProcessConnect(r)
      PROVE  Good'
  <2>1. /\ CallSend(r, "EnterGame", {}) \notin K /\ Call("RegisterRecv", r) \notin K
        /\ Call("EnterRoom", r) \in K <=> r = s
    <3>1. {} \in SUBSET Session /\ "EnterGame" \in Kinds /\ "EnterRoom" \in Ops /\ "RegisterRecv" \in Ops
      BY DEF Kinds, Ops
    <3>2. /\ CallSend(r, "EnterGame", {}) \in SessionCall
          /\ CallSend(r, "EnterGame", {}).op = "Send"
      BY <3>1, CallFacts
    <3> QED BY <1>2, <3>1, <3>2, CallFacts
  <2>2. Once(calls', K) /\ (Has(calls', K) <=> r = s)
    BY <1>4, <2>1, ConnectStep
  <2>3. connected' = connected \cup {r} /\ player' = player /\ early' = early /\ player[r] = "none"
    BY <1>4 DEF ProcessConnect, roomVars
  <2> HIDE DEF K
  <2> QED BY <1>3, <2>2, <2>3
<1>5. CASE ~\E r \in Session : ProcessConnect(r)
  <2>1. /\ Has(calls', K) => Has(calls, K)
        /\ Once(calls, K) => Once(calls', K) /\ (Head(calls) \in K => ~Has(calls', K))
    BY <1>5, Quiet DEF Makes
  <2>2. CASE EnterRoom /\ Of = s
    <3>1. calls # <<>> /\ Head(calls) \in K
      BY <1>2, <2>2, RunningCall DEF EnterRoom, Ops
    <3>2. Has(calls, K)
      BY <3>1, HasHeadTail DEF Types
    <3>3. UNCHANGED <<connected, early>>
      BY <2>2 DEF EnterRoom, linkVars
    <3> QED BY <1>3, <2>1, <3>1, <3>2, <3>3
  <2>3. CASE ~(EnterRoom /\ Of = s)
    BY <1>1, <1>3, <1>5, <2>1, <2>3 DEF Effects, Locks
  <2> QED BY <2>2, <2>3
<1> QED BY <1>4, <1>5
-----------------------------------------------------------------------------
(* RemoveDeadObjects comes last *)

LEMMA LastNext ==
  ASSUME Types, Next, LastOnly(calls, Removal)
  PROVE  LastOnly(calls', Removal)
<1> DEFINE K == Removal
<1>1. /\ \A c \in SessionCall : c \notin K
      /\ \A op \in Ops, r \in Session : Call(op, r) \notin K
      /\ \A r \in Session : NoOffer(r, K)
  <2>1. \A c \in SessionCall : c \notin K
    <3>1. Call("RemoveDead", "").op = "RemoveDead" /\ "RemoveDead" \notin Ops
      BY DEF Call, Ops
    <3>2. \A c \in SessionCall : c.op \in Ops
      BY DEF SessionCall
    <3> QED BY <3>1, <3>2 DEF Removal
  <2> QED BY <2>1, CallFacts DEF NoOffer
<1>2. \A r \in Session, kind \in Kinds, about \in SUBSET Session : CallSend(r, kind, about) \notin K
  BY <1>1, CallFacts
<1> SUFFICES LastOnly(calls', K)
  OBVIOUS
<1>3. LastOnly(calls, K)
  OBVIOUS
<1> HIDE DEF K
<1>4. ASSUME Pushes(FALSE, K)
      PROVE  LastOnly(calls', K)
  BY <1>3, <1>4 DEF Pushes
<1>5. ASSUME ~Has(calls', K)
      PROVE  LastOnly(calls', K)
  BY <1>5, NoneOnce
<1>6. ASSUME calls # <<>>, Then(<<>>)
      PROVE  LastOnly(calls', K)
  BY <1>4, <1>6, ReturnStep DEF Adds
<1>7. CASE Send
  <2>1. Of \in Session /\ Call("RegisterSend", Of) \notin K
    BY <1>1, <1>7, SendStep DEF Ops
  <2> QED BY <1>4, <1>7, <2>1, SendStep DEF Adds, Pushes
<1>8. ASSUME NEW reset \in BOOLEAN, RegisterSendFailed(reset)
      PROVE  LastOnly(calls', K)
  <2>1. Of \in Session /\ Call("SendFailed", Of) \notin K /\ Call("Disconnect", Of) \notin K
    BY <1>1, <1>8, RunningCall DEF RegisterSendFailed, Ops
  <2> QED BY <1>4, <1>8, <2>1, FailedStep DEF Pushes
<1>9. CASE Disconnect
  <2>1. Of \in Session /\ Call("Release", Of) \notin K
    BY <1>1, <1>9, RunningCall DEF Disconnect, Ops
  <2> QED BY <1>1, <1>4, <1>9, <2>1, DisconnectStep DEF Adds, Pushes
<1>10. CASE EnterRoom
  <2>1. Of \in Session /\ Call("OtherPlayers", Of) \notin K /\ Call("Join", Of) \notin K
    BY <1>1, <1>10, RunningCall DEF EnterRoom, Ops
  <2>2. CallSend(Of, "MyPlayer", {Of}) \notin K /\ CallSend(Of, "Tilemap", {}) \notin K
    BY <1>2, <2>1 DEF Kinds
  <2> QED BY <1>4, <1>10, <2>1, <2>2, EnterStep DEF Pushes
<1>11. CASE OtherPlayers
  <2>1. Of \in Session /\ {r \in Range(roster) : Locks(r)} \in SUBSET Session
    BY <1>11, RunningCall DEF OtherPlayers, Ops, Types, TypeOK, Range
  <2>2. CallSend(Of, "OtherPlayers", {r \in Range(roster) : Locks(r)}) \notin K
    BY <1>2, <2>1 DEF Kinds
  <2> QED BY <1>4, <1>11, <2>2, OthersStep DEF Adds, Pushes
<1>12. CASE Join
  <2>1. Of \in Session
    BY <1>12, RunningCall DEF Join, Ops
  <2> QED BY <1>1, <1>4, <1>12, <2>1, JoinStep DEF Adds
<1>13. ASSUME NEW reset \in BOOLEAN, RegisterRecvFailed(reset)
       PROVE  LastOnly(calls', K)
  <2>1. Of \in Session /\ Call("Disconnect", Of) \notin K
    BY <1>1, <1>13, RunningCall DEF RegisterRecvFailed, Ops
  <2> QED BY <1>4, <1>13, <2>1, RecvFailedStep DEF Adds, Pushes
<1>14. ASSUME NEW r \in Session, ProcessConnect(r)
       PROVE  LastOnly(calls', K)
  <2>1. CallSend(r, "EnterGame", {}) \notin K
    BY <1>2 DEF Kinds
  <2>2. Call("EnterRoom", r) \notin K /\ Call("RegisterRecv", r) \notin K
    BY <1>1 DEF Ops
  <2> QED BY <1>5, <1>14, <2>1, <2>2, ConnectStep
<1>15. ASSUME NEW c \in CallT, calls' = <<c>>
       PROVE  LastOnly(calls', K)
  BY <1>15, OneStep
<1>16. ASSUME NEW r \in Session, ProcessRecvZero(r) \/ ProcessSendZero(r) \/ ProcessSend(r)
       PROVE  LastOnly(calls', K)
  <2>1. Call("Disconnect", r) \in CallT /\ Call("RegisterSend", r) \in CallT
    BY CallFacts DEF Ops, CallT
  <2> QED BY <1>3, <1>15, <1>16, <2>1 DEF ProcessRecvZero, ProcessSendZero, ProcessSend
<1>17. ASSUME NEW r \in Session, ProcessRecv(r)
       PROVE  LastOnly(calls', K)
  BY <1>1, <1>17, RecvStep
<1>18. CASE Update
  BY <1>15, <1>18 DEF Update, CallT
<1>19. ASSUME NEW r \in Session, UpdateState(r)
       PROVE  LastOnly(calls', K)
  BY <1>1, <1>19, StateStep
<1>20. ASSUME OfferExpired \/ RegisterSendClosed \/ RegisterSendPosted \/ SendFailed \/ DisconnectAgain
              \/ Release \/ RegisterRecv \/ RemoveDead
       PROVE  LastOnly(calls', K)
  BY <1>6, <1>20
  DEF OfferExpired, RegisterSendClosed, RegisterSendPosted, SendFailed, DisconnectAgain, Release,
      RegisterRecv, RemoveDead, Running
<1> QED
  BY <1>7, <1>8, <1>9, <1>10, <1>11, <1>12, <1>13, <1>14, <1>16, <1>17, <1>18, <1>19, <1>20
  DEF Next, Thread, Completion

LEMMA SilentNext ==
  ASSUME Types, Next, NEW s \in Session, LastOnly(calls, Removal), Silent(s)
  PROVE  Silent(s)'
<1> DEFINE K == Speaks(s)
<1> SUFFICES ASSUME player'[s] = "gone"
             PROVE  ~Has(calls', K)
  BY DEF Silent
<1>1. Effects(s)
  BY EffectsNext
<1>2. \A c \in SessionCall :
        c \in K <=> \/ c.op \in {"Send", "OtherPlayers", "Join", "EnterRoom"} /\ c.s = s
                    \/ c.op \in {"Send", "Offer"} /\ s \in c.about
  BY DEF Speaks, CallsTo
<1>3. /\ \A r \in Session : r # s => NoOffer(r, K)
      /\ Call("RemoveDead", "") \notin K
  <2>1. Call("RemoveDead", "") \notin SessionCall
    BY DEF Call, SessionCall, Ops
  <2>2. K \subseteq SessionCall
    BY DEF Speaks, CallsTo
  <2> QED BY <1>2, <2>1, <2>2 DEF NoOffer
<1>4. \A op \in Ops, r \in Session :
        op \in {"RegisterSend", "SendFailed", "Disconnect", "Release", "RegisterRecv"} \/ r # s
          => Call(op, r) \notin K
  BY <1>2, CallFacts
<1>5. \A r \in Session, kind \in Kinds, about \in SUBSET Session :
        r # s /\ s \notin about => CallSend(r, kind, about) \notin K
  BY <1>2, CallFacts
<1>6. CASE player[s] # "gone"
  <2>1. RemoveDead
    BY <1>1, <1>6 DEF Effects
  <2>2. calls # <<>> /\ calls \in Seq(CallT) /\ Head(calls).op = "RemoveDead" /\ calls' = <<>> \o Tail(calls)
    BY <2>1 DEF RemoveDead, Running, Then, Types
  <2>3. Head(calls) \in Removal
    <3>1. Head(calls) \in CallT
      BY <2>2, HeadTailProperties
    <3>2. Head(calls) \notin SessionCall
      BY <2>2 DEF SessionCall, Ops
    <3> QED BY <3>1, <3>2 DEF CallT, Removal
  <2>4. Tail(calls) = <<>>
    BY <2>2, <2>3, HasHeadTail
  <2>5. calls' = <<>>
    BY <2>2, <2>4, EmptySeq, ConcatEmptySeq
  <2> QED BY <2>5 DEF Has
<1>7. CASE player[s] = "gone"
  <2>1. ~Has(calls, K) /\ ~Locks(s) /\ player[s] # "none"
    BY <1>7 DEF Silent, Locks
  <2> HIDE DEF K
  <2>2. ASSUME Pushes(FALSE, K)
        PROVE  ~Has(calls', K)
    BY <2>1, <2>2 DEF Pushes
  <2>3. ASSUME calls # <<>>, Then(<<>>)
        PROVE  ~Has(calls', K)
    BY <2>2, <2>3, ReturnStep DEF Adds
  <2>4. ASSUME calls # <<>>
        PROVE  Head(calls) \notin K
    BY <2>1, <2>4, HasHeadTail DEF Types
  <2>5. CASE Send
    <3>1. Of \in Session /\ Call("RegisterSend", Of) \notin K
      BY <1>4, <2>5, SendStep DEF Ops
    <3> QED BY <2>2, <2>5, <3>1, SendStep DEF Adds, Pushes
  <2>6. ASSUME NEW reset \in BOOLEAN, RegisterSendFailed(reset)
        PROVE  ~Has(calls', K)
    <3>1. Of \in Session /\ Call("SendFailed", Of) \notin K /\ Call("Disconnect", Of) \notin K
      BY <1>4, <2>6, RunningCall DEF RegisterSendFailed, Ops
    <3> QED BY <2>2, <2>6, <3>1, FailedStep DEF Pushes
  <2>7. ASSUME NEW reset \in BOOLEAN, RegisterRecvFailed(reset)
        PROVE  ~Has(calls', K)
    <3>1. Of \in Session /\ Call("Disconnect", Of) \notin K
      BY <1>4, <2>7, RunningCall DEF RegisterRecvFailed, Ops
    <3> QED BY <2>2, <2>7, <3>1, RecvFailedStep DEF Adds, Pushes
  <2>8. CASE Disconnect
    <3>1. Of \in Session /\ Call("Release", Of) \notin K
      BY <1>4, <2>8, RunningCall DEF Disconnect, Ops
    <3>2. ~Locks(Of) \/ NoOffer(Of, K)
      BY <1>3, <2>1, <3>1
    <3> QED BY <2>2, <2>8, <3>1, <3>2, DisconnectStep DEF Adds, Pushes
  <2>9. ASSUME NEW op \in {"EnterRoom", "OtherPlayers", "Join"}, Running(op)
        PROVE  Of \in Session /\ Of # s
    <3>1. calls # <<>> /\ Head(calls) \in SessionCall /\ Head(calls).op = op /\ Of \in Session
          /\ Head(calls).s = Of
      BY <2>9, RunningCall DEF Ops
    <3> QED BY <1>2, <2>4, <3>1
  <2>10. CASE EnterRoom
    <3>1. Of \in Session /\ Of # s
      BY <2>9, <2>10 DEF EnterRoom
    <3>2. Call("OtherPlayers", Of) \notin K /\ Call("Join", Of) \notin K
      BY <1>4, <3>1 DEF Ops
    <3>3. CallSend(Of, "MyPlayer", {Of}) \notin K /\ CallSend(Of, "Tilemap", {}) \notin K
      <4>1. {Of} \in SUBSET Session /\ {} \in SUBSET Session /\ "MyPlayer" \in Kinds /\ "Tilemap" \in Kinds
            /\ s \notin {Of} /\ s \notin {}
        BY <3>1 DEF Kinds
      <4> QED BY <1>5, <3>1, <4>1
    <3> QED BY <2>2, <2>10, <3>2, <3>3, EnterStep DEF Pushes
  <2>11. CASE OtherPlayers
    <3> DEFINE there == {r \in Range(roster) : Locks(r)}
    <3>1. Of \in Session /\ Of # s
      BY <2>9, <2>11 DEF OtherPlayers
    <3>2. there \in SUBSET Session /\ s \notin there /\ "OtherPlayers" \in Kinds
      BY <2>1 DEF Types, TypeOK, Range, Kinds
    <3>3. CallSend(Of, "OtherPlayers", there) \notin K
      BY <1>5, <3>1, <3>2
    <3> QED BY <2>2, <2>11, <3>3, OthersStep DEF Adds, Pushes
  <2>12. CASE Join
    <3>1. Of \in Session /\ Of # s
      BY <2>9, <2>12 DEF Join
    <3> QED BY <1>3, <2>2, <2>12, <3>1, JoinStep DEF Adds
  <2>13. ASSUME NEW r \in Session, ProcessConnect(r)
         PROVE  ~Has(calls', K)
    <3>1. r # s
      BY <2>1, <2>13 DEF ProcessConnect
    <3>2. CallSend(r, "EnterGame", {}) \notin K
      <4>1. {} \in SUBSET Session /\ "EnterGame" \in Kinds /\ s \notin {}
        BY DEF Kinds
      <4> QED BY <1>5, <3>1, <4>1
    <3>3. Call("EnterRoom", r) \notin K /\ Call("RegisterRecv", r) \notin K
      BY <1>4, <3>1 DEF Ops
    <3> QED BY <2>13, <3>2, <3>3, ConnectStep
  <2>14. ASSUME NEW r \in Session, ProcessRecvZero(r) \/ ProcessSendZero(r) \/ ProcessSend(r)
         PROVE  ~Has(calls', K)
    <3>1. \A c \in CallT : calls' = <<c>> /\ c \notin K => ~Has(calls', K)
      BY OneStep
    <3>2. /\ Call("Disconnect", r) \in CallT /\ Call("RegisterSend", r) \in CallT
          /\ Call("Disconnect", r) \notin K /\ Call("RegisterSend", r) \notin K
      BY <1>4, CallFacts DEF Ops, CallT
    <3> QED BY <2>1, <2>14, <3>1, <3>2 DEF ProcessRecvZero, ProcessSendZero, ProcessSend
  <2>15. ASSUME NEW r \in Session, ProcessRecv(r)
         PROVE  ~Has(calls', K)
    <3>1. Call("RegisterRecv", r) \notin K /\ (~Locks(r) \/ NoOffer(r, K))
      BY <1>3, <1>4, <2>1 DEF Ops
    <3> QED BY <2>15, <3>1, RecvStep
  <2>16. CASE Update
    <3>1. calls' = <<Call("RemoveDead", "")>> /\ Call("RemoveDead", "") \in CallT
      BY <2>16 DEF Update, CallT
    <3> QED BY <1>3, <3>1, OneStep
  <2>17. ASSUME NEW r \in Session, UpdateState(r)
         PROVE  ~Has(calls', K)
    <3>1. NoOffer(r, K)
      BY <1>3, <2>1, <2>17 DEF UpdateState
    <3> QED BY <1>3, <2>17, <3>1, StateStep
  <2>18. ASSUME OfferExpired \/ RegisterSendClosed \/ RegisterSendPosted \/ SendFailed
                \/ DisconnectAgain \/ Release \/ RegisterRecv \/ RemoveDead
         PROVE  ~Has(calls', K)
    BY <2>3, <2>18
    DEF OfferExpired, RegisterSendClosed, RegisterSendPosted, SendFailed, DisconnectAgain, Release,
        RegisterRecv, RemoveDead, Running
  <2> QED
    BY <2>5, <2>6, <2>7, <2>8, <2>10, <2>11, <2>12, <2>13, <2>14, <2>15, <2>16, <2>17, <2>18
    DEF Next, Thread, Completion
<1> QED BY <1>6, <1>7
-----------------------------------------------------------------------------
(* What is sent, in order *)

Increasing(q) == \A i, j \in 1 .. Len(q) : i < j => q[i] < q[j]

LEMMA IncreasingAppend ==
  ASSUME NEW q \in Seq(Nat), NEW n \in Nat, Increasing(q), Range(q) \subseteq 1 .. n
  PROVE  /\ Append(q, n + 1) \in Seq(Nat) /\ Increasing(Append(q, n + 1))
         /\ Range(Append(q, n + 1)) = Range(q) \cup {n + 1}
<1> DEFINE r == Append(q, n + 1)
<1>1. /\ r \in Seq(Nat) /\ Len(r) = Len(q) + 1
      /\ \A i \in 1 .. Len(q) : r[i] = q[i]
      /\ r[Len(q) + 1] = n + 1
  BY AppendProperties
<1>2. Len(q) \in Nat
  BY LenProperties
<1>3. Range(q) = {q[i] : i \in 1 .. Len(q)} /\ Range(r) = {r[i] : i \in 1 .. Len(r)}
  BY <1>1, RangeEquality
<1> HIDE DEF r
<1>4. Range(r) = Range(q) \cup {n + 1}
  <2>1. 1 .. Len(r) = (1 .. Len(q)) \cup {Len(q) + 1}
    BY <1>1, <1>2
  <2> QED BY <1>1, <1>3, <2>1
<1>5. Increasing(r)
  <2> SUFFICES ASSUME NEW i \in 1 .. Len(r), NEW j \in 1 .. Len(r), i < j
               PROVE  r[i] < r[j]
    BY DEF Increasing
  <2>1. i \in 1 .. Len(q) /\ r[i] = q[i] /\ q[i] \in 1 .. n
    BY <1>1, <1>2, <1>3
  <2>2. CASE j \in 1 .. Len(q)
    BY <1>1, <2>1, <2>2 DEF Increasing
  <2>3. CASE j = Len(q) + 1
    BY <1>1, <2>1, <2>3
  <2>4. j \in 1 .. Len(q) \/ j = Len(q) + 1
    <3> DEFINE l == Len(q)
    <3>1. j \in 1 .. l + 1 /\ l \in Nat
      BY <1>1, <1>2
    <3> HIDE DEF l
    <3>2. j \in 1 .. l \/ j = l + 1
      BY <3>1
    <3> QED BY <3>2 DEF l
  <2> QED BY <2>2, <2>3, <2>4
<1> QED BY <1>1, <1>4, <1>5 DEF r

LEMMA ConcatAppend ==
  ASSUME NEW p \in Seq(Nat), NEW q \in Seq(Nat), NEW e \in Nat
  PROVE  p \o Append(q, e) = Append(p \o q, e)
<1> DEFINE a == p \o q
           u == <<e>>
<1>1. a \in Seq(Nat) /\ u \in Seq(Nat)
  BY ConcatProperties
<1>2. Append(q, e) = q \o u
  BY AppendIsConcat
<1>3. Append(a, e) = a \o u
  <2> HIDE DEF a
  <2> QED BY <1>1, AppendIsConcat
<1>4. (p \o q) \o u = p \o (q \o u)
  <2> HIDE DEF u
  <2> QED BY <1>1, ConcatAssociative
<1> QED BY <1>2, <1>3, <1>4

LEMMA IncreasingPrefix ==
  ASSUME NEW p \in Seq(Nat), NEW q \in Seq(Nat), Increasing(p \o q)
  PROVE  Increasing(p) /\ Range(p) = Range(p \o q) \ Range(q)
<1> DEFINE r == p \o q
           m == Len(p)
           n == Len(q)
<1>1. /\ r \in Seq(Nat) /\ Len(r) = m + n
      /\ \A i \in 1 .. m + n : r[i] = IF i <= m THEN p[i] ELSE q[i - m]
  BY ConcatProperties
<1>2. m \in Nat /\ n \in Nat
  BY LenProperties
<1>3. Range(r) = Range(p) \cup Range(q)
  BY RangeConcatenation
<1>4. Range(p) = {p[i] : i \in 1 .. m} /\ Range(q) = {q[i] : i \in 1 .. n}
  BY RangeEquality
<1>5. \A i \in 1 .. m : p[i] \in Nat
  BY ElementOfSeq
<1> HIDE DEF r, m, n
<1>6. \A i \in 1 .. m : r[i] = p[i] /\ i \in 1 .. m + n
  BY <1>1, <1>2
<1>7. \A i \in 1 .. n : r[m + i] = q[i] /\ m + i \in 1 .. m + n
  <2> TAKE i \in 1 .. n
  <2>1. m + i \in 1 .. m + n /\ ~(m + i <= m) /\ (m + i) - m = i
    BY <1>2
  <2> QED BY <1>1, <2>1
<1>8. Increasing(r)
  BY DEF r
<1>9. Increasing(p)
  BY <1>1, <1>6, <1>8 DEF Increasing, m
<1>10. \A i \in 1 .. m, j \in 1 .. n : p[i] # q[j]
  <2> SUFFICES ASSUME NEW i \in 1 .. m, NEW j \in 1 .. n
               PROVE  p[i] # q[j]
    OBVIOUS
  <2>1. i < m + j
    BY <1>2
  <2>2. p[i] < q[j]
    BY <1>1, <1>6, <1>7, <1>8, <2>1 DEF Increasing
  <2> QED BY <1>5, <2>2
<1> QED BY <1>3, <1>4, <1>9, <1>10 DEF r

LEMMA OrderedNext ==
  ASSUME Types, Next, NEW s \in Session, Ordered(s)
  PROVE  Ordered(s)'
<1> DEFINE o == outgoing[s]
           q == sendQueue[s]
           n == pushed[s]
           Good == /\ Increasing(outgoing[s] \o sendQueue[s])
                   /\ Range(outgoing[s] \o sendQueue[s]) = (1 .. pushed[s]) \ lost[s]
                   /\ lost[s] \subseteq 1 .. pushed[s]
<1>1. Good
  BY DEF Ordered, Increasing
<1> SUFFICES Good'
  BY DEF Ordered, Increasing
<1>2. o \in Seq(Nat) /\ q \in Seq(Nat) /\ n \in Nat /\ o \o q \in Seq(Nat)
  BY ConcatProperties DEF Types, TypeOK
<1>3. ASSUME outgoing'[s] = o, sendQueue'[s] = q, pushed'[s] = n, lost'[s] = lost[s]
      PROVE  Good'
  BY <1>1, <1>3
<1>4. CASE Send
  <2>1. Of \in Session
    BY <1>4, SendStep
  <2>2. CASE Of # s
    BY <1>3, <1>4, <2>1, <2>2 DEF Send, Types, TypeOK
  <2>3. CASE Of = s
    <3>1. sendQueue'[s] = Append(q, n + 1) /\ pushed'[s] = n + 1 /\ outgoing'[s] = o /\ lost'[s] = lost[s]
      BY <1>4, <2>3 DEF Send, Types, TypeOK
    <3> DEFINE a == o \o q
    <3>2. a \in Seq(Nat) /\ Increasing(a) /\ Range(a) = (1 .. n) \ lost[s] /\ lost[s] \subseteq 1 .. n
      BY <1>1, <1>2
    <3>3. o \o Append(q, n + 1) = Append(a, n + 1)
      <4>1. n + 1 \in Nat
        BY <1>2
      <4> QED BY <1>2, <4>1, ConcatAppend
    <3> HIDE DEF a, o, q, n
    <3>4. Increasing(Append(a, n + 1)) /\ Range(Append(a, n + 1)) = Range(a) \cup {n + 1}
      BY <1>2, <3>2, IncreasingAppend
    <3>5. /\ ((1 .. n) \ lost[s]) \cup {n + 1} = (1 .. n + 1) \ lost[s]
          /\ lost[s] \subseteq 1 .. n + 1
      BY <1>2, <3>2
    <3> QED BY <3>1, <3>2, <3>3, <3>4, <3>5
  <2> QED BY <2>2, <2>3
<1>5. CASE RegisterSendPosted
  <2>1. Of \in Session
    BY <1>5, RunningCall DEF RegisterSendPosted, Ops
  <2>2. CASE Of # s
    BY <1>3, <1>5, <2>1, <2>2 DEF RegisterSendPosted, sendVars, Types, TypeOK
  <2>3. CASE Of = s
    <3>1. sendQueue'[s] = <<>> /\ outgoing'[s] = o \o q /\ pushed'[s] = n /\ lost'[s] = lost[s]
      BY <1>5, <2>3 DEF RegisterSendPosted, QueueLeft, Types, TypeOK
    <3>2. (o \o q) \o <<>> = o \o q
      BY <1>2, ConcatEmptySeq
    <3> QED BY <1>1, <3>1, <3>2
  <2> QED BY <2>2, <2>3
<1>6. ASSUME NEW reset \in BOOLEAN, RegisterSendFailed(reset)
      PROVE  Good'
  <2>1. Of \in Session
    BY <1>6, RunningCall DEF RegisterSendFailed, Ops
  <2>2. CASE Of # s
    BY <1>3, <1>6, <2>1, <2>2 DEF RegisterSendFailed, Types, TypeOK
  <2>3. CASE Of = s
    <3>1. /\ sendQueue'[s] = <<>> /\ outgoing'[s] = o /\ pushed'[s] = n
          /\ lost'[s] = lost[s] \cup Range(q)
      BY <1>6, <2>3 DEF RegisterSendFailed, Types, TypeOK
    <3>2. o \o <<>> = o
      BY <1>2, ConcatEmptySeq
    <3>3. /\ Increasing(o) /\ Range(o) = Range(o \o q) \ Range(q)
          /\ Range(o \o q) = Range(o) \cup Range(q)
      BY <1>1, <1>2, IncreasingPrefix, RangeConcatenation
    <3>4. Range(o) = (1 .. n) \ (lost[s] \cup Range(q)) /\ lost[s] \cup Range(q) \subseteq 1 .. n
      BY <1>1, <3>3
    <3> QED BY <3>1, <3>2, <3>3, <3>4
  <2> QED BY <2>2, <2>3
<1>7. ASSUME UNCHANGED <<outgoing, sendQueue, pushed, lost>>
      PROVE  Good'
  BY <1>3, <1>7
<1>8. CASE Thread
  BY <1>4, <1>5, <1>6, <1>7, <1>8
  DEF Thread, sendVars, OfferExpired, RegisterSendClosed, SendFailed, RegisterRecvFailed,
      DisconnectAgain, Disconnect, Release, EnterRoom, OtherPlayers, Join, RegisterRecv, RemoveDead
<1> QED
  BY <1>7, <1>8
  DEF Next, Completion, sendVars, ProcessConnect, ProcessRecvZero, ProcessRecv, ProcessSendZero,
      ProcessSend, UpdateState, Update
-----------------------------------------------------------------------------
(* The theorems *)

LEMMA InitIInv == Init => IInv
<1> SUFFICES ASSUME Init
             PROVE  IInv
  OBVIOUS
<1> USE SessionsAssumption
<1>1. /\ calls = <<>> /\ sendRegistered = {} /\ sendPosted = {} /\ connected = {} /\ inService = {}
      /\ \A s \in Session : /\ player[s] = "none" /\ sendQueue[s] = <<>> /\ outgoing[s] = <<>>
                             /\ pushed[s] = 0 /\ lost[s] = {}
  BY DEF Init
<1>2. \A K : ~Has(calls, K) /\ Once(calls, K) /\ LastOnly(calls, K)
  BY <1>1 DEF Has, Once, LastOnly
<1>3. Types
  <2>1. roster \in Seq(Session) /\ Range(roster) = {}
    BY DEF Init, Range
  <2> QED BY <1>1, <2>1 DEF Types, TypeOK, Init
<1>4. ASSUME NEW s \in Session
      PROVE  Ordered(s)
  <2>1. outgoing[s] \o sendQueue[s] = <<>>
    <3>1. <<>> \in Seq(Nat)
      OBVIOUS
    <3>2. <<>> \o <<>> = <<>>
      BY <3>1, ConcatEmptySeq
    <3> QED BY <1>1, <3>2
  <2>2. Range(<<>>) = {} /\ Len(<<>>) = 0 /\ 1 .. 0 = {}
    BY DEF Range
  <2> QED BY <1>1, <2>1, <2>2 DEF Ordered
<1> QED
  BY <1>1, <1>2, <1>3, <1>4 DEF IInv, Link, Fresh, Awake, Served, Entered, Silent

LEMMA NextIInv == IInv /\ [Next]_vars => IInv'
<1> SUFFICES ASSUME IInv, [Next]_vars
             PROVE  IInv'
  OBVIOUS
<1>1. Types'
  BY TypesNext DEF IInv
<1>2. CASE Next
  <2>1. LastOnly(calls', Removal)
    BY <1>2, LastNext DEF IInv
  <2>2. ASSUME NEW s \in Session
        PROVE  /\ Link(s)' /\ Fresh(s)' /\ Awake(s)' /\ Served(s)' /\ Entered(s)' /\ Silent(s)'
               /\ Ordered(s)'
    <3>1. /\ Types /\ LastOnly(calls, Removal)
          /\ Link(s) /\ Fresh(s) /\ Awake(s) /\ Served(s) /\ Entered(s) /\ Silent(s) /\ Ordered(s)
      BY DEF IInv
    <3> QED
      BY <1>2, <3>1, LinkNext, FreshNext, AwakeNext, ServedNext, EnteredNext, SilentNext, OrderedNext
  <2> QED BY <1>1, <2>1, <2>2 DEF IInv
<1>3. CASE UNCHANGED vars
  <2>1. LastOnly(calls', Removal)
    BY <1>3 DEF IInv, vars
  <2>2. ASSUME NEW s \in Session
        PROVE  /\ Link(s)' /\ Fresh(s)' /\ Awake(s)' /\ Served(s)' /\ Entered(s)' /\ Silent(s)'
               /\ Ordered(s)'
    BY <1>3
    DEF IInv, vars, linkVars, roomVars, sendVars, Link, Fresh, New, Awake, Served, Entered, Silent, Ordered
  <2> QED BY <1>1, <2>1, <2>2 DEF IInv
<1> QED BY <1>2, <1>3

THEOREM Invariance == Spec => []IInv
BY InitIInv, NextIInv, PTL DEF Spec

\* The types of everything that the sessions and the room keep, for any number
\* of sessions; _players has an entry for exactly those that ever entered.
THEOREM SessionTypes == Spec => []TypeOK
<1>1. IInv => TypeOK
  BY DEF IInv, Types
<1> QED BY <1>1, Invariance, PTL

\* Has and Calling say the same of an operation on a session.
LEMMA CallingHas ==
  ASSUME Types, NEW s \in Session, NEW op \in Ops
  PROVE  Calling(op, s) <=> Has(calls, CallsTo({op}, s))
<1>1. \A i \in 1 .. Len(calls) : calls[i] \in CallT
  BY ElementOfSeq DEF Types
<1>2. Call("RemoveDead", "").op = "RemoveDead" /\ op # "RemoveDead"
  BY DEF Call, Ops
<1>3. \A c \in CallT : c \in CallsTo({op}, s) <=> c.op = op /\ c.s = s
  <2>1. \A c \in CallT : c.op = op => c \in SessionCall
    BY <1>2 DEF CallT
  <2> QED BY <2>1 DEF CallsTo
<1> QED BY <1>1, <1>3 DEF Calling, Has

\* Send never leaves a buffer in the queue of an open session without a
\* completion, a RegisterSend or a Disconnect to come (Session.cpp:20-38).
THEOREM NeverLosesAWakeup == Spec => []NoLostWakeup
<1>1. IInv => NoLostWakeup
  <2> SUFFICES ASSUME IInv, NEW s \in connected, sendQueue[s] # <<>>
               PROVE  s \in sendPosted \/ Calling("RegisterSend", s) \/ Calling("Disconnect", s)
    BY DEF NoLostWakeup
  <2>1. Types /\ s \in Session
    BY DEF IInv, Types, TypeOK
  <2>2. Awake(s)
    BY <2>1 DEF IInv
  <2>3. \/ s \in sendPosted
        \/ Has(calls, CallsTo({"RegisterSend"}, s)) \/ Has(calls, CallsTo({"Disconnect"}, s))
    BY <2>2 DEF Awake
  <2> QED BY <2>1, <2>3, CallingHas DEF Ops
<1> QED BY <1>1, Invariance, PTL

\* RegisterSend never runs on an open session whose _sendEvent the kernel
\* still holds (Session.cpp:155-199).
THEOREM NeverReusesTheEvent == Spec => []OneOutstanding
<1>1. IInv => OneOutstanding
  <2> SUFFICES ASSUME IInv, NEW s \in sendPosted, Calling("RegisterSend", s)
               PROVE  FALSE
    BY DEF OneOutstanding
  <2>1. Types /\ s \in Session
    BY DEF IInv, Types, TypeOK
  <2>2. Has(calls, CallsTo({"RegisterSend"}, s))
    BY <2>1, CallingHas DEF Ops
  <2>3. CallsTo({"RegisterSend"}, s) \subseteq Token(s)
    BY DEF CallsTo, Token
  <2>4. Has(calls, Token(s))
    BY <2>2, <2>3 DEF Has
  <2> QED BY <2>1, <2>4 DEF IInv, Link
<1> QED BY <1>1, Invariance, PTL

\* The packets of a session leave in the order of its Sends, each at most
\* once, whatever WSASends fail and whatever Sends are nested in them.
THEOREM SendsInOrder == Spec => []SentInOrder
<1>1. IInv => SentInOrder
  <2> SUFFICES ASSUME IInv, NEW s \in Session
               PROVE  LET all == outgoing[s] \o sendQueue[s]
                      IN  /\ \A i \in 1 .. Len(all) - 1 : all[i] < all[i + 1]
                          /\ Range(all) = (1 .. pushed[s]) \ lost[s]
    BY DEF SentInOrder
  <2> DEFINE all == outgoing[s] \o sendQueue[s]
  <2>1. Ordered(s) /\ all \in Seq(Nat)
    BY ConcatProperties DEF IInv, Types, TypeOK
  <2>2. Range(all) = (1 .. pushed[s]) \ lost[s] /\ \A i, j \in 1 .. Len(all) : i < j => all[i] < all[j]
    BY <2>1 DEF Ordered
  <2> HIDE DEF all
  <2>3. Len(all) \in Nat
    BY <2>1, LenProperties
  <2>4. ASSUME NEW i \in 1 .. Len(all) - 1
        PROVE  all[i] < all[i + 1]
    <3>1. i \in 1 .. Len(all) /\ i + 1 \in 1 .. Len(all) /\ i < i + 1
      BY <2>3
    <3> QED BY <2>2, <3>1
  <2> QED BY <2>2, <2>4 DEF all
<1> QED BY <1>1, Invariance, PTL

\* Between two events the service knows exactly the open sessions, and only
\* a session that was closed before it had a player leaves one behind.
THEOREM ClosedOnesHaveLeft == Spec => []ClosedSessionsLeave
<1>1. IInv => ClosedSessionsLeave
  <2> SUFFICES ASSUME IInv, Idle
               PROVE  /\ inService = connected
                      /\ \A s \in Session : s \notin connected /\ player[s] = "in" => s \in early
    BY DEF ClosedSessionsLeave
  <2>1. \A s \in Session : s \in inService <=> s \in connected
    BY IdleHas DEF IInv, Served
  <2>2. inService \subseteq Session /\ connected \subseteq Session
    BY DEF IInv, Types, TypeOK
  <2> QED BY <2>1, <2>2 DEF IInv, Entered
<1> QED BY <1>1, Invariance, PTL

\* Nothing that is being sent goes to, or is about, a player that
\* RemoveDeadObjects has removed (GameRoom.h:86-95, GameRoom.cpp:66-119).  It
\* does not say that of a player that has left and waits to be removed: a late
\* receive still broadcasts for that one.
THEOREM GoneAreSilent == Spec => []GoneIsSilent
<1>1. IInv => GoneIsSilent
  <2> SUFFICES ASSUME IInv, Sending
               PROVE  player[Of] # "gone" /\ \A s \in Head(calls).about : player[s] # "gone"
    BY DEF GoneIsSilent
  <2>1. Types /\ \A s \in Session : Silent(s)
    BY DEF IInv
  <2>2. PICK op \in {"Send", "Offer"} : Running(op) /\ (op = "Offer" => Locks(Of))
    BY DEF Sending
  <2>3. /\ calls # <<>> /\ Head(calls) \in SessionCall /\ Of \in Session /\ Head(calls).op = op
        /\ Head(calls).s = Of /\ Head(calls).about \in SUBSET Session
    BY <2>1, <2>2, RunningCall DEF Ops
  <2>4. ASSUME NEW s \in Session, Head(calls) \in Speaks(s)
        PROVE  player[s] # "gone"
    <3>1. Has(calls, Speaks(s))
      BY <2>1, <2>3, <2>4, HasHeadTail DEF Types
    <3> QED BY <2>1, <3>1 DEF Silent
  <2>5. player[Of] # "gone"
    <3>1. CASE op = "Send"
      <4>1. Head(calls) \in Speaks(Of)
        BY <2>3, <3>1 DEF Speaks, CallsTo
      <4> QED BY <2>3, <2>4, <4>1
    <3>2. CASE op = "Offer"
      BY <2>2, <3>2 DEF Locks
    <3> QED BY <2>2, <3>1, <3>2
  <2>6. \A s \in Head(calls).about : Head(calls) \in Speaks(s) /\ s \in Session
    BY <2>3 DEF Speaks
  <2> QED BY <2>4, <2>5, <2>6
<1> QED BY <1>1, Invariance, PTL
=============================================================================
