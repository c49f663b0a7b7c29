------------------------------ MODULE Sessions ------------------------------
(***************************************************************************)
(* The sessions of the server and what their sends and disconnects do to   *)
(* the room (Network/Session.cpp, Service.cpp, Server/GameSession.cpp, and *)
(* EnterRoom, LeaveRoom and Broadcast of Server/GameRoom).                 *)
(*                                                                         *)
(* One thread runs everything, but not one thing after another: a send     *)
(* that the socket refuses disconnects its session at once, inside the     *)
(* Broadcast or EnterRoom that made it, and the disconnect broadcasts      *)
(* S_PlayerLeave before it returns.  calls is what the thread has still to *)
(* do, innermost call first; between two events it is empty.               *)
(***************************************************************************)
EXTENDS Integers, Sequences, Functions

CONSTANTS
    Session,   \* the sessions the listener may accept
    MaxMoves,  \* bound: packets of players that the room broadcasts
    MaxFails   \* bound: WSASends and WSARecvs that fail

ASSUME SessionsAssumption == MaxMoves \in Nat /\ MaxFails \in Nat

VARIABLES
    connected,       \* sessions with _connected
    inService,       \* Service::_sessions
    player,          \* the Player of each session: none, in, dead, gone
    roster,          \* GameRoom::_players, in order
    recvPosted,      \* sessions with an outstanding WSARecv
    sendQueue,       \* _sendQueue
    sendRegistered,  \* sessions with _sendRegistered
    sendPosted,      \* sessions with an outstanding WSASend
    outgoing,        \* what WSASend has accepted, in order
    pushed,          \* how many packets Send was given
    lost,            \* packets that were given up when WSASend failed
    early,           \* sessions that Disconnect found without a Player
    moves,           \* C_Move packets handled and S_State broadcasts so far
    fails,           \* WSASends and WSARecvs that have failed so far
    calls

linkVars == <<connected, inService, recvPosted>>
roomVars == <<player, roster, early, moves>>
sendVars == <<sendQueue, sendRegistered, sendPosted, outgoing, pushed, lost, fails>>
vars == <<linkVars, roomVars, sendVars, calls>>

\* In the queues a packet is its number among those that Send was given for
\* its session; what it is and whom it is about is in the call of Send.
CallSend(s, kind, about) == [op |-> "Send", s |-> s, kind |-> kind, about |-> about]
Call(op, s)              == [op |-> op, s |-> s, kind |-> "", about |-> {}]

Init ==
    /\ connected = {} /\ inService = {} /\ recvPosted = {}
    /\ player = [s \in Session |-> "none"]
    /\ roster = <<>>
    /\ early = {} /\ moves = 0 /\ fails = 0
    /\ sendQueue = [s \in Session |-> <<>>]
    /\ sendRegistered = {} /\ sendPosted = {}
    /\ outgoing = [s \in Session |-> <<>>]
    /\ pushed = [s \in Session |-> 0]
    /\ lost = [s \in Session |-> {}]
    /\ calls = <<>>
-----------------------------------------------------------------------------
(* Calls inside the thread *)

Running(op) == calls # <<>> /\ Head(calls).op = op
Of          == Head(calls).s
Then(more)  == calls' = more \o Tail(calls)

\* Mutant: expired weak_ptrs are not left out.
AnyInRoster(s) == TRUE

\* the weak_ptr<Player> of session s still locks
Locks(s) == player[s] \in {"in", "dead"}

\* what GameRoom::Broadcast has still to do: to look at each entry of _players
Broadcast(kind, about) ==
    [i \in 1 .. Len(roster) |->
        [op |-> "Offer", s |-> roster[i], kind |-> kind, about |-> about]]

\* Mutant: the flag is set but not tested.
FlushAnyway(s) == TRUE

\* _sendRegistered.exchange(true) == false
FirstToRegister(s) == s \notin sendRegistered

\* a packet is given to the session: directly, or by a Broadcast that meets
\* its player
Sending == Running("Send") \/ (Running("Offer") /\ Locks(Of))

\* Session::Send
Send ==
    /\ Sending
    /\ sendQueue' = [sendQueue EXCEPT ![Of] = Append(@, pushed[Of] + 1)]
    /\ pushed' = [pushed EXCEPT ![Of] = @ + 1]
    /\ sendRegistered' = sendRegistered \cup {Of}
    /\ Then(IF FirstToRegister(Of) THEN <<Call("RegisterSend", Of)>> ELSE <<>>)
    /\ UNCHANGED <<linkVars, roomVars, sendPosted, outgoing, lost, fails>>

\* a Broadcast passes over a weak_ptr that has expired
OfferExpired ==
    /\ Running("Offer")
    /\ ~Locks(Of)
    /\ Then(<<>>)
    /\ UNCHANGED <<linkVars, roomVars, sendVars>>

\* Session::RegisterSend when the session is closed: _sendRegistered stays set
RegisterSendClosed ==
    /\ Running("RegisterSend")
    /\ Of \notin connected
    /\ Then(<<>>)
    /\ UNCHANGED <<linkVars, roomVars, sendVars>>

\* Mutant: the last buffer is not popped.
QueueKeepsLast(s) == <<sendQueue[s][Len(sendQueue[s])]>>

\* what the loop over _sendQueue leaves in it
QueueLeft(s) == <<>>

\* Session::RegisterSend; WSASend takes everything that is queued
RegisterSendPosted ==
    /\ Running("RegisterSend")
    /\ Of \in connected
    /\ outgoing' = [outgoing EXCEPT ![Of] = @ \o sendQueue[Of]]
    /\ sendQueue' = [sendQueue EXCEPT ![Of] = QueueLeft(Of)]
    /\ sendPosted' = sendPosted \cup {Of}
    /\ Then(<<>>)
    /\ UNCHANGED <<linkVars, roomVars, sendRegistered, pushed, lost, fails>>

\* Session::RegisterSend; WSASend fails: HandleError disconnects if the peer
\* reset the connection and does nothing about any other error, and then the
\* buffers are dropped and _sendRegistered is cleared
RegisterSendFailed(reset) ==
    /\ Running("RegisterSend")
    /\ Of \in connected
    /\ fails < MaxFails
    /\ fails' = fails + 1
    /\ lost' = [lost EXCEPT ![Of] = @ \cup Range(sendQueue[Of])]
    /\ sendQueue' = [sendQueue EXCEPT ![Of] = <<>>]
    /\ Then(IF reset THEN <<Call("Disconnect", Of), Call("SendFailed", Of)>>
                     ELSE <<Call("SendFailed", Of)>>)
    /\ UNCHANGED <<linkVars, roomVars, sendRegistered, sendPosted, outgoing, pushed>>

SendFailed ==
    /\ Running("SendFailed")
    /\ sendRegistered' = sendRegistered \ {Of}
    /\ Then(<<>>)
    /\ UNCHANGED <<linkVars, roomVars, sendQueue, sendPosted, outgoing, pushed, lost, fails>>

\* Session::Disconnect of a session that is closed already
DisconnectAgain ==
    /\ Running("Disconnect")
    /\ Of \notin connected
    /\ Then(<<>>)
    /\ UNCHANGED <<linkVars, roomVars, sendVars>>

\* Mutant: the player stays in the room.
StaysIn(s) == player

\* Mutant: the session is not asked whether it has a player.
LeavesUnasked(s) == [player EXCEPT ![s] = "dead"]

\* GameRoom::LeaveRoom destroys the player of the session, if it has one
LeaveRoom(s) == [player EXCEPT ![s] = IF Locks(s) THEN "dead" ELSE @]

\* Session::Disconnect with GameSession::OnDisconnected
Disconnect ==
    /\ Running("Disconnect")
    /\ Of \in connected
    /\ connected' = connected \ {Of}
    /\ player' = LeaveRoom(Of)
    /\ early' = IF player[Of] = "none" THEN early \cup {Of} ELSE early
    /\ Then((IF Locks(Of) THEN Broadcast("Leave", {Of}) ELSE <<>>) \o <<Call("Release", Of)>>)
    /\ UNCHANGED <<inService, recvPosted, roster, moves, sendVars>>

\* Service::ReleaseSession, at the end of Session::Disconnect
Release ==
    /\ Running("Release")
    /\ inService' = inService \ {Of}
    /\ Then(<<>>)
    /\ UNCHANGED <<connected, recvPosted, roomVars, sendVars>>

\* GameRoom::EnterRoom up to the first packet, with SpawnPlayer
EnterRoom ==
    /\ Running("EnterRoom")
    /\ player' = [player EXCEPT ![Of] = "in"]
    /\ roster' = Append(roster, Of)
    /\ Then(<<CallSend(Of, "MyPlayer", {Of}), Call("OtherPlayers", Of),
              CallSend(Of, "Tilemap", {}), Call("Join", Of)>>)
    /\ UNCHANGED <<linkVars, early, moves, sendVars>>

\* the snapshot of everyone in the room, those about to be removed as well
OtherPlayers ==
    /\ Running("OtherPlayers")
    /\ Then(<<CallSend(Of, "OtherPlayers", {s \in Range(roster) : Locks(s)})>>)
    /\ UNCHANGED <<linkVars, roomVars, sendVars>>

\* the end of EnterRoom: everyone is told of the new player
Join ==
    /\ Running("Join")
    /\ Then(Broadcast("Join", {Of}))
    /\ UNCHANGED <<linkVars, roomVars, sendVars>>

\* Session::RegisterRecv
RegisterRecv ==
    /\ Running("RegisterRecv")
    /\ recvPosted' = IF Of \in connected THEN recvPosted \cup {Of} ELSE recvPosted
    /\ Then(<<>>)
    /\ UNCHANGED <<connected, inService, roomVars, sendVars>>

\* Session::RegisterRecv; WSARecv fails: the session is disconnected if the
\* peer reset the connection, and else stays open and never receives again
RegisterRecvFailed(reset) ==
    /\ Running("RegisterRecv")
    /\ Of \in connected
    /\ fails < MaxFails
    /\ fails' = fails + 1
    /\ Then(IF reset THEN <<Call("Disconnect", Of)>> ELSE <<>>)
    /\ UNCHANGED <<linkVars, roomVars, sendQueue, sendRegistered, sendPosted,
                   outgoing, pushed, lost>>

\* GameRoom::RemoveDeadObjects
RemoveDead ==
    /\ Running("RemoveDead")
    /\ player' = [s \in Session |-> IF player[s] = "dead" THEN "gone" ELSE player[s]]
    /\ Then(<<>>)
    /\ UNCHANGED <<linkVars, roster, early, moves, sendVars>>
-----------------------------------------------------------------------------
(* Events: completions that the main loop dispatches, and the tick *)

Idle == calls = <<>>

\* Listener::ProcessAccept: Session::ProcessConnect, GameSession::OnConnected
ProcessConnect(s) ==
    /\ Idle
    /\ s \notin inService /\ player[s] = "none" /\ s \notin early
    /\ connected' = connected \cup {s}
    /\ inService' = inService \cup {s}
    /\ calls' = <<CallSend(s, "EnterGame", {}), Call("EnterRoom", s), Call("RegisterRecv", s)>>
    /\ UNCHANGED <<recvPosted, roomVars, sendVars>>

\* Session::ProcessRecv of no bytes: the peer has closed
ProcessRecvZero(s) ==
    /\ Idle
    /\ s \in recvPosted
    /\ recvPosted' = recvPosted \ {s}
    /\ calls' = <<Call("Disconnect", s)>>
    /\ UNCHANGED <<connected, inService, roomVars, sendVars>>

\* Session::ProcessRecv of a packet that the room answers with a Broadcast
\* about its player; nothing of a player that is gone is answered
ProcessRecv(s) ==
    /\ Idle
    /\ s \in recvPosted
    /\ moves < MaxMoves
    /\ moves' = moves + 1
    /\ recvPosted' = recvPosted \ {s}
    /\ calls' = (IF Locks(s) THEN Broadcast("Move", {s}) ELSE <<>>) \o <<Call("RegisterRecv", s)>>
    /\ UNCHANGED <<connected, inService, player, roster, early, sendVars>>

\* Session::ProcessSend of no bytes
ProcessSendZero(s) ==
    /\ Idle
    /\ s \in sendPosted
    /\ fails < MaxFails
    /\ fails' = fails + 1
    /\ sendPosted' = sendPosted \ {s}
    /\ calls' = <<Call("Disconnect", s)>>
    /\ UNCHANGED <<linkVars, roomVars, sendQueue, sendRegistered, outgoing, pushed, lost>>

\* Mutant: the queue is not looked at again.
ProcessSendForgets(s) ==
    /\ Idle
    /\ s \in sendPosted
    /\ sendPosted' = sendPosted \ {s}
    /\ sendRegistered' = sendRegistered \ {s}
    /\ UNCHANGED <<linkVars, roomVars, sendQueue, outgoing, pushed, lost, fails, calls>>

\* Session::ProcessSend: what was queued meanwhile is sent next
ProcessSend(s) ==
    /\ Idle
    /\ s \in sendPosted
    /\ sendPosted' = sendPosted \ {s}
    /\ IF sendQueue[s] = <<>>
       THEN sendRegistered' = sendRegistered \ {s} /\ UNCHANGED calls
       ELSE calls' = <<Call("RegisterSend", s)>> /\ UNCHANGED sendRegistered
    /\ UNCHANGED <<linkVars, roomVars, sendQueue, outgoing, pushed, lost, fails>>

\* GameRoom::Update: nothing, or the new state of a player, is broadcast
Update ==
    /\ Idle
    /\ calls' = <<Call("RemoveDead", "")>>
    /\ UNCHANGED <<linkVars, roomVars, sendVars>>

UpdateState(s) ==
    /\ Idle
    /\ Locks(s)
    /\ moves < MaxMoves
    /\ moves' = moves + 1
    /\ calls' = Broadcast("State", {s}) \o <<Call("RemoveDead", "")>>
    /\ UNCHANGED <<linkVars, player, roster, early, sendVars>>
-----------------------------------------------------------------------------
Thread ==
    \/ Send \/ OfferExpired \/ RegisterSendClosed \/ RegisterSendPosted \/ SendFailed
    \/ \E reset \in BOOLEAN : RegisterSendFailed(reset) \/ RegisterRecvFailed(reset)
    \/ DisconnectAgain \/ Disconnect \/ Release
    \/ EnterRoom \/ OtherPlayers \/ Join \/ RegisterRecv \/ RemoveDead

Completion(s) ==
    \/ ProcessConnect(s) \/ ProcessRecvZero(s) \/ ProcessRecv(s)
    \/ ProcessSendZero(s) \/ ProcessSend(s)

Next ==
    \/ Thread
    \/ \E s \in Session : Completion(s) \/ UpdateState(s)
    \/ Update

Spec == Init /\ [][Next]_vars

\* the thread does not stop inside a call, every WSASend completes and its
\* completion is dispatched
FairSpec ==
    /\ Spec
    /\ WF_vars(Thread)
    /\ \A s \in Session : SF_vars(ProcessSend(s) \/ ProcessSendZero(s))
-----------------------------------------------------------------------------
(* Properties *)

\* The type invariant; _players has one entry per player that ever entered.
TypeOK ==
    /\ connected \subseteq Session /\ inService \subseteq Session
    /\ recvPosted \subseteq Session
    /\ player \in [Session -> {"none", "in", "dead", "gone"}]
    /\ roster \in Seq(Session)
    /\ \A s \in Session : player[s] # "none" <=> s \in Range(roster)
    /\ sendQueue \in [Session -> Seq(Nat)]
    /\ sendRegistered \subseteq Session /\ sendPosted \subseteq Session
    /\ outgoing \in [Session -> Seq(Nat)]
    /\ pushed \in [Session -> Nat]
    /\ lost \in [Session -> SUBSET Nat]
    /\ early \subseteq Session /\ moves \in 0 .. MaxMoves /\ fails \in 0 .. MaxFails

Calling(op, s) == \E i \in 1 .. Len(calls) : calls[i].op = op /\ calls[i].s = s

\* No wakeup is lost: what is queued on an open session is followed by the
\* completion of a WSASend, by a call of RegisterSend that will take it or by
\* the session's own disconnect, wherever Sends are nested into failing sends.
NoLostWakeup ==
    \A s \in connected : sendQueue[s] # <<>> =>
        s \in sendPosted \/ Calling("RegisterSend", s) \/ Calling("Disconnect", s)

\* At most one WSASend is outstanding: RegisterSend never reuses _sendEvent,
\* its OVERLAPPED and its buffers, while the kernel still holds them.
OneOutstanding ==
    \A s \in sendPosted : ~Calling("RegisterSend", s) \/ s \notin connected

\* The packets of a session leave in the order in which Send was given them,
\* none twice, and none is missing but those of a WSASend that failed.
SentInOrder ==
    \A s \in Session :
        LET all == outgoing[s] \o sendQueue[s]
        IN  /\ \A i \in 1 .. Len(all) - 1 : all[i] < all[i + 1]
            /\ Range(all) = (1 .. pushed[s]) \ lost[s]

\* Between two events the service knows exactly the open sessions, and the
\* player of a closed session has been destroyed, whichever nesting of sends
\* closed it.  The exception, which the code does not handle: a session that
\* S_EnterGame already failed on has no player when it is disconnected, and
\* EnterRoom then makes it one that nothing removes.
ClosedSessionsLeave ==
    Idle =>
        /\ inService = connected
        /\ \A s \in Session : s \notin connected /\ player[s] = "in" => s \in early

\* Once RemoveDeadObjects has removed a player, nobody is sent anything about
\* it and its session is sent nothing.  A player that has left and is not yet
\* removed is still spoken of, and sent to: what comes late comes before the
\* end of the tick.
GoneIsSilent ==
    Sending => /\ player[Of] # "gone"
               /\ \A s \in Head(calls).about : player[s] # "gone"

\* What is queued on a session is sent, unless the session is closed.
QueueDrains ==
    \A s \in Session :
        s \in connected /\ sendQueue[s] # <<>> ~> sendQueue[s] = <<>> \/ s \notin connected
=============================================================================
