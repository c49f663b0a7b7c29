---------------------------- MODULE PacketStream ----------------------------
(***************************************************************************)
(* The receiving half of a session (Network/Session.cpp, RecvBuffer.cpp):  *)
(* a byte stream that TCP cuts anywhere, a receive buffer that is read at  *)
(* one cursor and written at another and whose content is moved to the     *)
(* front when the room runs short, and PacketSession::OnRecv, which cuts   *)
(* the bytes back into packets by the size in each header.                 *)
(*                                                                         *)
(* A byte is its offset in the stream.  A header tells the size of the     *)
(* packet that begins at its first byte, if all its bytes are in place;    *)
(* anything else read as a header gives an arbitrary size.                 *)
(***************************************************************************)
EXTENDS Integers, Sequences

CONSTANTS
    BufferSize,   \* BUFFER_SIZE, 0x10000
    BufferCount,  \* BUFFER_COUNT, 10
    HeaderSize,   \* sizeof(PacketHeader), 4
    MaxPacket,    \* the largest header.size, a uint16
    MaxSent       \* bound: packets sent

Capacity == BufferSize * BufferCount

ASSUME PacketStreamAssumption ==
    /\ HeaderSize \in Nat \ {0}
    /\ MaxPacket \in Nat /\ MaxPacket >= HeaderSize
    /\ BufferSize \in Nat /\ BufferSize > MaxPacket
    /\ BufferCount \in Nat /\ BufferCount >= 3
    /\ MaxSent \in Nat

VARIABLES
    sent,        \* packets the peer has sent
    streamed,    \* bytes the peer has sent
    arrived,     \* bytes received
    buffer,      \* _buffer; -1 where nothing was ever written
    readPos,     \* _readPos
    writePos,    \* _writePos
    posted,      \* a WSARecv is outstanding
    bufAt,       \* its wsaBuf.buf
    bufLen,      \* its wsaBuf.len
    step,        \* "wait" for a completion, or "parse": in the loop of OnRecv
    processLen,  \* processLen of that loop
    delivered,   \* packets given to OnRecvPacket
    connected    \* _connected

peerVars   == <<sent, streamed>>
bufferVars == <<arrived, buffer, readPos, writePos>>
recvVars   == <<posted, bufAt, bufLen>>
parseVars  == <<step, processLen, delivered>>
vars == <<peerVars, bufferVars, recvVars, parseVars, connected>>

Packet == [at : Nat, size : HeaderSize .. MaxPacket]

\* what OnRecvPacket may be given; at is -1 if the bytes are not one part of
\* the stream
Piece == [at : Nat \cup {-1}, size : 0 .. MaxPacket]

DataSize == writePos - readPos
FreeSize == Capacity - writePos

\* OnConnected is over and the first receive is posted
Init ==
    /\ sent = <<>> /\ streamed = 0
    /\ arrived = 0
    /\ buffer = [i \in 0 .. Capacity - 1 |-> -1]
    /\ readPos = 0 /\ writePos = 0
    /\ posted = TRUE /\ bufAt = 0 /\ bufLen = Capacity
    /\ step = "wait" /\ processLen = 0
    /\ delivered = <<>>
    /\ connected = TRUE

\* the peer sends a packet of n bytes
Send(n) ==
    /\ Len(sent) < MaxSent
    /\ sent' = Append(sent, [at |-> streamed, size |-> n])
    /\ streamed' = streamed + n
    /\ UNCHANGED <<bufferVars, recvVars, parseVars, connected>>

\* Session::Disconnect from elsewhere: a send to this session has failed
Disconnect ==
    /\ connected
    /\ connected' = FALSE
    /\ UNCHANGED <<peerVars, bufferVars, recvVars, parseVars>>

\* A receive completes with n bytes and ProcessRecv enters the loop of OnRecv.
\* This can happen after a disconnect: the completion was already queued.
Receive(n) ==
    /\ step = "wait" /\ posted
    /\ n <= bufLen /\ n <= streamed - arrived
    /\ buffer' = [i \in 0 .. Capacity - 1 |->
                    IF i \in bufAt .. bufAt + n - 1 THEN arrived + (i - bufAt) ELSE buffer[i]]
    /\ arrived' = arrived + n
    /\ posted' = FALSE
    /\ IF n > FreeSize
       THEN connected' = FALSE /\ UNCHANGED <<writePos, step, processLen>>
       ELSE /\ writePos' = writePos + n
            /\ step' = "parse" /\ processLen' = 0
            /\ UNCHANGED connected
    /\ UNCHANGED <<peerVars, readPos, bufAt, bufLen, delivered>>

\* a receive completes with nothing: the peer closed, or there was no room
ReceiveZero ==
    /\ step = "wait" /\ posted
    /\ posted' = FALSE
    /\ connected' = FALSE
    /\ UNCHANGED <<peerVars, bufferVars, bufAt, bufLen, parseVars>>

\* from index i of the buffer on there are n consecutive bytes of the stream
Whole(i, n) == \A j \in 0 .. n - 1 : i + j < Capacity /\ buffer[i + j] = buffer[i] + j

\* the sizes the header at index i of the buffer may show
HeaderAt(i) ==
    LET here == {q \in {sent[k] : k \in 1 .. Len(sent)} : q.at = buffer[i]}
    IN  IF here # {} /\ Whole(i, HeaderSize) THEN {q.size : q \in here} ELSE 0 .. MaxPacket

\* what a handler is given, the n bytes at index i: a part of the stream, or not
PieceAt(i, n) == [at |-> IF Whole(i, n) THEN buffer[i] ELSE -1, size |-> n]

\* Mutant: a packet is handled as soon as its header is there.
AvailableHeaderOnly(n) == writePos - (readPos + processLen) >= HeaderSize

\* Mutant: a packet needs a byte more than it has.
AvailableByteMore(n) == writePos - (readPos + processLen) > n

\* the packet of n bytes at processLen is complete
Available(n) == writePos - (readPos + processLen) >= n

\* one round of the loop of OnRecv: a complete packet is handled
OnRecvPacket ==
    /\ step = "parse"
    /\ writePos - (readPos + processLen) >= HeaderSize
    /\ \E n \in HeaderAt(readPos + processLen) :
          /\ Available(n)
          /\ delivered' = Append(delivered, PieceAt(readPos + processLen, n))
          /\ processLen' = processLen + n
    /\ UNCHANGED <<peerVars, bufferVars, recvVars, step, connected>>

\* Mutant: RecvBuffer::Clean moves the bytes whenever there are some.
ShortOfRoomAlways(w) == TRUE

\* Mutant: RecvBuffer::Clean moves the bytes only when there is no room at all.
ShortOfRoomLate(w) == Capacity - w < 1

\* FreeSize() < _bufferSize, with the write cursor at w
ShortOfRoom(w) == Capacity - w < BufferSize

\* Mutant: RecvBuffer::Clean resets the read cursor only.
CleanReadOnly(r, w) ==
    IF r = w THEN <<0, 0>> ELSE IF ShortOfRoom(w) THEN <<0, w>> ELSE <<r, w>>

\* the cursors after RecvBuffer::Clean
Clean(r, w) ==
    IF r = w THEN <<0, 0>> ELSE IF ShortOfRoom(w) THEN <<0, w - r>> ELSE <<r, w>>

\* the loop ends; OnRead, which cannot fail, since processLen <= DataSize by
\* TypeOK; Clean and RegisterRecv
FinishRecv ==
    LET r == readPos + processLen
        c == Clean(r, writePos)
    IN  /\ step = "parse"
        /\ \/ writePos - r < HeaderSize
           \/ writePos - r >= HeaderSize /\ \E n \in HeaderAt(r) : ~Available(n)
        /\ readPos' = c[1] /\ writePos' = c[2]
        /\ buffer' = IF r # writePos /\ c[1] # r
                     THEN [i \in 0 .. Capacity - 1 |->
                             IF i < writePos - r THEN buffer[i + r] ELSE buffer[i]]
                     ELSE buffer
        /\ posted' = connected
        /\ bufAt'  = IF connected THEN c[2] ELSE bufAt
        /\ bufLen' = IF connected THEN Capacity - c[2] ELSE bufLen
        /\ step' = "wait" /\ processLen' = 0
        /\ UNCHANGED <<peerVars, arrived, delivered, connected>>

ReceiveSome == \E n \in 1 .. Capacity : Receive(n)

Next ==
    \/ \E n \in HeaderSize .. MaxPacket : Send(n)
    \/ Disconnect
    \/ ReceiveSome
    \/ ReceiveZero
    \/ OnRecvPacket
    \/ FinishRecv

Spec == Init /\ [][Next]_vars

\* TCP brings what was sent, and the loop that dispatches completions runs
FairSpec == Spec /\ WF_vars(ReceiveSome) /\ WF_vars(OnRecvPacket) /\ WF_vars(FinishRecv)
-----------------------------------------------------------------------------
(* Properties *)

\* The type invariant; the cursors stay in the buffer and in order.
TypeOK ==
    /\ sent \in Seq(Packet)
    /\ streamed \in Nat /\ arrived \in 0 .. streamed
    /\ buffer \in [0 .. Capacity - 1 -> Nat \cup {-1}]
    /\ readPos \in Nat /\ writePos \in readPos .. Capacity
    /\ posted \in BOOLEAN
    /\ bufAt \in 0 .. Capacity /\ bufLen \in 0 .. Capacity
    /\ step \in {"wait", "parse"}
    /\ processLen \in 0 .. DataSize
    /\ delivered \in Seq(Piece)
    /\ connected \in BOOLEAN

\* Between the cursors lie exactly the last bytes received, in order: nothing
\* that Clean moves or that a receive writes is lost or written over.
BufferHolds == \A i \in readPos .. writePos - 1 : buffer[i] = arrived - (writePos - i)

\* A posted receive writes right behind the bytes that are there and has room
\* for at least BUFFER_SIZE bytes.  With no room it would complete with no
\* bytes, which ProcessRecv takes for the end of the connection.
RoomToReceive ==
    posted => bufAt = writePos /\ bufLen = FreeSize /\ bufLen >= BufferSize

\* The memcpy of Clean never copies between areas that overlap.
MoveIsDisjoint ==
    [][step = "parse" /\ step' = "wait" /\ readPos' < writePos'
         => readPos' = readPos + processLen \/ writePos' <= readPos + processLen]_vars

Channel == INSTANCE PacketChannel

\* However the stream is cut, the handlers see the packets that were sent,
\* whole, in order and once.
WholeAndInOrder == Channel!Spec

\* Every packet sent is handled, unless the session is disconnected.
EveryPacketHandled ==
    \A k \in 1 .. MaxSent : Len(sent) = k ~> Len(delivered) >= k \/ ~connected
=============================================================================
