------------------------ MODULE PacketStream_proofs ------------------------
(* Proofs about PacketStream, for every buffer of at least three parts,    *)
(* every size of header and packet that fits one part, and every stream.   *)
EXTENDS PacketStream, TLAPS

\* the offset in the stream of the first byte that is in no handled packet
Handled == arrived - DataSize + processLen

\* where the packet after the first k of s begins, or the stream ends
NextIn(s, end, k) == IF k < Len(s) THEN s[k + 1].at ELSE end

NextAt(k) == NextIn(sent, streamed, k)

\* the packets lie in the stream one behind the other
Adjacent ==
    /\ NextAt(0) = 0
    /\ \A k \in 1 .. Len(sent) : sent[k].at + sent[k].size = NextAt(k)
    /\ \A k \in 1 .. Len(sent) : sent[k].at + sent[k].size <= streamed
    /\ \A j, k \in 1 .. Len(sent) : j < k => sent[j].at + sent[j].size <= sent[k].at

\* the packets handled are the first ones sent, and end where the unread
\* bytes begin
Aligned ==
    /\ Len(delivered) <= Len(sent)
    /\ \A k \in 1 .. Len(delivered) : delivered[k] = sent[k]
    /\ Handled = NextAt(Len(delivered))

\* what the loop of OnRecv leaves behind is less than a packet
LittleLeft ==
    step = "wait" => processLen = 0 /\ DataSize < MaxPacket /\ FreeSize >= BufferSize

IInv == TypeOK /\ BufferHolds /\ RoomToReceive /\ Adjacent /\ Aligned /\ LittleLeft

\* The constants, and what BUFFER_COUNT buffers hold.
LEMMA Sizes ==
    /\ HeaderSize \in Nat \ {0}
    /\ MaxPacket \in Nat /\ MaxPacket >= HeaderSize
    /\ BufferSize \in Nat /\ BufferSize > MaxPacket
    /\ Capacity \in Nat /\ Capacity >= 3 * BufferSize
    /\ MaxSent \in Nat
<1>1. PICK k \in Nat : BufferCount = 3 + k
  <2>1. BufferCount - 3 \in Nat /\ BufferCount = 3 + (BufferCount - 3)
    BY PacketStreamAssumption
  <2> QED BY <2>1
<1>2. BufferSize \in Nat
  BY PacketStreamAssumption
<1>3. BufferSize * (3 + k) = 3 * BufferSize + BufferSize * k /\ BufferSize * k \in Nat
  BY <1>2, SMT
<1>4. Capacity \in Nat /\ Capacity >= 3 * BufferSize
  BY <1>1, <1>2, <1>3 DEF Capacity
<1> QED BY <1>4, PacketStreamAssumption

\* The fields of a packet.
LEMMA PacketFields ==
  ASSUME NEW q \in Packet
  PROVE  /\ q.at \in Nat /\ q.size \in Nat
         /\ q.size >= HeaderSize /\ q.size <= MaxPacket
         /\ q = [at |-> q.at, size |-> q.size]
         /\ q \in Piece
BY Sizes DEF Packet, Piece

\* The same of the packets sent.
LEMMA SentFields ==
  ASSUME sent \in Seq(Packet)
  PROVE  \A k \in 1 .. Len(sent) :
           sent[k].at \in Nat /\ sent[k].size \in Nat /\ sent[k].size >= HeaderSize
<1>1. \A k \in 1 .. Len(sent) : sent[k] \in Packet
  OBVIOUS
<1> QED BY <1>1, PacketFields

LEMMA InitIInv == Init => IInv
BY Sizes
DEF Init, IInv, TypeOK, BufferHolds, RoomToReceive, Adjacent, Aligned, LittleLeft,
    Handled, NextAt, NextIn, DataSize, FreeSize, Packet

LEMMA SendIInv ==
  ASSUME IInv, NEW n \in HeaderSize .. MaxPacket, Send(n)
  PROVE  IInv'
<1> DEFINE q == [at |-> streamed, size |-> n]
<1> USE Sizes
<1>1. /\ sent' = Append(sent, q) /\ streamed' = streamed + n
      /\ UNCHANGED <<bufferVars, recvVars, parseVars, connected>>
  BY DEF Send
<1>2. q \in Packet
  BY DEF Packet, IInv, TypeOK
<1>3. sent \in Seq(Packet) /\ streamed \in Nat
  BY DEF IInv, TypeOK
<1>4. /\ sent' \in Seq(Packet)
      /\ Len(sent') = Len(sent) + 1
      /\ \A k \in 1 .. Len(sent) : sent'[k] = sent[k]
      /\ sent'[Len(sent) + 1] = q
  BY <1>1, <1>2, <1>3
<1> HIDE DEF q
<1>5. q.at = streamed /\ q.size = n /\ n \in Nat
  BY DEF q
<1>6. TypeOK'
  <2>1. streamed' \in Nat /\ arrived' \in 0 .. streamed'
    BY <1>1, <1>5 DEF IInv, TypeOK, bufferVars
  <2> QED BY <1>1, <1>4, <2>1 DEF IInv, TypeOK, DataSize, bufferVars, recvVars, parseVars
<1>7. BufferHolds' /\ RoomToReceive' /\ LittleLeft'
  BY <1>1 DEF IInv, BufferHolds, RoomToReceive, LittleLeft, DataSize, FreeSize,
              bufferVars, recvVars, parseVars
<1>8. \A k \in 0 .. Len(sent) : NextIn(sent', streamed', k) = NextAt(k)
  <2> SUFFICES ASSUME NEW k \in 0 .. Len(sent)
               PROVE  NextIn(sent', streamed', k) = NextAt(k)
    OBVIOUS
  <2>1. Len(sent) \in Nat
    BY <1>3
  <2>2. CASE k < Len(sent)
    <3>1. k + 1 \in 1 .. Len(sent)
      BY <2>1, <2>2
    <3> QED BY <1>4, <2>1, <2>2, <3>1 DEF NextAt, NextIn
  <2>3. CASE k = Len(sent)
    BY <1>4, <1>5, <2>1, <2>3 DEF NextAt, NextIn
  <2> QED BY <2>1, <2>2, <2>3
<1>9. Adjacent'
  <2>1. \A k \in 1 .. Len(sent) : sent[k].at \in Nat /\ sent[k].size \in Nat
    BY <1>3, SentFields
  <2>2. NextIn(sent', streamed', Len(sent) + 1) = streamed + n /\ Len(sent) \in Nat
    BY <1>1, <1>4, <1>3 DEF NextIn
  <2>3. /\ NextIn(sent', streamed', 0) = 0
        /\ \A k \in 1 .. Len(sent') : sent'[k].at + sent'[k].size = NextIn(sent', streamed', k)
    <3>1. \A k \in 1 .. Len(sent) : sent'[k].at + sent'[k].size = NextIn(sent', streamed', k)
      BY <1>4, <1>8, <2>2 DEF IInv, Adjacent
    <3>2. sent'[Len(sent) + 1].at + sent'[Len(sent) + 1].size
            = NextIn(sent', streamed', Len(sent) + 1)
      BY <1>4, <1>5, <2>2
    <3> QED BY <1>4, <1>8, <2>2, <3>1, <3>2 DEF IInv, Adjacent
  <2>4. \A k \in 1 .. Len(sent') : sent'[k].at + sent'[k].size <= streamed'
    BY <1>1, <1>3, <1>4, <1>5, <2>1, <2>2 DEF IInv, Adjacent
  <2>5. \A j, k \in 1 .. Len(sent') : j < k => sent'[j].at + sent'[j].size <= sent'[k].at
    <3>1. \A j, k \in 1 .. Len(sent) : j < k => sent[j].at + sent[j].size <= sent[k].at
      BY DEF IInv, Adjacent
    <3>2. \A j \in 1 .. Len(sent) : sent[j].at + sent[j].size <= streamed
      BY DEF IInv, Adjacent
    <3>3. SUFFICES ASSUME NEW j \in 1 .. Len(sent'), NEW k \in 1 .. Len(sent'), j < k
                   PROVE  sent'[j].at + sent'[j].size <= sent'[k].at
      OBVIOUS
    <3>4. j \in 1 .. Len(sent)
      BY <1>4, <2>2, <3>3
    <3>5. CASE k \in 1 .. Len(sent)
      BY <1>4, <3>1, <3>3, <3>4, <3>5
    <3>6. CASE k = Len(sent) + 1
      BY <1>4, <1>5, <3>2, <3>4, <3>6
    <3> QED BY <1>4, <2>2, <3>5, <3>6
  <2> QED BY <2>3, <2>4, <2>5 DEF Adjacent, NextAt
<1>10. Aligned'
  <2>1. Len(delivered) \in 0 .. Len(sent) /\ Len(sent) \in Nat
    BY <1>3 DEF IInv, Aligned, TypeOK
  <2>2. NextIn(sent', streamed', Len(delivered)) = NextAt(Len(delivered))
    BY <1>8, <2>1
  <2>3. Handled' = Handled /\ delivered' = delivered
    BY <1>1 DEF Handled, DataSize, bufferVars, parseVars
  <2> QED BY <1>4, <2>1, <2>2, <2>3 DEF IInv, Aligned, NextAt
<1> QED BY <1>6, <1>7, <1>9, <1>10 DEF IInv

LEMMA ReceiveIInv ==
  ASSUME IInv, NEW n \in 1 .. Capacity, Receive(n)
  PROVE  IInv'
<1> USE Sizes
<1>1. /\ step = "wait" /\ processLen = 0 /\ posted
      /\ bufAt = writePos /\ bufLen = Capacity - writePos /\ n <= bufLen
      /\ n <= streamed - arrived
  BY DEF IInv, Receive, RoomToReceive, LittleLeft, FreeSize
<1>2. /\ readPos \in Nat /\ writePos \in Nat /\ readPos <= writePos /\ writePos <= Capacity
      /\ arrived \in Nat /\ streamed \in Nat /\ arrived <= streamed
  BY DEF IInv, TypeOK
<1>3. ~ (n > FreeSize)
  BY <1>1, <1>2 DEF FreeSize
<1>4. /\ buffer' = [i \in 0 .. Capacity - 1 |->
                      IF i \in writePos .. writePos + n - 1
                      THEN arrived + (i - writePos) ELSE buffer[i]]
      /\ arrived' = arrived + n
      /\ posted' = FALSE
      /\ writePos' = writePos + n
      /\ step' = "parse" /\ processLen' = 0
      /\ UNCHANGED <<peerVars, readPos, bufAt, bufLen, delivered, connected>>
  BY <1>1, <1>3 DEF Receive
<1>5. TypeOK'
  <2>1. buffer' \in [0 .. Capacity - 1 -> Nat \cup {-1}]
    BY <1>1, <1>2, <1>4 DEF IInv, TypeOK
  <2>2. /\ writePos' \in readPos' .. Capacity /\ arrived' \in 0 .. streamed'
        /\ processLen' \in 0 .. DataSize'
    BY <1>1, <1>2, <1>4 DEF DataSize, peerVars
  <2> QED BY <1>4, <2>1, <2>2 DEF IInv, TypeOK, peerVars
<1>6. BufferHolds'
  BY <1>1, <1>2, <1>4 DEF IInv, BufferHolds
<1>7. RoomToReceive' /\ LittleLeft'
  BY <1>4 DEF RoomToReceive, LittleLeft
<1>8. Adjacent'
  BY <1>4 DEF IInv, Adjacent, NextAt, NextIn, peerVars
<1>9. Aligned'
  <2>1. Handled' = Handled
    BY <1>1, <1>2, <1>4 DEF Handled, DataSize
  <2> QED BY <1>4, <2>1 DEF IInv, Aligned, NextAt, NextIn, peerVars
<1> QED BY <1>5, <1>6, <1>7, <1>8, <1>9 DEF IInv

\* In the loop of OnRecv the header that is read is the one of the first
\* packet not handled yet.
LEMMA HeaderIsNext ==
  ASSUME IInv, writePos - (readPos + processLen) >= HeaderSize
  PROVE  /\ Len(delivered) < Len(sent)
         /\ buffer[readPos + processLen] = sent[Len(delivered) + 1].at
         /\ HeaderAt(readPos + processLen) = {sent[Len(delivered) + 1].size}
<1> DEFINE r == readPos + processLen
           d == Len(delivered)
           q == sent[d + 1]
<1> USE Sizes
<1>1. /\ readPos \in Nat /\ writePos \in Nat /\ processLen \in Nat
      /\ arrived \in Nat /\ streamed \in Nat /\ arrived <= streamed
      /\ sent \in Seq(Packet) /\ d \in Nat
  BY DEF IInv, TypeOK, DataSize
<1>2. \A j \in 0 .. HeaderSize - 1 : buffer[r + j] = Handled + j
  BY <1>1 DEF IInv, BufferHolds, Handled, DataSize
<1>3. Handled < streamed
  BY <1>1 DEF Handled, DataSize
<1>4. d < Len(sent) /\ Handled = q.at
  BY <1>1, <1>3 DEF IInv, Aligned, NextAt, NextIn
<1>5. d + 1 \in 1 .. Len(sent)
  BY <1>1, <1>4
<1>6. buffer[r] = q.at
  <2>1. buffer[r + 0] = Handled + 0
    BY <1>2
  <2>2. r + 0 = r /\ Handled + 0 = Handled
    BY <1>1 DEF Handled, DataSize
  <2> QED BY <2>1, <2>2, <1>4
<1>7. \A k \in 1 .. Len(sent) : sent[k].at = q.at => k = d + 1
  <2>1. \A k \in 1 .. Len(sent) : sent[k].at \in Nat /\ sent[k].size \in Nat /\ sent[k].size > 0
    BY <1>1, SentFields
  <2>2. \A j, k \in 1 .. Len(sent) : j < k => sent[j].at < sent[k].at
    <3>1. \A j, k \in 1 .. Len(sent) : j < k => sent[j].at + sent[j].size <= sent[k].at
      BY DEF IInv, Adjacent
    <3> HIDE DEF q, d, r
    <3> QED BY <2>1, <3>1
  <2>3. \A k \in 1 .. Len(sent) : k < d + 1 \/ k = d + 1 \/ d + 1 < k
    BY <1>1
  <2> QED BY <1>5, <2>1, <2>2, <2>3
<1>8. {p \in {sent[k] : k \in 1 .. Len(sent)} : p.at = buffer[r]} = {q}
  BY <1>5, <1>6, <1>7
<1>9. Whole(r, HeaderSize)
  <2>1. \A j \in 0 .. HeaderSize - 1 : buffer[r + j] = buffer[r] + j
    BY <1>2, <1>4, <1>6
  <2>2. writePos <= Capacity
    BY DEF IInv, TypeOK
  <2>3. \A j \in 0 .. HeaderSize - 1 : r + j < Capacity
    BY <1>1, <2>2
  <2> QED BY <2>1, <2>3 DEF Whole
<1>10. HeaderAt(r) = {p.size : p \in {q}}
  BY <1>8, <1>9 DEF HeaderAt
<1> QED BY <1>4, <1>6, <1>10

\* Any piece of the bytes that are still to be handled is one of the stream.
LEMMA UnreadIsWhole ==
  ASSUME IInv, NEW n \in Nat, n <= writePos - (readPos + processLen)
  PROVE  Whole(readPos + processLen, n)
<1> DEFINE r == readPos + processLen
<1>1. /\ readPos \in Nat /\ writePos \in Nat /\ processLen \in Nat /\ arrived \in Nat
      /\ writePos <= Capacity
  BY Sizes DEF IInv, TypeOK, DataSize
<1>2. \A j \in 0 .. n - 1 : r + j \in readPos .. writePos - 1 /\ r \in readPos .. writePos - 1
  BY <1>1
<1>3. \A j \in 0 .. n - 1 : /\ buffer[r + j] = arrived - (writePos - (r + j))
                           /\ buffer[r] = arrived - (writePos - r)
  BY <1>2 DEF IInv, BufferHolds
<1>4. r \in Nat /\ Capacity \in Nat
  BY <1>1, Sizes
<1> HIDE DEF r
<1>5. ASSUME NEW j \in 0 .. n - 1
      PROVE  r + j < Capacity /\ buffer[r + j] = buffer[r] + j
  <2>1. r + j < Capacity
    BY <1>1, <1>2, <1>4
  <2>2. buffer[r + j] = arrived - (writePos - (r + j)) /\ buffer[r] = arrived - (writePos - r)
    BY <1>3
  <2>3. arrived - (writePos - (r + j)) = (arrived - (writePos - r)) + j
    BY <1>1, <1>4
  <2> QED BY <2>1, <2>2, <2>3
<1> QED BY <1>5 DEF Whole, r

LEMMA OnRecvPacketIInv ==
  ASSUME IInv, OnRecvPacket
  PROVE  /\ IInv'
         /\ Len(delivered) < Len(sent)
         /\ delivered' = Append(delivered, sent[Len(delivered) + 1])
<1> DEFINE d == Len(delivered)
           q == sent[d + 1]
<1> USE Sizes
<1>1. /\ d < Len(sent) /\ buffer[readPos + processLen] = q.at
      /\ HeaderAt(readPos + processLen) = {q.size}
  BY HeaderIsNext DEF OnRecvPacket
<1>2. /\ readPos \in Nat /\ writePos \in Nat /\ processLen \in Nat /\ arrived \in Nat
      /\ sent \in Seq(Packet) /\ d \in Nat /\ d + 1 \in 1 .. Len(sent)
      /\ delivered \in Seq(Piece)
  BY <1>1 DEF IInv, TypeOK, DataSize
<1>3. q \in Packet
  BY <1>2
<1>4. /\ q = [at |-> q.at, size |-> q.size]
      /\ q \in Piece
      /\ q.size \in Nat
  BY <1>3, PacketFields
<1>5. /\ q.size <= writePos - (readPos + processLen)
      /\ delivered' = Append(delivered, q)
      /\ processLen' = processLen + q.size
      /\ UNCHANGED <<peerVars, bufferVars, recvVars, step, connected>>
      /\ step = "parse"
  <2>1. /\ Available(q.size)
        /\ delivered' = Append(delivered, PieceAt(readPos + processLen, q.size))
        /\ processLen' = processLen + q.size
        /\ UNCHANGED <<peerVars, bufferVars, recvVars, step, connected>>
        /\ step = "parse"
    BY <1>1 DEF OnRecvPacket
  <2>2. q.size <= writePos - (readPos + processLen)
    BY <2>1 DEF Available
  <2>3. PieceAt(readPos + processLen, q.size) = [at |-> q.at, size |-> q.size]
    BY <1>1, <1>2, <1>4, <2>2, UnreadIsWhole DEF PieceAt
  <2> QED BY <1>4, <2>1, <2>2, <2>3
<1> HIDE DEF d, q
<1> DEFINE size == q.size
<1>a. size \in Nat /\ processLen' = processLen + size
      /\ size <= writePos - (readPos + processLen)
  BY <1>4, <1>5
<1>b. readPos \in Nat /\ writePos \in Nat /\ processLen \in Nat /\ arrived \in Nat
  BY <1>2
<1> HIDE DEF size
<1>6. /\ Len(delivered') = d + 1
      /\ \A k \in 1 .. d : delivered'[k] = delivered[k]
      /\ delivered'[d + 1] = q
      /\ delivered' \in Seq(Piece)
  BY <1>2, <1>4, <1>5 DEF d
<1>7. TypeOK'
  <2>1. readPos' = readPos /\ writePos' = writePos /\ step' = step /\ connected' = connected
    BY <1>5 DEF bufferVars
  <2>2. UNCHANGED <<sent, streamed, arrived, buffer, posted, bufAt, bufLen>>
    BY <1>5 DEF peerVars, bufferVars, recvVars
  <2>3. processLen' \in 0 .. DataSize'
    BY <1>a, <1>b, <2>1 DEF DataSize
  <2> QED BY <1>6, <2>1, <2>2, <2>3 DEF IInv, TypeOK
<1>8. BufferHolds' /\ RoomToReceive' /\ LittleLeft' /\ Adjacent'
  BY <1>5 DEF IInv, BufferHolds, RoomToReceive, LittleLeft, Adjacent, NextAt, NextIn, FreeSize,
              DataSize, peerVars, bufferVars, recvVars
<1>9. Aligned'
  <2>1. Handled' = Handled + size
    <3>1. arrived' = arrived /\ writePos' = writePos /\ readPos' = readPos
      BY <1>5 DEF bufferVars
    <3> QED BY <1>a, <1>b, <3>1 DEF Handled, DataSize
  <2>2. Handled = q.at
    BY <1>1, <1>2 DEF IInv, Aligned, NextAt, NextIn, d, q
  <2>3. q.at + q.size = NextIn(sent, streamed, d + 1)
    BY <1>2 DEF IInv, Adjacent, NextAt, q
  <2>4. sent' = sent /\ streamed' = streamed
    BY <1>5 DEF peerVars
  <2>5. Handled' = NextAt(Len(delivered))'
    BY <1>6, <2>1, <2>2, <2>3, <2>4 DEF NextAt, size
  <2>6. \A k \in 1 .. Len(delivered') : delivered'[k] = sent[k]
    <3>1. \A k \in 1 .. d : delivered[k] = sent[k]
      BY DEF IInv, Aligned, d
    <3>2. delivered'[d + 1] = sent[d + 1]
      BY <1>6 DEF q
    <3> QED BY <1>2, <1>6, <3>1, <3>2
  <2> QED BY <1>1, <1>2, <1>5, <1>6, <2>5, <2>6 DEF Aligned, peerVars, d
<1> QED BY <1>1, <1>5, <1>7, <1>8, <1>9 DEF IInv, d, q

\* Clean leaves at least BUFFER_SIZE bytes free and as many bytes to read as
\* there were, and moves them only between areas that do not overlap.
LEMMA CleanRoom ==
  ASSUME NEW r \in Nat, NEW w \in Nat, r <= w, w <= Capacity, w - r < MaxPacket
  PROVE  /\ Clean(r, w)[1] \in Nat /\ Clean(r, w)[2] \in Nat
         /\ Clean(r, w)[2] - Clean(r, w)[1] = w - r
         /\ Capacity - Clean(r, w)[2] >= BufferSize
         /\ Clean(r, w)[1] = r \/ (Clean(r, w)[1] = 0 /\ Clean(r, w)[2] <= r)
<1> USE Sizes
<1>1. CASE r = w
  <2>1. Clean(r, w) = <<0, 0>>
    BY <1>1 DEF Clean
  <2> QED BY <1>1, <2>1
<1>2. CASE r # w /\ ShortOfRoom(w)
  <2>1. Clean(r, w) = <<0, w - r>>
    BY <1>2 DEF Clean
  <2>2. Capacity - w < BufferSize
    BY <1>2 DEF ShortOfRoom
  <2> QED BY <2>1, <2>2
<1>3. CASE r # w /\ ~ShortOfRoom(w)
  <2>1. Clean(r, w) = <<r, w>>
    BY <1>3 DEF Clean
  <2>2. Capacity - w >= BufferSize
    BY <1>3 DEF ShortOfRoom
  <2> QED BY <2>1, <2>2
<1> QED BY <1>1, <1>2, <1>3

\* The loop of OnRecv ends with less than a packet left.
LEMMA LeftAtEnd ==
  ASSUME IInv, FinishRecv
  PROVE  writePos - (readPos + processLen) < MaxPacket
<1> USE Sizes
<1>1. readPos \in Nat /\ writePos \in Nat /\ processLen \in Nat
  BY DEF IInv, TypeOK, DataSize
<1>2. CASE writePos - (readPos + processLen) < HeaderSize
  BY <1>1, <1>2
<1>3. CASE ~ (writePos - (readPos + processLen) < HeaderSize)
  <2>1. writePos - (readPos + processLen) >= HeaderSize
    BY <1>1, <1>3
  <2>2. /\ Len(delivered) < Len(sent)
        /\ HeaderAt(readPos + processLen) = {sent[Len(delivered) + 1].size}
    BY <2>1, HeaderIsNext
  <2>3. ~ (writePos - (readPos + processLen) >= sent[Len(delivered) + 1].size)
    BY <1>3, <2>2 DEF FinishRecv, Available
  <2>4. sent[Len(delivered) + 1] \in Packet
    BY <2>2 DEF IInv, TypeOK
  <2> QED BY <1>1, <2>3, <2>4, PacketFields
<1> QED BY <1>2, <1>3

LEMMA FinishRecvIInv ==
  ASSUME IInv, FinishRecv
  PROVE  /\ IInv'
         /\ readPos' = readPos + processLen \/ writePos' <= readPos + processLen
<1> DEFINE r == readPos + processLen
           c == Clean(r, writePos)
           left == writePos - r
<1> USE Sizes
<1>1. /\ readPos \in Nat /\ writePos \in Nat /\ processLen \in Nat /\ arrived \in Nat
      /\ r \in Nat /\ r <= writePos /\ writePos <= Capacity
  BY DEF IInv, TypeOK, DataSize
<1>2. left < MaxPacket
  BY LeftAtEnd
<1>3. /\ c[1] \in Nat /\ c[2] \in Nat /\ c[2] - c[1] = left
      /\ Capacity - c[2] >= BufferSize
      /\ c[1] = r \/ (c[1] = 0 /\ c[2] <= r)
  BY <1>1, <1>2, CleanRoom
<1>4. /\ readPos' = c[1] /\ writePos' = c[2]
      /\ buffer' = IF r # writePos /\ c[1] # r
                   THEN [i \in 0 .. Capacity - 1 |-> IF i < left THEN buffer[i + r] ELSE buffer[i]]
                   ELSE buffer
      /\ posted' = connected
      /\ bufAt'  = IF connected THEN c[2] ELSE bufAt
      /\ bufLen' = IF connected THEN Capacity - c[2] ELSE bufLen
      /\ step' = "wait" /\ processLen' = 0
      /\ UNCHANGED <<peerVars, arrived, delivered, connected>>
  BY DEF FinishRecv
<1>5. left \in Nat
  BY <1>1
<1> HIDE DEF c
<1>6. TypeOK'
  <2>1. buffer' \in [0 .. Capacity - 1 -> Nat \cup {-1}]
    <3>1. \A i \in 0 .. Capacity - 1 : i < left => i + r \in 0 .. Capacity - 1
      BY <1>1
    <3> QED BY <1>4, <3>1 DEF IInv, TypeOK
  <2>2. /\ readPos' \in Nat /\ writePos' \in readPos' .. Capacity
        /\ bufAt' \in 0 .. Capacity /\ bufLen' \in 0 .. Capacity
        /\ processLen' \in 0 .. DataSize'
    <3>1. c[1] \in Nat /\ c[2] \in Nat /\ c[1] <= c[2] /\ c[2] <= Capacity
      BY <1>3, <1>5
    <3>2. bufAt \in 0 .. Capacity /\ bufLen \in 0 .. Capacity
      BY DEF IInv, TypeOK
    <3>3. bufAt' \in {bufAt, c[2]} /\ bufLen' \in {bufLen, Capacity - c[2]}
      BY <1>4
    <3>4. readPos' = c[1] /\ writePos' = c[2] /\ processLen' = 0
      BY <1>4
    <3> QED BY <3>1, <3>2, <3>3, <3>4 DEF DataSize
  <2> QED BY <1>4, <2>1, <2>2 DEF IInv, TypeOK, peerVars
<1>7. BufferHolds'
  <2>1. \A i \in r .. writePos - 1 : buffer[i] = arrived - (writePos - i)
    BY <1>1 DEF IInv, BufferHolds
  <2>2. CASE r # writePos /\ c[1] # r
    <3>1. c[1] = 0 /\ c[2] = left
      BY <1>3, <1>5, <2>2
    <3>2. \A i \in 0 .. left - 1 : buffer'[i] = buffer[i + r]
      <4>1. buffer' = [i \in 0 .. Capacity - 1 |->
                         IF i < left THEN buffer[i + r] ELSE buffer[i]]
        BY <1>4, <2>2
      <4>2. \A i \in 0 .. left - 1 : i \in 0 .. Capacity - 1 /\ i < left
        BY <1>1
      <4> HIDE DEF left, r
      <4> QED BY <4>1, <4>2
    <3>3. \A i \in 0 .. left - 1 : buffer[i + r] = arrived - (left - i)
      BY <1>1, <2>1
    <3>4. readPos' = 0 /\ writePos' = left /\ arrived' = arrived
      BY <1>4, <3>1
    <3> HIDE DEF left
    <3>5. \A i \in readPos' .. writePos' - 1 : buffer'[i] = arrived' - (writePos' - i)
      BY <3>2, <3>3, <3>4
    <3> QED BY <3>5 DEF BufferHolds
  <2>3. CASE ~ (r # writePos /\ c[1] # r)
    <3>1. buffer' = buffer
      BY <1>4, <2>3
    <3>2. CASE r = writePos
      BY <1>1, <1>3, <1>4, <3>2 DEF BufferHolds
    <3>3. CASE c[1] = r
      BY <1>1, <1>3, <1>4, <2>1, <3>1, <3>3 DEF BufferHolds
    <3> QED BY <2>3, <3>2, <3>3
  <2> QED BY <2>2, <2>3
<1>8. RoomToReceive' /\ LittleLeft'
  BY <1>1, <1>2, <1>3, <1>4 DEF RoomToReceive, LittleLeft, FreeSize, DataSize
<1>9. Adjacent'
  BY <1>4 DEF IInv, Adjacent, NextAt, NextIn, peerVars
<1>10. Aligned'
  <2>1. Handled' = Handled
    BY <1>1, <1>3, <1>4 DEF Handled, DataSize
  <2> QED BY <1>4, <2>1 DEF IInv, Aligned, NextAt, NextIn, peerVars
<1> QED BY <1>3, <1>4, <1>6, <1>7, <1>8, <1>9, <1>10 DEF IInv

LEMMA OtherIInv ==
  ASSUME IInv, Disconnect \/ ReceiveZero \/ UNCHANGED vars
  PROVE  IInv' /\ UNCHANGED <<sent, delivered>>
<1>1. /\ UNCHANGED <<sent, streamed, arrived, buffer, readPos, writePos, bufAt, bufLen>>
      /\ UNCHANGED <<step, processLen, delivered>>
      /\ posted' \in {posted, FALSE} /\ connected' \in {connected, FALSE}
  BY DEF Disconnect, ReceiveZero, vars, peerVars, bufferVars, recvVars, parseVars
<1>2. TypeOK'
  BY <1>1 DEF IInv, TypeOK, DataSize
<1>3. RoomToReceive'
  BY <1>1 DEF IInv, TypeOK, RoomToReceive, FreeSize
<1>4. BufferHolds' /\ LittleLeft' /\ Adjacent' /\ Aligned'
  BY <1>1 DEF IInv, BufferHolds, LittleLeft, Adjacent, Aligned, Handled, NextAt, NextIn,
              DataSize, FreeSize
<1> QED BY <1>1, <1>2, <1>3, <1>4 DEF IInv

LEMMA NextIInv == IInv /\ [Next]_vars => IInv'
<1> SUFFICES ASSUME IInv, [Next]_vars
             PROVE  IInv'
  OBVIOUS
<1>1. ASSUME NEW n \in HeaderSize .. MaxPacket, Send(n)
      PROVE  IInv'
  BY <1>1, SendIInv
<1>2. CASE ReceiveSome
  BY <1>2, ReceiveIInv DEF ReceiveSome
<1>3. CASE OnRecvPacket
  BY <1>3, OnRecvPacketIInv
<1>4. CASE FinishRecv
  BY <1>4, FinishRecvIInv
<1>5. CASE Disconnect \/ ReceiveZero \/ UNCHANGED vars
  BY <1>5, OtherIInv
<1> QED BY <1>1, <1>2, <1>3, <1>4, <1>5 DEF Next

LEMMA SpecIInv == Spec => []IInv
<1>1. Init => IInv
  BY InitIInv
<1>2. IInv /\ [Next]_vars => IInv'
  BY NextIInv
<1> QED BY <1>1, <1>2, PTL DEF Spec

-----------------------------------------------------------------------------
\* The cursors of the receive buffer stay in the buffer and in order, for
\* every size of buffer and every way the stream is cut.
THEOREM StreamTypes == Spec => []TypeOK
<1>1. IInv => TypeOK
  BY DEF IInv
<1> QED BY <1>1, SpecIInv, PTL

\* Clean and the receives lose no byte that has not been handled.
THEOREM BufferKeepsBytes == Spec => []BufferHolds
<1>1. IInv => BufferHolds
  BY DEF IInv
<1> QED BY <1>1, SpecIInv, PTL

\* No receive is ever posted with less than BUFFER_SIZE bytes of room, so no
\* full buffer is ever taken for the end of the connection.
THEOREM AlwaysRoom == Spec => []RoomToReceive
<1>1. IInv => RoomToReceive
  BY DEF IInv
<1> QED BY <1>1, SpecIInv, PTL

\* The memcpy of RecvBuffer::Clean is never called with areas that overlap.
THEOREM MoveDisjoint == Spec => MoveIsDisjoint
<1>1. IInv /\ [Next]_vars => [step = "parse" /\ step' = "wait" /\ readPos' < writePos'
         => readPos' = readPos + processLen \/ writePos' <= readPos + processLen]_vars
  <2> SUFFICES ASSUME IInv, [Next]_vars, step = "parse", step' = "wait"
               PROVE  readPos' = readPos + processLen \/ writePos' <= readPos + processLen
    OBVIOUS
  <2>1. FinishRecv
    BY DEF Next, Send, Disconnect, ReceiveSome, Receive, ReceiveZero, OnRecvPacket,
           vars, parseVars
  <2> QED BY <2>1, FinishRecvIInv
<1> QED BY <1>1, SpecIInv, PTL DEF Spec, MoveIsDisjoint

\* The receive path implements a channel that delivers the packets that were
\* sent, whole, in order and at most once.
THEOREM Implements == Spec => WholeAndInOrder
<1>1. Init => Channel!Init
  BY DEF Init, Channel!Init
<1>2. IInv /\ [Next]_vars => [Channel!Next]_<<sent, delivered>>
  <2> SUFFICES ASSUME IInv, [Next]_vars
               PROVE  [Channel!Next]_<<sent, delivered>>
    OBVIOUS
  <2>1. ASSUME NEW n \in HeaderSize .. MaxPacket, Send(n)
        PROVE  Channel!Send
    <3> DEFINE q == [at |-> streamed, size |-> n]
    <3>1. sent' = Append(sent, q) /\ delivered' = delivered
      BY <2>1 DEF Send, parseVars
    <3>2. sent \in Seq(Packet) /\ q \in Packet
      BY DEF IInv, TypeOK, Packet
    <3> HIDE DEF q
    <3> QED BY <3>1, <3>2 DEF Channel!Send
  <2>2. CASE ReceiveSome
    BY <2>2 DEF ReceiveSome, Receive, peerVars
  <2>3. CASE OnRecvPacket
    <3>1. UNCHANGED sent
      BY <2>3 DEF OnRecvPacket, peerVars
    <3> QED BY <2>3, <3>1, OnRecvPacketIInv DEF Channel!Next, Channel!Deliver
  <2>4. CASE FinishRecv
    BY <2>4 DEF FinishRecv, peerVars
  <2>5. CASE Disconnect \/ ReceiveZero \/ UNCHANGED vars
    BY <2>5, OtherIInv
  <2> QED BY <2>1, <2>2, <2>3, <2>4, <2>5 DEF Next, Channel!Next
<1> QED BY <1>1, <1>2, SpecIInv, PTL DEF Spec, WholeAndInOrder, Channel!Spec

=============================================================================
