---------------------------- MODULE PacketChannel ----------------------------
(* What a session promises to the packet handlers of the other side: the   *)
(* packets that were sent, whole, in order, each at most once.             *)
EXTENDS Naturals, Sequences

VARIABLES
    sent,       \* the packets given to the sender, in order
    delivered   \* the packets given to OnRecvPacket, in order

Init == sent = <<>> /\ delivered = <<>>

\* one more packet, whatever it is
Send ==
    /\ Len(sent') = Len(sent) + 1
    /\ \A k \in 1 .. Len(sent) : sent'[k] = sent[k]
    /\ UNCHANGED delivered

Deliver ==
    /\ Len(delivered) < Len(sent)
    /\ delivered' = Append(delivered, sent[Len(delivered) + 1])
    /\ UNCHANGED sent

Next == Send \/ Deliver

Spec == Init /\ [][Next]_<<sent, delivered>>
=============================================================================
