----------------------------- MODULE PacketChannel ----------------------------
(***************************************************************************)
(* What one direction of the remote control protocol promises: the packets *)
(* that were sent are handed to the receiver's handlers whole, in order,   *)
(* none twice and none that was not sent.                                  *)
(***************************************************************************)
EXTENDS Naturals, Sequences

CONSTANT Packet

VARIABLES
  sent,      \* the packets sent
  received   \* the packets handlers were called with

Init == sent = <<>> /\ received = <<>>

Send(p) ==
  /\ sent' = Append(sent, p)
  /\ UNCHANGED received

Deliver ==
  /\ Len(received) < Len(sent)
  /\ received' = Append(received, sent[Len(received) + 1])
  /\ UNCHANGED sent

Next == Deliver \/ \E p \in Packet : Send(p)

Spec == Init /\ [][Next]_<<sent, received>>
===============================================================================
