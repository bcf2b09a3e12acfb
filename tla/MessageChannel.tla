--------------------------- MODULE MessageChannel ---------------------------
(***************************************************************************)
(* What a netchan promises those who use it (src/qcommon/net_chan.c, "the  *)
(* netchan"): of the messages that were sent some are delivered, each as   *)
(* it was sent, none twice and none after a later one.                     *)
(***************************************************************************)
EXTENDS Integers, Sequences

VARIABLES
  sent,       \* the messages, in the order they were handed over
  delivered   \* those that got there: which one, and what it said

vars == <<sent, delivered>>

LastDelivered ==
  IF delivered = <<>> THEN 0 ELSE delivered[Len(delivered)].sequence

Init ==
  /\ sent = <<>>
  /\ delivered = <<>>

\* One more message, whatever it is.
SendMessage ==
  /\ Len(sent') = Len(sent) + 1
  /\ SubSeq(sent', 1, Len(sent)) = sent
  /\ UNCHANGED delivered

\* The messages between the last one delivered and this one are lost.
Deliver ==
  /\ \E k \in LastDelivered + 1 .. Len(sent) :
       delivered' = Append(delivered, [sequence |-> k, data |-> sent[k]])
  /\ UNCHANGED sent

Next == SendMessage \/ Deliver

Spec == Init /\ [][Next]_vars
=============================================================================
