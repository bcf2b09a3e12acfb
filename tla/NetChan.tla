------------------------------ MODULE NetChan ------------------------------
(***************************************************************************)
(* One direction of a netchan (src/qcommon/net_chan.c): the sending half   *)
(* of one netchan_t, the receiving half of its peer, and the datagram      *)
(* network between them.                                                   *)
(*                                                                         *)
(* UDP gives no guarantee, so the network is the set of the datagrams that *)
(* were ever sent: one that stays unread is lost, one read twice was       *)
(* duplicated, and they are read in any order.                             *)
(*                                                                         *)
(* A message is a sequence of bytes, and what a byte is does not matter    *)
(* here.  The checksum of alternateProtocol 0 separates connections, and   *)
(* this module is the life of a single connection.                         *)
(***************************************************************************)
EXTENDS Integers, Sequences

CONSTANTS
  FRAGMENT_SIZE,   \* most message bytes a datagram carries
  MAX_MSGLEN,      \* size of unsentBuffer and fragmentBuffer
  Byte             \* what messages are made of

ASSUME FragmentSizeAssumption == FRAGMENT_SIZE \in Nat \ {0}
ASSUME MaxMsgLenAssumption == MAX_MSGLEN \in Nat

VARIABLES
  outgoingSequence,     \* sender: number of the message being sent, or next
  unsentFragments,      \* sender: a fragmented message is not finished
  unsentFragmentStart,  \* sender: how much of it has been sent
  unsentBuffer,         \* sender: that message
  packets,              \* network: every datagram sent
  incomingSequence,     \* receiver: number of the last message accepted
  fragmentSequence,     \* receiver: number the fragments kept belong to
  fragmentBuffer,       \* receiver: the part of that message received so far
  transmitted,          \* history: transmitted[s] is the message numbered s
  received              \* history: the messages accepted, in order

senderVars == <<outgoingSequence, unsentFragments, unsentFragmentStart, unsentBuffer>>
receiverVars == <<incomingSequence, fragmentSequence, fragmentBuffer, received>>
chanVars == <<senderVars, packets, receiverVars, transmitted>>

Message == {m \in Seq(Byte) : Len(m) <= MAX_MSGLEN}

Packet == [sequence : Nat \ {0}, fragmented : BOOLEAN, start : Nat, data : Message]

\* Netchan_Setup on both ends.
Netchan_Setup ==
  /\ outgoingSequence = 1
  /\ unsentFragments = FALSE
  /\ unsentFragmentStart = 0
  /\ unsentBuffer = <<>>
  /\ packets = {}
  /\ incomingSequence = 0
  /\ fragmentSequence = 0
  /\ fragmentBuffer = <<>>
  /\ transmitted = <<>>
  /\ received = <<>>

(***************************************************************************)
(* Sending.                                                                *)
(***************************************************************************)

\* The bytes of message m that the fragment starting at start carries.
FragmentData(m, start) ==
  SubSeq(m, start + 1,
         IF start + FRAGMENT_SIZE > Len(m) THEN Len(m) ELSE start + FRAGMENT_SIZE)

\* Mutant: a full fragment may be the last one.
IsLastFragment_NoEmptyEnd(m, start) ==
  start + Len(FragmentData(m, start)) = Len(m)

\* A fragment is the last one only if it is not full: a message whose length
\* is a multiple of FRAGMENT_SIZE ends with a fragment of no bytes.
IsLastFragment(m, start) ==
  LET length == Len(FragmentData(m, start))
  IN  start + length = Len(m) /\ length # FRAGMENT_SIZE

SendFragment(m, start) ==
  /\ packets' = packets \cup {[sequence |-> outgoingSequence, fragmented |-> TRUE,
                               start |-> start, data |-> FragmentData(m, start)]}
  /\ unsentFragmentStart' = start + Len(FragmentData(m, start))
  /\ unsentFragments' = ~IsLastFragment(m, start)
  /\ outgoingSequence' = IF IsLastFragment(m, start)
                         THEN outgoingSequence + 1 ELSE outgoingSequence

Netchan_TransmitNextFragment ==
  /\ unsentFragments
  /\ SendFragment(unsentBuffer, unsentFragmentStart)
  /\ UNCHANGED <<unsentBuffer, receiverVars, transmitted>>

\* Only the first fragment of a long message is sent at once.
Netchan_Transmit(m) ==
  /\ Len(m) <= MAX_MSGLEN
  /\ IF Len(m) >= FRAGMENT_SIZE
     THEN /\ unsentBuffer' = m
          /\ SendFragment(m, 0)
     ELSE /\ packets' = packets \cup {[sequence |-> outgoingSequence, fragmented |-> FALSE,
                                       start |-> 0, data |-> m]}
          /\ unsentFragmentStart' = 0
          /\ outgoingSequence' = outgoingSequence + 1
          /\ UNCHANGED <<unsentFragments, unsentBuffer>>
  /\ transmitted' = Append(transmitted, m)
  /\ UNCHANGED receiverVars

(***************************************************************************)
(* Receiving: Netchan_Process for one datagram p.  A datagram that is old  *)
(* or a duplicate (p.sequence <= incomingSequence) changes nothing.        *)
(***************************************************************************)

Accept(p, m) ==
  /\ incomingSequence' = p.sequence
  /\ received' = Append(received, [sequence |-> p.sequence, data |-> m])

\* Mutant: the buffer is not reset for a new fragmentSequence.
Collected_NoReset(p) == fragmentBuffer

\* The bytes already collected for the message p belongs to.
Collected(p) == IF p.sequence = fragmentSequence THEN fragmentBuffer ELSE <<>>

FragmentFits(p) ==
  /\ p.start = Len(Collected(p))
  /\ p.start + Len(p.data) <= MAX_MSGLEN

\* Mutant: old and duplicate datagrams are not discarded.
ProcessWhole_NoDiscard(p) ==
  /\ ~p.fragmented
  /\ Accept(p, p.data)
  /\ UNCHANGED <<fragmentSequence, fragmentBuffer>>

ProcessWhole(p) ==
  /\ ~p.fragmented
  /\ p.sequence > incomingSequence
  /\ Accept(p, p.data)
  /\ UNCHANGED <<fragmentSequence, fragmentBuffer>>

\* A fragment that does not continue what was collected is dropped, and the
\* part collected so far is kept.
DropFragment(p) ==
  /\ p.fragmented
  /\ p.sequence > incomingSequence
  /\ ~FragmentFits(p)
  /\ fragmentSequence' = p.sequence
  /\ fragmentBuffer' = Collected(p)
  /\ UNCHANGED <<incomingSequence, received>>

CollectFragment(p) ==
  /\ p.fragmented
  /\ p.sequence > incomingSequence
  /\ FragmentFits(p)
  /\ fragmentSequence' = p.sequence
  /\ IF Len(p.data) = FRAGMENT_SIZE
     THEN /\ fragmentBuffer' = Collected(p) \o p.data
          /\ UNCHANGED <<incomingSequence, received>>
     ELSE /\ fragmentBuffer' = <<>>
          /\ Accept(p, Collected(p) \o p.data)

Netchan_Process(p) ==
  /\ ProcessWhole(p) \/ DropFragment(p) \/ CollectFragment(p)
  /\ UNCHANGED <<senderVars, packets, transmitted>>

-----------------------------------------------------------------------------
(***************************************************************************)
(* Properties.                                                             *)
(***************************************************************************)

ChanTypeOK ==
  /\ outgoingSequence \in Nat \ {0}
  /\ unsentFragments \in BOOLEAN
  /\ unsentFragmentStart \in Nat
  /\ unsentBuffer \in Message
  /\ packets \subseteq Packet
  /\ incomingSequence \in Nat
  /\ fragmentSequence \in Nat
  /\ fragmentBuffer \in Message
  /\ transmitted \in Seq(Message)
  /\ received \in Seq([sequence : Nat \ {0}, data : Message])

\* A message is accepted only as it was transmitted under that number: the
\* reassembly in Netchan_Process never mixes the fragments of two messages,
\* leaves one out or repeats one, whatever the network does.
Integrity ==
  \A i \in DOMAIN received :
    /\ received[i].sequence \in DOMAIN transmitted
    /\ received[i].data = transmitted[received[i].sequence]

\* Messages are accepted in the order of their numbers and none is accepted
\* twice, although the network reorders and duplicates datagrams.
InOrder ==
  /\ \A i, j \in DOMAIN received : i < j => received[i].sequence < received[j].sequence
  /\ \A i \in DOMAIN received : received[i].sequence <= incomingSequence

\* A datagram with length bytes of message s from start on was sent.
Sent(s, start, length) ==
  \E p \in packets : p.sequence = s /\ p.start = start /\ Len(p.data) = length

\* The first count full fragments of message s were sent.
FullSent(s, count) ==
  \A k \in 1..count : Sent(s, (k - 1) * FRAGMENT_SIZE, FRAGMENT_SIZE)

\* Once a message is finished, the datagrams on the wire are enough for the
\* receiver to complete it: full fragments up to its end, then a short one,
\* which has no bytes if the length is a multiple of FRAGMENT_SIZE.
Completable ==
  \A s \in DOMAIN transmitted :
    LET length == Len(transmitted[s])
        count == length \div FRAGMENT_SIZE
    IN  s < outgoingSequence =>
          /\ FullSent(s, count)
          /\ Sent(s, count * FRAGMENT_SIZE, length % FRAGMENT_SIZE)

-----------------------------------------------------------------------------
(***************************************************************************)
(* The inductive invariant behind Integrity and InOrder.                   *)
(***************************************************************************)

\* The number of the message being sent is used for that message only.
SenderInv ==
  /\ Len(transmitted) = IF unsentFragments THEN outgoingSequence ELSE outgoingSequence - 1
  /\ unsentFragments => /\ unsentBuffer = transmitted[outgoingSequence]
                        /\ unsentFragmentStart <= Len(unsentBuffer)

\* A datagram holds the message of its number, or the part of it at start.
PacketInv ==
  \A p \in packets :
    /\ p.sequence \in DOMAIN transmitted
    /\ IF p.fragmented
       THEN /\ p.start <= Len(transmitted[p.sequence])
            /\ p.data = FragmentData(transmitted[p.sequence], p.start)
       ELSE p.data = transmitted[p.sequence]

\* The receiver has collected a prefix of the message of fragmentSequence.
ReceiverInv ==
  fragmentBuffer # <<>> =>
    /\ fragmentSequence \in DOMAIN transmitted
    /\ Len(fragmentBuffer) <= Len(transmitted[fragmentSequence])
    /\ fragmentBuffer = SubSeq(transmitted[fragmentSequence], 1, Len(fragmentBuffer))

\* Whatever the network does, every datagram and every partly assembled
\* message is a piece of the message transmitted under its number
\* (Netchan_Transmit, Netchan_TransmitNextFragment, Netchan_Process).
ReassemblyInv == ChanTypeOK /\ SenderInv /\ PacketInv /\ ReceiverInv /\ Integrity

\* What is sent of the message being sent are full fragments, one after the
\* other, and all of them: the invariant behind Completable.
SendingInv ==
  unsentFragments =>
    \E q \in Nat : unsentFragmentStart = q * FRAGMENT_SIZE /\ FullSent(outgoingSequence, q)
=============================================================================
