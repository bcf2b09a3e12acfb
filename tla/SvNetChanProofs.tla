-------------------------- MODULE SvNetChanProofs --------------------------
(***************************************************************************)
(* Theorems about the server's channel to a client, for every fragment     *)
(* size, buffer size, set of messages, protocol and number of messages and *)
(* client commands.  First what each step of a netchan keeps, then what    *)
(* the queue of the server adds to it.                                     *)
(***************************************************************************)
EXTENDS SvNetChan, SequenceTheorems, TLAPS


-----------------------------------------------------------------------------
(* What a fragment holds.                                                  *)

\* The bytes of a fragment: from start up to a full fragment or the end.
LEMMA FragmentDataFacts ==
  ASSUME NEW m \in Message, NEW start \in Nat, start <= Len(m)
  PROVE  LET d == FragmentData(m, start)
         IN  /\ d \in Message
             /\ Len(d) = IF start + FRAGMENT_SIZE > Len(m) THEN Len(m) - start
                         ELSE FRAGMENT_SIZE
             /\ start + Len(d) \in Nat
             /\ start + Len(d) <= Len(m)
             /\ \A i \in 1..Len(d) : d[i] = m[start + i]
<1> DEFINE n == IF start + FRAGMENT_SIZE > Len(m) THEN Len(m) ELSE start + FRAGMENT_SIZE
           d == FragmentData(m, start)
<1>0. m \in Seq(Byte) /\ Len(m) \in Nat /\ Len(m) <= MAX_MSGLEN
  BY LenProperties DEF Message
<1>1. n \in Nat /\ start <= n /\ n <= Len(m)
  BY <1>0, FragmentSizeAssumption
<1>2. \A i \in (start + 1)..n : m[i] \in Byte
  BY <1>0, <1>1, ElementOfSeq
<1>3. /\ d \in Seq(Byte)
      /\ Len(d) = IF start + 1 <= n THEN n - (start + 1) + 1 ELSE 0
      /\ \A i \in 1..(n - (start + 1) + 1) : d[i] = m[(start + 1) + i - 1]
  <2> HIDE DEF n
  <2>1. start + 1 \in Int /\ n \in Int
    BY <1>1
  <2>2. d = SubSeq(m, start + 1, n)
    BY DEF FragmentData, n
  <2> QED
    BY <2>1, <2>2, <1>2, SubSeqProperties
<1>4. Len(d) = n - start
  BY <1>1, <1>3
<1>5. \A i \in 1..Len(d) : d[i] = m[start + i]
  BY <1>1, <1>3, <1>4
<1>6. d \in Message
  BY <1>0, <1>1, <1>3, <1>4, MaxMsgLenAssumption DEF Message
<1> QED
  BY <1>0, <1>1, <1>4, <1>5, <1>6, FragmentSizeAssumption

\* A prefix of a message followed by the fragment that starts where the
\* prefix ends is the longer prefix.
LEMMA PrefixThenFragment ==
  ASSUME NEW m \in Message, NEW start \in Nat, start <= Len(m),
         NEW b \in Message, Len(b) = start, b = SubSeq(m, 1, start)
  PROVE  LET d == FragmentData(m, start)
         IN  b \o d = SubSeq(m, 1, start + Len(d))
<1> DEFINE d == FragmentData(m, start)
           n == start + Len(d)
<1>0. m \in Seq(Byte) /\ Len(m) \in Nat /\ b \in Seq(Byte)
  BY LenProperties DEF Message
<1>1. /\ d \in Seq(Byte) /\ Len(d) \in Nat /\ n \in Nat /\ n <= Len(m)
      /\ \A i \in 1..Len(d) : d[i] = m[start + i]
  BY FragmentDataFacts, LenProperties DEF Message
<1>2. /\ b \o d \in Seq(Byte)
      /\ Len(b \o d) = n
      /\ \A i \in 1..n : (b \o d)[i] = IF i <= start THEN b[i] ELSE d[i - start]
  BY <1>0, <1>1, ConcatProperties
<1>3. \A i \in 1..start : b[i] = m[i]
  BY <1>0, SubSeqProperties, ElementOfSeq
<1>4. /\ SubSeq(m, 1, n) \in Seq(Byte)
      /\ Len(SubSeq(m, 1, n)) = n
      /\ \A i \in 1..n : SubSeq(m, 1, n)[i] = m[i]
  <2> HIDE DEF n
  <2>1. \A i \in 1..n : m[i] \in Byte
    BY <1>0, <1>1, ElementOfSeq
  <2> QED
    BY <2>1, <1>1, SubSeqProperties
<1>5. \A i \in 1..n : (b \o d)[i] = m[i]
  BY <1>1, <1>2, <1>3
<1> QED
  BY <1>2, <1>4, <1>5, SeqEqual

-----------------------------------------------------------------------------
(* The invariant of reassembly.                                            *)

\* A channel that was just set up.
LEMMA SetupReassembly == Netchan_Setup => ReassemblyInv
<1> SUFFICES ASSUME Netchan_Setup PROVE ReassemblyInv
  OBVIOUS
<1>1. <<>> \in Message
  BY EmptySeq, MaxMsgLenAssumption DEF Message
<1>2. ChanTypeOK
  <2>1. <<>> \in Seq(Message) /\ <<>> \in Seq([sequence : Nat \ {0}, data : Message])
    BY EmptySeq
  <2>2. packets \subseteq Packet
    BY DEF Netchan_Setup
  <2>3. /\ outgoingSequence \in Nat \ {0}
        /\ unsentFragmentStart \in Nat
        /\ incomingSequence \in Nat
        /\ fragmentSequence \in Nat
    BY SMT DEF Netchan_Setup
  <2>4. /\ unsentFragments \in BOOLEAN
        /\ unsentBuffer \in Message
        /\ fragmentBuffer \in Message
        /\ transmitted \in Seq(Message)
        /\ received \in Seq([sequence : Nat \ {0}, data : Message])
    BY <1>1, <2>1, Zenon DEF Netchan_Setup
  <2> QED
    BY <2>2, <2>3, <2>4 DEF ChanTypeOK
<1>3. SenderInv /\ PacketInv /\ ReceiverInv /\ Integrity
  BY EmptySeq DEF SenderInv, PacketInv, ReceiverInv, Integrity, Netchan_Setup
<1> QED
  BY <1>2, <1>3 DEF ReassemblyInv

\* The numbers given to messages are never given again.
LEMMA TransmittedGrows ==
  ASSUME transmitted \in Seq(Message), NEW m \in Message,
         transmitted' = Append(transmitted, m)
  PROVE  /\ transmitted' \in Seq(Message)
         /\ Len(transmitted') = Len(transmitted) + 1
         /\ DOMAIN transmitted \subseteq DOMAIN transmitted'
         /\ \A s \in DOMAIN transmitted : transmitted'[s] = transmitted[s]
         /\ Len(transmitted') \in DOMAIN transmitted'
         /\ transmitted'[Len(transmitted')] = m
<1>1. Len(transmitted) \in Nat /\ DOMAIN transmitted = 1..Len(transmitted)
  BY LenProperties
<1>2. /\ transmitted' \in Seq(Message)
      /\ Len(transmitted') = Len(transmitted) + 1
      /\ \A i \in 1..Len(transmitted) : transmitted'[i] = transmitted[i]
      /\ transmitted'[Len(transmitted) + 1] = m
  BY AppendProperties
<1>3. DOMAIN transmitted' = 1..(Len(transmitted) + 1)
  BY <1>2, LenProperties
<1> QED
  BY <1>1, <1>2, <1>3

\* What a fragment sent now looks like to PacketInv, and what is left of its
\* message.  It is shared by the two steps that send one.
LEMMA SendFragmentStep ==
  ASSUME NEW m \in Message, NEW start \in Nat, start <= Len(m),
         outgoingSequence \in Nat \ {0}, packets \subseteq Packet,
         SendFragment(m, start)
  PROVE  /\ outgoingSequence' \in Nat \ {0}
         /\ unsentFragments' \in BOOLEAN
         /\ unsentFragmentStart' \in Nat
         /\ unsentFragmentStart' <= Len(m)
         /\ packets' \subseteq Packet
         /\ outgoingSequence' = IF unsentFragments' THEN outgoingSequence
                                ELSE outgoingSequence + 1
         /\ \A p \in packets' :
              p \in packets \/ /\ p.sequence = outgoingSequence
                               /\ p.fragmented
                               /\ p.start = start
                               /\ p.data = FragmentData(m, start)
<1>1. /\ FragmentData(m, start) \in Message
      /\ start + Len(FragmentData(m, start)) \in Nat
      /\ start + Len(FragmentData(m, start)) <= Len(m)
  BY FragmentDataFacts
<1>2. [sequence |-> outgoingSequence, fragmented |-> TRUE,
       start |-> start, data |-> FragmentData(m, start)] \in Packet
  BY <1>1 DEF Packet
<1>3. IsLastFragment(m, start) \in BOOLEAN
  BY DEF IsLastFragment
<1>4. /\ unsentFragments' \in BOOLEAN
      /\ outgoingSequence' \in Nat \ {0}
      /\ outgoingSequence' = IF unsentFragments' THEN outgoingSequence
                             ELSE outgoingSequence + 1
  <2>1. CASE IsLastFragment(m, start)
    <3>1. ~unsentFragments' /\ outgoingSequence' = outgoingSequence + 1
      BY <2>1, ZenonT(30) DEF SendFragment
    <3> QED
      BY <2>1, <3>1, <1>3 DEF SendFragment
  <2>2. CASE ~IsLastFragment(m, start)
    <3>1. unsentFragments' /\ outgoingSequence' = outgoingSequence
      BY <2>2, ZenonT(30) DEF SendFragment
    <3> QED
      BY <2>2, <3>1, <1>3 DEF SendFragment
  <2> QED
    BY <2>1, <2>2, <1>3
<1>5. packets' \subseteq Packet
  BY <1>2 DEF SendFragment
<1>6. unsentFragmentStart' \in Nat /\ unsentFragmentStart' <= Len(m)
  BY <1>1 DEF SendFragment
<1>7. \A p \in packets' :
        p \in packets \/ /\ p.sequence = outgoingSequence
                         /\ p.fragmented
                         /\ p.start = start
                         /\ p.data = FragmentData(m, start)
  BY DEF SendFragment
<1> QED
  BY <1>4, <1>5, <1>6, <1>7

\* Netchan_Transmit, called as its callers do only when nothing is left of
\* the previous message.
LEMMA TransmitReassembly ==
  ASSUME ReassemblyInv, ~unsentFragments, NEW m \in Message, Netchan_Transmit(m)
  PROVE  ReassemblyInv'
<1> USE DEF ReassemblyInv
<1>1. /\ transmitted' \in Seq(Message)
      /\ Len(transmitted') = outgoingSequence
      /\ \A s \in DOMAIN transmitted : s \in DOMAIN transmitted' /\ transmitted'[s] = transmitted[s]
      /\ outgoingSequence \in DOMAIN transmitted'
      /\ transmitted'[outgoingSequence] = m
  BY TransmittedGrows, LenProperties DEF Netchan_Transmit, ChanTypeOK, SenderInv
<1>2. /\ outgoingSequence' \in Nat \ {0}
      /\ unsentFragments' \in BOOLEAN
      /\ unsentFragmentStart' \in Nat
      /\ unsentBuffer' \in Message
      /\ packets' \subseteq Packet
      /\ outgoingSequence' = IF unsentFragments' THEN outgoingSequence ELSE outgoingSequence + 1
      /\ unsentFragments' => unsentBuffer' = m /\ unsentFragmentStart' <= Len(m)
      /\ \A p \in packets' :
           p \in packets \/ /\ p.sequence = outgoingSequence
                            /\ IF p.fragmented
                               THEN /\ p.start <= Len(m)
                                    /\ p.data = FragmentData(m, p.start)
                               ELSE p.data = m
  <2>0. Len(m) \in Nat
    BY LenProperties DEF Message
  <2>1. CASE Len(m) >= FRAGMENT_SIZE
    <3>1. unsentBuffer' = m /\ SendFragment(m, 0)
      BY <2>1 DEF Netchan_Transmit
    <3>2. /\ outgoingSequence' \in Nat \ {0}
          /\ unsentFragments' \in BOOLEAN
          /\ unsentFragmentStart' \in Nat
          /\ unsentFragmentStart' <= Len(m)
          /\ packets' \subseteq Packet
          /\ outgoingSequence' = IF unsentFragments' THEN outgoingSequence
                                 ELSE outgoingSequence + 1
          /\ \A p \in packets' :
               p \in packets \/ /\ p.sequence = outgoingSequence
                                /\ p.fragmented
                                /\ p.start = 0
                                /\ p.data = FragmentData(m, 0)
      <4>1. outgoingSequence \in Nat \ {0} /\ packets \subseteq Packet
        BY DEF ChanTypeOK
      <4>2. 0 \in Nat /\ 0 <= Len(m)
        BY <2>0
      <4> QED
        BY <3>1, <4>1, <4>2, SendFragmentStep
    <3> QED
      BY <2>0, <3>1, <3>2
  <2>2. CASE ~(Len(m) >= FRAGMENT_SIZE)
    <3>1. [sequence |-> outgoingSequence, fragmented |-> FALSE,
           start |-> 0, data |-> m] \in Packet
      BY DEF Packet, ChanTypeOK
    <3>2. /\ packets' = packets \cup {[sequence |-> outgoingSequence, fragmented |-> FALSE,
                                       start |-> 0, data |-> m]}
          /\ unsentFragmentStart' = 0
          /\ outgoingSequence' = outgoingSequence + 1
          /\ unsentBuffer' = unsentBuffer
      BY <2>2 DEF Netchan_Transmit
    <3>3. unsentFragments' \in BOOLEAN /\ ~unsentFragments'
      <4>1. unsentFragments \in BOOLEAN
        BY DEF ChanTypeOK
      <4>2. unsentFragments' = unsentFragments
        BY <2>2 DEF Netchan_Transmit
      <4> QED
        BY <4>1, <4>2, Zenon
    <3>4. packets \subseteq Packet /\ outgoingSequence \in Nat \ {0} /\ unsentBuffer \in Message
      BY Zenon DEF ChanTypeOK
    <3>5. packets' \subseteq Packet
      BY <3>1, <3>2, <3>4, Zenon
    <3>6. /\ outgoingSequence' \in Nat \ {0}
          /\ unsentFragmentStart' \in Nat
          /\ unsentBuffer' \in Message
      BY <3>2, <3>4, SMT
    <3> QED
      BY <3>2, <3>3, <3>5, <3>6
  <2> QED
    BY <2>1, <2>2
<1>3. UNCHANGED receiverVars
  BY DEF Netchan_Transmit
<1>4. ChanTypeOK'
  BY <1>1, <1>2, <1>3 DEF ChanTypeOK, receiverVars
<1>5. SenderInv'
  BY <1>1, <1>2 DEF SenderInv, ChanTypeOK
<1>6. PacketInv'
  BY <1>1, <1>2 DEF PacketInv
<1>7. ReceiverInv'
  BY <1>1, <1>3 DEF ReceiverInv, receiverVars
<1>8. Integrity'
  BY <1>1, <1>3 DEF Integrity, receiverVars
<1> QED
  BY <1>4, <1>5, <1>6, <1>7, <1>8

\* Netchan_TransmitNextFragment.
LEMMA NextFragmentReassembly ==
  ASSUME ReassemblyInv, Netchan_TransmitNextFragment
  PROVE  ReassemblyInv'
<1> USE DEF ReassemblyInv
<1>1. UNCHANGED <<unsentBuffer, receiverVars, transmitted>>
  BY DEF Netchan_TransmitNextFragment
<1>2. /\ unsentBuffer = transmitted[outgoingSequence]
      /\ outgoingSequence \in DOMAIN transmitted
      /\ Len(transmitted) = outgoingSequence
      /\ unsentFragmentStart <= Len(unsentBuffer)
  BY LenProperties DEF Netchan_TransmitNextFragment, SenderInv, ChanTypeOK
<1>3. /\ outgoingSequence' \in Nat \ {0}
      /\ unsentFragments' \in BOOLEAN
      /\ unsentFragmentStart' \in Nat
      /\ unsentFragmentStart' <= Len(unsentBuffer)
      /\ packets' \subseteq Packet
      /\ outgoingSequence' = IF unsentFragments' THEN outgoingSequence
                             ELSE outgoingSequence + 1
      /\ \A p \in packets' :
           p \in packets \/ /\ p.sequence = outgoingSequence
                            /\ p.fragmented
                            /\ p.start = unsentFragmentStart
                            /\ p.data = FragmentData(unsentBuffer, unsentFragmentStart)
  <2>1. SendFragment(unsentBuffer, unsentFragmentStart)
    BY DEF Netchan_TransmitNextFragment
  <2> QED
    BY <1>2, <2>1, SendFragmentStep DEF ChanTypeOK
<1>4. ChanTypeOK'
  BY <1>1, <1>3 DEF ChanTypeOK, receiverVars
<1>5. SenderInv'
  BY <1>1, <1>2, <1>3 DEF SenderInv, ChanTypeOK
<1>6. PacketInv'
  BY <1>1, <1>2, <1>3 DEF PacketInv
<1>7. ReceiverInv' /\ Integrity'
  BY <1>1 DEF ReceiverInv, Integrity, receiverVars
<1> QED
  BY <1>4, <1>5, <1>6, <1>7

\* What Netchan_Process reads of a datagram: it is a piece of its message,
\* and so is what was collected before it.
LEMMA ProcessFacts ==
  ASSUME ReassemblyInv, NEW p \in packets
  PROVE  /\ p \in Packet
         /\ p.sequence \in Nat \ {0}
         /\ p.data \in Message
         /\ p.start \in Nat
         /\ p.sequence \in DOMAIN transmitted
         /\ transmitted[p.sequence] \in Message
         /\ Collected(p) \in Message
         /\ Len(Collected(p)) <= Len(transmitted[p.sequence])
         /\ Collected(p) = SubSeq(transmitted[p.sequence], 1, Len(Collected(p)))
<1> USE DEF ReassemblyInv
<1>1. p \in Packet
  BY DEF ChanTypeOK
<1>2. p.sequence \in Nat \ {0} /\ p.data \in Message /\ p.start \in Nat
  BY <1>1 DEF Packet
<1>3. p.sequence \in DOMAIN transmitted
  BY DEF PacketInv
<1>4. transmitted[p.sequence] \in Message
  BY <1>3, LenProperties, ElementOfSeq DEF ChanTypeOK
<1>5. <<>> \in Message /\ Len(<<>>) = 0 /\ SubSeq(transmitted[p.sequence], 1, 0) = <<>>
  BY EmptySeq, SubSeqEmpty, MaxMsgLenAssumption DEF Message
<1>6. Len(transmitted[p.sequence]) \in Nat
  BY <1>4, LenProperties DEF Message
<1>7. CASE p.sequence = fragmentSequence /\ fragmentBuffer # <<>>
  BY <1>1, <1>2, <1>3, <1>4, <1>7 DEF Collected, ReceiverInv, ChanTypeOK
<1>8. CASE ~(p.sequence = fragmentSequence /\ fragmentBuffer # <<>>)
  <2>1. Collected(p) = <<>>
    BY <1>8 DEF Collected
  <2> QED
    BY <1>1, <1>2, <1>3, <1>4, <1>5, <1>6, <2>1
<1> QED
  BY <1>7, <1>8

\* A fragment that continues what was collected makes a longer prefix of its
\* message, and a short one completes it.
LEMMA CollectFacts ==
  ASSUME ReassemblyInv, NEW p \in packets, p.fragmented, FragmentFits(p)
  PROVE  LET m == transmitted[p.sequence]
             b == Collected(p) \o p.data
         IN  /\ b \in Message
             /\ Len(b) <= Len(m)
             /\ b = SubSeq(m, 1, Len(b))
             /\ Len(p.data) # FRAGMENT_SIZE => b = m
<1> DEFINE m == transmitted[p.sequence]
           b == Collected(p) \o p.data
<1>1. /\ m \in Message /\ Collected(p) \in Message /\ p.data \in Message /\ p.start \in Nat
      /\ Collected(p) = SubSeq(m, 1, Len(Collected(p)))
  BY ProcessFacts
<1>2. /\ p.start <= Len(m)
      /\ p.data = FragmentData(m, p.start)
  BY DEF ReassemblyInv, PacketInv
<1>3. /\ Len(p.data) = IF p.start + FRAGMENT_SIZE > Len(m) THEN Len(m) - p.start
                       ELSE FRAGMENT_SIZE
      /\ p.start + Len(p.data) <= Len(m)
  <2> DEFINE start == p.start
  <2> HIDE DEF m, start
  <2>1. m \in Message /\ start \in Nat /\ start <= Len(m)
    BY <1>1, <1>2 DEF start
  <2>2. /\ Len(FragmentData(m, start)) = IF start + FRAGMENT_SIZE > Len(m)
                                         THEN Len(m) - start ELSE FRAGMENT_SIZE
        /\ start + Len(FragmentData(m, start)) <= Len(m)
    BY <2>1, FragmentDataFacts
  <2> QED
    BY <1>2, <2>2 DEF start
<1>4. p.start = Len(Collected(p)) /\ p.start + Len(p.data) <= MAX_MSGLEN
  BY DEF FragmentFits
<1>5. b = SubSeq(m, 1, p.start + Len(p.data))
  <2> HIDE DEF m
  <2> QED
    BY <1>1, <1>2, <1>4, PrefixThenFragment
<1>6. b \in Seq(Byte) /\ Len(b) = p.start + Len(p.data)
  BY <1>1, <1>4, ConcatProperties DEF Message
<1>7. Len(p.data) # FRAGMENT_SIZE => p.start + Len(p.data) = Len(m)
  <2>1. Len(m) \in Nat
    BY <1>1, LenProperties DEF Message
  <2> QED
    BY <1>1, <1>3, <2>1, FragmentSizeAssumption
<1>8. SubSeq(m, 1, Len(m)) = m
  BY <1>1, SubSeqFull DEF Message
<1>9. b \in Message
  BY <1>4, <1>6 DEF Message
<1> QED
  BY <1>3, <1>5, <1>6, <1>7, <1>8, <1>9

\* Accepting message m under p.sequence keeps what was received right, if m
\* is the message transmitted under that number.
LEMMA AcceptIntegrity ==
  ASSUME ReassemblyInv, NEW p \in packets, NEW m \in Message, Accept(p, m),
         m = transmitted[p.sequence], UNCHANGED transmitted
  PROVE  /\ incomingSequence' \in Nat
         /\ received' \in Seq([sequence : Nat \ {0}, data : Message])
         /\ Integrity'
<1> DEFINE R == [sequence : Nat \ {0}, data : Message]
           r == [sequence |-> p.sequence, data |-> m]
<1>1. p.sequence \in Nat \ {0} /\ p.sequence \in DOMAIN transmitted
  BY ProcessFacts
<1>2. received \in Seq(R) /\ r \in R /\ received' = Append(received, r)
  BY <1>1 DEF Accept, ReassemblyInv, ChanTypeOK
<1>3. /\ received' \in Seq(R)
      /\ DOMAIN received = 1..Len(received)
      /\ DOMAIN received' = 1..(Len(received) + 1)
      /\ Len(received) \in Nat
      /\ \A i \in 1..Len(received) : received'[i] = received[i]
      /\ received'[Len(received) + 1] = r
  <2> HIDE DEF R, r
  <2> QED
    BY <1>2, AppendProperties, LenProperties
<1>4. ASSUME NEW i \in DOMAIN received'
      PROVE  /\ received'[i].sequence \in DOMAIN transmitted'
             /\ received'[i].data = transmitted'[received'[i].sequence]
  <2>1. CASE i = Len(received) + 1
    BY <1>1, <1>3, <2>1
  <2>2. CASE i # Len(received) + 1
    <3>1. i \in DOMAIN received /\ received'[i] = received[i]
      BY <1>3, <2>2
    <3> QED
      BY <3>1 DEF ReassemblyInv, Integrity
  <2> QED
    BY <2>1, <2>2
<1> QED
  BY <1>1, <1>3, <1>4 DEF Accept, Integrity

\* Netchan_Process.
LEMMA ProcessReassembly ==
  ASSUME ReassemblyInv, NEW p \in packets, Netchan_Process(p)
  PROVE  ReassemblyInv'
<1> DEFINE m == transmitted[p.sequence]
<1>1. UNCHANGED <<senderVars, packets, transmitted>>
  BY DEF Netchan_Process
<1>2. SenderInv' /\ PacketInv'
  BY <1>1 DEF SenderInv, PacketInv, ReassemblyInv, senderVars
<1>3. p.sequence \in Nat \ {0} /\ p.sequence \in DOMAIN transmitted /\ m \in Message
  BY ProcessFacts
<1>4. SUFFICES /\ incomingSequence' \in Nat
               /\ fragmentSequence' \in Nat
               /\ fragmentBuffer' \in Message
               /\ received' \in Seq([sequence : Nat \ {0}, data : Message])
               /\ ReceiverInv'
               /\ Integrity'
  BY <1>1, <1>2, Zenon DEF ReassemblyInv, ChanTypeOK, senderVars
<1>5. CASE ProcessWhole(p)
  <2>1. /\ Accept(p, p.data)
        /\ UNCHANGED <<fragmentSequence, fragmentBuffer>>
        /\ p.data \in Message
        /\ p.data = m
    BY <1>5, ProcessFacts DEF ProcessWhole, ReassemblyInv, PacketInv
  <2>2. /\ incomingSequence' \in Nat
        /\ received' \in Seq([sequence : Nat \ {0}, data : Message])
        /\ Integrity'
    BY <1>1, <2>1, AcceptIntegrity
  <2>3. ReceiverInv'
    BY <1>1, <2>1 DEF ReceiverInv, ReassemblyInv
  <2> QED
    BY <2>1, <2>2, <2>3 DEF ReassemblyInv, ChanTypeOK
<1>6. CASE DropFragment(p)
  <2>1. /\ fragmentSequence' = p.sequence
        /\ fragmentBuffer' = Collected(p)
        /\ UNCHANGED <<incomingSequence, received>>
    BY <1>6 DEF DropFragment
  <2>2. /\ Collected(p) \in Message
        /\ Len(Collected(p)) <= Len(m)
        /\ Collected(p) = SubSeq(m, 1, Len(Collected(p)))
    BY ProcessFacts
  <2>3. ReceiverInv'
    BY <1>1, <1>3, <2>1, <2>2 DEF ReceiverInv
  <2>4. Integrity'
    BY <1>1, <2>1 DEF Integrity, ReassemblyInv
  <2> QED
    BY <1>3, <2>1, <2>2, <2>3, <2>4 DEF ReassemblyInv, ChanTypeOK
<1>7. CASE CollectFragment(p)
  <2> DEFINE b == Collected(p) \o p.data
  <2>1. /\ fragmentSequence' = p.sequence
        /\ b \in Message
        /\ Len(b) <= Len(m)
        /\ b = SubSeq(m, 1, Len(b))
        /\ Len(p.data) # FRAGMENT_SIZE => b = m
    BY <1>7, CollectFacts DEF CollectFragment
  <2>2. CASE Len(p.data) = FRAGMENT_SIZE
    <3>1. fragmentBuffer' = b /\ UNCHANGED <<incomingSequence, received>>
      BY <1>7, <2>2 DEF CollectFragment
    <3>2. ReceiverInv'
      BY <1>1, <1>3, <2>1, <3>1 DEF ReceiverInv
    <3>3. Integrity'
      BY <1>1, <3>1 DEF Integrity, ReassemblyInv
    <3> QED
      BY <1>3, <2>1, <3>1, <3>2, <3>3 DEF ReassemblyInv, ChanTypeOK
  <2>3. CASE Len(p.data) # FRAGMENT_SIZE
    <3>1. fragmentBuffer' = <<>> /\ Accept(p, b)
      BY <1>7, <2>3 DEF CollectFragment
    <3>2. /\ incomingSequence' \in Nat
          /\ received' \in Seq([sequence : Nat \ {0}, data : Message])
          /\ Integrity'
      BY <1>1, <2>1, <2>3, <3>1, AcceptIntegrity
    <3>3. ReceiverInv' /\ fragmentBuffer' \in Message
      BY <3>1, EmptySeq, MaxMsgLenAssumption DEF ReceiverInv, Message
    <3> QED
      BY <1>3, <2>1, <3>2, <3>3
  <2> QED
    BY <2>2, <2>3
<1> QED
  BY <1>5, <1>6, <1>7 DEF Netchan_Process

-----------------------------------------------------------------------------
(* The order of what is received.                                          *)

\* Netchan_Process accepts a message only if its number is greater than
\* incomingSequence, which bounds the numbers accepted before.
LEMMA ProcessInOrder ==
  ASSUME ReassemblyInv, InOrder, NEW p \in packets, Netchan_Process(p)
  PROVE  InOrder'
<1>1. \/ UNCHANGED <<incomingSequence, received>>
      \/ /\ p.sequence > incomingSequence
         /\ \E m \in Message : Accept(p, m)
  <2>1. p.data \in Message
    BY ProcessFacts
  <2>2. CASE ProcessWhole(p)
    BY <2>1, <2>2 DEF ProcessWhole
  <2>3. CASE DropFragment(p)
    BY <2>3 DEF DropFragment
  <2>4. CASE CollectFragment(p)
    <3>1. Collected(p) \o p.data \in Message
      BY <2>4, CollectFacts DEF CollectFragment
    <3> QED
      BY <2>4, <3>1 DEF CollectFragment
  <2> QED
    BY <2>2, <2>3, <2>4 DEF Netchan_Process
<1>2. CASE UNCHANGED <<incomingSequence, received>>
  BY <1>2 DEF InOrder
<1>3. ASSUME NEW m \in Message, p.sequence > incomingSequence, Accept(p, m)
      PROVE  InOrder'
  <2> DEFINE R == [sequence : Nat \ {0}, data : Message]
             r == [sequence |-> p.sequence, data |-> m]
             n == Len(received)
  <2>1. p.sequence \in Nat \ {0} /\ incomingSequence \in Nat
    BY ProcessFacts DEF ReassemblyInv, ChanTypeOK
  <2>2. received \in Seq(R) /\ r \in R /\ received' = Append(received, r)
    BY <1>3, <2>1 DEF Accept, ReassemblyInv, ChanTypeOK
  <2>3. /\ n \in Nat
        /\ DOMAIN received = 1..n
        /\ DOMAIN received' = 1..(n + 1)
        /\ \A i \in 1..n : received'[i] = received[i] /\ received[i] \in R
        /\ received'[n + 1] = r
    <3> HIDE DEF R, r
    <3> QED
      BY <2>2, AppendProperties, LenProperties, ElementOfSeq
  <2>4. \A i \in 1..n : /\ received'[i].sequence = received[i].sequence
                        /\ received[i].sequence \in Nat
                        /\ received[i].sequence <= incomingSequence
    BY <2>3 DEF InOrder
  <2>5. received'[n + 1].sequence = p.sequence
    BY <2>3
  <2>6. incomingSequence' = p.sequence
    BY <1>3 DEF Accept
  <2>7. \A i \in DOMAIN received' : received'[i].sequence <= incomingSequence'
    <3> TAKE i \in DOMAIN received'
    <3>1. CASE i = n + 1
      BY <2>1, <2>5, <2>6, <3>1
    <3>2. CASE i \in 1..n
      BY <1>3, <2>1, <2>4, <2>6, <3>2
    <3> QED
      BY <2>3, <3>1, <3>2
  <2>8. \A i, j \in DOMAIN received' : i < j => received'[i].sequence < received'[j].sequence
    <3> SUFFICES ASSUME NEW i \in DOMAIN received', NEW j \in DOMAIN received', i < j
                 PROVE  received'[i].sequence < received'[j].sequence
      OBVIOUS
    <3>1. i \in 1..n /\ j \in 1..(n + 1)
      BY <2>3
    <3>2. CASE j = n + 1
      BY <1>3, <2>1, <2>4, <2>5, <3>1, <3>2
    <3>3. CASE j \in 1..n
      BY <2>3, <2>4, <3>1, <3>3 DEF InOrder
    <3> QED
      BY <3>1, <3>2, <3>3
  <2> QED
    BY <2>7, <2>8 DEF InOrder
<1> QED
  BY <1>1, <1>2, <1>3

-----------------------------------------------------------------------------
(* What was sent is enough.                                                *)

\* Where the full fragments end.
Offset(q) == q * FRAGMENT_SIZE

LEMMA OffsetNext ==
  ASSUME NEW q \in Nat
  PROVE  /\ Offset(q) \in Nat
         /\ Offset(q + 1) = Offset(q) + FRAGMENT_SIZE
         /\ Offset((q + 1) - 1) = Offset(q)
         /\ Offset(0) = 0
BY FragmentSizeAssumption DEF Offset

\* Full fragments, and fewer bytes than one has, make up a length in one way.
LEMMA OffsetRest ==
  ASSUME NEW q \in Nat, NEW r \in Nat, r < FRAGMENT_SIZE
  PROVE  /\ (Offset(q) + r) \div FRAGMENT_SIZE = q
         /\ (Offset(q) + r) % FRAGMENT_SIZE = r
<1> DEFINE n == q * FRAGMENT_SIZE + r
           d == n \div FRAGMENT_SIZE
           e == n % FRAGMENT_SIZE
<1>1. FRAGMENT_SIZE \in Nat /\ FRAGMENT_SIZE > 0 /\ n \in Nat
  BY FragmentSizeAssumption
<1>2. d \in Nat /\ e \in Nat /\ e < FRAGMENT_SIZE /\ n = FRAGMENT_SIZE * d + e
  BY <1>1
<1>3. FRAGMENT_SIZE * (d - q) = r - e
  <2> HIDE DEF d, e
  <2> QED
    BY <1>1, <1>2
<1>4. d = q
  <2> HIDE DEF d, e, n
  <2>1. d - q \in Int
    BY <1>2
  <2>2. CASE d - q >= 1
    <3>1. FRAGMENT_SIZE * (d - q) >= FRAGMENT_SIZE
      BY <1>1, <2>1, <2>2
    <3> QED
      BY <1>1, <1>2, <1>3, <3>1
  <2>3. CASE d - q <= -1
    <3>1. FRAGMENT_SIZE * (d - q) <= -FRAGMENT_SIZE
      BY <1>1, <2>1, <2>3
    <3> QED
      BY <1>1, <1>2, <1>3, <3>1
  <2> QED
    BY <1>2, <2>1, <2>2, <2>3
<1>5. e = r
  <2> HIDE DEF d, e
  <2> QED
    BY <1>1, <1>2, <1>4
<1> QED
  BY <1>4, <1>5 DEF Offset

\* What was sent stays sent.
LEMMA SentKept ==
  ASSUME NEW s, packets \subseteq packets'
  PROVE  /\ \A start, length : Sent(s, start, length) => Sent(s, start, length)'
         /\ \A count : FullSent(s, count) => FullSent(s, count)'
BY DEF Sent, FullSent

\* A fragment behind full ones is full as well, or the end of its message.
LEMMA FragmentCompletes ==
  ASSUME NEW m \in Message, NEW q \in Nat, Offset(q) <= Len(m), NEW s \in Nat,
         s = outgoingSequence, FullSent(s, q), SendFragment(m, Offset(q))
  PROVE  /\ packets \subseteq packets'
         /\ unsentFragments' => /\ unsentFragmentStart' = Offset(q + 1)
                                /\ FullSent(s, q + 1)'
         /\ ~unsentFragments' => /\ Len(m) \div FRAGMENT_SIZE = q
                                 /\ FullSent(s, q)'
                                 /\ Sent(s, Offset(q), Len(m) % FRAGMENT_SIZE)'
<1> DEFINE start == Offset(q)
           d == FragmentData(m, start)
           length == Len(d)
<1>1. start \in Nat /\ Len(m) \in Nat /\ FRAGMENT_SIZE \in Nat
  BY OffsetNext, FragmentSizeAssumption, LenProperties DEF Message
<1>2. /\ length \in Nat
      /\ length = IF start + FRAGMENT_SIZE > Len(m) THEN Len(m) - start ELSE FRAGMENT_SIZE
  BY <1>1, FragmentDataFacts, LenProperties DEF Message
<1>3. packets' = packets \cup {[sequence |-> s, fragmented |-> TRUE, start |-> start, data |-> d]}
  BY Zenon DEF SendFragment
<1>4. packets \subseteq packets' /\ Sent(s, start, length)'
  <2> DEFINE p == [sequence |-> s, fragmented |-> TRUE, start |-> start, data |-> d]
  <2>1. packets' = packets \cup {p}
    BY <1>3
  <2>2. p.sequence = s /\ p.start = start /\ Len(p.data) = length
    OBVIOUS
  <2> HIDE DEF p
  <2> QED
    BY <2>1, <2>2, Zenon DEF Sent
<1>5. FullSent(s, q)'
  BY <1>4, SentKept
<1>6. /\ unsentFragmentStart' = start + length
      /\ unsentFragments' <=> ~(start + length = Len(m) /\ length # FRAGMENT_SIZE)
  BY Zenon DEF SendFragment, IsLastFragment
<1> HIDE DEF length, d
<1>7. ASSUME unsentFragments'
      PROVE  unsentFragmentStart' = Offset(q + 1) /\ FullSent(s, q + 1)'
  <2>1. length = FRAGMENT_SIZE
    BY <1>1, <1>2, <1>6, <1>7
  <2>2. Sent(s, ((q + 1) - 1) * FRAGMENT_SIZE, FRAGMENT_SIZE)'
    BY <1>4, <2>1, OffsetNext DEF Offset
  <2>3. \A k \in 1..q + 1 : k \in 1..q \/ k = q + 1
    OBVIOUS
  <2>4. FullSent(s, q + 1)'
    BY <1>5, <2>2, <2>3, Zenon DEF FullSent
  <2> QED
    BY <1>6, <2>1, <2>4, OffsetNext
<1>8. ASSUME ~unsentFragments'
      PROVE  /\ Len(m) \div FRAGMENT_SIZE = q
             /\ Sent(s, start, Len(m) % FRAGMENT_SIZE)'
  <2>1. Len(m) = start + length /\ length < FRAGMENT_SIZE
    BY <1>1, <1>2, <1>6, <1>8
  <2>2. Len(m) \div FRAGMENT_SIZE = q /\ Len(m) % FRAGMENT_SIZE = length
    BY <1>2, <2>1, OffsetRest
  <2> QED
    BY <1>4, <2>2, Zenon
<1> QED
  BY <1>4, <1>5, <1>7, <1>8

\* Message m, numbered s, is being sent or was sent to its end.
LEMMA NextCompletable ==
  ASSUME Completable, packets \subseteq packets', NEW s \in Nat, s = outgoingSequence,
         NEW m \in Message,
         outgoingSequence' = IF unsentFragments' THEN s ELSE s + 1,
         unsentFragments' \in BOOLEAN,
         DOMAIN transmitted' = 1..s, s \in DOMAIN transmitted', transmitted'[s] = m,
         \A k \in 1..s : k < s => k \in DOMAIN transmitted /\ transmitted'[k] = transmitted[k],
         ~unsentFragments' =>
           /\ FullSent(s, Len(m) \div FRAGMENT_SIZE)'
           /\ Sent(s, (Len(m) \div FRAGMENT_SIZE) * FRAGMENT_SIZE, Len(m) % FRAGMENT_SIZE)'
  PROVE  Completable'
<1> DEFINE Done(k, n) == /\ FullSent(k, n \div FRAGMENT_SIZE)
                         /\ Sent(k, (n \div FRAGMENT_SIZE) * FRAGMENT_SIZE, n % FRAGMENT_SIZE)
<1>1. SUFFICES ASSUME NEW k \in 1..s, k < outgoingSequence'
               PROVE  Done(k, Len(transmitted[k]))'
  BY DEF Completable
<1>2. CASE k < s
  <2>1. k \in DOMAIN transmitted /\ transmitted'[k] = transmitted[k] /\ k < outgoingSequence
    BY <1>2
  <2>2. Done(k, Len(transmitted[k]))
    BY <2>1, Zenon DEF Completable
  <2> QED
    BY <2>1, <2>2, SentKept
<1>3. CASE k = s
  <2>1. ~unsentFragments'
    BY <1>1, <1>3
  <2> QED
    BY <1>3, <2>1
<1> QED
  BY <1>2, <1>3

\* SendFragment of message m, numbered s, from the end of its q first fragments.
LEMMA SendFragmentCompletes ==
  ASSUME Completable, ChanTypeOK, NEW s \in Nat, s = outgoingSequence,
         NEW m \in Message, NEW q \in Nat, Offset(q) <= Len(m), FullSent(s, q),
         SendFragment(m, Offset(q)),
         DOMAIN transmitted' = 1..s, s \in DOMAIN transmitted', transmitted'[s] = m,
         \A k \in 1..s : k < s => k \in DOMAIN transmitted /\ transmitted'[k] = transmitted[k]
  PROVE  Completable' /\ SendingInv'
<1>1. /\ packets \subseteq packets'
      /\ unsentFragments' => unsentFragmentStart' = Offset(q + 1) /\ FullSent(s, q + 1)'
      /\ ~unsentFragments' => /\ Len(m) \div FRAGMENT_SIZE = q
                              /\ FullSent(s, q)'
                              /\ Sent(s, Offset(q), Len(m) % FRAGMENT_SIZE)'
  BY FragmentCompletes
<1>2. unsentFragments' \in BOOLEAN
      /\ outgoingSequence' = IF unsentFragments' THEN s ELSE s + 1
  <2>1. outgoingSequence \in Nat \ {0} /\ packets \subseteq Packet /\ Offset(q) \in Nat
    BY OffsetNext DEF ChanTypeOK
  <2> QED
    BY <2>1, SendFragmentStep, Zenon
<1>3. Completable'
  <2>1. ~unsentFragments' =>
          /\ FullSent(s, Len(m) \div FRAGMENT_SIZE)'
          /\ Sent(s, (Len(m) \div FRAGMENT_SIZE) * FRAGMENT_SIZE, Len(m) % FRAGMENT_SIZE)'
    BY <1>1, Zenon DEF Offset
  <2> QED
    BY <1>1, <1>2, <2>1, NextCompletable, Zenon
<1>4. SendingInv'
  <2>1. q + 1 \in Nat
    OBVIOUS
  <2>2. unsentFragments' => outgoingSequence' = s
    BY <1>2, Zenon
  <2> QED
    BY <1>1, <2>1, <2>2, Zenon DEF SendingInv, Offset
<1> QED
  BY <1>3, <1>4

\* Netchan_Transmit, called when nothing is left of the previous message.
LEMMA TransmitCompletes ==
  ASSUME ReassemblyInv, Completable, ~unsentFragments, NEW m \in Message, Netchan_Transmit(m)
  PROVE  Completable' /\ SendingInv'
<1>1. ChanTypeOK /\ SenderInv /\ ChanTypeOK'
  BY TransmitReassembly DEF ReassemblyInv
<1>2. PICK s \in Nat : s = outgoingSequence
  BY <1>1 DEF ChanTypeOK
<1>3. Len(m) \in Nat /\ FRAGMENT_SIZE \in Nat
  BY FragmentSizeAssumption, LenProperties DEF Message
<1>4. /\ transmitted \in Seq(Message) /\ Len(transmitted) = s - 1
      /\ transmitted' = Append(transmitted, m)
  BY <1>1, <1>2 DEF ChanTypeOK, SenderInv, Netchan_Transmit
<1>5. /\ DOMAIN transmitted' = 1..s /\ s \in DOMAIN transmitted' /\ transmitted'[s] = m
      /\ \A k \in 1..s : k < s => k \in DOMAIN transmitted /\ transmitted'[k] = transmitted[k]
  <2>1. /\ transmitted' \in Seq(Message) /\ Len(transmitted') = s
        /\ \A k \in DOMAIN transmitted : transmitted'[k] = transmitted[k]
        /\ Len(transmitted') \in DOMAIN transmitted' /\ transmitted'[Len(transmitted')] = m
    BY <1>2, <1>4, TransmittedGrows
  <2>2. DOMAIN transmitted' = 1..s /\ DOMAIN transmitted = 1..s - 1
    BY <1>4, <2>1, LenProperties
  <2> QED
    BY <2>1, <2>2
<1>6. CASE Len(m) >= FRAGMENT_SIZE
  <2>1. SendFragment(m, Offset(0)) /\ FullSent(s, 0) /\ Offset(0) <= Len(m)
    BY <1>3, <1>6, OffsetNext DEF Netchan_Transmit, FullSent
  <2>2. 0 \in Nat
    OBVIOUS
  <2> QED
    BY <1>1, <1>2, <1>5, <2>1, <2>2, SendFragmentCompletes, Zenon
<1>7. CASE ~(Len(m) >= FRAGMENT_SIZE)
  <2> DEFINE p == [sequence |-> s, fragmented |-> FALSE, start |-> 0, data |-> m]
  <2>1. /\ packets' = packets \cup {p} /\ outgoingSequence' = s + 1
        /\ unsentFragments' = unsentFragments
    BY <1>2, <1>7 DEF Netchan_Transmit
  <2>2. p.sequence = s /\ p.start = 0 /\ Len(p.data) = Len(m)
    OBVIOUS
  <2> HIDE DEF p
  <2>3. packets \subseteq packets' /\ Sent(s, 0, Len(m))' /\ FullSent(s, 0)'
    BY <2>1, <2>2 DEF Sent, FullSent
  <2>4. Len(m) \div FRAGMENT_SIZE = 0 /\ Len(m) % FRAGMENT_SIZE = Len(m)
        /\ 0 * FRAGMENT_SIZE = 0
    <3>1. 0 \in Nat /\ Offset(0) + Len(m) = Len(m) /\ Len(m) < FRAGMENT_SIZE
      <4>1. 0 \in Nat
        OBVIOUS
      <4>2. Offset(0) = 0
        BY <4>1, OffsetNext, Zenon
      <4> QED
        BY <1>3, <1>7, <4>2
    <3>2. Len(m) \div FRAGMENT_SIZE = 0 /\ Len(m) % FRAGMENT_SIZE = Len(m)
      BY <1>3, <3>1, OffsetRest
    <3> QED
      BY <1>3, <3>2
  <2>5. unsentFragments' \in BOOLEAN /\ ~unsentFragments'
    BY <1>1, <2>1, Zenon DEF ChanTypeOK
  <2>6. Completable'
    <3>1. outgoingSequence' = IF unsentFragments' THEN s ELSE s + 1
      BY <2>1, <2>5, Zenon
    <3>2. /\ FullSent(s, Len(m) \div FRAGMENT_SIZE)'
          /\ Sent(s, (Len(m) \div FRAGMENT_SIZE) * FRAGMENT_SIZE, Len(m) % FRAGMENT_SIZE)'
      BY <2>3, <2>4, Zenon
    <3> QED
      BY <1>2, <1>5, <2>3, <2>5, <3>1, <3>2, NextCompletable, Zenon
  <2> QED
    BY <2>5, <2>6, Zenon DEF SendingInv
<1> QED
  BY <1>6, <1>7

\* Netchan_TransmitNextFragment.
LEMMA NextFragmentCompletes ==
  ASSUME ReassemblyInv, Completable, SendingInv, Netchan_TransmitNextFragment
  PROVE  Completable' /\ SendingInv'
<1>1. ChanTypeOK /\ SenderInv /\ unsentFragments
  BY DEF ReassemblyInv, Netchan_TransmitNextFragment
<1>2. PICK s \in Nat : s = outgoingSequence
  BY <1>1 DEF ChanTypeOK
<1>3. PICK q \in Nat : unsentFragmentStart = Offset(q) /\ FullSent(s, q)
  BY <1>1, <1>2, Zenon DEF SendingInv, Offset
<1>4. /\ unsentBuffer \in Message /\ transmitted \in Seq(Message)
      /\ Len(transmitted) = s /\ transmitted[s] = unsentBuffer
      /\ unsentFragmentStart <= Len(unsentBuffer)
      /\ transmitted' = transmitted /\ s # 0
  BY <1>1, <1>2 DEF ChanTypeOK, SenderInv, Netchan_TransmitNextFragment
<1>5. /\ DOMAIN transmitted' = 1..s /\ s \in DOMAIN transmitted'
      /\ transmitted'[s] = unsentBuffer
      /\ \A k \in 1..s : k < s => k \in DOMAIN transmitted /\ transmitted'[k] = transmitted[k]
  BY <1>4, LenProperties
<1>6. SendFragment(unsentBuffer, Offset(q)) /\ Offset(q) <= Len(unsentBuffer)
  BY <1>3, <1>4 DEF Netchan_TransmitNextFragment
<1> QED
  BY <1>1, <1>2, <1>3, <1>4, <1>5, <1>6, SendFragmentCompletes, Zenon

\* Steps that send nothing.
LEMMA NothingSent ==
  ASSUME Completable, SendingInv, UNCHANGED <<senderVars, packets, transmitted>>
  PROVE  Completable' /\ SendingInv'
BY DEF Completable, SendingInv, FullSent, Sent, senderVars

-----------------------------------------------------------------------------
(* The queue of the server (sv_net_chan.c).                                *)

\* The message a step hands to Netchan_Transmit is one of those the server
\* may build, and nothing is left of the message before.
LEMMA QueueHead ==
  ASSUME TypeOK, netchan_queue # <<>>
  PROVE  /\ Head(netchan_queue) \in Built
         /\ Head(netchan_queue).data \in Message
         /\ Head(netchan_queue).reliableAcknowledge \in Nat
         /\ Tail(netchan_queue) \in Seq(Built)
<1>1. netchan_queue \in Seq(Built)
  BY DEF TypeOK
<1>2. Head(netchan_queue) \in Built /\ Tail(netchan_queue) \in Seq(Built)
  BY <1>1, HeadTailProperties
<1> QED
  BY <1>2 DEF Built

\* The type of what SvNetChan adds to a netchan, one step at a time.
LEMMA QueueTypeStep ==
  ASSUME TypeOK, [Next]_vars
  PROVE  /\ netchan_queue' \in Seq(Built)
         /\ lastClientCommand' \in Nat
         /\ headers' \in Seq([reliableAcknowledge : Nat, key : Nat \X Nat])
         /\ built' \in Seq(Built)
<1> DEFINE Header == [reliableAcknowledge : Nat, key : Nat \X Nat]
<1>1. /\ netchan_queue \in Seq(Built)
      /\ lastClientCommand \in Nat
      /\ headers \in Seq(Header)
      /\ built \in Seq(Built)
      /\ outgoingSequence \in Nat
  BY DEF TypeOK, ChanTypeOK
<1>2. NoKey \in Nat \X Nat /\ EncodeKey \in Nat \X Nat
  BY <1>1 DEF NoKey, EncodeKey
<1>3. ASSUME NEW m \in Messages, SV_Netchan_Transmit(m)
      PROVE  /\ netchan_queue' \in Seq(Built)
             /\ lastClientCommand' \in Nat
             /\ headers' \in Seq(Header)
             /\ built' \in Seq(Built)
  <2> DEFINE msg == [data |-> m, reliableAcknowledge |-> lastClientCommand]
             h == [reliableAcknowledge |-> msg.reliableAcknowledge,
                   key |-> IF alternateProtocol = 0 THEN NoKey ELSE EncodeKey]
  <2>1. msg \in Built /\ h \in Header
    BY <1>1, <1>2, MessagesAssumption DEF Built
  <2>2. /\ built' = Append(built, msg)
        /\ lastClientCommand' = lastClientCommand
        /\ \/ netchan_queue' = Append(netchan_queue, msg) /\ headers' = headers
           \/ netchan_queue' = netchan_queue /\ headers' = Append(headers, h)
    BY <1>3 DEF SV_Netchan_Transmit
  <2> HIDE DEF msg, h, Header
  <2>3. /\ Append(built, msg) \in Seq(Built)
        /\ Append(netchan_queue, msg) \in Seq(Built)
        /\ Append(headers, h) \in Seq(Header)
    BY <1>1, <2>1, AppendProperties
  <2> QED
    BY <1>1, <2>2, <2>3, Zenon
<1>4. CASE SV_Netchan_TransmitNextFragment
  <2>1. CASE netchan_queue # <<>> /\ SV_Netchan_TransmitNextInQueue
    <3> DEFINE h == [reliableAcknowledge |-> Head(netchan_queue).reliableAcknowledge,
                     key |-> NoKey]
    <3>1. h \in Header /\ Tail(netchan_queue) \in Seq(Built)
      BY <1>2, <2>1, QueueHead
    <3>2. headers' = Append(headers, h) /\ netchan_queue' = Tail(netchan_queue)
      BY <2>1 DEF SV_Netchan_TransmitNextInQueue
    <3>3. UNCHANGED <<lastClientCommand, built>>
      BY <1>4 DEF SV_Netchan_TransmitNextFragment
    <3>4. Append(headers, h) \in Seq(Header)
      <4> HIDE DEF h, Header
      <4> QED
        BY <1>1, <3>1, AppendProperties
    <3> QED
      BY <1>1, <3>1, <3>2, <3>3, <3>4
  <2>2. CASE UNCHANGED <<netchan_queue, headers>>
    BY <1>1, <1>4, <2>2 DEF SV_Netchan_TransmitNextFragment
  <2> QED
    BY <1>4, <2>1, <2>2 DEF SV_Netchan_TransmitNextFragment
<1>5. CASE ExecuteClientCommand
  BY <1>1, <1>5 DEF ExecuteClientCommand
<1>6. CASE (\E p \in packets : CL_Netchan_Process(p)) \/ UNCHANGED vars
  BY <1>1, <1>6 DEF CL_Netchan_Process, svVars, vars
<1> QED
  BY <1>3, <1>4, <1>5, <1>6 DEF Next

\* What a step of the server is to the netchan.
LEMMA StepOfNetchan ==
  ASSUME TypeOK, [Next]_vars
  PROVE  \/ \E m \in Message : ~unsentFragments /\ Netchan_Transmit(m)
         \/ Netchan_TransmitNextFragment
         \/ \E p \in packets : Netchan_Process(p)
         \/ UNCHANGED chanVars
<1>1. ASSUME NEW m \in Messages, SV_Netchan_Transmit(m)
      PROVE  UNCHANGED chanVars \/ (~unsentFragments /\ Netchan_Transmit(m))
  BY <1>1 DEF SV_Netchan_Transmit
<1>2. ASSUME SV_Netchan_TransmitNextFragment
      PROVE  \/ Netchan_TransmitNextFragment
             \/ \E m \in Message : ~unsentFragments /\ Netchan_Transmit(m)
  BY <1>2, QueueHead DEF SV_Netchan_TransmitNextFragment, SV_Netchan_TransmitNextInQueue
<1>3. CASE ExecuteClientCommand
  BY <1>3 DEF ExecuteClientCommand
<1>4. ASSUME NEW p \in packets, CL_Netchan_Process(p)
      PROVE  Netchan_Process(p)
  BY <1>4 DEF CL_Netchan_Process
<1>5. CASE UNCHANGED vars
  BY <1>5 DEF vars
<1> QED
  BY <1>1, <1>2, <1>3, <1>4, <1>5, MessagesAssumption DEF Next

-----------------------------------------------------------------------------
(* Type correctness, reassembly and order.                                 *)

LEMMA InitInv == Init => SvReassemblyInv
<1> SUFFICES ASSUME Init PROVE SvReassemblyInv
  OBVIOUS
<1>1. ReassemblyInv
  BY SetupReassembly DEF Init
<1>2. /\ netchan_queue \in Seq(Built)
      /\ lastClientCommand \in Nat
      /\ headers \in Seq([reliableAcknowledge : Nat, key : Nat \X Nat])
      /\ built \in Seq(Built)
  BY EmptySeq DEF Init
<1> QED
  BY <1>1, <1>2 DEF SvReassemblyInv, TypeOK, ReassemblyInv

LEMMA NextInv == SvReassemblyInv /\ [Next]_vars => SvReassemblyInv'
<1> SUFFICES ASSUME TypeOK, ReassemblyInv, [Next]_vars PROVE SvReassemblyInv'
  BY DEF SvReassemblyInv
<1>1. ReassemblyInv'
  <2>1. ASSUME NEW m \in Message, ~unsentFragments, Netchan_Transmit(m)
        PROVE  ReassemblyInv'
    BY <2>1, TransmitReassembly
  <2>2. CASE Netchan_TransmitNextFragment
    BY <2>2, NextFragmentReassembly
  <2>3. ASSUME NEW p \in packets, Netchan_Process(p)
        PROVE  ReassemblyInv'
    BY <2>3, ProcessReassembly
  <2>4. CASE UNCHANGED chanVars
    BY <2>4 DEF chanVars, senderVars, receiverVars, ReassemblyInv, ChanTypeOK,
                SenderInv, PacketInv, ReceiverInv, Integrity
  <2> QED
    BY <2>1, <2>2, <2>3, <2>4, StepOfNetchan
<1> QED
  BY <1>1, QueueTypeStep DEF SvReassemblyInv, TypeOK, ReassemblyInv

\* Every datagram and every partly assembled message stays a piece of the
\* message transmitted under its number.  This is the inductive invariant.
THEOREM SvReassembly == Spec => []SvReassemblyInv
<1> QED
  BY InitInv, NextInv, PTL DEF Spec

\* Every variable of the server's channel keeps its type.
THEOREM SvTypeCorrect == Spec => []TypeOK
<1>1. SvReassemblyInv => TypeOK
  BY DEF SvReassemblyInv
<1> QED
  BY <1>1, SvReassembly, PTL

\* The client never accepts a message other than the one the server
\* transmitted under that number, whatever the network loses, repeats or
\* reorders, and however the server's queue and fragments interleave.
THEOREM SvIntegrity == Spec => []Integrity
<1>1. SvReassemblyInv => Integrity
  BY DEF SvReassemblyInv, ReassemblyInv
<1> QED
  BY <1>1, SvReassembly, PTL

\* The client accepts messages in the order of their numbers, each at most
\* once.
THEOREM SvInOrder == Spec => []InOrder
<1>1. Init => InOrder
  BY EmptySeq DEF Init, Netchan_Setup, InOrder
<1>2. SvReassemblyInv /\ InOrder /\ [Next]_vars => InOrder'
  <2> SUFFICES ASSUME TypeOK, ReassemblyInv, InOrder, [Next]_vars PROVE InOrder'
    BY DEF SvReassemblyInv
  <2>1. ASSUME NEW p \in packets, Netchan_Process(p)
        PROVE  InOrder'
    BY <2>1, ProcessInOrder
  <2>2. CASE UNCHANGED <<incomingSequence, received>>
    BY <2>2 DEF InOrder
  <2> QED
    BY <2>1, <2>2, StepOfNetchan DEF chanVars, receiverVars, Netchan_Transmit,
                                     Netchan_TransmitNextFragment
<1> QED
  BY <1>1, <1>2, SvReassembly, PTL DEF Spec

\* A message that is finished can be completed from what was sent of it,
\* whatever its length and the size of a fragment.
THEOREM SvCompletable == Spec => []Completable
<1>1. Init => Completable /\ SendingInv
  BY EmptySeq DEF Init, Netchan_Setup, Completable, SendingInv
<1>2. SvReassemblyInv /\ Completable /\ SendingInv /\ [Next]_vars => Completable' /\ SendingInv'
  <2> SUFFICES ASSUME TypeOK, ReassemblyInv, Completable, SendingInv, [Next]_vars
               PROVE  Completable' /\ SendingInv'
    BY DEF SvReassemblyInv
  <2>1. ASSUME NEW m \in Message, ~unsentFragments, Netchan_Transmit(m)
        PROVE  Completable' /\ SendingInv'
    BY <2>1, TransmitCompletes
  <2>2. CASE Netchan_TransmitNextFragment
    BY <2>2, NextFragmentCompletes
  <2>3. CASE UNCHANGED <<senderVars, packets, transmitted>>
    BY <2>3, NothingSent
  <2>4. (\E p \in packets : Netchan_Process(p)) \/ UNCHANGED chanVars
        => UNCHANGED <<senderVars, packets, transmitted>>
    BY DEF Netchan_Process, chanVars
  <2> QED
    BY <2>1, <2>2, <2>3, <2>4, StepOfNetchan, Zenon
<1> QED
  BY <1>1, <1>2, SvReassembly, PTL DEF Spec

-----------------------------------------------------------------------------
(* The queue, and the promise of MessageChannel.                           *)

\* The messages of a sequence of them with their headers.
Data(q) == [k \in DOMAIN q |-> q[k].data]

LEMMA DataType ==
  ASSUME NEW q \in Seq(Built)
  PROVE  Data(q) \in Seq(Message) /\ Len(Data(q)) = Len(q)
<1>1. Len(q) \in Nat /\ DOMAIN q = 1..Len(q) /\ \A k \in 1..Len(q) : q[k].data \in Message
  <2>1. Len(q) \in Nat /\ DOMAIN q = 1..Len(q)
    BY LenProperties
  <2>2. ASSUME NEW k \in 1..Len(q) PROVE q[k].data \in Message
    <3>1. q[k] \in Built
      BY ElementOfSeq
    <3> QED
      BY <3>1 DEF Built
  <2> QED
    BY <2>1, <2>2
<1>2. Data(q) = [k \in 1..Len(q) |-> q[k].data]
  BY <1>1 DEF Data
<1> QED
  BY <1>1, <1>2, IsASeq, LenProperties

LEMMA DataAppend ==
  ASSUME NEW q \in Seq(Built), NEW b \in Built
  PROVE  Data(Append(q, b)) = Append(Data(q), b.data)
<1>1. /\ Append(q, b) \in Seq(Built) /\ Len(Append(q, b)) = Len(q) + 1 /\ Len(q) \in Nat
      /\ \A k \in 1..Len(q) : Append(q, b)[k] = q[k]
      /\ Append(q, b)[Len(q) + 1] = b
  BY AppendProperties, LenProperties
<1>2. b.data \in Message /\ Data(q) \in Seq(Message) /\ Len(Data(q)) = Len(q)
  BY DataType DEF Built
<1>3. /\ Append(Data(q), b.data) \in Seq(Message)
      /\ Len(Append(Data(q), b.data)) = Len(q) + 1
      /\ \A k \in 1..Len(q) : Append(Data(q), b.data)[k] = Data(q)[k]
      /\ Append(Data(q), b.data)[Len(q) + 1] = b.data
  BY <1>2, AppendProperties
<1>4. Data(Append(q, b)) \in Seq(Message) /\ Len(Data(Append(q, b))) = Len(q) + 1
  BY <1>1, DataType
<1>5. ASSUME NEW k \in 1..(Len(q) + 1)
      PROVE  Data(Append(q, b))[k] = Append(Data(q), b.data)[k]
  <2>1. Data(Append(q, b))[k] = Append(q, b)[k].data
    BY <1>1, LenProperties DEF Data
  <2>2. CASE k \in 1..Len(q)
    BY <1>1, <1>3, <2>1, <2>2, LenProperties DEF Data
  <2>3. CASE k = Len(q) + 1
    BY <1>1, <1>3, <2>1, <2>3
  <2>4. Len(q) \in Nat
    BY LenProperties
  <2>5. k \in 1..Len(q) \/ k = Len(q) + 1
    BY <2>4
  <2> QED
    BY <2>2, <2>3, <2>5
<1> QED
  BY <1>3, <1>4, <1>5, SeqEqual

LEMMA DataTail ==
  ASSUME NEW q \in Seq(Built), q # <<>>, NEW t \in Seq(Message)
  PROVE  t \o Data(q) = Append(t, Head(q).data) \o Data(Tail(q))
<1>1. /\ Head(q) \in Built /\ Tail(q) \in Seq(Built) /\ Len(q) \in Nat \ {0}
      /\ Len(Tail(q)) = Len(q) - 1
      /\ \A k \in 1..Len(Tail(q)) : Tail(q)[k] = q[k + 1]
      /\ Head(q) = q[1]
  BY HeadTailProperties, LenProperties, EmptySeq
<1>2. /\ Data(q) \in Seq(Message) /\ Len(Data(q)) = Len(q)
      /\ Data(Tail(q)) \in Seq(Message) /\ Len(Data(Tail(q))) = Len(q) - 1
      /\ Head(q).data \in Message /\ Len(t) \in Nat
  BY <1>1, DataType, LenProperties DEF Built
<1> DEFINE u == Append(t, Head(q).data)
<1>3. /\ u \in Seq(Message) /\ Len(u) = Len(t) + 1
      /\ \A k \in 1..Len(t) : u[k] = t[k]
      /\ u[Len(t) + 1] = Head(q).data
  BY <1>2, AppendProperties
<1> HIDE DEF u
<1>4. /\ t \o Data(q) \in Seq(Message) /\ Len(t \o Data(q)) = Len(t) + Len(q)
      /\ u \o Data(Tail(q)) \in Seq(Message)
      /\ Len(u \o Data(Tail(q))) = Len(t) + Len(q)
  <2>1. t \o Data(q) \in Seq(Message) /\ Len(t \o Data(q)) = Len(t) + Len(Data(q))
    BY <1>2, ConcatProperties
  <2>2. /\ u \o Data(Tail(q)) \in Seq(Message)
        /\ Len(u \o Data(Tail(q))) = Len(u) + Len(Data(Tail(q)))
    BY <1>2, <1>3, ConcatProperties
  <2>3. Len(t) \in Nat /\ Len(q) \in Nat
    BY LenProperties
  <2>4. (Len(t) + 1) + (Len(q) - 1) = Len(t) + Len(q)
    BY <2>3
  <2>5. Len(u) = Len(t) + 1 /\ Len(Data(q)) = Len(q) /\ Len(Data(Tail(q))) = Len(q) - 1
    BY <1>2, <1>3
  <2> QED
    BY <2>1, <2>2, <2>4, <2>5, Zenon
<1>5. ASSUME NEW k \in 1..(Len(t) + Len(q))
      PROVE  (t \o Data(q))[k] = (u \o Data(Tail(q)))[k]
  <2>1. CASE k <= Len(t)
    BY <2>1, <1>1, <1>2, <1>3, ConcatProperties
  <2>2. CASE k = Len(t) + 1
    <3>1. (t \o Data(q))[k] = Data(q)[1]
      BY <2>2, <1>1, <1>2, ConcatProperties
    <3>2. Data(q)[1] = Head(q).data
      BY <1>1, LenProperties DEF Data
    <3>3. (u \o Data(Tail(q)))[k] = u[k]
      BY <2>2, <1>1, <1>2, <1>3, ConcatProperties
    <3> QED
      BY <3>1, <3>2, <3>3, <2>2, <1>3
  <2>3. CASE k > Len(t) + 1
    <3> DEFINE j == k - Len(t)
    <3>1. j \in 2..Len(q)
      BY <2>3, <1>1, <1>2
    <3>2. (t \o Data(q))[k] = Data(q)[j]
      BY <2>3, <1>1, <1>2, ConcatProperties
    <3>3. (u \o Data(Tail(q)))[k] = Data(Tail(q))[j - 1]
      BY <2>3, <1>1, <1>2, <1>3, ConcatProperties
    <3> HIDE DEF j
    <3>4. Data(q)[j] = q[j].data /\ Data(Tail(q))[j - 1] = Tail(q)[j - 1].data
      BY <3>1, <1>1, LenProperties DEF Data
    <3>5. Tail(q)[j - 1] = q[j]
      BY <3>1, <1>1
    <3> QED
      BY <3>2, <3>3, <3>4, <3>5
  <2>4. Len(t) \in Nat /\ Len(q) \in Nat
    BY LenProperties
  <2>5. k <= Len(t) \/ k = Len(t) + 1 \/ k > Len(t) + 1
    BY <2>4
  <2> QED
    BY <2>1, <2>2, <2>3, <2>5
<1>6. t \o Data(q) = u \o Data(Tail(q))
  BY <1>4, <1>5, SeqEqual
<1> QED
  BY <1>6 DEF u

\* A step of the server keeps the messages in order: those transmitted and
\* those queued make up those built.
LEMMA QueueStep ==
  ASSUME TypeOK, QueueKeepsOrder, [Next]_vars
  PROVE  QueueKeepsOrder'
<1>1. /\ netchan_queue \in Seq(Built) /\ built \in Seq(Built)
      /\ transmitted \in Seq(Message) /\ lastClientCommand \in Nat
  BY DEF TypeOK, ChanTypeOK
<1>2. /\ Data(netchan_queue) \in Seq(Message) /\ Data(built) \in Seq(Message)
      /\ Data(built) = transmitted \o Data(netchan_queue)
  BY <1>1, DataType DEF QueueKeepsOrder, Data
<1> SUFFICES Data(built)' = transmitted' \o Data(netchan_queue)'
  BY DEF QueueKeepsOrder, Data
<1>3. CASE UNCHANGED <<netchan_queue, built, transmitted>>
  BY <1>2, <1>3 DEF Data
<1>4. ASSUME NEW m \in Messages, SV_Netchan_Transmit(m)
      PROVE  Data(built)' = transmitted' \o Data(netchan_queue)'
  <2> DEFINE msg == [data |-> m, reliableAcknowledge |-> lastClientCommand]
  <2>1. msg \in Built /\ msg.data = m /\ m \in Message
    BY <1>1, MessagesAssumption DEF Built
  <2>2. /\ built' = Append(built, msg)
        /\ \/ netchan_queue' = Append(netchan_queue, msg) /\ transmitted' = transmitted
           \/ /\ netchan_queue = <<>> /\ netchan_queue' = netchan_queue
              /\ transmitted' = Append(transmitted, m)
    BY <1>4 DEF SV_Netchan_Transmit, Netchan_Transmit, chanVars
  <2> HIDE DEF msg
  <2>3. Data(built)' = Append(Data(built), m)
    <3>1. Data(Append(built, msg)) = Append(Data(built), m)
      BY <1>1, <2>1, DataAppend
    <3> QED
      BY <2>2, <3>1 DEF Data
  <2>4. CASE netchan_queue' = Append(netchan_queue, msg) /\ transmitted' = transmitted
    <3>1. Data(netchan_queue)' = Append(Data(netchan_queue), m)
      <4>1. Data(Append(netchan_queue, msg)) = Append(Data(netchan_queue), m)
        BY <1>1, <2>1, DataAppend
      <4> QED
        BY <2>4, <4>1 DEF Data
    <3>2. Append(transmitted \o Data(netchan_queue), m)
            = transmitted \o Append(Data(netchan_queue), m)
      <4>1. /\ Append(Data(netchan_queue), m) = Data(netchan_queue) \o <<m>>
            /\ transmitted \o Data(netchan_queue) \in Seq(Message)
            /\ <<m>> \in Seq(Message)
        BY <1>1, <1>2, <2>1, AppendIsConcat, ConcatProperties
      <4>2. Append(transmitted \o Data(netchan_queue), m)
              = (transmitted \o Data(netchan_queue)) \o <<m>>
        BY <4>1, <2>1, AppendIsConcat
      <4> QED
        BY <4>1, <4>2, <1>1, <1>2, ConcatAssociative
    <3> QED
      BY <1>2, <2>3, <2>4, <3>1, <3>2
  <2>5. CASE /\ netchan_queue = <<>> /\ netchan_queue' = netchan_queue
             /\ transmitted' = Append(transmitted, m)
    <3>1. Data(netchan_queue) = <<>> /\ Data(netchan_queue)' = <<>>
      BY <2>5 DEF Data
    <3>2. Append(transmitted, m) \in Seq(Message)
      BY <1>1, <2>1, AppendProperties
    <3> QED
      BY <1>1, <1>2, <2>3, <2>5, <3>1, <3>2, ConcatEmptySeq
  <2> QED
    BY <2>2, <2>4, <2>5
<1>5. CASE netchan_queue # <<>> /\ SV_Netchan_TransmitNextInQueue /\ built' = built
  <2>1. /\ transmitted' = Append(transmitted, Head(netchan_queue).data)
        /\ netchan_queue' = Tail(netchan_queue)
    BY <1>5 DEF SV_Netchan_TransmitNextInQueue, Netchan_Transmit
  <2>2. transmitted \o Data(netchan_queue)
          = Append(transmitted, Head(netchan_queue).data) \o Data(Tail(netchan_queue))
    BY <1>1, <1>5, DataTail
  <2>3. Data(netchan_queue)' = Data(Tail(netchan_queue)) /\ Data(built)' = Data(built)
    BY <1>5, <2>1 DEF Data
  <2> QED
    BY <1>2, <2>1, <2>2, <2>3
<1>6. CASE SV_Netchan_TransmitNextFragment
  BY <1>3, <1>5, <1>6 DEF SV_Netchan_TransmitNextFragment, Netchan_TransmitNextFragment
<1>7. CASE ExecuteClientCommand \/ UNCHANGED vars
  BY <1>3, <1>7 DEF ExecuteClientCommand, vars, chanVars, svVars
<1>8. CASE \E p \in packets : CL_Netchan_Process(p)
  BY <1>3, <1>8 DEF CL_Netchan_Process, Netchan_Process, svVars
<1> QED
  BY <1>4, <1>6, <1>7, <1>8 DEF Next

\* No message the server built is lost, repeated or overtaken before it gets
\* to the wire ("make sure they get sent in correct order").
THEOREM SvQueueKeepsOrder == Spec => []QueueKeepsOrder
<1>1. Init => QueueKeepsOrder
  BY DEF Init, Netchan_Setup, QueueKeepsOrder
<1>2. SvReassemblyInv => TypeOK
  BY DEF SvReassemblyInv
<1> QED
  BY <1>1, <1>2, QueueStep, SvReassembly, PTL DEF Spec

\* A message the client accepts is a delivery of the channel.
LEMMA DeliveryStep ==
  ASSUME SvReassemblyInv, SvReassemblyInv', InOrder, QueueKeepsOrder,
         NEW p \in packets, CL_Netchan_Process(p), received' # received
  PROVE  Channel!Deliver
<1> DEFINE sent == [k \in DOMAIN built |-> built[k].data]
           last == IF received = <<>> THEN 0 ELSE received[Len(received)].sequence
<1>1. /\ received \in Seq([sequence : Nat \ {0}, data : Message])
      /\ transmitted \in Seq(Message) /\ netchan_queue \in Seq(Built)
      /\ incomingSequence \in Nat /\ p \in Packet
  BY DEF SvReassemblyInv, TypeOK, ChanTypeOK
<1>2. PICK m : received' = Append(received, [sequence |-> p.sequence, data |-> m])
  BY DEF CL_Netchan_Process, Netchan_Process, ProcessWhole, DropFragment,
         CollectFragment, Accept
<1>3. /\ p.sequence > incomingSequence /\ p.sequence \in DOMAIN transmitted
      /\ built' = built /\ transmitted' = transmitted
  <2>1. p.sequence > incomingSequence /\ transmitted' = transmitted
    BY DEF CL_Netchan_Process, Netchan_Process, ProcessWhole, DropFragment,
           CollectFragment
  <2>2. p.sequence \in DOMAIN transmitted
    BY DEF SvReassemblyInv, ReassemblyInv, PacketInv
  <2> QED
    BY <2>1, <2>2 DEF CL_Netchan_Process, svVars
<1>4. received' \in Seq([sequence : Nat \ {0}, data : Message])
  BY DEF SvReassemblyInv, TypeOK, ChanTypeOK
<1>4a. ASSUME received # <<>>
       PROVE  /\ Len(received) \in DOMAIN received
              /\ received[Len(received)].sequence \in Nat
  <2> DEFINE R == [sequence : Nat \ {0}, data : Message]
  <2>1. received \in Seq(R)
    BY <1>1
  <2>2. \A r \in R : r.sequence \in Nat
    OBVIOUS
  <2> HIDE DEF R
  <2>3. Len(received) \in 1..Len(received) /\ DOMAIN received = 1..Len(received)
    BY <1>4a, <2>1, EmptySeq, LenProperties
  <2>4. received[Len(received)] \in R
    BY <2>1, <2>3, ElementOfSeq
  <2> QED
    BY <2>2, <2>3, <2>4
<1>5. last \in Nat /\ last < p.sequence
  <2>1. CASE received = <<>>
    BY <2>1, <1>1 DEF Packet
  <2>2. CASE received # <<>>
    <3>1. received[Len(received)].sequence <= incomingSequence
      BY <2>2, <1>4a DEF InOrder
    <3> QED
      BY <2>2, <3>1, <1>4a, <1>1, <1>3 DEF Packet
  <2> QED
    BY <2>1, <2>2
<1>6. m = transmitted[p.sequence]
  <2>1. /\ Len(received') = Len(received) + 1 /\ Len(received) \in Nat
        /\ received'[Len(received) + 1] = [sequence |-> p.sequence, data |-> m]
    BY <1>1, <1>2, AppendProperties, LenProperties
  <2>2. Len(received) + 1 \in DOMAIN received'
    BY <1>4, <2>1, LenProperties
  <2>3. received'[Len(received) + 1].data = transmitted'[received'[Len(received) + 1].sequence]
    BY <2>2 DEF SvReassemblyInv, ReassemblyInv, Integrity
  <2> QED
    BY <2>1, <2>3, <1>3
<1>7. p.sequence \in 1..Len(sent) /\ sent[p.sequence] = transmitted[p.sequence]
  <2>1. Data(netchan_queue) \in Seq(Message) /\ sent = transmitted \o Data(netchan_queue)
    BY <1>1, DataType DEF QueueKeepsOrder, Data
  <2>2. Len(transmitted) \in Nat /\ Len(Data(netchan_queue)) \in Nat
    BY <1>1, <2>1, LenProperties
  <2>3. p.sequence \in 1..Len(transmitted)
    BY <1>1, <1>3, LenProperties
  <2>4. Len(sent) = Len(transmitted) + Len(Data(netchan_queue))
    BY <1>1, <2>1, ConcatProperties
  <2>5. (transmitted \o Data(netchan_queue))[p.sequence] = transmitted[p.sequence]
    BY <1>1, <2>1, <2>2, <2>3, ConcatProperties
  <2> HIDE DEF sent
  <2>6. p.sequence \in 1..Len(sent)
    BY <2>2, <2>3, <2>4
  <2> QED
    BY <2>1, <2>5, <2>6
<1>8. p.sequence \in (last + 1)..Len(sent)
  <2>1. p.sequence \in Nat
    BY <1>1 DEF Packet
  <2> HIDE DEF last, sent
  <2> QED
    BY <2>1, <1>5, <1>7
<1>9. sent' = sent
  BY <1>3
<1>10. received' = Append(received, [sequence |-> p.sequence, data |-> sent[p.sequence]])
  BY <1>2, <1>6, <1>7
<1> QED
  BY <1>8, <1>9, <1>10 DEF Channel!Deliver, Channel!LastDelivered

\* Every step of the server is one of the channel.
LEMMA StepOfChannel ==
  ASSUME SvReassemblyInv, SvReassemblyInv', InOrder, QueueKeepsOrder, [Next]_vars
  PROVE  [Channel!Next]_(Channel!vars)
<1>1. built \in Seq(Built) /\ lastClientCommand \in Nat
  BY DEF SvReassemblyInv, TypeOK
<1>2. ASSUME NEW m \in Messages, SV_Netchan_Transmit(m)
      PROVE  Channel!SendMessage
  <2> DEFINE msg == [data |-> m, reliableAcknowledge |-> lastClientCommand]
  <2>1. msg \in Built
    BY <1>1, MessagesAssumption DEF Built
  <2>2. built' = Append(built, msg) /\ received' = received
    BY <1>2 DEF SV_Netchan_Transmit, Netchan_Transmit, chanVars, receiverVars
  <2> HIDE DEF msg
  <2>3. Data(built)' = Append(Data(built), msg.data)
    BY <1>1, <2>1, <2>2, DataAppend DEF Data
  <2>4. Data(built) \in Seq(Message) /\ msg.data \in Message
    BY <1>1, <2>1, DataType DEF Built
  <2>5. /\ Len(Append(Data(built), msg.data)) = Len(Data(built)) + 1
        /\ SubSeq(Append(Data(built), msg.data), 1, Len(Data(built))) = Data(built)
    BY <2>4, HeadTailAppend, AppendProperties, SubSeqFull
  <2> QED
    BY <2>2, <2>3, <2>5 DEF Channel!SendMessage, Data
<1>3. ASSUME NEW p \in packets, CL_Netchan_Process(p)
      PROVE  Channel!Deliver \/ UNCHANGED Channel!vars
  <2>1. CASE received' = received
    BY <1>3, <2>1 DEF CL_Netchan_Process, svVars, Channel!vars
  <2>2. CASE received' # received
    BY <1>3, <2>2, DeliveryStep
  <2> QED
    BY <2>1, <2>2
<1>4. CASE SV_Netchan_TransmitNextFragment \/ ExecuteClientCommand \/ UNCHANGED vars
  <2>1. built' = built /\ received' = received
    BY <1>4 DEF SV_Netchan_TransmitNextFragment, SV_Netchan_TransmitNextInQueue,
                Netchan_TransmitNextFragment, Netchan_Transmit, ExecuteClientCommand,
                vars, svVars, chanVars, receiverVars
  <2> QED
    BY <2>1 DEF Channel!vars
<1> QED
  BY <1>2, <1>3, <1>4 DEF Next, Channel!Next

\* The server's netchan implements a channel that loses messages and does
\* nothing else to them, however the network treats the datagrams.
THEOREM SvKeepsPromise == Spec => KeepsPromise
<1>1. Init => Channel!Init
  BY DEF Init, Netchan_Setup, Channel!Init
<1>2. SvReassemblyInv /\ SvReassemblyInv' /\ InOrder /\ QueueKeepsOrder /\ [Next]_vars
        => [Channel!Next]_(Channel!vars)
  BY StepOfChannel
<1> QED
  BY <1>1, <1>2, SvReassembly, SvInOrder, SvQueueKeepsOrder, PTL
     DEF Spec, KeepsPromise, Channel!Spec
=============================================================================
