------------------------ MODULE ClientCommandsProofs ------------------------
(***************************************************************************)
(* Proofs about ClientCommands: the inductive invariant, and from it that  *)
(* the server never finds a command missing, that it executes the commands *)
(* in order and before the moves made after them, and that the client      *)
(* keeps the promise of ReliableCommands.  Then, from a second invariant,  *)
(* that moves are executed in the order of their times, that packetdup     *)
(* makes up for the packets it was meant to, and that three packets are    *)
(* enough to be heard leaving.  All for every size of the ring, of a       *)
(* packet and of cl_packetdup, and for every bound.                        *)
(***************************************************************************)
EXTENDS ClientCommands, SequenceTheorems, WellFoundedInduction, TLAPS

-----------------------------------------------------------------------------
(* Slots of the ring. *)

\* Every number has a slot.
LEMMA SlotType ==
  ASSUME NEW n \in Int
  PROVE  n % M \in Slots
BY RingAssumption DEF Slots, M

\* Two numbers less than M apart have different slots.
LEMMA SlotsDiffer ==
  ASSUME NEW a \in Int, NEW b \in Int, a < b, b < a + M
  PROVE  a % M # b % M
<1> DEFINE q == a \div M
           r == b \div M
<1>1. M \in Int /\ M > 0
  BY RingAssumption
<1>2. q \in Int /\ r \in Int /\ a % M \in Int /\ b % M \in Int
  BY <1>1
<1>3. a = M * q + (a % M) /\ b = M * r + (b % M)
  BY <1>1
<1> HIDE DEF q, r
<1> SUFFICES ASSUME a % M = b % M PROVE FALSE
  OBVIOUS
<1>4. b - a = M * (r - q)
  BY <1>1, <1>2, <1>3
<1>5. CASE r - q <= 0
  <2>1. M * (r - q) <= 0
    BY <1>1, <1>2, <1>5
  <2> QED
    BY <2>1, <1>4
<1>6. CASE r - q >= 1
  <2>1. M * (r - q) >= M
    BY <1>1, <1>2, <1>6
  <2> QED
    BY <2>1, <1>4, <1>1
<1> QED
  BY <1>2, <1>5, <1>6

-----------------------------------------------------------------------------
(* What the types say. *)

LEMMA Numbers ==
  ASSUME TypeOK
  PROVE  /\ reliableSequence \in Nat
         /\ cmdNumber \in Nat
         /\ clc.reliableAcknowledge \in Nat
         /\ clc.reliableCommands \in [Slots -> Nat]
         /\ clc.overflowed \in BOOLEAN
         /\ cl.lastClientCommand \in Nat
         /\ cl.lastUsercmd \in Nat
         /\ M \in Nat \ {0}
         /\ DOMAIN added = 1..reliableSequence
         /\ DOMAIN cmds = 1..cmdNumber
         /\ \A k \in 1..cmdNumber : cmds[k] \in Usercmd
<1>1. added \in Seq(Kinds) /\ cmds \in Seq(Usercmd) /\ clc \in ClientConnection /\ cl \in ClientT
  BY DEF TypeOK
<1>2. /\ reliableSequence \in Nat /\ cmdNumber \in Nat
      /\ DOMAIN added = 1..reliableSequence /\ DOMAIN cmds = 1..cmdNumber
      /\ \A k \in 1..cmdNumber : cmds[k] \in Usercmd
  BY <1>1, LenProperties, ElementOfSeq DEF reliableSequence, cmdNumber
<1>3. clc.overflowed \in BOOLEAN
  BY <1>1, Zenon DEF ClientConnection
<1>4. /\ clc.reliableAcknowledge \in Nat /\ clc.reliableCommands \in [Slots -> Nat]
      /\ cl.lastClientCommand \in Nat /\ cl.lastUsercmd \in Nat
  BY <1>1 DEF ClientConnection, ClientT
<1> QED
  BY <1>2, <1>3, <1>4, RingAssumption DEF M

\* What the type of a packet says.
LEMMA PacketNumbers ==
  ASSUME NEW p \in Packet
  PROVE  /\ p.first \in Nat \ {0} /\ p.from \in Nat /\ p.upTo \in Nat /\ p.lost \in Nat
         /\ p.commands \in Seq(Nat) /\ Len(p.commands) \in Nat
         /\ DOMAIN p.commands = 1..Len(p.commands)
         /\ LastCommand(p) \in Nat
<1>1. /\ p.first \in Nat \ {0} /\ p.from \in Nat /\ p.upTo \in Nat /\ p.lost \in Nat
      /\ p.commands \in Seq(Nat)
  BY Zenon DEF Packet
<1>2. Len(p.commands) \in Nat /\ DOMAIN p.commands = 1..Len(p.commands)
  BY <1>1, LenProperties
<1> QED
  BY <1>1, <1>2 DEF LastCommand

\* A packet that fits goes on to fit while commands and moves are added and
\* the server executes commands.
LEMMA StillFits ==
  ASSUME TypeOK, NEW p \in Packet, PacketFits(p),
         reliableSequence' \in Nat, cmdNumber' \in Nat, cl'.lastClientCommand \in Nat,
         cl.lastClientCommand <= cl'.lastClientCommand,
         cmdNumber <= cmdNumber', \A k \in 1..cmdNumber : cmds'[k] = cmds[k],
         reliableSequence <= reliableSequence',
         clc.overflowed => clc'.overflowed
  PROVE  PacketFits(p)'
<1>1. /\ reliableSequence \in Nat /\ cmdNumber \in Nat /\ cl.lastClientCommand \in Nat
      /\ p.first \in Nat /\ p.from \in Nat /\ p.upTo \in Nat /\ LastCommand(p) \in Nat
  BY Numbers, PacketNumbers
<1>2. p.first <= cl'.lastClientCommand + 1
  BY <1>1 DEF PacketFits
<1>3. p.from <= p.upTo /\ p.upTo <= cmdNumber' /\ p.upTo <= cmdNumber
  BY <1>1 DEF PacketFits
<1>4. LastCommand(p) <= reliableSequence'
  BY <1>1 DEF PacketFits
<1>5. \A k \in DOMAIN p.commands : p.commands[k] \in 1..reliableSequence'
  BY <1>1 DEF PacketFits
<1>6. ~clc'.overflowed => \A k \in DOMAIN p.commands : p.commands[k] = p.first + k - 1
  BY Zenon DEF PacketFits
<1>7. ASSUME NEW k \in p.from + 1..p.upTo PROVE cmds'[k].commands <= LastCommand(p)
  <2>1. k \in 1..cmdNumber
    BY <1>1, <1>3
  <2>2. cmds'[k] = cmds[k]
    BY <2>1
  <2>3. cmds[k].commands <= LastCommand(p)
    BY DEF PacketFits
  <2> QED
    BY <2>2, <2>3, Zenon
<1>8. LastCommand(p)' = LastCommand(p)
  BY DEF LastCommand
<1> QED
  BY <1>2, <1>3, <1>4, <1>5, <1>6, <1>7, <1>8, Zenon DEF PacketFits

\* So does a packet that differs from it only in what the network did.
LEMMA SameFits ==
  ASSUME NEW p, NEW q, PacketFits(p), q.first = p.first, q.commands = p.commands,
         q.from = p.from, q.upTo = p.upTo
  PROVE  PacketFits(q)
BY Zenon DEF PacketFits, LastCommand

-----------------------------------------------------------------------------
(* Sequences. *)

LEMMA TailElement ==
  ASSUME NEW S, NEW q \in Seq(S), q # <<>>
  PROVE  /\ Tail(q) \in Seq(S) /\ Head(q) \in S
         /\ 1 \in DOMAIN q /\ Head(q) = q[1]
         /\ \A k \in DOMAIN Tail(q) : k \in Int /\ k + 1 \in DOMAIN q /\ Tail(q)[k] = q[k + 1]
<1>1. Len(q) \in Nat /\ Len(q) # 0 /\ DOMAIN q = 1..Len(q)
  BY LenProperties, EmptySeq
<1>2. /\ Tail(q) \in Seq(S) /\ Head(q) \in S
      /\ Len(Tail(q)) = Len(q) - 1
      /\ \A k \in 1..Len(Tail(q)) : Tail(q)[k] = q[k + 1]
  BY HeadTailProperties
<1>3. DOMAIN Tail(q) = 1..(Len(q) - 1)
  BY <1>2, LenProperties
<1>4. 1 \in DOMAIN q /\ Head(q) = q[1]
  BY <1>1
<1>5. \A k \in DOMAIN Tail(q) : k \in Int /\ k + 1 \in DOMAIN q
  BY <1>1, <1>3
<1> QED
  BY <1>1, <1>2, <1>3, <1>4, <1>5

LEMMA AppendElement ==
  ASSUME NEW S, NEW q \in Seq(S), NEW e \in S
  PROVE  /\ Append(q, e) \in Seq(S)
         /\ Len(q) \in Nat /\ Len(Append(q, e)) = Len(q) + 1
         /\ DOMAIN q = 1..Len(q) /\ DOMAIN Append(q, e) = 1..Len(q) + 1
         /\ \A k \in 1..Len(q) : Append(q, e)[k] = q[k]
         /\ Append(q, e)[Len(q) + 1] = e
<1>1. /\ Append(q, e) \in Seq(S) /\ Len(Append(q, e)) = Len(q) + 1
      /\ \A k \in 1..Len(q) : Append(q, e)[k] = q[k]
      /\ Append(q, e)[Len(q) + 1] = e
  BY AppendProperties
<1> QED
  BY <1>1, LenProperties

\* Losing element n of a sequence.
LEMMA LoseElement ==
  ASSUME NEW S, NEW q \in Seq(S), NEW n \in DOMAIN q
  PROVE  /\ Without(q, n) \in Seq(S)
         /\ \A k \in DOMAIN Without(q, n) :
              /\ k \in Int
              /\ k < n => k \in DOMAIN q /\ Without(q, n)[k] = q[k]
              /\ ~(k < n) => k + 1 \in DOMAIN q /\ Without(q, n)[k] = q[k + 1]
<1>1. Len(q) \in Nat /\ DOMAIN q = 1..Len(q) /\ n \in 1..Len(q)
  BY LenProperties
<1> DEFINE a == SubSeq(q, 1, n - 1)
           b == SubSeq(q, n + 1, Len(q))
           part == Without(q, n)
<1>2. /\ a \in Seq(S) /\ Len(a) = n - 1
      /\ \A k \in 1..(n - 1) : a[k] = q[k]
  BY <1>1, SubSeqProperties
<1>3. /\ b \in Seq(S) /\ Len(b) = Len(q) - n
      /\ \A k \in 1..(Len(q) - n) : b[k] = q[k + n]
  BY <1>1, SubSeqProperties
<1>4. part = a \o b
  BY DEF Without
<1> HIDE DEF a, b, part
<1>5. /\ part \in Seq(S) /\ Len(part) = Len(a) + Len(b)
      /\ \A k \in 1..(Len(a) + Len(b)) :
           part[k] = IF k <= Len(a) THEN a[k] ELSE b[k - Len(a)]
  BY <1>2, <1>3, <1>4, ConcatProperties
<1>6. Len(part) = Len(q) - 1 /\ DOMAIN part = 1..(Len(q) - 1)
  <2>1. Len(a) + Len(b) = Len(q) - 1
    BY <1>1, <1>2, <1>3
  <2> QED
    BY <2>1, <1>5, LenProperties
<1>7. ASSUME NEW k \in DOMAIN part, k < n PROVE k \in DOMAIN q /\ part[k] = q[k]
  BY <1>7, <1>1, <1>2, <1>3, <1>5, <1>6
<1>8. ASSUME NEW k \in DOMAIN part, ~(k < n) PROVE k + 1 \in DOMAIN q /\ part[k] = q[k + 1]
  <2> DEFINE j == k - (n - 1)
  <2>1. j \in 1..(Len(q) - n) /\ j + n = k + 1 /\ k + 1 \in DOMAIN q
    BY <1>8, <1>1, <1>6
  <2>2. part[k] = b[j]
    BY <1>8, <1>1, <1>2, <1>3, <1>5, <1>6
  <2> HIDE DEF j
  <2> QED
    BY <2>1, <2>2, <1>3
<1> QED
  BY <1>5, <1>6, <1>7, <1>8 DEF part

-----------------------------------------------------------------------------
(* The client's steps. *)

\* Putting command n into its slot.
LEMMA StoreCommand ==
  ASSUME NEW c \in ClientConnection, NEW n \in Nat
  PROVE  LET d == [c EXCEPT !.reliableCommands[n % M] = n]
         IN  /\ d \in ClientConnection
             /\ d.state = c.state /\ d.reliableAcknowledge = c.reliableAcknowledge
             /\ d.overflowed = c.overflowed
             /\ d.reliableCommands = [c.reliableCommands EXCEPT ![n % M] = n]
<1>1. n % M \in Slots
  BY SlotType
<1> DEFINE ring == [c.reliableCommands EXCEPT ![n % M] = n]
           d == [c EXCEPT !.reliableCommands = ring]
<1>2. c.reliableCommands \in [Slots -> Nat]
  BY Zenon DEF ClientConnection
<1>3. ring \in [Slots -> Nat]
  BY <1>1, <1>2
<1>4. d = [c EXCEPT !.reliableCommands[n % M] = n]
  BY Zenon
<1> HIDE DEF ring
<1>5. d \in ClientConnection
  BY <1>3, Zenon DEF ClientConnection
<1>6. /\ d.state = c.state /\ d.reliableAcknowledge = c.reliableAcknowledge
      /\ d.overflowed = c.overflowed /\ d.reliableCommands = ring
  BY Zenon DEF ClientConnection
<1> HIDE DEF d
<1> QED
  BY <1>4, <1>5, <1>6, Zenon DEF ring

\* A ring that holds the last M of r commands holds the last M of r + 1 when
\* the next is put in.
LEMMA StoreKeeps ==
  ASSUME NEW r \in Nat, NEW ring \in [Slots -> Nat], NEW n \in 1..r + 1, n > r + 1 - M,
         n \in 1..r => ring[n % M] = n
  PROVE  [ring EXCEPT ![(r + 1) % M] = r + 1][n % M] = n
<1>0. M \in Nat
  BY RingAssumption DEF M
<1>1. n % M \in Slots /\ (r + 1) % M \in Slots
  BY SlotType
<1>2. CASE n = r + 1
  BY <1>1, <1>2
<1>3. CASE n # r + 1
  <2>1. n \in 1..r /\ n < r + 1 /\ r + 1 < n + M /\ n \in Int /\ r + 1 \in Int
    BY <1>0, <1>3
  <2>2. n % M # (r + 1) % M
    BY <2>1, SlotsDiffer
  <2> QED
    BY <1>1, <2>1, <2>2
<1> QED
  BY <1>2, <1>3

LEMMA AddStep ==
  ASSUME ClientCommandsInv, CL_AddReliableCommand
  PROVE  ClientCommandsInv'
<1>1. /\ TypeOK /\ RingInv /\ AcknowledgeInv /\ PacketInv /\ MoveInv /\ ExecutedInv
      /\ CommandsBeforeMoves
  BY DEF ClientCommandsInv
<1>2. reliableSequence \in Nat /\ M \in Nat /\ clc.reliableAcknowledge \in Nat /\ clc.reliableCommands \in [Slots -> Nat]
      /\ clc \in ClientConnection /\ added \in Seq(Kinds)
  BY <1>1, Numbers DEF TypeOK
<1>4. added' \in Seq(Kinds) /\ reliableSequence' = reliableSequence + 1
  <2>1. added' = Append(added, "game") /\ "game" \in Kinds
    BY DEF CL_AddReliableCommand, Kinds
  <2> QED
    BY <2>1, <1>2, AppendElement DEF reliableSequence
<1>3. /\ clc' \in ClientConnection
      /\ clc'.state = clc.state /\ clc'.reliableAcknowledge = clc.reliableAcknowledge
      /\ clc'.overflowed = clc.overflowed
      /\ clc'.reliableCommands =
           [clc.reliableCommands EXCEPT ![reliableSequence' % M] = reliableSequence']
  <2>1. /\ reliableSequence' \in Nat
        /\ clc' = [clc EXCEPT !.reliableCommands[reliableSequence' % M] = reliableSequence']
    BY <1>2, <1>4 DEF CL_AddReliableCommand
  <2> QED
    BY <2>1, <1>2, <1>4, StoreCommand
<1>5. UNCHANGED <<cmds, outPackets, cl, executed, thought, toServer, lostLast, toClient>>
  BY DEF CL_AddReliableCommand, serverVars
<1>6. Connected /\ Unacknowledged < M
  BY DEF CL_AddReliableCommand, Connected
<1>7. TypeOK'
  BY <1>1, <1>3, <1>4, <1>5 DEF TypeOK
<1>8. cmdNumber' = cmdNumber /\ Connected'
  BY <1>3, <1>5, <1>6, Zenon DEF cmdNumber, Connected
<1>9. RingInv'
  <2>1. ~clc'.overflowed
    BY <1>1, <1>3, <1>6, Zenon DEF RingInv
  <2>2. clc'.reliableAcknowledge <= cl'.lastClientCommand
    BY <1>1, <1>3, <1>5, <1>6 DEF RingInv
  <2>3. Unacknowledged' <= M
    BY <1>2, <1>3, <1>4, <1>6 DEF Unacknowledged
  <2>4. \A n \in 1..reliableSequence : n > reliableSequence - M => clc.reliableCommands[n % M] = n
    BY <1>1, <1>6, Zenon DEF RingInv
  <2>5. \A n \in 1..reliableSequence' :
          n > reliableSequence' - M => clc'.reliableCommands[n % M] = n
    <3> SUFFICES ASSUME NEW n \in 1..reliableSequence', n > reliableSequence' - M
                 PROVE  clc'.reliableCommands[n % M] = n
      OBVIOUS
    <3>1. /\ n \in 1..reliableSequence + 1 /\ n > reliableSequence + 1 - M
          /\ n \in 1..reliableSequence => n > reliableSequence - M
      BY <1>2, <1>4
    <3>2. n \in 1..reliableSequence => clc.reliableCommands[n % M] = n
      BY <3>1, <2>4
    <3>3. [clc.reliableCommands EXCEPT ![(reliableSequence + 1) % M] = reliableSequence + 1][n % M]
            = n
      BY <1>2, <3>1, <3>2, StoreKeeps
    <3> QED
      BY <1>3, <1>4, <3>3
  <2> QED
    BY <2>1, <2>2, <2>3, <2>5, Zenon DEF RingInv
<1>10. AcknowledgeInv'
  <2>1. cl.lastClientCommand <= reliableSequence /\ cl.lastClientCommand \in Nat
    BY <1>1, Numbers DEF AcknowledgeInv
  <2>2. cl'.lastClientCommand <= reliableSequence'
    BY <1>2, <1>4, <1>5, <2>1
  <2> QED
    BY <1>1, <1>3, <1>5, <1>6, <2>2, Zenon DEF AcknowledgeInv, Connected
<1>11. PacketInv'
  <2>1. SUFFICES ASSUME NEW i \in DOMAIN toServer PROVE PacketFits(toServer[i])'
    BY <1>5 DEF PacketInv
  <2>2. toServer[i] \in Packet /\ PacketFits(toServer[i])
    BY <1>1, ElementOfSeq, LenProperties DEF TypeOK, PacketInv
  <2>3. cl'.lastClientCommand = cl.lastClientCommand /\ cmds' = cmds /\ toServer' = toServer
    BY <1>5
  <2>4. /\ reliableSequence' \in Nat /\ cmdNumber' \in Nat /\ cl'.lastClientCommand \in Nat
        /\ cl.lastClientCommand <= cl'.lastClientCommand /\ cmdNumber <= cmdNumber'
        /\ reliableSequence <= reliableSequence'
    BY <1>1, <1>2, <1>4, <1>8, <2>3, Numbers
  <2>5. clc.overflowed => clc'.overflowed
    BY <1>3, Zenon
  <2> QED
    BY <1>1, <2>2, <2>3, <2>4, <2>5, StillFits
<1>12. MoveInv'
  <2>1. \A k \in DOMAIN cmds : cmds[k].commands <= reliableSequence + 1
    <3> SUFFICES ASSUME NEW k \in DOMAIN cmds PROVE cmds[k].commands <= reliableSequence + 1
      OBVIOUS
    <3>1. cmds[k] \in Usercmd /\ cmds[k].commands <= reliableSequence
      BY <1>1, Numbers DEF MoveInv
    <3> QED
      BY <3>1, <1>2 DEF Usercmd
  <2> QED
    BY <1>1, <1>4, <1>5, <1>8, <2>1, Zenon DEF MoveInv
<1>13. ExecutedInv'
  BY <1>1, <1>3, <1>5, Zenon DEF ExecutedInv
<1>14. CommandsBeforeMoves'
  BY <1>1, <1>5, Zenon DEF CommandsBeforeMoves
<1> QED
  BY <1>7, <1>9, <1>10, <1>11, <1>12, <1>13, <1>14 DEF ClientCommandsInv

LEMMA CreateStep ==
  ASSUME ClientCommandsInv, CL_CreateNewCommands
  PROVE  ClientCommandsInv'
<1>1. /\ TypeOK /\ RingInv /\ AcknowledgeInv /\ PacketInv /\ MoveInv /\ ExecutedInv
      /\ CommandsBeforeMoves
  BY DEF ClientCommandsInv
<1>2. UNCHANGED <<clc, outPackets, added, cl, executed, thought, toServer, lostLast, toClient>>
  BY DEF CL_CreateNewCommands, serverVars
<1>3. PICK e \in Usercmd : cmds' = Append(cmds, e) /\ e.commands = reliableSequence
  <2>1. PICK dt \in {0, 1} : cmds' = Append(cmds,
          [serverTime |-> dt + (IF cmds = <<>> THEN 0 ELSE cmds[cmdNumber].serverTime),
           commands |-> reliableSequence])
    BY DEF CL_CreateNewCommands
  <2> DEFINE time == dt + (IF cmds = <<>> THEN 0 ELSE cmds[cmdNumber].serverTime)
             e == [serverTime |-> time, commands |-> reliableSequence]
  <2>2. time \in Nat
    <3>1. CASE cmds = <<>>
      BY <3>1
    <3>2. CASE cmds # <<>>
      <4>1. cmdNumber \in 1..cmdNumber
        BY <1>1, <3>2, Numbers, EmptySeq DEF TypeOK, cmdNumber
      <4>2. cmds[cmdNumber] \in Usercmd
        BY <1>1, <4>1, Numbers
      <4>3. cmds[cmdNumber].serverTime \in Nat
        BY <4>2 DEF Usercmd
      <4> QED
        BY <3>2, <4>3
    <3> QED
      BY <3>1, <3>2
  <2>3. reliableSequence \in Nat
    BY <1>1, Numbers
  <2> HIDE DEF time
  <2>4. e \in Usercmd /\ e.commands = reliableSequence
    BY <2>2, <2>3 DEF Usercmd
  <2> QED
    BY <2>1, <2>4 DEF time
<1>4. /\ cmds' \in Seq(Usercmd) /\ cmdNumber \in Nat /\ cmdNumber' = cmdNumber + 1
      /\ DOMAIN cmds = 1..cmdNumber /\ DOMAIN cmds' = 1..cmdNumber + 1
      /\ \A k \in 1..cmdNumber : cmds'[k] = cmds[k]
      /\ cmds'[cmdNumber + 1] = e
  BY <1>1, <1>3, AppendElement DEF TypeOK, cmdNumber
<1>5. TypeOK'
  BY <1>1, <1>2, <1>4 DEF TypeOK
<1>6. reliableSequence' = reliableSequence /\ Unacknowledged' = Unacknowledged /\ Connected' = Connected
  BY <1>2 DEF reliableSequence, Unacknowledged, Connected
<1>7. RingInv' /\ AcknowledgeInv' /\ ExecutedInv'
  BY <1>1, <1>2, <1>6, Zenon DEF RingInv, AcknowledgeInv, ExecutedInv
<1>8. PacketInv'
  <2>1. SUFFICES ASSUME NEW i \in DOMAIN toServer PROVE PacketFits(toServer[i])'
    BY <1>2 DEF PacketInv
  <2>2. toServer[i] \in Packet /\ PacketFits(toServer[i])
    BY <1>1, ElementOfSeq, LenProperties DEF TypeOK, PacketInv
  <2>3. cl' = cl /\ clc' = clc /\ toServer' = toServer
    BY <1>2
  <2>4. /\ reliableSequence' \in Nat /\ cmdNumber' \in Nat /\ cl'.lastClientCommand \in Nat
        /\ cl.lastClientCommand <= cl'.lastClientCommand /\ cmdNumber <= cmdNumber'
        /\ reliableSequence <= reliableSequence'
    BY <1>1, <1>4, <1>6, <2>3, Numbers
  <2> QED
    BY <1>1, <1>4, <2>2, <2>3, <2>4, StillFits
<1>9. MoveInv'
  <2>1. \A k \in DOMAIN cmds' : cmds'[k].commands <= reliableSequence'
    <3> SUFFICES ASSUME NEW k \in 1..cmdNumber + 1 PROVE cmds'[k].commands <= reliableSequence
      BY <1>4, <1>6
    <3>1. CASE k = cmdNumber + 1
      <4>1. reliableSequence \in Nat
        BY <1>1, Numbers
      <4> QED
        BY <1>3, <1>4, <3>1, <4>1
    <3>2. CASE k # cmdNumber + 1
      <4>1. k \in 1..cmdNumber
        BY <1>4, <3>2
      <4> QED
        BY <1>1, <1>4, <4>1 DEF MoveInv
    <3> QED
      BY <3>1, <3>2
  <2>2. \A k \in DOMAIN outPackets' : outPackets'[k] <= cmdNumber'
    <3> SUFFICES ASSUME NEW k \in DOMAIN outPackets PROVE outPackets[k] <= cmdNumber + 1
      BY <1>2, <1>4
    <3>1. outPackets[k] \in Nat /\ outPackets[k] <= cmdNumber
      BY <1>1, ElementOfSeq, LenProperties DEF TypeOK, MoveInv
    <3> QED
      BY <3>1, <1>4
  <2>3. \A i \in DOMAIN thought' : thought'[i].moves \subseteq 1..cmdNumber'
    BY <1>1, <1>2, <1>4 DEF MoveInv
  <2> QED
    BY <1>1, <1>2, <2>1, <2>2, <2>3, Zenon DEF MoveInv
<1>10. CommandsBeforeMoves'
  <2> SUFFICES ASSUME NEW i \in DOMAIN thought, NEW k \in thought[i].moves
               PROVE  cmds'[k].commands <= thought[i].commands
    BY <1>2 DEF CommandsBeforeMoves
  <2>1. k \in 1..cmdNumber
    BY <1>1 DEF MoveInv
  <2> QED
    BY <1>1, <1>4, <2>1 DEF CommandsBeforeMoves
<1> QED
  BY <1>5, <1>7, <1>8, <1>9, <1>10 DEF ClientCommandsInv

LEMMA ParseStep ==
  ASSUME ClientCommandsInv, CL_ParseServerMessage
  PROVE  ClientCommandsInv'
<1> DEFINE h == Head(toClient)
<1>1. /\ TypeOK /\ RingInv /\ AcknowledgeInv /\ PacketInv /\ MoveInv /\ ExecutedInv
      /\ CommandsBeforeMoves
  BY DEF ClientCommandsInv
<1>2. UNCHANGED <<cmds, outPackets, added, cl, executed, thought, toServer, lostLast>>
  BY DEF CL_ParseServerMessage, serverVars
<1>3. /\ reliableSequence \in Nat /\ M \in Nat /\ clc.reliableAcknowledge \in Nat
      /\ cl.lastClientCommand \in Nat /\ clc \in ClientConnection
  BY <1>1, Numbers DEF TypeOK
<1>4. /\ toClient' \in Seq(Nat) /\ h \in Nat /\ 1 \in DOMAIN toClient /\ h = toClient[1]
      /\ \A k \in DOMAIN toClient' :
           k \in Int /\ k + 1 \in DOMAIN toClient /\ toClient'[k] = toClient[k + 1]
  BY <1>1, TailElement DEF TypeOK, CL_ParseServerMessage
<1>5. h <= cl.lastClientCommand /\ (Connected => clc.reliableAcknowledge <= h)
  BY <1>1, <1>4 DEF AcknowledgeInv
<1>6. /\ clc' \in ClientConnection /\ clc'.state = clc.state
      /\ clc'.reliableCommands = clc.reliableCommands /\ clc'.overflowed = clc.overflowed
      /\ Connected => clc'.reliableAcknowledge = h
  <2>1. CASE clc.state = "CA_DISCONNECTED"
    <3>1. clc' = clc
      BY <2>1 DEF CL_ParseServerMessage
    <3> QED
      BY <1>3, <2>1, <3>1, Zenon DEF Connected
  <2>2. CASE clc.state # "CA_DISCONNECTED"
    <3>1. Unacknowledged <= M
      BY <1>1, <2>2 DEF RingInv, Connected
    <3>2. ~(h < reliableSequence - M)
      BY <1>3, <1>4, <1>5, <2>2, <3>1 DEF Unacknowledged, Connected
    <3>3. clc' = [clc EXCEPT !.reliableAcknowledge = h]
      BY <2>2, <3>2 DEF CL_ParseServerMessage
    <3> HIDE DEF h
    <3> QED
      BY <1>3, <1>4, <3>3, Zenon DEF ClientConnection
  <2> QED
    BY <2>1, <2>2
<1> HIDE DEF h
<1>7. TypeOK'
  BY <1>1, <1>2, <1>4, <1>6 DEF TypeOK
<1>8. /\ reliableSequence' = reliableSequence /\ cmdNumber' = cmdNumber /\ Connected' = Connected
      /\ cl' = cl
  BY <1>2, <1>6, Zenon DEF reliableSequence, cmdNumber, Connected
<1>9. RingInv'
  <2> SUFFICES ASSUME Connected PROVE RingInv'
    BY <1>8, Zenon DEF RingInv
  <2>1. Unacknowledged' <= M
    BY <1>1, <1>3, <1>4, <1>5, <1>6, <1>8 DEF Unacknowledged, RingInv
  <2>2. clc'.reliableAcknowledge <= cl'.lastClientCommand
    BY <1>5, <1>6, <1>8
  <2> QED
    BY <1>1, <1>6, <1>8, <2>1, <2>2, Zenon DEF RingInv
<1>10. AcknowledgeInv'
  <2>1. ASSUME NEW k \in DOMAIN toClient'
        PROVE  /\ toClient'[k] <= cl.lastClientCommand
               /\ Connected => h <= toClient'[k]
    <3>1. k + 1 \in DOMAIN toClient /\ toClient'[k] = toClient[k + 1] /\ k + 1 \in Int /\ 1 <= k + 1
      BY <1>1, <1>4, LenProperties DEF TypeOK
    <3>2. toClient[1] <= toClient[k + 1]
      BY <1>1, <1>4, <3>1 DEF AcknowledgeInv
    <3> QED
      BY <1>1, <1>4, <3>1, <3>2 DEF AcknowledgeInv
  <2>2. ASSUME NEW k \in DOMAIN toClient', NEW j \in DOMAIN toClient', k <= j
        PROVE  toClient'[k] <= toClient'[j]
    <3>1. k + 1 <= j + 1
      BY <1>4, <2>2
    <3> QED
      BY <1>1, <1>4, <3>1 DEF AcknowledgeInv
  <2>3. \A k \in DOMAIN toClient' : Connected => clc'.reliableAcknowledge <= toClient'[k]
    BY <1>6, <2>1, Zenon
  <2> QED
    BY <1>1, <1>8, <2>1, <2>2, <2>3, Zenon DEF AcknowledgeInv
<1>11. PacketInv'
  <2>1. SUFFICES ASSUME NEW i \in DOMAIN toServer PROVE PacketFits(toServer[i])'
    BY <1>2 DEF PacketInv
  <2>2. PacketFits(toServer[i]) /\ toServer' = toServer /\ cmds' = cmds
    BY <1>1, <1>2 DEF PacketInv
  <2> QED
    BY <1>6, <1>8, <2>2, Zenon DEF PacketFits, LastCommand
<1>12. MoveInv' /\ ExecutedInv' /\ CommandsBeforeMoves'
  BY <1>1, <1>2, <1>6, <1>8, Zenon DEF MoveInv, ExecutedInv, CommandsBeforeMoves
<1> QED
  BY <1>7, <1>9, <1>10, <1>11, <1>12 DEF ClientCommandsInv

-----------------------------------------------------------------------------
(* The network's steps, and what the server does of itself. *)

LEMMA SendMessageStep ==
  ASSUME ClientCommandsInv, SV_SendMessage
  PROVE  ClientCommandsInv'
<1>1. /\ TypeOK /\ RingInv /\ AcknowledgeInv /\ PacketInv /\ MoveInv /\ ExecutedInv
      /\ CommandsBeforeMoves
  BY DEF ClientCommandsInv
<1>2. UNCHANGED <<clc, cmds, outPackets, added, cl, executed, thought, toServer, lostLast>>
  BY DEF SV_SendMessage, clientVars, serverVars
<1>3. cl.lastClientCommand \in Nat /\ toClient \in Seq(Nat)
  BY <1>1, Numbers DEF TypeOK
<1>4. /\ toClient' \in Seq(Nat) /\ Len(toClient) \in Nat
      /\ DOMAIN toClient = 1..Len(toClient) /\ DOMAIN toClient' = 1..Len(toClient) + 1
      /\ \A k \in 1..Len(toClient) : toClient'[k] = toClient[k]
      /\ toClient'[Len(toClient) + 1] = cl.lastClientCommand
  BY <1>3, AppendElement DEF SV_SendMessage
<1>5. TypeOK'
  BY <1>1, <1>2, <1>4 DEF TypeOK
<1>6. /\ reliableSequence' = reliableSequence /\ cmdNumber' = cmdNumber /\ Connected' = Connected
      /\ Unacknowledged' = Unacknowledged
  BY <1>2 DEF reliableSequence, cmdNumber, Connected, Unacknowledged
<1>7. RingInv' /\ MoveInv' /\ ExecutedInv' /\ CommandsBeforeMoves'
  BY <1>1, <1>2, <1>6, Zenon DEF RingInv, MoveInv, ExecutedInv, CommandsBeforeMoves
<1>8. PacketInv'
  BY <1>1, <1>2, <1>6, Zenon DEF PacketInv, PacketFits, LastCommand
<1>9. AcknowledgeInv'
  <2>1. ASSUME NEW k \in DOMAIN toClient'
        PROVE  /\ toClient'[k] <= cl.lastClientCommand
               /\ Connected => clc.reliableAcknowledge <= toClient'[k]
    <3>1. CASE k = Len(toClient) + 1
      BY <1>1, <1>3, <1>4, <3>1 DEF RingInv
    <3>2. CASE k # Len(toClient) + 1
      <4>1. k \in 1..Len(toClient)
        BY <1>4, <3>2
      <4> QED
        BY <1>1, <1>4, <4>1 DEF AcknowledgeInv
    <3> QED
      BY <3>1, <3>2
  <2>2. ASSUME NEW k \in DOMAIN toClient', NEW j \in DOMAIN toClient', k <= j
        PROVE  toClient'[k] <= toClient'[j]
    <3>1. CASE j = Len(toClient) + 1
      BY <1>4, <2>1, <3>1
    <3>2. CASE j # Len(toClient) + 1
      <4>1. k \in 1..Len(toClient) /\ j \in 1..Len(toClient)
        BY <1>4, <2>2, <3>2
      <4> QED
        BY <1>1, <1>4, <2>2, <4>1 DEF AcknowledgeInv
    <3> QED
      BY <3>1, <3>2
  <2> QED
    BY <1>1, <1>2, <1>6, <2>1, <2>2, Zenon DEF AcknowledgeInv
<1> QED
  BY <1>5, <1>7, <1>8, <1>9 DEF ClientCommandsInv

\* Only the server's state of the client changes.
LEMMA DropStep ==
  ASSUME ClientCommandsInv, NEW c \in ClientT, cl' = c,
         c.lastClientCommand = cl.lastClientCommand,
         UNCHANGED <<clientVars, executed, thought, toServer, lostLast, toClient>>
  PROVE  ClientCommandsInv'
<1>1. /\ TypeOK /\ RingInv /\ AcknowledgeInv /\ PacketInv /\ MoveInv /\ ExecutedInv
      /\ CommandsBeforeMoves
  BY DEF ClientCommandsInv
<1>2. /\ UNCHANGED <<clc, cmds, outPackets, added, executed, thought, toServer, lostLast, toClient>>
      /\ cl'.lastClientCommand = cl.lastClientCommand
  BY DEF clientVars
<1>3. TypeOK'
  BY <1>1, <1>2 DEF TypeOK
<1>4. /\ reliableSequence' = reliableSequence /\ cmdNumber' = cmdNumber /\ Connected' = Connected
      /\ Unacknowledged' = Unacknowledged
  BY <1>2 DEF reliableSequence, cmdNumber, Connected, Unacknowledged
<1>5. RingInv' /\ AcknowledgeInv' /\ MoveInv' /\ ExecutedInv' /\ CommandsBeforeMoves'
  BY <1>1, <1>2, <1>4, Zenon
  DEF RingInv, AcknowledgeInv, MoveInv, ExecutedInv, CommandsBeforeMoves
<1>6. PacketInv'
  BY <1>1, <1>2, <1>4, Zenon DEF PacketInv, PacketFits, LastCommand
<1> QED
  BY <1>3, <1>5, <1>6 DEF ClientCommandsInv

LEMMA DropType ==
  ASSUME NEW c \in ClientT
  PROVE  /\ Drop(c) \in ClientT /\ Drop(c).lastClientCommand = c.lastClientCommand
         /\ Drop(c).state = "CS_ZOMBIE"
<1>1. Drop(c) \in ClientT
  BY Zenon DEF Drop, ClientT
<1>2. Drop(c).lastClientCommand = c.lastClientCommand /\ Drop(c).state = "CS_ZOMBIE"
  BY Zenon DEF Drop, ClientT
<1> QED
  BY <1>1, <1>2

\* Only packets are lost, and those left come one after the other as before.
LEMMA LosePacketStep ==
  ASSUME ClientCommandsInv, NEW i \in DOMAIN toServer, LosePacket(i),
         UNCHANGED <<clientVars, serverVars, toClient>>
  PROVE  ClientCommandsInv'
<1>1. /\ TypeOK /\ RingInv /\ AcknowledgeInv /\ PacketInv /\ MoveInv /\ ExecutedInv
      /\ CommandsBeforeMoves
  BY DEF ClientCommandsInv
<1>2. UNCHANGED <<clc, cmds, outPackets, added, cl, executed, thought, toClient>>
  BY DEF clientVars, serverVars
<1>3. /\ toServer \in Seq(Packet) /\ Len(toServer) \in Nat /\ DOMAIN toServer = 1..Len(toServer)
      /\ \A k \in 1..Len(toServer) : toServer[k] \in Packet
      /\ lostLast \in Nat
  BY <1>1, LenProperties, ElementOfSeq DEF TypeOK
<1>4. \A n \in Nat : Count(n) \in Nat
  BY MovesAssumption DEF Count, MaxLost
<1>5. toServer[i].lost \in Nat
  BY <1>3 DEF Packet
<1>6. ASSUME NEW k \in 1..Len(toServer) - 1
      PROVE  \E j \in 1..Len(toServer) :
               /\ toServer'[k] \in Packet
               /\ toServer'[k].first = toServer[j].first
               /\ toServer'[k].commands = toServer[j].commands
               /\ toServer'[k].from = toServer[j].from
               /\ toServer'[k].upTo = toServer[j].upTo
  <2>1. k \in 1..Len(toServer) /\ k + 1 \in 1..Len(toServer) /\ i \in Int
    BY <1>3
  <2>2. CASE k < i
    <3>1. toServer'[k] = toServer[k]
      BY <2>2 DEF LosePacket
    <3> QED
      BY <1>3, <2>1, <3>1, Zenon
  <2>3. CASE k = i
    <3> DEFINE p == toServer[k + 1]
               n == Count(p.lost + toServer[i].lost + 1)
    <3>1. toServer'[k] = [p EXCEPT !.lost = n]
      <4>1. toServer'[k] = [toServer[k + 1] EXCEPT !.lost = Count(@ + toServer[i].lost + 1)]
        BY <2>3 DEF LosePacket
      <4> QED
        BY <4>1, Zenon
    <3>2. p \in Packet
      BY <1>3, <2>1
    <3>3. n \in Nat
      <4>1. p.lost \in Nat
        BY <3>2, PacketNumbers
      <4>2. p.lost + toServer[i].lost + 1 \in Nat
        BY <1>5, <4>1
      <4> HIDE DEF p
      <4> QED
        BY <1>4, <4>2, Zenon
    <3> HIDE DEF n, p
    <3>4. /\ [p EXCEPT !.lost = n] \in Packet
          /\ [p EXCEPT !.lost = n].first = p.first /\ [p EXCEPT !.lost = n].commands = p.commands
          /\ [p EXCEPT !.lost = n].from = p.from /\ [p EXCEPT !.lost = n].upTo = p.upTo
      BY <3>2, <3>3, Zenon DEF Packet
    <3> QED
      BY <2>1, <3>1, <3>4, Zenon DEF p
  <2>4. CASE k > i
    <3>1. toServer'[k] = toServer[k + 1]
      BY <1>3, <2>1, <2>4 DEF LosePacket
    <3> QED
      BY <1>3, <2>1, <3>1, Zenon
  <2> QED
    BY <2>1, <2>2, <2>3, <2>4
<1>7. DOMAIN toServer' = 1..Len(toServer) - 1 /\ toServer' \in Seq(Packet)
  <2>1. DOMAIN toServer' = 1..Len(toServer) - 1 /\ toServer' = [k \in 1..Len(toServer) - 1 |-> toServer'[k]]
    BY DEF LosePacket
  <2>2. Len(toServer) - 1 \in Nat
    BY <1>3
  <2>3. \A k \in 1..Len(toServer) - 1 : toServer'[k] \in Packet
    BY <1>6, Zenon
  <2>4. toServer' \in [1..Len(toServer) - 1 -> Packet]
    BY <2>1, <2>3, Zenon
  <2> QED
    BY <2>1, <2>2, <2>4, SeqDef, Zenon
<1>8. lostLast' \in Nat
  <2>1. Count(lostLast + toServer[i].lost + 1) \in Nat
    <3>1. lostLast + toServer[i].lost + 1 \in Nat
      BY <1>3, <1>5
    <3> QED
      BY <1>4, <3>1, Zenon
  <2> QED
    BY <1>3, <2>1 DEF LosePacket
<1>9. TypeOK'
  BY <1>1, <1>2, <1>7, <1>8 DEF TypeOK
<1>10. /\ reliableSequence' = reliableSequence /\ cmdNumber' = cmdNumber /\ Connected' = Connected
       /\ Unacknowledged' = Unacknowledged
  BY <1>2 DEF reliableSequence, cmdNumber, Connected, Unacknowledged
<1>11. RingInv' /\ AcknowledgeInv' /\ MoveInv' /\ ExecutedInv' /\ CommandsBeforeMoves'
  BY <1>1, <1>2, <1>10, Zenon
  DEF RingInv, AcknowledgeInv, MoveInv, ExecutedInv, CommandsBeforeMoves
<1>12. PacketInv'
  <2>1. \A k \in DOMAIN toServer' : PacketFits(toServer'[k])
    <3> SUFFICES ASSUME NEW k \in 1..Len(toServer) - 1 PROVE PacketFits(toServer'[k])
      BY <1>7
    <3>1. PICK j \in 1..Len(toServer) :
            /\ toServer'[k].first = toServer[j].first
            /\ toServer'[k].commands = toServer[j].commands
            /\ toServer'[k].from = toServer[j].from
            /\ toServer'[k].upTo = toServer[j].upTo
      BY <1>6
    <3>2. PacketFits(toServer[j])
      BY <1>1, <1>3, <3>1 DEF PacketInv
    <3> QED
      BY <3>1, <3>2, SameFits
  <2> QED
    BY <2>1, <1>2, <1>10, Zenon DEF PacketInv, PacketFits, LastCommand
<1> QED
  BY <1>9, <1>11, <1>12 DEF ClientCommandsInv

LEMMA LoseAcknowledgementStep ==
  ASSUME ClientCommandsInv, NEW i \in DOMAIN toClient, toClient' = Without(toClient, i),
         UNCHANGED <<clientVars, serverVars, toServer, lostLast>>
  PROVE  ClientCommandsInv'
<1>1. /\ TypeOK /\ RingInv /\ AcknowledgeInv /\ PacketInv /\ MoveInv /\ ExecutedInv
      /\ CommandsBeforeMoves
  BY DEF ClientCommandsInv
<1>2. UNCHANGED <<clc, cmds, outPackets, added, cl, executed, thought, toServer, lostLast>>
  BY DEF clientVars, serverVars
<1>3. /\ toClient' \in Seq(Nat) /\ DOMAIN toClient = 1..Len(toClient) /\ Len(toClient) \in Nat
      /\ \A k \in DOMAIN toClient' :
           /\ k \in Int
           /\ k < i => k \in DOMAIN toClient /\ toClient'[k] = toClient[k]
           /\ ~(k < i) => k + 1 \in DOMAIN toClient /\ toClient'[k] = toClient[k + 1]
  BY <1>1, LoseElement, LenProperties DEF TypeOK
<1>4. TypeOK'
  BY <1>1, <1>2, <1>3 DEF TypeOK
<1>5. /\ reliableSequence' = reliableSequence /\ cmdNumber' = cmdNumber /\ Connected' = Connected
      /\ Unacknowledged' = Unacknowledged
  BY <1>2 DEF reliableSequence, cmdNumber, Connected, Unacknowledged
<1>6. RingInv' /\ MoveInv' /\ ExecutedInv' /\ CommandsBeforeMoves'
  BY <1>1, <1>2, <1>5, Zenon DEF RingInv, MoveInv, ExecutedInv, CommandsBeforeMoves
<1>7. PacketInv'
  BY <1>1, <1>2, <1>5, Zenon DEF PacketInv, PacketFits, LastCommand
<1>8. AcknowledgeInv'
  <2>1. ASSUME NEW k \in DOMAIN toClient'
        PROVE  /\ toClient'[k] <= cl.lastClientCommand
               /\ Connected => clc.reliableAcknowledge <= toClient'[k]
    BY <1>1, <1>3 DEF AcknowledgeInv
  <2>2. ASSUME NEW k \in DOMAIN toClient', NEW j \in DOMAIN toClient', k <= j
        PROVE  toClient'[k] <= toClient'[j]
    <3> DEFINE before(n) == IF n < i THEN n ELSE n + 1
    <3>1. k \in Int /\ j \in Int /\ i \in Int
      BY <1>3
    <3>2. before(k) <= before(j)
      BY <2>2, <3>1
    <3>3. ASSUME NEW n \in DOMAIN toClient'
          PROVE  before(n) \in DOMAIN toClient /\ toClient'[n] = toClient[before(n)]
      BY <1>3, <3>3, Zenon
    <3>4. \A a, b \in DOMAIN toClient : a <= b => toClient[a] <= toClient[b]
      BY <1>1, Zenon DEF AcknowledgeInv
    <3> HIDE DEF before
    <3>5. toClient[before(k)] <= toClient[before(j)]
      BY <3>2, <3>3, <3>4, Zenon
    <3> QED
      BY <3>3, <3>5, Zenon
  <2> QED
    BY <1>1, <1>2, <1>5, <2>1, <2>2, Zenon DEF AcknowledgeInv
<1> QED
  BY <1>4, <1>6, <1>7, <1>8 DEF ClientCommandsInv

-----------------------------------------------------------------------------
(* Packets. *)

\* The packet that CL_WritePacket builds of n commands: it follows on what is
\* acknowledged, goes on to the last one, and each of its commands is what the
\* ring holds for its number.
LEMMA NewPacketHas ==
  ASSUME TypeOK, NEW n \in Nat, clc.reliableAcknowledge <= n, NEW ring \in [Slots -> Nat],
         NEW sent, sent[1] \in Nat, sent[1] <= cmdNumber, NEW lost \in Nat
  PROVE  LET p == NewPacket(n, ring, sent, lost)
         IN  /\ p \in Packet
             /\ p.first = clc.reliableAcknowledge + 1
             /\ LastCommand(p) = n
             /\ p.from <= p.upTo /\ p.upTo = cmdNumber
             /\ \A k \in DOMAIN p.commands :
                  /\ p.first + k - 1 \in clc.reliableAcknowledge + 1..n
                  /\ p.commands[k] = ring[(p.first + k - 1) % M]
<1> DEFINE p == NewPacket(n, ring, sent, lost)
           first == FirstCommand
           count == cmdNumber - FirstMove(sent)
           clipped == count > MAX_PACKET_USERCMDS
           commands == [k \in 1..(n - first + 1) |-> ring[(first + k - 1) % M]]
           from == IF clipped THEN cmdNumber - MAX_PACKET_USERCMDS ELSE FirstMove(sent)
<1>1. /\ cmdNumber \in Nat /\ clc.reliableAcknowledge \in Nat /\ MAX_PACKET_USERCMDS \in Nat
      /\ FirstMove(sent) \in Nat /\ FirstMove(sent) <= cmdNumber
  BY Numbers, MovesAssumption DEF FirstMove
<1>2. first \in Nat \ {0} /\ first = clc.reliableAcknowledge + 1 /\ n - first + 1 \in Nat
  BY <1>1 DEF FirstCommand
<1>3. from \in Nat /\ from <= cmdNumber
  BY <1>1
<1>4. clipped \in BOOLEAN
  <2>1. count \in Int
    BY <1>1
  <2> HIDE DEF count
  <2> QED
    BY <2>1, <1>1
<1>5. p = [first |-> first, commands |-> commands, from |-> from, upTo |-> cmdNumber,
           clipped |-> clipped, lost |-> lost]
  BY DEF NewPacket
<1> HIDE DEF first, clipped, from, p
<1>6. /\ commands \in Seq(Nat) /\ Len(commands) = n - first + 1
      /\ DOMAIN commands = 1..(n - first + 1)
  <2>1. \A k \in 1..(n - first + 1) : ring[(first + k - 1) % M] \in Nat
    <3> SUFFICES ASSUME NEW k \in 1..(n - first + 1) PROVE ring[(first + k - 1) % M] \in Nat
      OBVIOUS
    <3>1. first + k - 1 \in Int
      BY <1>2
    <3>2. (first + k - 1) % M \in Slots
      BY <3>1, SlotType
    <3> QED
      BY <3>2
  <2>2. commands \in [1..(n - first + 1) -> Nat]
    BY <2>1, Zenon
  <2> HIDE DEF commands
  <2>3. commands \in Seq(Nat)
    BY <1>2, <2>2, SeqDef
  <2>4. DOMAIN commands = 1..(n - first + 1)
    BY <2>2
  <2> QED
    BY <1>2, <2>3, <2>4, LenProperties
<1>7. \A k \in 1..(n - first + 1) : /\ commands[k] = ring[(first + k - 1) % M]
                                    /\ first + k - 1 \in clc.reliableAcknowledge + 1..n
  <2>1. \A k \in 1..(n - first + 1) : commands[k] = ring[(first + k - 1) % M]
    BY Zenon
  <2>2. \A k \in 1..(n - first + 1) : first + k - 1 \in clc.reliableAcknowledge + 1..n
    BY <1>1, <1>2
  <2> QED
    BY <2>1, <2>2, Zenon
<1> HIDE DEF commands
<1>8. p \in Packet
  BY <1>1, <1>2, <1>3, <1>4, <1>5, <1>6, Zenon DEF Packet
<1>9. p.first = first /\ p.commands = commands /\ p.from = from /\ p.upTo = cmdNumber
  BY <1>5, Zenon
<1>10. LastCommand(p) = n
  BY <1>2, <1>6, <1>9 DEF LastCommand
<1>11. \A k \in DOMAIN p.commands : /\ p.first + k - 1 \in clc.reliableAcknowledge + 1..n
                                    /\ p.commands[k] = ring[(p.first + k - 1) % M]
  BY <1>6, <1>7, <1>9, Zenon
<1> QED
  BY <1>2, <1>3, <1>8, <1>9, <1>10, <1>11, Zenon DEF p

\* Numbers M apart share a slot.
LEMMA SlotsSame ==
  ASSUME NEW a \in Int
  PROVE  (a + M) % M = a % M
<1> DEFINE b == a + M
           q == a \div M
           r == b \div M
<1>1. M \in Int /\ M > 0 /\ b \in Int
  BY RingAssumption
<1>2. q \in Int /\ r \in Int /\ a % M \in 0..M - 1 /\ b % M \in 0..M - 1
  BY <1>1
<1>3. a = M * q + (a % M) /\ b = M * r + (b % M)
  BY <1>1
<1>4. b = a + M
  OBVIOUS
<1> HIDE DEF b, q, r
<1> DEFINE d == r - q - 1
<1>5. d \in Int /\ (a % M) - (b % M) = M * d
  BY <1>1, <1>2, <1>3, <1>4
<1> HIDE DEF d
<1>6. CASE d >= 1
  <2>1. M * d >= M
    BY <1>1, <1>5, <1>6
  <2> QED
    BY <2>1, <1>1, <1>2, <1>5
<1>7. CASE d <= -1
  <2>1. M * d <= -M
    BY <1>1, <1>5, <1>7
  <2> QED
    BY <2>1, <1>1, <1>2, <1>5
<1>8. CASE d = 0
  <2>1. M * d = 0
    BY <1>1, <1>8
  <2> QED
    BY <2>1, <1>2, <1>5 DEF b
<1> QED
  BY <1>5, <1>6, <1>7, <1>8

\* The packets before the next one are as many, and no newer than the moves.
LEMMA SentHas ==
  ASSUME TypeOK, NEW sent \in Seq(Nat), Len(sent) = cl_packetdup + 1,
         \A k \in DOMAIN sent : sent[k] <= cmdNumber
  PROVE  /\ Sent(sent) \in Seq(Nat) /\ Len(Sent(sent)) = cl_packetdup + 1
         /\ \A k \in DOMAIN Sent(sent) : Sent(sent)[k] <= cmdNumber
         /\ sent[1] \in Nat /\ sent[1] <= cmdNumber
<1>1. cmdNumber \in Nat /\ cl_packetdup \in Nat
  BY Numbers, MovesAssumption
<1>2. sent # <<>> /\ DOMAIN sent = 1..cl_packetdup + 1
  BY <1>1, LenProperties, EmptySeq
<1>3. /\ Tail(sent) \in Seq(Nat) /\ Len(Tail(sent)) = cl_packetdup
      /\ \A k \in 1..cl_packetdup : Tail(sent)[k] = sent[k + 1]
  BY <1>1, <1>2, HeadTailProperties
<1>4. /\ Sent(sent) \in Seq(Nat) /\ Len(Sent(sent)) = cl_packetdup + 1
      /\ DOMAIN Sent(sent) = 1..cl_packetdup + 1
      /\ \A k \in 1..cl_packetdup : Sent(sent)[k] = Tail(sent)[k]
      /\ Sent(sent)[cl_packetdup + 1] = cmdNumber
  BY <1>1, <1>3, AppendElement DEF Sent
<1>5. ASSUME NEW k \in 1..cl_packetdup + 1 PROVE Sent(sent)[k] <= cmdNumber
  <2>1. CASE k = cl_packetdup + 1
    BY <1>1, <1>4, <2>1
  <2>2. CASE k # cl_packetdup + 1
    <3>1. k \in 1..cl_packetdup /\ k + 1 \in DOMAIN sent
      BY <1>1, <1>2, <2>2
    <3> QED
      BY <1>3, <1>4, <3>1
  <2> QED
    BY <2>1, <2>2
<1>6. 1 \in DOMAIN sent /\ sent[1] \in Nat
  BY <1>1, <1>2, ElementOfSeq
<1> QED
  BY <1>4, <1>5, <1>6

LEMMA WriteStep ==
  ASSUME ClientCommandsInv, CL_WritePacket
  PROVE  ClientCommandsInv'
<1> DEFINE p == NewPacket(reliableSequence, clc.reliableCommands, outPackets, lostLast)
<1>1. /\ TypeOK /\ RingInv /\ AcknowledgeInv /\ PacketInv /\ MoveInv /\ ExecutedInv
      /\ CommandsBeforeMoves
  BY DEF ClientCommandsInv
<1>2. UNCHANGED <<clc, cmds, added, cl, executed, thought, toClient>>
  BY DEF CL_WritePacket, serverVars
<1>3. /\ reliableSequence \in Nat /\ M \in Nat /\ clc.reliableAcknowledge \in Nat
      /\ cl.lastClientCommand \in Nat /\ clc.reliableCommands \in [Slots -> Nat]
      /\ cmdNumber \in Nat /\ lostLast \in Nat
      /\ DOMAIN cmds = 1..cmdNumber /\ \A k \in 1..cmdNumber : cmds[k] \in Usercmd
  BY <1>1, Numbers DEF TypeOK
<1>4. /\ outPackets' \in Seq(Nat) /\ Len(outPackets') = cl_packetdup + 1
      /\ \A k \in DOMAIN outPackets' : outPackets'[k] <= cmdNumber
      /\ outPackets[1] \in Nat /\ outPackets[1] <= cmdNumber
  BY <1>1, SentHas DEF TypeOK, MoveInv, CL_WritePacket
<1>5. /\ Connected /\ Unacknowledged <= M /\ clc.reliableAcknowledge <= cl.lastClientCommand
      /\ \A n \in 1..reliableSequence :
           n > reliableSequence - M => clc.reliableCommands[n % M] = n
  BY <1>1, Zenon DEF CL_WritePacket, Connected, RingInv
<1>6. clc.reliableAcknowledge <= reliableSequence
  BY <1>1, <1>3, <1>5 DEF AcknowledgeInv
<1>7. /\ p \in Packet
      /\ p.first = clc.reliableAcknowledge + 1
      /\ LastCommand(p) = reliableSequence
      /\ p.from <= p.upTo /\ p.upTo = cmdNumber
      /\ \A k \in DOMAIN p.commands :
           /\ p.first + k - 1 \in clc.reliableAcknowledge + 1..reliableSequence
           /\ p.commands[k] = clc.reliableCommands[(p.first + k - 1) % M]
  BY <1>1, <1>3, <1>4, <1>6, NewPacketHas
<1> HIDE DEF p
<1>8. p.from \in Nat /\ p.upTo \in Nat
  BY <1>7, PacketNumbers
<1>9. PacketFits(p)
  <2>1. p.first <= cl.lastClientCommand + 1
    BY <1>3, <1>5, <1>7
  <2>2. \A k \in DOMAIN p.commands :
          p.commands[k] = p.first + k - 1 /\ p.commands[k] \in 1..reliableSequence
    <3> SUFFICES ASSUME NEW k \in DOMAIN p.commands
                 PROVE  p.commands[k] = p.first + k - 1 /\ p.commands[k] \in 1..reliableSequence
      OBVIOUS
    <3> DEFINE j == p.first + k - 1
    <3>1. j \in clc.reliableAcknowledge + 1..reliableSequence
      BY <1>7
    <3>2. p.commands[k] = clc.reliableCommands[j % M]
      BY <1>7
    <3> HIDE DEF j
    <3>3. j \in 1..reliableSequence /\ j > reliableSequence - M
      BY <1>3, <1>5, <3>1 DEF Unacknowledged
    <3>4. p.commands[k] = j
      BY <1>5, <3>2, <3>3
    <3> QED
      BY <3>3, <3>4 DEF j
  <2>3. \A k \in p.from + 1..p.upTo : cmds[k].commands <= LastCommand(p)
    <3> SUFFICES ASSUME NEW k \in p.from + 1..p.upTo PROVE cmds[k].commands <= LastCommand(p)
      OBVIOUS
    <3>1. k \in DOMAIN cmds
      BY <1>3, <1>7, <1>8
    <3> QED
      BY <1>1, <1>7, <3>1 DEF MoveInv
  <2>4. p.upTo <= cmdNumber /\ LastCommand(p) <= reliableSequence
    BY <1>3, <1>7
  <2> QED
    BY <1>7, <2>1, <2>2, <2>3, <2>4, Zenon DEF PacketFits
<1>10. /\ toServer' \in Seq(Packet) /\ Len(toServer) \in Nat
       /\ DOMAIN toServer = 1..Len(toServer) /\ DOMAIN toServer' = 1..Len(toServer) + 1
       /\ \A k \in 1..Len(toServer) : toServer'[k] = toServer[k]
       /\ toServer'[Len(toServer) + 1] = p
  <2>1. toServer' = Append(toServer, p) /\ toServer \in Seq(Packet)
    BY <1>1 DEF CL_WritePacket, TypeOK, p
  <2> QED
    BY <1>7, <2>1, AppendElement
<1>11. TypeOK'
  <2>1. lostLast' \in Nat
    BY DEF CL_WritePacket
  <2> QED
    BY <1>1, <1>2, <1>4, <1>10, <2>1 DEF TypeOK
<1>12. /\ reliableSequence' = reliableSequence /\ cmdNumber' = cmdNumber /\ Connected' = Connected
       /\ Unacknowledged' = Unacknowledged
  BY <1>2 DEF reliableSequence, cmdNumber, Connected, Unacknowledged
<1>13. RingInv' /\ AcknowledgeInv' /\ ExecutedInv' /\ CommandsBeforeMoves'
  BY <1>1, <1>2, <1>12, Zenon DEF RingInv, AcknowledgeInv, ExecutedInv, CommandsBeforeMoves
<1>14. MoveInv'
  BY <1>1, <1>2, <1>4, <1>12, Zenon DEF MoveInv
<1>15. PacketInv'
  <2>1. ASSUME NEW k \in DOMAIN toServer' PROVE PacketFits(toServer'[k])
    <3>1. CASE k = Len(toServer) + 1
      BY <1>9, <1>10, <3>1
    <3>2. CASE k # Len(toServer) + 1
      <4>1. k \in DOMAIN toServer /\ toServer'[k] = toServer[k]
        BY <1>10, <3>2
      <4> QED
        BY <1>1, <4>1, Zenon DEF PacketInv
    <3> QED
      BY <3>1, <3>2
  <2> QED
    BY <2>1, <1>2, <1>12, Zenon DEF PacketInv, PacketFits, LastCommand
<1> QED
  BY <1>11, <1>13, <1>14, <1>15 DEF ClientCommandsInv

\* A ring that holds the last M of r commands, and then the next one, holds for
\* each number of the last M + 1 some command, and its own after r + 1 - M.
LEMMA OverfullRing ==
  ASSUME NEW r \in Nat, NEW ring \in [Slots -> Nat],
         \A n \in 1..r : n > r - M => ring[n % M] = n,
         NEW j \in 1..r + 1, j >= r + 1 - M
  PROVE  /\ [ring EXCEPT ![(r + 1) % M] = r + 1][j % M] \in 1..r + 1
         /\ j > r + 1 - M => [ring EXCEPT ![(r + 1) % M] = r + 1][j % M] = j
<1> DEFINE next == [ring EXCEPT ![(r + 1) % M] = r + 1]
<1>1. M \in Nat \ {0} /\ j \in Int /\ r + 1 \in 1..r + 1
  BY RingAssumption DEF M
<1>2. CASE j > r + 1 - M
  <2>1. j \in 1..r => ring[j % M] = j
    BY <1>1, <1>2
  <2>2. next[j % M] = j
    BY <1>2, <2>1, StoreKeeps
  <2> QED
    BY <2>2
<1>3. CASE ~(j > r + 1 - M)
  <2>1. j + M = r + 1
    BY <1>1, <1>3
  <2>2. (r + 1) % M = j % M
    BY <1>1, <2>1, SlotsSame
  <2>3. j % M \in Slots
    BY <1>1, SlotType
  <2>4. next[j % M] = r + 1
    BY <2>2, <2>3
  <2> QED
    BY <1>1, <1>3, <2>4
<1> QED
  BY <1>2, <1>3

LEMMA DisconnectStep ==
  ASSUME ClientCommandsInv, CL_Disconnect
  PROVE  ClientCommandsInv'
<1> DEFINE n == reliableSequence + 1
           ring == [clc.reliableCommands EXCEPT ![n % M] = n]
           p1 == NewPacket(n, ring, outPackets, lostLast)
           p2 == NewPacket(n, ring, Sent(outPackets), 0)
           p3 == NewPacket(n, ring, Sent(Sent(outPackets)), 0)
           Good(p) == /\ p \in Packet
                      /\ p.first = clc.reliableAcknowledge + 1
                      /\ LastCommand(p) = n
                      /\ p.from <= p.upTo /\ p.upTo = cmdNumber
                      /\ \A k \in DOMAIN p.commands :
                           /\ p.first + k - 1 \in clc.reliableAcknowledge + 1..n
                           /\ p.commands[k] = ring[(p.first + k - 1) % M]
<1>1. /\ TypeOK /\ RingInv /\ AcknowledgeInv /\ PacketInv /\ MoveInv /\ ExecutedInv
      /\ CommandsBeforeMoves
  BY DEF ClientCommandsInv
<1>2. UNCHANGED <<cmds, outPackets, cl, executed, thought, toClient>>
  BY DEF CL_Disconnect, serverVars
<1>3. /\ reliableSequence \in Nat /\ M \in Nat /\ clc.reliableAcknowledge \in Nat
      /\ cl.lastClientCommand \in Nat /\ clc.reliableCommands \in [Slots -> Nat]
      /\ cmdNumber \in Nat /\ lostLast \in Nat
      /\ DOMAIN cmds = 1..cmdNumber /\ \A k \in 1..cmdNumber : cmds[k] \in Usercmd
  BY <1>1, Numbers DEF TypeOK
<1>4. /\ Connected /\ Unacknowledged <= M /\ clc.reliableAcknowledge <= cl.lastClientCommand
      /\ \A k \in 1..reliableSequence :
           k > reliableSequence - M => clc.reliableCommands[k % M] = k
      /\ ~clc.overflowed
  BY <1>1, Zenon DEF CL_Disconnect, Connected, RingInv
<1>5. clc.reliableAcknowledge <= n /\ n \in Nat /\ clc.reliableAcknowledge <= reliableSequence
  BY <1>1, <1>3, <1>4 DEF AcknowledgeInv
<1>6. ring \in [Slots -> Nat]
  <2>1. n % M \in Slots
    BY <1>5, SlotType
  <2> QED
    BY <1>3, <1>5, <2>1
<1>7. added' \in Seq(Kinds) /\ reliableSequence' = n
  <2>1. added' = Append(added, "disconnect") /\ "disconnect" \in Kinds /\ added \in Seq(Kinds)
    BY <1>1 DEF CL_Disconnect, Kinds, TypeOK
  <2> QED
    BY <2>1, AppendElement DEF reliableSequence
<1>8. toServer' = toServer \o <<p1, p2, p3>>
  BY DEF CL_Disconnect, LastPackets
<1>9. /\ clc' \in ClientConnection /\ clc'.state = "CA_DISCONNECTED"
      /\ clc'.overflowed = (Unacknowledged >= M)
  <2> DEFINE none == [s \in Slots |-> 0]
             over == Unacknowledged >= M
  <2>1. clc' = [state |-> "CA_DISCONNECTED", reliableAcknowledge |-> 0,
                reliableCommands |-> none, overflowed |-> over]
    BY DEF CL_Disconnect
  <2>2. none \in [Slots -> Nat] /\ over \in BOOLEAN
    BY <1>3 DEF Unacknowledged
  <2> HIDE DEF none, over
  <2>3. clc' \in ClientConnection
    BY <2>1, <2>2, Zenon DEF ClientConnection
  <2>4. clc'.state = "CA_DISCONNECTED" /\ clc'.overflowed = over
    BY <2>1, Zenon
  <2> QED
    BY <2>3, <2>4, Zenon DEF over
<1>10. Good(p1) /\ Good(p2) /\ Good(p3)
  <2>1. outPackets \in Seq(Nat) /\ Len(outPackets) = cl_packetdup + 1
        /\ \A k \in DOMAIN outPackets : outPackets[k] <= cmdNumber
    BY <1>1 DEF TypeOK, MoveInv
  <2> DEFINE s1 == Sent(outPackets)
             s2 == Sent(s1)
  <2>2. /\ outPackets[1] \in Nat /\ outPackets[1] <= cmdNumber
        /\ s1 \in Seq(Nat) /\ Len(s1) = cl_packetdup + 1
        /\ \A k \in DOMAIN s1 : s1[k] <= cmdNumber
    BY <1>1, <2>1, SentHas
  <2> HIDE DEF s1
  <2>3. /\ s1[1] \in Nat /\ s1[1] <= cmdNumber
        /\ s2 \in Seq(Nat) /\ Len(s2) = cl_packetdup + 1
        /\ \A k \in DOMAIN s2 : s2[k] <= cmdNumber
    BY <1>1, <2>2, SentHas
  <2> HIDE DEF s2
  <2>4. s2[1] \in Nat /\ s2[1] <= cmdNumber
    BY <1>1, <2>3, SentHas
  <2> HIDE DEF n, ring
  <2>5. Good(NewPacket(n, ring, outPackets, lostLast))
    <3>1. lostLast \in Nat /\ outPackets[1] \in Nat /\ outPackets[1] <= cmdNumber
      BY <1>3, <2>2
    <3> QED
      BY <1>1, <1>5, <1>6, <3>1, NewPacketHas
  <2>6. Good(NewPacket(n, ring, s1, 0))
    BY <1>1, <1>5, <1>6, <2>3, NewPacketHas, SMTT(60)
  <2>7. Good(NewPacket(n, ring, s2, 0))
    BY <1>1, <1>5, <1>6, <2>4, NewPacketHas, SMTT(60)
  <2> QED
    BY <2>5, <2>6, <2>7 DEF s1, s2
<1> HIDE DEF p1, p2, p3
<1>11. ASSUME NEW p, Good(p) PROVE PacketFits(p)'
  <2>1. p.first <= cl'.lastClientCommand + 1
    BY <1>2, <1>3, <1>4, <1>11
  <2>2. ASSUME NEW k \in DOMAIN p.commands
        PROVE  /\ p.commands[k] \in 1..n
               /\ ~clc'.overflowed => p.commands[k] = p.first + k - 1
    <3> DEFINE j == p.first + k - 1
    <3>1. j \in clc.reliableAcknowledge + 1..n /\ p.commands[k] = ring[j % M]
      BY <1>11
    <3> HIDE DEF j
    <3>0. /\ reliableSequence \in Nat /\ M \in Nat /\ clc.reliableAcknowledge \in Nat
          /\ Unacknowledged = reliableSequence - clc.reliableAcknowledge
      BY <1>3 DEF Unacknowledged
    <3>2. j \in 1..n /\ j >= n - M
      BY <1>3, <1>4, <1>5, <3>1 DEF Unacknowledged
    <3>3. p.commands[k] \in 1..n /\ (j > n - M => p.commands[k] = j)
      <4>0. clc.reliableCommands \in [Slots -> Nat]
        BY <1>3
      <4>1. j \in 1..reliableSequence + 1 /\ j >= reliableSequence + 1 - M
        BY <3>0, <3>2
      <4>2. \A i \in 1..reliableSequence :
              i > reliableSequence - M => clc.reliableCommands[i % M] = i
        BY <1>4, Zenon
      <4>3. ring[j % M] \in 1..n /\ (j > n - M => ring[j % M] = j)
        BY <3>0, <4>0, <4>1, <4>2, OverfullRing
      <4> HIDE DEF Good
      <4> QED
        BY <3>1, <4>3, Zenon
    <3>4. ~clc'.overflowed => j > n - M
      <4>1. ~clc'.overflowed => ~(Unacknowledged >= M)
        BY <1>9
      <4>2. ~(Unacknowledged >= M) => j > n - M
        BY <3>0, <3>1
      <4> QED
        BY <4>1, <4>2, Zenon
    <3> QED
      BY <3>3, <3>4, Zenon DEF j
  <2>3. ASSUME NEW k \in p.from + 1..p.upTo PROVE cmds'[k].commands <= LastCommand(p)
    <3>1. p.from \in Nat /\ p.upTo = cmdNumber /\ LastCommand(p) = n
      BY <1>11, PacketNumbers
    <3>2. k \in DOMAIN cmds /\ cmds[k] \in Usercmd
      BY <1>3, <3>1
    <3>3. cmds[k].commands <= reliableSequence /\ cmds[k].commands \in Nat
      BY <1>1, <3>2 DEF MoveInv, Usercmd
    <3> QED
      BY <1>2, <1>3, <3>1, <3>3
  <2>4. p.from <= p.upTo /\ p.upTo <= cmdNumber' /\ LastCommand(p) <= reliableSequence'
    <3>1. cmdNumber' = cmdNumber
      BY <1>2 DEF cmdNumber
    <3> QED
      BY <1>3, <1>5, <1>7, <1>11, <3>1
  <2>5. LastCommand(p)' = LastCommand(p)
    BY DEF LastCommand
  <2> HIDE DEF n
  <2> QED
    BY <1>7, <2>1, <2>2, <2>3, <2>4, <2>5, Zenon DEF PacketFits
<1>12. /\ toServer' \in Seq(Packet) /\ Len(toServer) \in Nat
       /\ DOMAIN toServer = 1..Len(toServer) /\ DOMAIN toServer' = 1..Len(toServer) + 3
       /\ \A k \in 1..Len(toServer) : toServer'[k] = toServer[k]
       /\ \A k \in Len(toServer) + 1..Len(toServer) + 3 : toServer'[k] \in {p1, p2, p3}
  <2> DEFINE last == <<p1, p2, p3>>
  <2>1. toServer \in Seq(Packet) /\ p1 \in Packet /\ p2 \in Packet /\ p3 \in Packet
    BY <1>1, <1>10 DEF TypeOK
  <2>2. last \in Seq(Packet) /\ Len(last) = 3 /\ \A k \in 1..3 : last[k] \in {p1, p2, p3}
    BY <2>1
  <2> HIDE DEF last
  <2>3. /\ toServer' \in Seq(Packet) /\ Len(toServer') = Len(toServer) + Len(last)
        /\ \A k \in 1..(Len(toServer) + Len(last)) :
             toServer'[k] = IF k <= Len(toServer) THEN toServer[k] ELSE last[k - Len(toServer)]
    BY <1>8, <2>1, <2>2, ConcatProperties DEF last
  <2>4. /\ Len(toServer) \in Nat /\ DOMAIN toServer = 1..Len(toServer)
        /\ DOMAIN toServer' = 1..Len(toServer')
    BY <2>1, <2>3, LenProperties
  <2> QED
    BY <2>2, <2>3, <2>4
<1>13. TypeOK'
  <2>1. lostLast' \in Nat
    BY DEF CL_Disconnect
  <2> QED
    BY <1>1, <1>2, <1>7, <1>9, <1>12, <2>1 DEF TypeOK
<1>14. cmdNumber' = cmdNumber /\ ~Connected'
  BY <1>2, <1>9, Zenon DEF cmdNumber, Connected
<1>15. RingInv'
  BY <1>14, Zenon DEF RingInv
<1>16. AcknowledgeInv'
  <2>1. cl'.lastClientCommand <= reliableSequence'
    BY <1>1, <1>2, <1>3, <1>7 DEF AcknowledgeInv
  <2> QED
    BY <1>1, <1>2, <1>14, <2>1, Zenon DEF AcknowledgeInv
<1>17. PacketInv'
  <2>1. ASSUME NEW k \in DOMAIN toServer'
        PROVE  \E q : toServer'[k] = q /\ PacketFits(q)'
    <3>1. CASE k \in 1..Len(toServer)
      <4>1. PICK q \in Packet : q = toServer[k]
        BY <1>1, <1>12, <3>1, ElementOfSeq DEF TypeOK
      <4>2. PacketFits(q) /\ toServer'[k] = q
        BY <1>1, <1>12, <3>1, <4>1 DEF PacketInv
      <4>3. /\ reliableSequence' \in Nat /\ cmdNumber' \in Nat /\ cl'.lastClientCommand \in Nat
            /\ cl.lastClientCommand <= cl'.lastClientCommand /\ cmdNumber <= cmdNumber'
            /\ reliableSequence <= reliableSequence' /\ cmds' = cmds
        BY <1>2, <1>3, <1>7, <1>14
      <4>4. PacketFits(q)'
        BY <1>1, <1>4, <4>2, <4>3, StillFits
      <4> QED
        BY <4>2, <4>4
    <3>2. CASE k \in Len(toServer) + 1..Len(toServer) + 3
      <4>1. PICK q \in {p1, p2, p3} : toServer'[k] = q
        BY <1>12, <3>2
      <4>2. PacketFits(q)'
        BY <1>10, <1>11, <4>1
      <4> QED
        BY <4>1, <4>2
    <3> QED
      BY <1>12, <3>1, <3>2
  <2> SUFFICES ASSUME NEW k \in DOMAIN toServer' PROVE PacketFits(toServer[k])'
    BY DEF PacketInv
  <2>2. PICK q : toServer'[k] = q /\ PacketFits(q)'
    BY <2>1
  <2> QED
    BY <2>2, Zenon DEF PacketFits, LastCommand
<1>18. MoveInv'
  <2>1. \A k \in DOMAIN cmds : cmds[k].commands <= n
    <3> SUFFICES ASSUME NEW k \in DOMAIN cmds PROVE cmds[k].commands <= n
      OBVIOUS
    <3>1. cmds[k] \in Usercmd /\ cmds[k].commands <= reliableSequence
      BY <1>1, <1>3 DEF MoveInv
    <3> QED
      BY <3>1, <1>3 DEF Usercmd
  <2> HIDE DEF n
  <2> QED
    BY <1>1, <1>2, <1>7, <1>14, <2>1, Zenon DEF MoveInv
<1>19. ExecutedInv' /\ CommandsBeforeMoves'
  BY <1>1, <1>2, <1>4, Zenon DEF ExecutedInv, CommandsBeforeMoves
<1> QED
  BY <1>13, <1>15, <1>16, <1>17, <1>18, <1>19 DEF ClientCommandsInv


-----------------------------------------------------------------------------
(* The server's step. *)

\* The client after the commands of a packet.
LEMMA HeardType ==
  ASSUME NEW p, NEW last \in Nat, cl \in ClientT
  PROVE  Heard(p, last) \in ClientT /\ Heard(p, last).lastClientCommand = last
<1> DEFINE missed == cl.missed \/ (cl.state = "CS_ACTIVE" /\ (p.clipped \/ p.lost > cl_packetdup))
<1>1. missed \in BOOLEAN
  OBVIOUS
<1>2. Heard(p, last) = [cl EXCEPT !.lastClientCommand = last, !.missed = missed]
  BY DEF Heard
<1> HIDE DEF missed
<1> QED
  BY <1>1, <1>2, Zenon DEF ClientT

\* The moves of a packet are executed after commands that were added before
\* them, if done commands were executed by then.
LEMMA UserMoveKeeps ==
  ASSUME TypeOK, NEW c \in ClientT, NEW p \in Packet, NEW done \in Nat,
         p.from <= p.upTo, p.upTo <= cmdNumber,
         \A k \in p.from + 1..p.upTo : cmds[k].commands <= done,
         \A i \in DOMAIN thought : thought[i].moves \subseteq 1..cmdNumber,
         CommandsBeforeMoves,
         SV_UserMove(c, p, done), cmds' = cmds
  PROVE  /\ cl' \in ClientT /\ cl'.lastClientCommand = c.lastClientCommand
         /\ thought' \in Seq(Thought)
         /\ \A i \in DOMAIN thought' : thought'[i].moves \subseteq 1..cmdNumber
         /\ CommandsBeforeMoves'
<1>1. CASE p.upTo = p.from
  <2>1. cl' = c /\ thought' = thought
    BY <1>1 DEF SV_UserMove
  <2>2. thought \in Seq(Thought)
    BY DEF TypeOK
  <2>3. CommandsBeforeMoves'
    BY <2>1, Zenon DEF CommandsBeforeMoves
  <2> QED
    BY <2>1, <2>2, <2>3
<1>2. CASE p.upTo # p.from
  <2> DEFINE first == p.from + 1
             entering == c.state = "CS_PRIMED"
             last == IF entering THEN Time(first) ELSE c.lastUsercmd
             made == {k \in first..p.upTo :
                        /\ Time(k) <= Time(p.upTo)
                        /\ IsNew(last, k)
                        /\ \A j \in first..k - 1 : Time(j) # Time(k)}
             now == IF Time(p.upTo) > last THEN Time(p.upTo) ELSE last
             since == IF entering THEN last ELSE c.entered
             thinks == [moves |-> made, commands |-> done]
  <2>1. /\ cl' = [c EXCEPT !.state = "CS_ACTIVE", !.entered = since, !.lastUsercmd = now]
        /\ thought' = IF made = {} THEN thought ELSE Append(thought, thinks)
    BY <1>2, Zenon DEF SV_UserMove
  <2>2. first \in 1..cmdNumber /\ p.upTo \in 1..cmdNumber /\ p.from \in Nat /\ cmdNumber \in Nat
    BY <1>2, Numbers, PacketNumbers
  <2>3. Time(first) \in Nat /\ Time(p.upTo) \in Nat
    BY <2>2, Numbers DEF Time, Usercmd
  <2>4. last \in Nat /\ since \in Nat
    BY <2>3 DEF ClientT
  <2>5. now \in Nat
    BY <2>3, <2>4
  <2>6. made \subseteq first..p.upTo
    OBVIOUS
  <2>7. made \subseteq 1..cmdNumber
    BY <2>2, <2>6
  <2> HIDE DEF made, now, since, last, first
  <2>8. cl' \in ClientT /\ cl'.lastClientCommand = c.lastClientCommand
    BY <2>1, <2>4, <2>5, Zenon DEF ClientT
  <2>9. thought \in Seq(Thought)
    BY DEF TypeOK
  <2>10. CASE made = {}
    <3>1. thought' = thought
      BY <2>1, <2>10
    <3> QED
      BY <2>8, <2>9, <3>1, Zenon DEF CommandsBeforeMoves
  <2>11. CASE made # {}
    <3>1. thinks \in Thought
      <4>1. made \in SUBSET Nat
        BY <2>2, <2>7
      <4> QED
        BY <4>1, Zenon DEF Thought
    <3>2. thinks.moves = made /\ thinks.commands = done
      OBVIOUS
    <3> HIDE DEF thinks
    <3>3. thought' = Append(thought, thinks)
      BY <2>1, <2>11
    <3>4. /\ thought' \in Seq(Thought) /\ Len(thought) \in Nat
          /\ DOMAIN thought = 1..Len(thought) /\ DOMAIN thought' = 1..Len(thought) + 1
          /\ \A i \in 1..Len(thought) : thought'[i] = thought[i]
          /\ thought'[Len(thought) + 1] = thinks
      BY <2>9, <3>1, <3>3, AppendElement
    <3>5. \A k \in made : cmds[k].commands <= done
      BY <2>6, Zenon DEF first
    <3>6. \A i \in DOMAIN thought' : i # Len(thought) + 1 => i \in DOMAIN thought
      BY <3>4
    <3>7. \A i \in DOMAIN thought' : thought'[i].moves \subseteq 1..cmdNumber
      BY <2>7, <3>2, <3>4, <3>6, Zenon
    <3>8. ASSUME NEW i \in DOMAIN thought', NEW k \in thought'[i].moves
          PROVE  cmds'[k].commands <= thought'[i].commands
      <4>1. CASE i = Len(thought) + 1
        BY <3>2, <3>4, <3>5, <4>1, <3>8, Zenon
      <4>2. CASE i # Len(thought) + 1
        BY <3>4, <3>6, <4>2, <3>8, Zenon DEF CommandsBeforeMoves
      <4> QED
        BY <4>1, <4>2
    <3>9. CommandsBeforeMoves'
      BY <3>8, Zenon DEF CommandsBeforeMoves
    <3> QED
      BY <2>8, <3>4, <3>7, <3>9
  <2> QED
    BY <2>10, <2>11
<1> QED
  BY <1>1, <1>2


\* A packet that fits makes the server execute the next commands, in order, and
\* then moves that were made before any other command.
LEMMA ExecuteKeeps ==
  ASSUME TypeOK, AcknowledgeInv, MoveInv, ExecutedInv, CommandsBeforeMoves,
         NEW p \in Packet, PacketFits(p), SV_ExecuteClientMessage(p), UNCHANGED clientVars
  PROVE  /\ cl' \in ClientT
         /\ cl.lastClientCommand <= cl'.lastClientCommand
         /\ cl'.lastClientCommand <= reliableSequence
         /\ executed' \in Seq(Nat) /\ Len(executed') = cl'.lastClientCommand
         /\ ~clc.overflowed => \A n \in DOMAIN executed' : executed'[n] = n
         /\ thought' \in Seq(Thought)
         /\ \A i \in DOMAIN thought' : thought'[i].moves \subseteq 1..cmdNumber
         /\ CommandsBeforeMoves'
<1> DEFINE had == cl.lastClientCommand
           next == IF p.first > NextCommand THEN p.first ELSE NextCommand
           all == IF LastCommand(p) >= next THEN LastCommand(p) ELSE had
           Text(n) == p.commands[n - p.first + 1]
           IsEnd(n) == n >= next /\ added[Text(n)] = "disconnect"
           new(last) == [k \in 1..(last - next + 1) |-> Text(next + k - 1)]
<1>1. /\ had \in Nat /\ reliableSequence \in Nat /\ cmdNumber \in Nat
      /\ p.first \in Nat \ {0} /\ p.from \in Nat /\ p.upTo \in Nat /\ LastCommand(p) \in Nat
      /\ p.commands \in Seq(Nat) /\ Len(p.commands) \in Nat
      /\ DOMAIN p.commands = 1..Len(p.commands)
      /\ LastCommand(p) = p.first + Len(p.commands) - 1
  BY Numbers, PacketNumbers DEF LastCommand
<1>2. p.first <= had + 1 /\ LastCommand(p) <= reliableSequence /\ had <= reliableSequence
  BY <1>1 DEF PacketFits, AcknowledgeInv
<1>3. next = had + 1 /\ NextCommand = had + 1
  BY <1>1, <1>2 DEF NextCommand
<1>4. all \in Nat /\ had <= all /\ all <= reliableSequence /\ LastCommand(p) <= all
  BY <1>1, <1>2, <1>3
<1>5. PICK last \in had..all :
        /\ last = all \/ IsEnd(last)
        /\ executed' = executed \o new(last)
        /\ IF IsEnd(last) THEN cl' = Drop(Heard(p, last)) /\ UNCHANGED thought
           ELSE SV_UserMove(Heard(p, last), p, Len(executed'))
  <2>1. ~(next > had + 1)
    BY <1>1, <1>3
  <2>2. \E last \in had..all :
          /\ last = all \/ IsEnd(last)
          /\ executed' = executed \o new(last)
          /\ IF IsEnd(last) THEN cl' = Drop(Heard(p, last)) /\ UNCHANGED thought
             ELSE SV_UserMove(Heard(p, last), p, Len(executed \o new(last)))
    BY <2>1, Zenon DEF SV_ExecuteClientMessage
  <2> QED
    BY <2>2, Zenon
<1>6. last \in Nat /\ had <= last /\ last <= all
  BY <1>1, <1>4
<1>7. Heard(p, last) \in ClientT /\ Heard(p, last).lastClientCommand = last
  BY <1>6, HeardType DEF TypeOK
<1> DEFINE ext == new(last)
<1>8. /\ ext \in Seq(Nat) /\ Len(ext) = last - had /\ DOMAIN ext = 1..(last - had)
      /\ \A k \in 1..(last - had) :
           /\ had + k - p.first + 1 \in DOMAIN p.commands
           /\ ext[k] = p.commands[had + k - p.first + 1]
  <2>1. last - next + 1 = last - had /\ last - had \in Nat
    BY <1>1, <1>3, <1>6
  <2>2. ASSUME NEW k \in 1..(last - had) PROVE had + k - p.first + 1 \in DOMAIN p.commands
    <3>1. all = LastCommand(p)
      BY <1>1, <1>3, <1>6
    <3>2. last <= p.first + Len(p.commands) - 1
      BY <3>1, <1>1, <1>6
    <3>3. /\ p.first <= had + 1 /\ had \in Nat /\ last \in Nat /\ p.first \in Nat
          /\ Len(p.commands) \in Nat /\ k \in Int /\ 1 <= k /\ k <= last - had
      BY <1>1, <1>2, <1>6
    <3>4. had + k - p.first + 1 \in 1..Len(p.commands)
      <4> HIDE DEF had, next, all
      <4> QED
        BY <3>2, <3>3
    <3> QED
      BY <3>4, <1>1
  <2>3. ASSUME NEW k \in 1..(last - had)
        PROVE  Text(next + k - 1) = p.commands[had + k - p.first + 1]
    <3>1. had \in Int /\ p.first \in Int /\ k \in Int /\ next = had + 1
      BY <1>1, <1>3, <2>1
    <3> HIDE DEF had, next
    <3>2. (next + k - 1) - p.first + 1 = had + k - p.first + 1
      BY <3>1
    <3> QED
      BY <3>2
  <2>4. ext = [k \in 1..(last - had) |-> p.commands[had + k - p.first + 1]]
    BY <2>1, <2>3
  <2>5. \A k \in 1..(last - had) : p.commands[had + k - p.first + 1] \in Nat
    BY <1>1, <2>2, ElementOfSeq
  <2> HIDE DEF new
  <2> QED
    BY <2>1, <2>2, <2>4, <2>5
<1> HIDE DEF new, ext
<1>9. /\ executed \in Seq(Nat) /\ Len(executed) = had /\ DOMAIN executed = 1..had
  <2>1. executed \in Seq(Nat) /\ Len(executed) = had
    BY DEF TypeOK, ExecutedInv
  <2> QED
    BY <2>1, LenProperties
<1>10. /\ executed' \in Seq(Nat) /\ Len(executed') = last /\ DOMAIN executed' = 1..last
       /\ \A n \in 1..last : executed'[n] = IF n <= had THEN executed[n] ELSE ext[n - had]
  <2>1. executed' = executed \o ext
    BY <1>5 DEF ext
  <2>2. /\ executed' \in Seq(Nat) /\ Len(executed') = Len(executed) + Len(ext)
        /\ \A n \in 1..(Len(executed) + Len(ext)) :
             executed'[n] = IF n <= Len(executed) THEN executed[n] ELSE ext[n - Len(executed)]
    BY <2>1, <1>8, <1>9, ConcatProperties
  <2>3. Len(executed) + Len(ext) = last
    BY <1>1, <1>6, <1>8, <1>9
  <2>4. DOMAIN executed' = 1..Len(executed')
    BY <2>2, LenProperties
  <2> QED
    BY <2>2, <2>3, <2>4, <1>9
<1>11. ASSUME ~clc.overflowed, NEW n \in DOMAIN executed' PROVE executed'[n] = n
  <2>1. n \in 1..last
    BY <1>10
  <2>2. CASE n <= had
    <3>1. n \in DOMAIN executed
      BY <1>1, <1>9, <2>1, <2>2
    <3>2. executed[n] = n
      BY <1>11, <3>1, Zenon DEF ExecutedInv
    <3> QED
      BY <1>10, <2>1, <2>2, <3>2
  <2>3. CASE ~(n <= had)
    <3> DEFINE k == n - had
               i == had + k - p.first + 1
    <3>1. k \in 1..(last - had) /\ p.first + i - 1 = n
      BY <1>1, <1>6, <2>1, <2>3
    <3>2. executed'[n] = ext[k]
      BY <1>10, <2>1, <2>3
    <3>3. i \in DOMAIN p.commands /\ ext[k] = p.commands[i]
      BY <3>1, <1>8
    <3> HIDE DEF k, i
    <3>4. p.commands[i] = p.first + i - 1
      BY <1>11, <3>3, Zenon DEF PacketFits
    <3> QED
      BY <3>1, <3>2, <3>3, <3>4
  <2> QED
    BY <2>2, <2>3
<1>12. cmds' = cmds
  BY DEF clientVars
<1>13. /\ cl' \in ClientT /\ cl'.lastClientCommand = last
       /\ thought' \in Seq(Thought)
       /\ \A i \in DOMAIN thought' : thought'[i].moves \subseteq 1..cmdNumber
       /\ CommandsBeforeMoves'
  <2>1. CASE IsEnd(last)
    <3>1. cl' = Drop(Heard(p, last)) /\ thought' = thought
      BY <1>5, <2>1
    <3>2. cl' \in ClientT /\ cl'.lastClientCommand = last
      BY <1>7, <3>1, DropType
    <3>3. thought \in Seq(Thought) /\ \A i \in DOMAIN thought : thought[i].moves \subseteq 1..cmdNumber
      BY DEF TypeOK, MoveInv
    <3>4. CommandsBeforeMoves'
      BY <1>12, <3>1, Zenon DEF CommandsBeforeMoves
    <3> QED
      BY <3>1, <3>2, <3>3, <3>4
  <2>2. CASE ~IsEnd(last)
    <3>1. last = all /\ SV_UserMove(Heard(p, last), p, Len(executed'))
      BY <1>5, <2>2, Zenon
    <3>2. SV_UserMove(Heard(p, last), p, last)
      BY <3>1, <1>10
    <3>3. p.from <= p.upTo /\ p.upTo <= cmdNumber
      BY DEF PacketFits
    <3>4. ASSUME NEW k \in p.from + 1..p.upTo PROVE cmds[k].commands <= last
      <4>1. k \in 1..cmdNumber
        BY <1>1, <3>3
      <4>2. cmds[k].commands \in Nat
        BY <4>1, Numbers DEF Usercmd
      <4>3. cmds[k].commands <= LastCommand(p)
        BY DEF PacketFits
      <4> QED
        BY <4>2, <4>3, <3>1, <1>1, <1>4
    <3>5. \A i \in DOMAIN thought : thought[i].moves \subseteq 1..cmdNumber
      BY DEF MoveInv
    <3> HIDE DEF all, IsEnd
    <3>6. last \in Nat
      BY <1>6
    <3>7. /\ cl' \in ClientT /\ cl'.lastClientCommand = Heard(p, last).lastClientCommand
          /\ thought' \in Seq(Thought)
          /\ \A i \in DOMAIN thought' : thought'[i].moves \subseteq 1..cmdNumber
          /\ CommandsBeforeMoves'
      BY <1>7, <1>12, <3>2, <3>3, <3>4, <3>5, <3>6, UserMoveKeeps
    <3> QED
      BY <3>7, <1>7
  <2> QED
    BY <2>1, <2>2
<1>14. had <= cl'.lastClientCommand /\ cl'.lastClientCommand <= reliableSequence
  BY <1>1, <1>4, <1>6, <1>13
<1> QED
  BY <1>10, <1>11, <1>13, <1>14


\* Whatever packet comes first, it moves the server on.
LEMMA PacketEventExecutes ==
  ASSUME ClientCommandsInv, SV_PacketEvent
  PROVE  /\ cl' \in ClientT
         /\ cl.lastClientCommand <= cl'.lastClientCommand
         /\ cl'.lastClientCommand <= reliableSequence
         /\ executed' \in Seq(Nat) /\ Len(executed') = cl'.lastClientCommand
         /\ ~clc.overflowed => \A n \in DOMAIN executed' : executed'[n] = n
         /\ thought' \in Seq(Thought)
         /\ \A i \in DOMAIN thought' : thought'[i].moves \subseteq 1..cmdNumber
         /\ CommandsBeforeMoves'
<1> DEFINE p == Head(toServer)
<1>1. /\ TypeOK /\ RingInv /\ AcknowledgeInv /\ PacketInv /\ MoveInv /\ ExecutedInv
      /\ CommandsBeforeMoves
  BY DEF ClientCommandsInv
<1>2. UNCHANGED clientVars /\ UNCHANGED cmds
  BY DEF SV_PacketEvent, clientVars
<1>3. p \in Packet /\ PacketFits(p)
  <2>1. toServer \in Seq(Packet) /\ toServer # <<>>
    BY <1>1 DEF TypeOK, SV_PacketEvent
  <2>2. p \in Packet /\ 1 \in DOMAIN toServer /\ p = toServer[1]
    BY <2>1, TailElement
  <2> QED
    BY <1>1, <2>2 DEF PacketInv
<1>4. /\ reliableSequence \in Nat /\ cl.lastClientCommand \in Nat
      /\ cl.lastClientCommand <= reliableSequence
  BY <1>1, Numbers DEF AcknowledgeInv
<1>5. CASE cl.state = "CS_ZOMBIE"
  <2>1. UNCHANGED <<cl, executed, thought>>
    BY <1>5 DEF SV_PacketEvent, serverVars
  <2>2. cl \in ClientT /\ executed \in Seq(Nat) /\ thought \in Seq(Thought)
    BY <1>1 DEF TypeOK
  <2>3. Len(executed) = cl.lastClientCommand
    BY <1>1, Zenon DEF ExecutedInv
  <2>4. ~clc.overflowed => \A n \in DOMAIN executed : executed[n] = n
    BY <1>1, Zenon DEF ExecutedInv
  <2>5. \A i \in DOMAIN thought : thought[i].moves \subseteq 1..cmdNumber
    BY <1>1, Zenon DEF MoveInv
  <2>6. CommandsBeforeMoves'
    BY <1>1, <1>2, <2>1, Zenon DEF CommandsBeforeMoves
  <2>7. cl.lastClientCommand <= cl.lastClientCommand
    BY <1>4
  <2> QED
    BY <1>4, <2>1, <2>2, <2>3, <2>4, <2>5, <2>6, <2>7, Zenon
<1>6. CASE cl.state # "CS_ZOMBIE"
  <2>1. SV_ExecuteClientMessage(p)
    BY <1>6 DEF SV_PacketEvent
  <2> HIDE DEF p
  <2> QED
    BY <1>1, <1>2, <1>3, <2>1, ExecuteKeeps
<1> QED
  BY <1>5, <1>6

LEMMA PacketEventStep ==
  ASSUME ClientCommandsInv, SV_PacketEvent
  PROVE  ClientCommandsInv'
<1>1. /\ TypeOK /\ RingInv /\ AcknowledgeInv /\ PacketInv /\ MoveInv /\ ExecutedInv
      /\ CommandsBeforeMoves
  BY DEF ClientCommandsInv
<1>2. UNCHANGED <<clc, cmds, outPackets, added, lostLast, toClient>>
  BY DEF SV_PacketEvent, clientVars
<1>3. /\ toServer' \in Seq(Packet)
      /\ \A k \in DOMAIN toServer' : k + 1 \in DOMAIN toServer /\ toServer'[k] = toServer[k + 1]
  <2>1. toServer \in Seq(Packet) /\ toServer # <<>> /\ toServer' = Tail(toServer)
    BY <1>1 DEF TypeOK, SV_PacketEvent
  <2> QED
    BY <2>1, TailElement
<1>4. /\ reliableSequence' = reliableSequence /\ cmdNumber' = cmdNumber /\ Connected' = Connected
      /\ Unacknowledged' = Unacknowledged
  BY <1>2 DEF reliableSequence, cmdNumber, Connected, Unacknowledged
<1>5. /\ reliableSequence \in Nat /\ cmdNumber \in Nat /\ cl.lastClientCommand \in Nat
      /\ clc.reliableAcknowledge \in Nat /\ cl.lastClientCommand <= reliableSequence
  BY <1>1, Numbers DEF AcknowledgeInv
<1>6. /\ cl' \in ClientT
      /\ cl.lastClientCommand <= cl'.lastClientCommand
      /\ cl'.lastClientCommand <= reliableSequence
      /\ executed' \in Seq(Nat) /\ Len(executed') = cl'.lastClientCommand
      /\ ~clc.overflowed => \A n \in DOMAIN executed' : executed'[n] = n
      /\ thought' \in Seq(Thought)
      /\ \A i \in DOMAIN thought' : thought'[i].moves \subseteq 1..cmdNumber
      /\ CommandsBeforeMoves'
  BY PacketEventExecutes
<1>7. cl'.lastClientCommand \in Nat
  BY <1>6 DEF ClientT
<1>8. TypeOK'
  <2>1. /\ clc' \in ClientConnection /\ cmds' \in Seq(Usercmd) /\ outPackets' \in Seq(Nat)
        /\ added' \in Seq(Kinds) /\ lostLast' \in Nat /\ toClient' \in Seq(Nat)
    BY <1>1, <1>2 DEF TypeOK
  <2> QED
    BY <1>3, <1>6, <2>1, Zenon DEF TypeOK
<1>9. RingInv'
  <2>1. Connected => clc.reliableAcknowledge <= cl'.lastClientCommand
    <3>1. Connected => clc.reliableAcknowledge <= cl.lastClientCommand
      BY <1>1, Zenon DEF RingInv
    <3>2. clc.reliableAcknowledge <= cl.lastClientCommand =>
            clc.reliableAcknowledge <= cl'.lastClientCommand
      BY <1>5, <1>6, <1>7
    <3> QED
      BY <3>1, <3>2, Zenon
  <2> QED
    BY <1>1, <1>2, <1>4, <2>1, Zenon DEF RingInv
<1>10. AcknowledgeInv'
  <2>1. \A i \in DOMAIN toClient : toClient[i] <= cl'.lastClientCommand
    <3> SUFFICES ASSUME NEW i \in DOMAIN toClient PROVE toClient[i] <= cl'.lastClientCommand
      OBVIOUS
    <3>1. toClient[i] \in Nat /\ toClient[i] <= cl.lastClientCommand
      BY <1>1, ElementOfSeq, LenProperties DEF TypeOK, AcknowledgeInv
    <3> QED
      BY <3>1, <1>5, <1>6, <1>7
  <2> QED
    BY <1>1, <1>2, <1>4, <1>6, <2>1, Zenon DEF AcknowledgeInv
<1>11. PacketInv'
  <2>1. ASSUME NEW k \in DOMAIN toServer'
        PROVE  \E q : toServer'[k] = q /\ PacketFits(q)'
    <3>1. PICK q \in Packet : q = toServer[k + 1]
      BY <1>1, <1>3, ElementOfSeq, LenProperties DEF TypeOK
    <3>2. PacketFits(q) /\ toServer'[k] = q
      BY <1>1, <1>3, <3>1 DEF PacketInv
    <3>3. /\ reliableSequence' \in Nat /\ cmdNumber' \in Nat /\ cmdNumber <= cmdNumber'
          /\ reliableSequence <= reliableSequence' /\ cmds' = cmds
      BY <1>2, <1>4, <1>5
    <3>4. clc.overflowed => clc'.overflowed
      BY <1>2, Zenon
    <3>5. PacketFits(q)'
      BY <1>1, <1>6, <1>7, <3>2, <3>3, <3>4, StillFits
    <3> QED
      BY <3>2, <3>5
  <2> SUFFICES ASSUME NEW k \in DOMAIN toServer' PROVE PacketFits(toServer[k])'
    BY DEF PacketInv
  <2>2. PICK q : toServer'[k] = q /\ PacketFits(q)'
    BY <2>1
  <2> QED
    BY <2>2, Zenon DEF PacketFits, LastCommand
<1>12. MoveInv'
  BY <1>1, <1>2, <1>4, <1>6, Zenon DEF MoveInv
<1>13. ExecutedInv'
  BY <1>2, <1>6, Zenon DEF ExecutedInv
<1> QED
  BY <1>6, <1>8, <1>9, <1>10, <1>11, <1>12, <1>13 DEF ClientCommandsInv


-----------------------------------------------------------------------------
(* The theorems. *)

LEMMA InitInv == Init => ClientCommandsInv
<1> SUFFICES ASSUME Init PROVE ClientCommandsInv
  OBVIOUS
<1> DEFINE zero == [s \in Slots |-> 0]
           sent == [k \in 1..cl_packetdup + 1 |-> 0]
<1>1. /\ cmds = <<>> /\ added = <<>> /\ toServer = <<>> /\ lostLast = 0 /\ toClient = <<>>
      /\ executed = <<>> /\ thought = <<>>
      /\ outPackets = sent
      /\ clc = [state |-> "CA_ACTIVE", reliableAcknowledge |-> 0,
                reliableCommands |-> zero, overflowed |-> FALSE]
      /\ cl = [state |-> "CS_PRIMED", lastClientCommand |-> 0, lastUsercmd |-> 0,
               entered |-> 0, missed |-> FALSE]
  BY DEF Init
<1>2. zero \in [Slots -> Nat]
  OBVIOUS
<1>3. cl_packetdup + 1 \in Nat /\ M \in Nat \ {0}
  BY MovesAssumption, RingAssumption DEF M
<1>4. sent \in Seq(Nat) /\ Len(sent) = cl_packetdup + 1 /\ \A k \in DOMAIN sent : sent[k] = 0
  BY <1>3
<1> HIDE DEF zero, sent
<1>5. clc \in ClientConnection /\ ~clc.overflowed /\ clc.reliableAcknowledge = 0
  BY <1>1, <1>2, Zenon DEF ClientConnection
<1>6. cl \in ClientT /\ cl.lastClientCommand = 0
  <2>1. cl \in ClientT
    BY <1>1, Zenon DEF ClientT
  <2> QED
    BY <1>1, <2>1, Zenon
<1>7. reliableSequence = 0 /\ cmdNumber = 0 /\ Unacknowledged = 0
  BY <1>1, <1>5 DEF reliableSequence, cmdNumber, Unacknowledged
<1>8. TypeOK
  BY <1>1, <1>4, <1>5, <1>6 DEF TypeOK
<1>9. RingInv
  <2>1. 0 <= cl.lastClientCommand /\ Unacknowledged <= M /\ 1..reliableSequence = {}
    BY <1>3, <1>6, <1>7
  <2> QED
    BY <1>5, <2>1, Zenon DEF RingInv
<1>10. AcknowledgeInv
  BY <1>1, <1>6, <1>7 DEF AcknowledgeInv
<1>11. PacketInv
  BY <1>1 DEF PacketInv
<1>12. MoveInv
  BY <1>1, <1>4, <1>7 DEF MoveInv
<1>13. ExecutedInv /\ CommandsBeforeMoves
  BY <1>1, <1>6 DEF ExecutedInv, CommandsBeforeMoves
<1> QED
  BY <1>8, <1>9, <1>10, <1>11, <1>12, <1>13 DEF ClientCommandsInv

LEMMA NextInv == ClientCommandsInv /\ [Next]_vars => ClientCommandsInv'
<1> SUFFICES ASSUME ClientCommandsInv, [Next]_vars PROVE ClientCommandsInv'
  OBVIOUS
<1>1. CASE CL_AddReliableCommand
  BY <1>1, AddStep
<1>2. CASE CL_CreateNewCommands
  BY <1>2, CreateStep
<1>3. CASE CL_WritePacket
  BY <1>3, WriteStep
<1>4. CASE CL_Disconnect
  BY <1>4, DisconnectStep
<1>5. CASE CL_ParseServerMessage
  BY <1>5, ParseStep
<1>6. CASE SV_SendMessage
  BY <1>6, SendMessageStep
<1>7. CASE SV_DropClient
  <2>1. Drop(cl) \in ClientT /\ Drop(cl).lastClientCommand = cl.lastClientCommand
    BY DropType DEF ClientCommandsInv, TypeOK
  <2> QED
    BY <1>7, <2>1, DropStep DEF SV_DropClient
<1>8. CASE SV_PacketEvent
  BY <1>8, PacketEventStep
<1>9. CASE Lose
  BY <1>9, LosePacketStep, LoseAcknowledgementStep DEF Lose
<1>10. CASE UNCHANGED vars
  <2>1. cl \in ClientT /\ cl' = cl
    BY <1>10 DEF ClientCommandsInv, TypeOK, vars
  <2> QED
    BY <1>10, <2>1, DropStep DEF vars, clientVars
<1> QED
  BY <1>1, <1>2, <1>3, <1>4, <1>5, <1>6, <1>7, <1>8, <1>9, <1>10 DEF Next

\* Client, server and network agree on the commands of the client: the ring
\* holds what is not acknowledged, packets hold what is in the ring, and the
\* server has executed what it acknowledges (CL_AddReliableCommand,
\* CL_WritePacket, SV_ClientCommand).
THEOREM ClientCommandsInvariant == Spec => []ClientCommandsInv
  BY InitInv, NextInv, PTL DEF Spec

\* Every variable keeps its type.
THEOREM ClientCommandsTypeCorrect == Spec => []TypeOK
<1>1. ClientCommandsInv => TypeOK
  BY DEF ClientCommandsInv
<1> QED
  BY <1>1, ClientCommandsInvariant, PTL

\* No packet ever leaves a gap after the commands the server has executed, so
\* SV_ClientCommand never drops the client for lost commands.
THEOREM ClientNothingLost == Spec => []NothingLost
<1>1. ClientCommandsInv => NothingLost
  BY Zenon DEF ClientCommandsInv, PacketInv, PacketFits, NothingLost
<1> QED
  BY <1>1, ClientCommandsInvariant, PTL

\* No move is executed before the commands that were added before it
\* (SV_ExecuteClientMessage reads the commands of a packet before its moves).
THEOREM ClientCommandsBeforeMoves == Spec => []CommandsBeforeMoves
<1>1. ClientCommandsInv => CommandsBeforeMoves
  BY DEF ClientCommandsInv
<1> QED
  BY <1>1, ClientCommandsInvariant, PTL

\* Every step is a step of ReliableCommands.
LEMMA StepOfCommands ==
  ASSUME ClientCommandsInv, ClientCommandsInv', [Next]_vars
  PROVE  [Commands!Next]_(Commands!vars)
<1>1. /\ TypeOK /\ RingInv /\ added \in Seq(Kinds) /\ clc \in ClientConnection
      /\ reliableSequence \in Nat
  BY Numbers DEF ClientCommandsInv, TypeOK
<1>2. ASSUME NEW e \in Kinds, added' = Append(added, e), executed' = executed,
             clc.overflowed => clc'.overflowed
      PROVE  Commands!Next
  <2>1. /\ Len(added') = Len(added) + 1 /\ Len(added) \in Nat /\ DOMAIN added = 1..Len(added)
        /\ \A n \in 1..Len(added) : added'[n] = added[n]
    BY <1>1, <1>2, AppendElement
  <2>2. Len(added') >= Len(added) /\ \A n \in DOMAIN added : added'[n] = added[n]
    BY <2>1
  <2>3. Commands!Issue
    BY <1>2, <2>2, Zenon DEF Commands!Issue
  <2> QED
    BY <2>3 DEF Commands!Next
<1>3. ASSUME UNCHANGED <<added, executed>>, clc'.overflowed = clc.overflowed
      PROVE  UNCHANGED Commands!vars
  BY <1>3, Zenon DEF Commands!vars
<1>4. CASE CL_AddReliableCommand
  <2>1. clc'.overflowed = clc.overflowed
    <3>1. reliableSequence + 1 \in Nat
      BY <1>1
    <3> QED
      BY <1>1, <1>4, <3>1, StoreCommand, Zenon DEF CL_AddReliableCommand
  <2>2. added' = Append(added, "game") /\ executed' = executed /\ "game" \in Kinds
    BY <1>4 DEF CL_AddReliableCommand, serverVars, Kinds
  <2> QED
    BY <2>1, <2>2, <1>2, Zenon
<1>5. CASE CL_Disconnect
  <2>1. ~clc.overflowed
    BY <1>1, <1>5, Zenon DEF CL_Disconnect, RingInv, Connected
  <2>2. added' = Append(added, "disconnect") /\ executed' = executed /\ "disconnect" \in Kinds
    BY <1>5 DEF CL_Disconnect, serverVars, Kinds
  <2> QED
    BY <2>1, <2>2, <1>2, Zenon
<1>6. CASE CL_ParseServerMessage
  <2>1. clc'.overflowed = clc.overflowed
    <3>1. CASE clc.state = "CA_DISCONNECTED"
      BY <1>6, <3>1, Zenon DEF CL_ParseServerMessage
    <3>2. CASE clc.state # "CA_DISCONNECTED"
      <4>1. PICK a : clc' = [clc EXCEPT !.reliableAcknowledge = a]
        BY <1>6, <3>2, Zenon DEF CL_ParseServerMessage
      <4> QED
        BY <1>1, <4>1, Zenon DEF ClientConnection
    <3> QED
      BY <3>1, <3>2
  <2>2. UNCHANGED <<added, executed>>
    BY <1>6 DEF CL_ParseServerMessage, serverVars
  <2> QED
    BY <2>1, <2>2, <1>3
<1>7. CASE SV_PacketEvent
  <2>1. UNCHANGED <<added, clc>>
    BY <1>7 DEF SV_PacketEvent, clientVars
  <2>2. CASE clc.overflowed
    <3>1. Commands!ExecuteGivenUp
      BY <2>1, <2>2, Zenon DEF Commands!ExecuteGivenUp
    <3> QED
      BY <3>1 DEF Commands!Next
  <2>3. CASE ~clc.overflowed
    <3>1. \A n \in DOMAIN executed' : executed'[n] = n
      BY <1>7, <2>3, PacketEventExecutes, Zenon
    <3>2. Len(executed) = cl.lastClientCommand /\ cl.lastClientCommand \in Nat
      BY <1>1, Numbers DEF ClientCommandsInv, ExecutedInv
    <3>3. /\ Len(executed') = cl'.lastClientCommand /\ cl' \in ClientT
          /\ cl.lastClientCommand <= cl'.lastClientCommand
          /\ cl'.lastClientCommand <= reliableSequence
      BY <1>7, PacketEventExecutes
    <3>4. Len(executed') \in Len(executed)..Len(added)
      BY <1>1, <3>2, <3>3 DEF ClientT, reliableSequence
    <3>5. Commands!Execute
      BY <2>1, <2>3, <3>1, <3>4, Zenon DEF Commands!Execute
    <3> QED
      BY <3>5 DEF Commands!Next
  <2> QED
    BY <2>2, <2>3
<1>8. CASE UNCHANGED <<added, executed, clc>>
  <2>1. clc'.overflowed = clc.overflowed /\ UNCHANGED <<added, executed>>
    BY <1>8
  <2> QED
    BY <2>1, <1>3
<1>9. CL_CreateNewCommands \/ CL_WritePacket \/ SV_SendMessage \/ SV_DropClient \/ Lose
        \/ UNCHANGED vars
      => UNCHANGED <<added, executed, clc>>
  BY DEF CL_CreateNewCommands, CL_WritePacket, SV_SendMessage, SV_DropClient, Lose, vars,
         clientVars, serverVars
<1> QED
  BY <1>4, <1>5, <1>6, <1>7, <1>8, <1>9, Zenon DEF Next

\* The client's commands implement ReliableCommands, as the server's do: ring,
\* acknowledgements and repetition do not show, the server executes the commands
\* each once and in order (CL_AddReliableCommand, SV_ClientCommand).
THEOREM ClientKeepsPromise == Spec => KeepsPromise
<1>1. Init => Commands!Init
  <2> SUFFICES ASSUME Init PROVE Commands!Init
    OBVIOUS
  <2>1. added = <<>> /\ executed = <<>> /\ clc.overflowed = FALSE
    BY Zenon DEF Init
  <2> QED
    BY <2>1, Zenon DEF Commands!Init
<1>2. ClientCommandsInv /\ ClientCommandsInv' /\ [Next]_vars => [Commands!Next]_(Commands!vars)
  BY StepOfCommands
<1> QED
  BY <1>1, <1>2, ClientCommandsInvariant, PTL DEF Spec, KeepsPromise, Commands!Spec

-----------------------------------------------------------------------------
(* The moves. *)

\* The times of moves are numbers.
LEMMA TimeType ==
  ASSUME TypeOK, NEW k \in DOMAIN cmds
  PROVE  Time(k) \in Nat
BY Numbers DEF Time, Usercmd

\* What the server executes of packet p when it has the moves up to time last.
Made(last, p) ==
  {k \in p.from + 1..p.upTo :
     /\ Time(k) <= Time(p.upTo)
     /\ IsNew(last, k)
     /\ \A j \in p.from + 1..k - 1 : Time(j) # Time(k)}

\* What SV_UserMove does with the moves of a packet that has some.
LEMMA UserMoveMakes ==
  ASSUME TypeOK, NEW c \in ClientT, NEW p \in Packet, NEW done \in Nat,
         p.from < p.upTo, p.upTo <= cmdNumber, SV_UserMove(c, p, done)
  PROVE  \E last \in Nat :
           /\ c.state = "CS_PRIMED" => last = Time(p.from + 1)
           /\ c.state # "CS_PRIMED" => last = c.lastUsercmd
           /\ cl'.state = "CS_ACTIVE"
           /\ c.state = "CS_PRIMED" => cl'.entered = last
           /\ c.state # "CS_PRIMED" => cl'.entered = c.entered
           /\ cl'.missed = c.missed
           /\ Time(p.upTo) > last => cl'.lastUsercmd = Time(p.upTo)
           /\ ~(Time(p.upTo) > last) => cl'.lastUsercmd = last
           /\ Made(last, p) = {} => thought' = thought
           /\ Made(last, p) # {} =>
                thought' = Append(thought, [moves |-> Made(last, p), commands |-> done])
<1> DEFINE first == p.from + 1
           entering == c.state = "CS_PRIMED"
           last == IF entering THEN Time(first) ELSE c.lastUsercmd
           now == IF Time(p.upTo) > last THEN Time(p.upTo) ELSE last
           since == IF entering THEN last ELSE c.entered
<1>1. /\ first \in DOMAIN cmds /\ p.upTo \in DOMAIN cmds /\ p.upTo # p.from
  BY Numbers, PacketNumbers
<1>2. Time(first) \in Nat /\ Time(p.upTo) \in Nat
  BY <1>1, TimeType
<1>3. last \in Nat
  BY <1>2 DEF ClientT
<1>4. /\ cl' = [c EXCEPT !.state = "CS_ACTIVE", !.entered = since, !.lastUsercmd = now]
      /\ thought' = IF Made(last, p) = {} THEN thought
                    ELSE Append(thought, [moves |-> Made(last, p), commands |-> done])
  BY <1>1, Zenon DEF SV_UserMove, Made
<1>5. /\ entering => last = Time(first)
      /\ ~entering => last = c.lastUsercmd
      /\ entering => since = last
      /\ ~entering => since = c.entered
      /\ Time(p.upTo) > last => now = Time(p.upTo)
      /\ ~(Time(p.upTo) > last) => now = last
  OBVIOUS
<1> HIDE DEF now, since, last
<1>6. cl'.state = "CS_ACTIVE" /\ cl'.entered = since /\ cl'.lastUsercmd = now /\ cl'.missed = c.missed
  BY <1>4, Zenon DEF ClientT
<1> WITNESS last \in Nat
<1> QED
  BY <1>4, <1>5, <1>6, Zenon
 
\* The server then has the moves up to the last one of the packet.
LEMMA UserMoveTime ==
  ASSUME TypeOK, NEW c \in ClientT, NEW p \in Packet, NEW done \in Nat,
         p.from < p.upTo, p.upTo <= cmdNumber, SV_UserMove(c, p, done)
  PROVE  Time(p.upTo) <= cl'.lastUsercmd /\ cl'.lastUsercmd \in Nat
<1>1. PICK last \in Nat :
        /\ Time(p.upTo) > last => cl'.lastUsercmd = Time(p.upTo)
        /\ ~(Time(p.upTo) > last) => cl'.lastUsercmd = last
  BY UserMoveMakes
<1>2. Time(p.upTo) \in Nat
  <2>1. p.upTo \in DOMAIN cmds
    BY Numbers, PacketNumbers
  <2> QED
    BY <2>1, TimeType
<1> QED
  BY <1>1, <1>2

\* What the commands of a packet leave alone.
LEMMA HeardKeeps ==
  ASSUME NEW p, NEW last, cl \in ClientT
  PROVE  /\ Heard(p, last).state = cl.state
         /\ Heard(p, last).lastUsercmd = cl.lastUsercmd
         /\ Heard(p, last).entered = cl.entered
         /\ cl.missed => Heard(p, last).missed
         /\ cl.state = "CS_ACTIVE" /\ (p.clipped \/ p.lost > cl_packetdup)
              => Heard(p, last).missed
<1> DEFINE more == cl.state = "CS_ACTIVE" /\ (p.clipped \/ p.lost > cl_packetdup)
           missed == cl.missed \/ more
<1>1. Heard(p, last) = [cl EXCEPT !.lastClientCommand = last, !.missed = missed]
  BY DEF Heard
<1> HIDE DEF missed
<1>2. /\ Heard(p, last).state = cl.state
      /\ Heard(p, last).lastUsercmd = cl.lastUsercmd
      /\ Heard(p, last).entered = cl.entered
      /\ Heard(p, last).missed = missed
  BY <1>1, Zenon DEF ClientT
<1>3. (cl.missed => missed) /\ (more => missed)
  BY Zenon DEF missed
<1> QED
  BY <1>2, <1>3, Zenon

\* What Drop leaves alone.
LEMMA DropKeeps ==
  ASSUME NEW c \in ClientT
  PROVE  /\ Drop(c).state = "CS_ZOMBIE" /\ Drop(c).lastUsercmd = c.lastUsercmd
         /\ Drop(c).entered = c.entered /\ Drop(c).missed = c.missed
BY Zenon DEF Drop, ClientT

\* A step of the server that executes no move of packet p.
NoMoves(p) ==
  /\ cl'.state = "CS_ZOMBIE" \/ (cl'.state = cl.state /\ p.from = p.upTo)
  /\ cl'.state = "CS_ACTIVE" /\ (p.clipped \/ p.lost > cl_packetdup) => cl'.missed
  /\ cl'.lastUsercmd = cl.lastUsercmd /\ cl'.entered = cl.entered
  /\ cl.missed => cl'.missed
  /\ thought' = thought

\* A packet either makes the server execute moves, or leaves them alone.
LEMMA PacketEventMakes ==
  ASSUME ClientCommandsInv, SV_PacketEvent
  PROVE  \/ NoMoves(Head(toServer))
         \/ \E last, done \in Nat :
              /\ Heard(Head(toServer), last) \in ClientT
              /\ Head(toServer).from < Head(toServer).upTo
              /\ SV_UserMove(Heard(Head(toServer), last), Head(toServer), done)
<1> DEFINE p == Head(toServer)
           next == IF p.first > NextCommand THEN p.first ELSE NextCommand
           all == IF LastCommand(p) >= next THEN LastCommand(p) ELSE cl.lastClientCommand
           Text(n) == p.commands[n - p.first + 1]
           IsEnd(n) == n >= next /\ added[Text(n)] = "disconnect"
           new(last) == [k \in 1..(last - next + 1) |-> Text(next + k - 1)]
<1>1. cl \in ClientT /\ TypeOK
  BY DEF ClientCommandsInv, TypeOK
<1>2. p \in Packet /\ PacketFits(p)
  <2>1. toServer \in Seq(Packet) /\ toServer # <<>>
    BY <1>1 DEF TypeOK, SV_PacketEvent
  <2>2. p \in Packet /\ 1 \in DOMAIN toServer /\ p = toServer[1]
    BY <2>1, TailElement
  <2> QED
    BY <2>2 DEF ClientCommandsInv, PacketInv
<1> HIDE DEF p
<1>3. CASE cl.state = "CS_ZOMBIE"
  <2>1. cl' = cl /\ thought' = thought
    BY <1>3 DEF SV_PacketEvent, serverVars
  <2>2. cl'.state # "CS_ACTIVE"
    BY <1>3, <2>1
  <2>3. NoMoves(p)
    BY <1>3, <2>1, <2>2, Zenon DEF NoMoves
  <2> QED
    BY <2>3, Zenon DEF p
<1>4. CASE cl.state # "CS_ZOMBIE"
  <2>1. SV_ExecuteClientMessage(p)
    BY <1>4 DEF SV_PacketEvent, p
  <2>2. CASE all >= next /\ next > cl.lastClientCommand + 1
    <3>1. cl' = Drop(cl) /\ thought' = thought
      BY <2>1, <2>2, Zenon DEF SV_ExecuteClientMessage
    <3>2. NoMoves(p)
      BY <1>1, <3>1, DropKeeps, Zenon DEF NoMoves
    <3> QED
      BY <3>2, Zenon DEF p
  <2>3. CASE ~(all >= next /\ next > cl.lastClientCommand + 1)
    <3>1. PICK last \in cl.lastClientCommand..all :
            /\ executed' = executed \o new(last)
            /\ IF IsEnd(last) THEN cl' = Drop(Heard(p, last)) /\ UNCHANGED thought
               ELSE SV_UserMove(Heard(p, last), p, Len(executed'))
      <4>1. \E last \in cl.lastClientCommand..all :
              /\ executed' = executed \o new(last)
              /\ IF IsEnd(last) THEN cl' = Drop(Heard(p, last)) /\ UNCHANGED thought
                 ELSE SV_UserMove(Heard(p, last), p, Len(executed \o new(last)))
        BY <2>1, <2>3, Zenon DEF SV_ExecuteClientMessage
      <4> QED
        BY <4>1, Zenon
    <3>2. last \in Nat
      <4>1. cl.lastClientCommand \in Nat
        BY <1>1, Numbers
      <4> QED
        BY <4>1, <3>1
    <3>3. Heard(p, last) \in ClientT
      BY <1>1, <3>2, HeardType
    <3> DEFINE c == Heard(p, last)
    <3>4. /\ c.state = cl.state /\ c.lastUsercmd = cl.lastUsercmd /\ c.entered = cl.entered
          /\ cl.missed => c.missed
          /\ cl.state = "CS_ACTIVE" /\ (p.clipped \/ p.lost > cl_packetdup) => c.missed
      BY <1>1, HeardKeeps
    <3>5. CASE IsEnd(last)
      <4>1. cl' = Drop(c) /\ thought' = thought
        BY <3>1, <3>5, Zenon
      <4> HIDE DEF c
      <4>2. cl'.state = "CS_ZOMBIE" /\ cl'.lastUsercmd = c.lastUsercmd
            /\ cl'.entered = c.entered /\ cl'.missed = c.missed
        BY <3>3, <4>1, DropKeeps, Zenon DEF c
      <4>3. NoMoves(p)
        BY <3>4, <4>1, <4>2, Zenon DEF NoMoves
      <4> QED
        BY <4>3, Zenon DEF p
    <3>6. CASE ~IsEnd(last)
      <4>1. SV_UserMove(c, p, Len(executed'))
        BY <3>1, <3>6, Zenon
      <4>2. Len(executed') \in Nat
        BY PacketEventExecutes, LenProperties
      <4>3. p.from \in Nat /\ p.upTo \in Nat /\ p.from <= p.upTo
        BY <1>2, PacketNumbers DEF PacketFits
      <4>4. CASE p.from = p.upTo
        <5>1. cl' = c /\ thought' = thought
          BY <4>1, <4>4, Zenon DEF SV_UserMove
        <5> HIDE DEF c
        <5>2. NoMoves(p)
          BY <3>4, <4>4, <5>1, Zenon DEF NoMoves
        <5> QED
          BY <5>2, Zenon DEF p
      <4>5. CASE p.from # p.upTo
        <5>1. p.from < p.upTo
          BY <4>3, <4>5
        <5> QED
          BY <3>2, <3>3, <4>1, <4>2, <5>1, Zenon DEF p
      <4> QED
        BY <4>4, <4>5
    <3> QED
      BY <3>5, <3>6
  <2> QED
    BY <2>2, <2>3
<1> QED
  BY <1>3, <1>4

\* A step that leaves the moves alone.
LEMMA SameMoves ==
  ASSUME MovesInv, UNCHANGED <<cmds, thought>>, cl'.lastUsercmd = cl.lastUsercmd,
         cl'.state = "CS_PRIMED" => cl.state = "CS_PRIMED"
  PROVE  MovesInv'
<1>1. \A k : Time(k)' = Time(k)
  BY DEF Time
<1>2. UsercmdInv'
  BY <1>1, Zenon DEF MovesInv, UsercmdInv
<1>3. MovesInOrder'
  BY <1>1, Zenon DEF MovesInv, MovesInOrder
<1> QED
  BY <1>2, <1>3 DEF MovesInv

\* What CL_CreateNewCommands adds.
LEMMA MoveAdded ==
  ASSUME TypeOK, CL_CreateNewCommands
  PROVE  /\ cmdNumber \in Nat /\ DOMAIN cmds = 1..cmdNumber
         /\ cmdNumber' = cmdNumber + 1 /\ DOMAIN cmds' = 1..cmdNumber + 1
         /\ \A k \in 1..cmdNumber : Time(k)' = Time(k)
         /\ Time(cmdNumber)' \in Nat
         /\ cmdNumber # 0 => Time(cmdNumber) <= Time(cmdNumber)'
<1>1. PICK dt \in {0, 1} : cmds' = Append(cmds,
        [serverTime |-> dt + (IF cmds = <<>> THEN 0 ELSE cmds[cmdNumber].serverTime),
         commands |-> reliableSequence])
  BY DEF CL_CreateNewCommands
<1> DEFINE time == dt + (IF cmds = <<>> THEN 0 ELSE cmds[cmdNumber].serverTime)
           e == [serverTime |-> time, commands |-> reliableSequence]
<1>2. cmdNumber \in Nat /\ DOMAIN cmds = 1..cmdNumber /\ reliableSequence \in Nat
  BY Numbers
<1>3. cmds = <<>> <=> cmdNumber = 0
  BY EmptySeq DEF TypeOK, cmdNumber
<1>4. time \in Nat /\ (cmdNumber # 0 => Time(cmdNumber) <= time)
  <2>1. CASE cmdNumber = 0
    BY <1>3, <2>1
  <2>2. CASE cmdNumber # 0
    <3>1. Time(cmdNumber) \in Nat
      BY <1>2, <2>2, TimeType
    <3>2. time = dt + Time(cmdNumber)
      BY <1>3, <2>2 DEF Time
    <3> QED
      BY <3>1, <3>2
  <2> QED
    BY <2>1, <2>2
<1> HIDE DEF time
<1>5. e \in Usercmd /\ e.serverTime = time
  BY <1>2, <1>4 DEF Usercmd
<1> HIDE DEF e
<1>6. /\ cmdNumber' = cmdNumber + 1 /\ DOMAIN cmds' = 1..cmdNumber + 1
      /\ \A k \in 1..cmdNumber : cmds'[k] = cmds[k]
      /\ cmds'[cmdNumber + 1] = e
  <2>1. cmds' = Append(cmds, e) /\ cmds \in Seq(Usercmd)
    BY <1>1 DEF e, time, TypeOK
  <2> QED
    BY <2>1, <1>5, AppendElement DEF cmdNumber
<1>7. \A k \in 1..cmdNumber : Time(k)' = Time(k)
  BY <1>6 DEF Time
<1>8. Time(cmdNumber)' = time
  BY <1>5, <1>6 DEF Time
<1> QED
  BY <1>2, <1>4, <1>6, <1>7, <1>8

LEMMA CreateMoves ==
  ASSUME ClientCommandsInv, MovesInv, CL_CreateNewCommands
  PROVE  MovesInv'
<1> DEFINE n == cmdNumber
           t == Time(cmdNumber)'
<1>1. TypeOK /\ MoveInv /\ UsercmdInv /\ MovesInOrder
  BY DEF ClientCommandsInv, MovesInv
<1>2. UNCHANGED <<cl, thought>>
  BY DEF CL_CreateNewCommands, serverVars
<1>3. /\ n \in Nat /\ DOMAIN cmds = 1..n /\ cmdNumber' = n + 1 /\ DOMAIN cmds' = 1..n + 1
      /\ \A k \in 1..n : Time(k)' = Time(k)
      /\ t \in Nat /\ (n # 0 => Time(n) <= t)
  BY <1>1, MoveAdded
<1>4. \A k : k = n + 1 => Time(k)' = t
  BY <1>3 DEF Time
<1>5. \A k \in 1..n : Time(k) \in Nat
  BY <1>1, <1>3, TimeType
<1> HIDE DEF n, t
<1>6. \A k \in 1..n : Time(k) <= t
  <2> SUFFICES ASSUME NEW k \in 1..n PROVE Time(k) <= t
    OBVIOUS
  <2>1. n \in 1..n /\ k <= n /\ n # 0
    BY <1>3
  <2>2. Time(k) <= Time(n)
    BY <1>1, <1>3, <2>1 DEF UsercmdInv
  <2> QED
    BY <1>3, <1>5, <2>1, <2>2
<1>7. ASSUME NEW j \in DOMAIN cmds', NEW k \in DOMAIN cmds', j <= k PROVE Time(j)' <= Time(k)'
  <2>1. CASE k = n + 1
    <3>1. CASE j = n + 1
      BY <1>3, <1>4, <2>1, <3>1
    <3>2. CASE j # n + 1
      <4>1. j \in 1..n
        BY <1>3, <3>2
      <4> QED
        BY <1>3, <1>4, <1>6, <2>1, <4>1
    <3> QED
      BY <3>1, <3>2
  <2>2. CASE k # n + 1
    <3>1. j \in 1..n /\ k \in 1..n
      BY <1>3, <1>7, <2>2
    <3> QED
      BY <1>1, <1>3, <1>7, <3>1 DEF UsercmdInv
  <2> QED
    BY <2>1, <2>2
<1>8. cl.lastUsercmd = 0 \/ \E k \in DOMAIN cmds' : Time(k)' = cl.lastUsercmd
  <2>1. DOMAIN cmds \subseteq DOMAIN cmds'
    BY <1>3
  <2> QED
    BY <1>1, <1>3, <2>1, Zenon DEF UsercmdInv
<1>9. \A i \in DOMAIN thought : \A k \in thought[i].moves : Time(k)' = Time(k)
  <2>1. \A i \in DOMAIN thought : thought[i].moves \subseteq 1..n
    BY <1>1, Zenon DEF MoveInv, n
  <2> QED
    BY <1>3, <2>1, Zenon
<1>10. UsercmdInv'
  <2>1. \A i \in DOMAIN thought : \A k \in thought[i].moves : Time(k)' <= cl.lastUsercmd
    BY <1>1, <1>9, Zenon DEF UsercmdInv
  <2>2. cl.state = "CS_PRIMED" => thought = <<>>
    BY <1>1, Zenon DEF UsercmdInv
  <2> QED
    BY <1>2, <1>7, <1>8, <2>1, <2>2, Zenon DEF UsercmdInv
<1>11. MovesInOrder'
  <2> SUFFICES ASSUME NEW i \in DOMAIN thought, NEW j \in DOMAIN thought, i < j,
                      NEW k \in thought[i].moves, NEW l \in thought[j].moves
               PROVE  Time(k)' < Time(l)'
    BY <1>2, Zenon DEF MovesInOrder
  <2>1. Time(k) < Time(l)
    BY <1>1, Zenon DEF MovesInOrder
  <2> QED
    BY <1>9, <2>1
<1> QED
  BY <1>10, <1>11 DEF MovesInv

\* A packet's moves are executed after those before.
LEMMA PacketEventMoves ==
  ASSUME ClientCommandsInv, MovesInv, SV_PacketEvent
  PROVE  MovesInv'
<1>1. TypeOK /\ MoveInv /\ UsercmdInv /\ MovesInOrder /\ UNCHANGED cmds
  BY DEF ClientCommandsInv, MovesInv, SV_PacketEvent, clientVars
<1>2. CASE NoMoves(Head(toServer))
  <2>1. /\ thought' = thought /\ cl'.lastUsercmd = cl.lastUsercmd
        /\ cl'.state = "CS_PRIMED" => cl.state = "CS_PRIMED"
    BY <1>2 DEF NoMoves
  <2> QED
    BY <1>1, <2>1, SameMoves
<1>3. ASSUME NEW p \in Packet, NEW had \in Nat, NEW done \in Nat, PacketFits(p),
             Heard(p, had) \in ClientT, p.from < p.upTo, SV_UserMove(Heard(p, had), p, done)
      PROVE  MovesInv'
  <2>1. /\ Heard(p, had).state = cl.state /\ Heard(p, had).lastUsercmd = cl.lastUsercmd
    BY <1>1, HeardKeeps DEF TypeOK
  <2>2. PICK last \in Nat :
           /\ cl.state # "CS_PRIMED" => last = cl.lastUsercmd
           /\ cl'.state = "CS_ACTIVE"
           /\ cl.state = "CS_PRIMED" => last = Time(p.from + 1)
           /\ Time(p.upTo) > last => cl'.lastUsercmd = Time(p.upTo)
           /\ ~(Time(p.upTo) > last) => cl'.lastUsercmd = last
           /\ Made(last, p) = {} => thought' = thought
           /\ Made(last, p) # {} =>
                thought' = Append(thought, [moves |-> Made(last, p), commands |-> done])
    <3>1. p.upTo <= cmdNumber
      BY <1>3 DEF PacketFits
    <3> QED
      BY <1>1, <1>3, <2>1, <3>1, UserMoveMakes
  <2> DEFINE made == Made(last, p)
             now == cl'.lastUsercmd
             thinks == [moves |-> made, commands |-> done]
  <2>3. p.from \in Nat /\ p.upTo \in 1..cmdNumber /\ DOMAIN cmds = 1..cmdNumber /\ cmdNumber \in Nat
    BY <1>1, <1>3, Numbers, PacketNumbers DEF PacketFits
  <2>4. made \subseteq 1..cmdNumber
    BY <2>3 DEF Made
  <2>5. \A k \in 1..cmdNumber : Time(k) \in Nat
    BY <1>1, <2>3, TimeType
  <2>6. now \in Nat /\ last <= now /\ Time(p.upTo) <= now
    BY <2>2, <2>3, <2>5
  <2>7. \A k \in made : last < Time(k) /\ Time(k) <= now
    <3> SUFFICES ASSUME NEW k \in made PROVE last < Time(k) /\ Time(k) <= now
      OBVIOUS
    <3>1. Time(k) > last /\ Time(k) <= Time(p.upTo) /\ Time(k) \in Nat /\ Time(p.upTo) \in Nat
      BY <2>3, <2>4, <2>5 DEF Made, IsNew
    <3> QED
      BY <2>6, <3>1
  <2>8. now = 0 \/ \E k \in DOMAIN cmds : Time(k) = now
    <3>1. CASE Time(p.upTo) > last
      BY <2>2, <2>3, <3>1
    <3>2. CASE ~(Time(p.upTo) > last)
      <4>1. CASE cl.state = "CS_PRIMED"
        <5>1. p.from + 1 \in DOMAIN cmds
          BY <1>3, <2>3
        <5> QED
          BY <2>2, <3>2, <4>1, <5>1
      <4>2. CASE cl.state # "CS_PRIMED"
        BY <1>1, <2>2, <3>2, <4>2 DEF UsercmdInv
      <4> QED
        BY <4>1, <4>2
    <3> QED
      BY <3>1, <3>2
  <2>9. \A i \in DOMAIN thought : \A k \in thought[i].moves : k \in 1..cmdNumber /\ Time(k) <= last
    <3> SUFFICES ASSUME NEW i \in DOMAIN thought, NEW k \in thought[i].moves
                 PROVE  k \in 1..cmdNumber /\ Time(k) <= last
      OBVIOUS
    <3>1. k \in 1..cmdNumber
      BY <1>1, Zenon DEF MoveInv
    <3>2. cl.state # "CS_PRIMED"
      BY <1>1 DEF UsercmdInv
    <3>3. Time(k) <= cl.lastUsercmd
      BY <1>1, Zenon DEF UsercmdInv
    <3> QED
      BY <2>2, <3>1, <3>2, <3>3
  <2>10. thinks.moves = made
    OBVIOUS
  <2> HIDE DEF made, now, thinks
  <2>11. ASSUME NEW i \in DOMAIN thought'
         PROVE  /\ DOMAIN thought = 1..Len(thought) /\ Len(thought) \in Nat
                /\ i \in 1..Len(thought) + 1
                /\ i \in DOMAIN thought => thought'[i] = thought[i]
                /\ i \notin DOMAIN thought => thought'[i].moves = made
    <3>0. thought \in Seq(Thought) /\ DOMAIN thought = 1..Len(thought) /\ Len(thought) \in Nat
      BY <1>1, LenProperties DEF TypeOK
    <3>1. CASE made = {}
      BY <2>2, <2>11, <3>0, <3>1 DEF made
    <3>2. CASE made # {}
      <4>1. thought' = Append(thought, thinks)
        BY <2>2, <3>2 DEF made, thinks
      <4>2. thinks \in Thought
        <5>1. made \in SUBSET Nat
          BY <2>3, <2>4
        <5> QED
          BY <5>1, Zenon DEF Thought, thinks
      <4>3. /\ Len(thought) \in Nat
            /\ DOMAIN thought = 1..Len(thought) /\ DOMAIN thought' = 1..Len(thought) + 1
            /\ \A k \in 1..Len(thought) : thought'[k] = thought[k]
            /\ thought'[Len(thought) + 1] = thinks
        BY <3>0, <4>1, <4>2, AppendElement
      <4>4. i \notin DOMAIN thought => i = Len(thought) + 1
        BY <2>11, <4>3
      <4> QED
        BY <2>10, <2>11, <3>0, <4>3, <4>4
    <3> QED
      BY <3>1, <3>2
  <2>12. \A k : Time(k)' = Time(k)
    BY <1>1 DEF Time
  <2>13. \A i \in DOMAIN thought' : \A k \in thought'[i].moves : Time(k) <= now
    <3> SUFFICES ASSUME NEW i \in DOMAIN thought', NEW k \in thought'[i].moves
                 PROVE  Time(k) <= now
      OBVIOUS
    <3>1. CASE i \in DOMAIN thought
      <4>1. k \in thought[i].moves
        BY <2>11, <3>1, Zenon
      <4>2. k \in 1..cmdNumber /\ Time(k) <= last
        BY <2>9, <3>1, <4>1, Zenon
      <4> QED
        BY <2>5, <2>6, <4>2
    <3>2. CASE i \notin DOMAIN thought
      <4>1. k \in made
        BY <2>11, <3>2, Zenon
      <4> QED
        BY <2>7, <4>1, Zenon
    <3> QED
      BY <3>1, <3>2
  <2>14. UsercmdInv'
    <3>1. \A j, k \in DOMAIN cmds : j <= k => Time(j) <= Time(k)
      BY <1>1, Zenon DEF UsercmdInv
    <3>2. cl'.state # "CS_PRIMED"
      BY <2>2
    <3> QED
      BY <1>1, <2>8, <2>12, <2>13, <3>1, <3>2, Zenon DEF UsercmdInv, now
  <2>15. ASSUME NEW i \in DOMAIN thought', NEW j \in DOMAIN thought', i < j,
                NEW k \in thought'[i].moves, NEW l \in thought'[j].moves
         PROVE  Time(k) < Time(l)
    <3>1. i \in DOMAIN thought
      BY <2>11, <2>15
    <3>2. k \in thought[i].moves
      BY <2>11, <3>1, Zenon
    <3>3. CASE j \in DOMAIN thought
      <4>1. l \in thought[j].moves
        BY <2>11, <3>3, Zenon
      <4> QED
        BY <1>1, <2>15, <3>1, <3>2, <3>3, <4>1, Zenon DEF MovesInOrder
    <3>4. CASE j \notin DOMAIN thought
      <4>1. k \in 1..cmdNumber /\ Time(k) <= last
        BY <2>9, <3>1, <3>2, Zenon
      <4>2. l \in made
        BY <2>11, <3>4, Zenon
      <4>3. l \in 1..cmdNumber /\ last < Time(l)
        BY <2>4, <2>7, <4>2, Zenon
      <4> QED
        BY <2>5, <4>1, <4>3
    <3> QED
      BY <3>3, <3>4
  <2>16. MovesInOrder'
    BY <2>12, <2>15, Zenon DEF MovesInOrder
  <2> QED
    BY <2>14, <2>16 DEF MovesInv
<1>4. PICK p \in Packet : p = Head(toServer) /\ PacketFits(p)
  <2>1. toServer \in Seq(Packet) /\ toServer # <<>>
    BY <1>1 DEF TypeOK, SV_PacketEvent
  <2>2. Head(toServer) \in Packet /\ 1 \in DOMAIN toServer /\ Head(toServer) = toServer[1]
    BY <2>1, TailElement
  <2> QED
    BY <2>2 DEF ClientCommandsInv, PacketInv
<1> QED
  BY <1>2, <1>3, <1>4, PacketEventMakes, Zenon

LEMMA MovesStep == ClientCommandsInv /\ MovesInv /\ [Next]_vars => MovesInv'
<1> SUFFICES ASSUME ClientCommandsInv, MovesInv, [Next]_vars PROVE MovesInv'
  OBVIOUS
<1>1. CASE CL_CreateNewCommands
  BY <1>1, CreateMoves
<1>2. CASE SV_PacketEvent
  BY <1>2, PacketEventMoves
<1>3. CASE SV_DropClient
  <2>1. cl \in ClientT
    BY DEF ClientCommandsInv, TypeOK
  <2>2. cl'.state = "CS_ZOMBIE" /\ cl'.lastUsercmd = cl.lastUsercmd
    BY <1>3, <2>1, DropKeeps DEF SV_DropClient
  <2>3. UNCHANGED <<cmds, thought>>
    BY <1>3 DEF SV_DropClient, clientVars
  <2> QED
    BY <2>2, <2>3, SameMoves
<1>4. CASE UNCHANGED <<cmds, cl, thought>>
  <2>1. cl'.lastUsercmd = cl.lastUsercmd /\ cl'.state = cl.state
    BY <1>4
  <2> QED
    BY <1>4, <2>1, SameMoves
<1>5. CL_AddReliableCommand \/ CL_WritePacket \/ CL_Disconnect \/ CL_ParseServerMessage
        \/ SV_SendMessage \/ Lose \/ UNCHANGED vars
      => UNCHANGED <<cmds, cl, thought>>
  BY DEF CL_AddReliableCommand, CL_WritePacket, CL_Disconnect, CL_ParseServerMessage,
         SV_SendMessage, Lose, vars, clientVars, serverVars
<1> QED
  BY <1>1, <1>2, <1>3, <1>4, <1>5, Zenon DEF Next

LEMMA InitMoves == Init => MovesInv
<1> SUFFICES ASSUME Init PROVE MovesInv
  OBVIOUS
<1>1. cmds = <<>> /\ thought = <<>> /\ cl.lastUsercmd = 0
  BY Zenon DEF Init
<1> QED
  BY <1>1 DEF MovesInv, UsercmdInv, MovesInOrder

\* Although a move is sent in several packets it is executed once, and after
\* those before it (SV_UserMove).
THEOREM ClientMovesInOrder == Spec => []MovesInOrder
<1>1. Init => MovesInv
  BY InitMoves
<1>2. MovesInv => MovesInOrder
  BY DEF MovesInv
<1> QED
  BY <1>1, <1>2, MovesStep, ClientCommandsInvariant, PTL DEF Spec

-----------------------------------------------------------------------------
(* The line of the packets. *)

\* Losses in a row add up.
LEMMA CountAdds ==
  ASSUME NEW a \in Nat, NEW b \in Nat
  PROVE  Count(Count(a) + Count(b) + 1) = Count(a + b + 1)
<1> DEFINE m == MaxLost
<1>1. m \in Nat
  BY MovesAssumption DEF MaxLost
<1> HIDE DEF m
<1>2. \A n : Count(n) = IF n > m THEN m ELSE n
  BY DEF Count, m
<1> QED
  BY <1>1, <1>2

\* They are counted as far as a window goes, and as far as three.
LEMMA CountTells ==
  ASSUME NEW n \in Nat
  PROVE  /\ Count(n) \in Nat
         /\ ~(Count(n) > cl_packetdup) => n <= cl_packetdup
         /\ Count(n) < 3 => n < 3
         /\ n = 0 => Count(n) = 0
<1>1. MaxLost \in Nat /\ MaxLost > cl_packetdup /\ MaxLost >= 3 /\ cl_packetdup \in Nat
  BY MovesAssumption DEF MaxLost
<1> QED
  BY <1>1 DEF Count

LEMMA WindowType == Window \in Nat \ {0} /\ Window = cl_packetdup + 1 /\ cl_packetdup \in Nat
BY MovesAssumption DEF Window

\* Packet i of a line.
LEMMA InLine ==
  ASSUME NEW q, NEW last, NEW n \in Nat, NEW upTo \in [Nat -> Nat],
         NEW at \in [Nat -> Nat], Line(q, last, n, upTo, at), NEW i \in 1..Len(q)
  PROVE  /\ i \in Nat /\ i - 1 \in Nat /\ q[i] \in Packet
         /\ at[i - 1] \in Nat /\ at[i] \in Nat
         /\ Window <= at[i - 1] /\ at[i - 1] < at[i] /\ at[i] <= n
         /\ q[i].lost = Count(at[i] - at[i - 1] - 1)
         /\ q[i].upTo = upTo[at[i]]
         /\ Follows(q[i], upTo[at[i] - Window])
<1>1. Len(q) \in Nat /\ q[i] \in Packet
  <2>1. q \in Seq(Packet)
    BY DEF Line
  <2> QED
    BY <2>1, LenProperties, ElementOfSeq
<1>2. i \in Nat /\ i - 1 \in Nat /\ i \in 0..Len(q) /\ i - 1 \in 0..Len(q)
  BY <1>1
<1>3. at[i - 1] \in Nat /\ at[i] \in Nat
  BY <1>2
<1>4. Window <= at[i - 1] /\ at[i] <= n
  BY <1>2, Zenon DEF Line
<1>5. /\ at[i - 1] < at[i] /\ q[i].lost = Count(at[i] - at[i - 1] - 1)
      /\ q[i].upTo = upTo[at[i]]
      /\ Follows(q[i], upTo[at[i] - Window])
  BY Zenon DEF Line
<1> QED
  BY <1>1, <1>2, <1>3, <1>4, <1>5, Zenon

\* Packet e is the next one after those sent remembers, of which the last were lost.
IsNext(e, sent, last) ==
  e \in Packet /\ e.lost = last /\ e.upTo = cmdNumber /\ Follows(e, sent[1])

\* The line q with packet e behind it, which was sent after those sent remembers.
Grown(q, n, upTo, at, sent, e, u, a) ==
  /\ Line(Append(q, e), 0, n + 1, u, a)
  /\ Numbered(n + 1, u) /\ Remembers(Sent(sent), n + 1, u)
  /\ \A i \in 0..Len(q) : a[i] = at[i]
  /\ a[Len(q) + 1] = n + 1
  /\ u[a[0]] = upTo[at[0]]

\* Packet e, sent behind a line, stands at its end.
LEMMA LineAppends ==
  ASSUME TypeOK, NEW q, NEW last \in Nat, NEW n \in Nat,
         NEW upTo \in [Nat -> Nat], NEW at \in [Nat -> Nat], NEW sent, NEW e
  PROVE  /\ Line(q, last, n, upTo, at) /\ Numbered(n, upTo)
         /\ Remembers(sent, n, upTo) /\ IsNext(e, sent, last)
         => \E u, a \in [Nat -> Nat] : Grown(q, n, upTo, at, sent, e, u, a)
<1>0. SUFFICES ASSUME Line(q, last, n, upTo, at), Numbered(n, upTo),
                      Remembers(sent, n, upTo), IsNext(e, sent, last)
               PROVE  \E u, a \in [Nat -> Nat] : Grown(q, n, upTo, at, sent, e, u, a)
  OBVIOUS
<1> DEFINE m == cmdNumber
           l == Len(q)
           r == Append(q, e)
<1>1. m \in Nat /\ l \in Nat /\ Window \in Nat \ {0}
  <2>1. q \in Seq(Packet)
    BY <1>0 DEF Line
  <2> QED
    BY <2>1, Numbers, WindowType, LenProperties
<1>14. /\ r \in Seq(Packet) /\ Len(r) = l + 1
       /\ \A k \in 1..l : r[k] = q[k]
       /\ r[l + 1] = e
  <2>1. e \in Packet /\ q \in Seq(Packet)
    BY <1>0 DEF IsNext, Line
  <2> QED
    BY <2>1, AppendElement
<1> HIDE DEF m, l, r
<1>17. n + 1 \in Nat /\ l + 1 \in Nat
  BY <1>1
<1> DEFINE u == [k \in Nat |-> IF k = n + 1 THEN m ELSE upTo[k]]
           a == [k \in Nat |-> IF k = l + 1 THEN n + 1 ELSE at[k]]
<1>2. /\ u \in [Nat -> Nat] /\ a \in [Nat -> Nat]
      /\ \A k \in Nat : k # n + 1 => u[k] = upTo[k]
      /\ u[n + 1] = m
      /\ \A k \in Nat : k # l + 1 => a[k] = at[k]
      /\ a[l + 1] = n + 1
  <2>1. u \in [Nat -> Nat] /\ a \in [Nat -> Nat]
    BY <1>1, <1>17
  <2>2. u[n + 1] = m /\ a[l + 1] = n + 1
    BY <1>17
  <2>3. \A k \in Nat : k # n + 1 => u[k] = upTo[k]
    OBVIOUS
  <2>4. \A k \in Nat : k # l + 1 => a[k] = at[k]
    OBVIOUS
  <2> HIDE DEF u, a
  <2> QED
    BY <2>1, <2>2, <2>3, <2>4, Zenon
<1> HIDE DEF u, a
<1>3. \A k \in 0..l : k \in Nat /\ at[k] \in Nat /\ Window <= at[k] /\ at[k] <= n /\ a[k] = at[k]
  <2> SUFFICES ASSUME NEW k \in 0..l
               PROVE  k \in Nat /\ at[k] \in Nat /\ Window <= at[k] /\ at[k] <= n /\ a[k] = at[k]
    OBVIOUS
  <2>1. k \in Nat /\ k # l + 1
    BY <1>1
  <2>2. Window <= at[k] /\ at[k] <= n
    BY <1>0, Zenon DEF Line, l
  <2>3. a[k] = at[k]
    BY <1>2, <2>1, Zenon
  <2> QED
    BY <2>1, <2>2, <2>3
<1>4. l \in 0..l /\ 0 \in 0..l
  BY <1>1
<1>15. last = Count(n - at[l])
  BY <1>0, Zenon DEF Line, l
<1>5. \A i, j \in 0..n : i <= j => upTo[i] <= upTo[j]
  BY <1>0, Zenon DEF Numbered
<1>6. upTo[n] <= m /\ upTo[n] \in Nat /\ n \in 0..n
  BY <1>0 DEF Numbered, m
<1>7. \A k \in 1..Window : sent[k] = upTo[n - Window + k]
  BY <1>0, Zenon DEF Remembers
<1>8. Window <= n /\ (n + 1) - Window \in Nat /\ n - Window + 1 = (n + 1) - Window
  BY <1>1, <1>3, <1>4
<1>9. ASSUME NEW i \in 1..l + 1
      PROVE  /\ a[i - 1] < a[i]
             /\ r[i].lost = Count(a[i] - a[i - 1] - 1)
             /\ r[i].upTo = u[a[i]]
             /\ Follows(r[i], u[a[i] - Window])
  <2>1. CASE i = l + 1
    <3>1. a[i] = n + 1 /\ a[i - 1] = at[l] /\ at[l] \in Nat /\ at[l] <= n /\ r[i] = e
      <4>1. i - 1 = l /\ l \in 0..l
        BY <1>1, <2>1
      <4>2. a[l] = at[l] /\ at[l] \in Nat /\ at[l] <= n
        BY <1>3, <4>1
      <4>3. r[i] = e
        BY <1>14, <2>1, Zenon
      <4>4. a[i] = n + 1
        BY <1>2, <2>1, Zenon
      <4>5. a[i - 1] = at[l]
        BY <4>1, <4>2, Zenon
      <4> QED
        BY <4>2, <4>3, <4>4, <4>5, Zenon
    <3>2. a[i - 1] < a[i] /\ a[i] - a[i - 1] - 1 = n - at[l]
      BY <3>1
    <3>3. e.lost = Count(a[i] - a[i - 1] - 1)
      BY <1>0, <1>15, <3>2, Zenon DEF IsNext
    <3>4. sent[1] = upTo[(n + 1) - Window]
      <4>1. 1 \in 1..Window
        BY <1>1
      <4> QED
        BY <1>7, <1>8, <4>1, Zenon
    <3>5. u[(n + 1) - Window] = upTo[(n + 1) - Window]
      <4>1. (n + 1) - Window # n + 1
        BY <1>1
      <4> QED
        BY <1>2, <1>8, <4>1, Zenon
    <3>6. e.upTo = u[a[i]]
      BY <1>0, <1>2, <3>1, Zenon DEF m, IsNext
    <3>7. Follows(e, u[a[i] - Window])
      <4>0. a[i] - Window = (n + 1) - Window
        BY <1>1, <3>1
      <4>1. u[a[i] - Window] = sent[1]
        BY <4>0, <3>4, <3>5, Zenon
      <4>2. Follows(e, sent[1])
        BY <1>0, Zenon DEF IsNext
      <4> QED
        BY <4>1, <4>2, Zenon
    <3> QED
      BY <3>1, <3>2, <3>3, <3>6, <3>7, Zenon
  <2>2. CASE i # l + 1
    <3>1. i \in 1..l /\ i \in 0..l /\ i - 1 \in 0..l
      BY <1>1, <2>2
    <3>2. a[i] = at[i] /\ a[i - 1] = at[i - 1] /\ r[i] = q[i]
      BY <1>3, <1>14, <3>1, Zenon
    <3>3. u[at[i]] = upTo[at[i]] /\ u[at[i] - Window] = upTo[at[i] - Window]
      <4>1. at[i] \in Nat /\ Window <= at[i] /\ at[i] <= n
        BY <1>3, <3>1
      <4>2. at[i] - Window \in Nat /\ at[i] # n + 1 /\ at[i] - Window # n + 1
        BY <1>1, <4>1
      <4> QED
        BY <1>2, <4>1, <4>2, Zenon
    <3>4. /\ at[i - 1] < at[i] /\ q[i].lost = Count(at[i] - at[i - 1] - 1)
          /\ q[i].upTo = upTo[at[i]]
          /\ Follows(q[i], upTo[at[i] - Window])
      <4>1. i \in 1..Len(q)
        BY <3>1 DEF l
      <4> QED
        BY <1>0, <4>1, Zenon DEF Line
    <3> QED
      BY <3>2, <3>3, <3>4, Zenon
  <2> QED
    BY <2>1, <2>2
<1>10. Line(r, 0, n + 1, u, a)
  <2>1. \A i \in 0..Len(r) : Window <= a[i] /\ a[i] <= n + 1
    <3> SUFFICES ASSUME NEW i \in 0..l + 1 PROVE Window <= a[i] /\ a[i] <= n + 1
      BY <1>14
    <3>1. CASE i = l + 1
      <4>1. a[i] = n + 1
        BY <1>2, <3>1
      <4> QED
        BY <1>1, <1>8, <4>1
    <3>2. CASE i # l + 1
      <4>1. i \in 0..l
        BY <1>1, <3>2
      <4> QED
        BY <1>3, <4>1
    <3> QED
      BY <3>1, <3>2
  <2>2. 0 = Count((n + 1) - a[Len(r)])
    <3>1. a[Len(r)] = n + 1
      BY <1>2, <1>14, Zenon
    <3>2. (n + 1) - a[Len(r)] = 0
      BY <3>1
    <3> QED
      BY <3>2, CountTells
  <2>3. \A i \in 1..Len(r) :
          /\ a[i - 1] < a[i]
          /\ r[i].lost = Count(a[i] - a[i - 1] - 1)
          /\ r[i].upTo = u[a[i]]
          /\ Follows(r[i], u[a[i] - Window])
    BY <1>9, <1>14, Zenon
  <2>4. r \in Seq(Packet)
    BY <1>14
  <2> QED
    BY <2>1, <2>2, <2>3, <2>4, Zenon DEF Line
<1>11. Numbered(n + 1, u)
  <2>1. ASSUME NEW i \in 0..n + 1, NEW j \in 0..n + 1, i <= j PROVE u[i] <= u[j]
    <3>1. CASE j # n + 1
      <4>1. i \in 0..n /\ j \in 0..n /\ i \in Nat /\ j \in Nat /\ i # n + 1
        BY <2>1, <3>1
      <4> QED
        BY <1>2, <1>5, <2>1, <3>1, <4>1
    <3>2. CASE j = n + 1 /\ i # n + 1
      <4>1. i \in 0..n /\ i \in Nat /\ i <= n
        BY <2>1, <3>2
      <4>2. upTo[i] <= upTo[n] /\ upTo[i] \in Nat
        BY <1>5, <1>6, <4>1
      <4>3. u[i] = upTo[i] /\ u[j] = m
        BY <1>2, <3>2, <4>1
      <4> QED
        BY <1>1, <1>6, <4>2, <4>3
    <3>3. CASE j = n + 1 /\ i = n + 1
      BY <1>1, <1>2, <3>3
    <3> QED
      BY <3>1, <3>2, <3>3
  <2>2. u[n + 1] <= cmdNumber
    BY <1>1, <1>2 DEF m
  <2> QED
    BY <2>1, <2>2, Zenon DEF Numbered
<1>12. Remembers(Sent(sent), n + 1, u)
  <2>1. sent \in Seq(Nat) /\ Len(sent) = Window /\ sent # <<>>
    BY <1>0, <1>1, EmptySeq DEF Remembers
  <2>2. /\ Tail(sent) \in Seq(Nat) /\ Len(Tail(sent)) = Window - 1
        /\ \A k \in 1..Window - 1 : Tail(sent)[k] = sent[k + 1]
    BY <1>1, <2>1, HeadTailProperties
  <2>3. Sent(sent) = Append(Tail(sent), m)
    BY DEF Sent, m
  <2> DEFINE tail == Tail(sent)
  <2> HIDE DEF tail
  <2>7. /\ \A k \in 1..Len(tail) : Append(tail, m)[k] = tail[k]
        /\ Append(tail, m)[Len(tail) + 1] = m
        /\ Append(tail, m) \in Seq(Nat) /\ Len(Append(tail, m)) = Len(tail) + 1
    <3>1. tail \in Seq(Nat)
      BY <2>2 DEF tail
    <3> QED
      BY <1>1, <3>1, AppendElement
  <2>8. Len(tail) = Window - 1 /\ Len(tail) + 1 = Window
    BY <1>1, <2>2 DEF tail
  <2>4. /\ \A k \in 1..Window - 1 : Sent(sent)[k] = sent[k + 1]
        /\ Sent(sent)[Window] = m
    BY <2>2, <2>3, <2>7, <2>8, Zenon DEF tail
  <2>5. ASSUME NEW k \in 1..Window PROVE Sent(sent)[k] = u[(n + 1) - Window + k]
    <3>1. CASE k = Window
      <4>1. (n + 1) - Window + k = n + 1
        BY <1>1, <3>1
      <4> QED
        BY <1>2, <2>4, <3>1, <4>1, Zenon
    <3>2. CASE k # Window
      <4>1. /\ k \in 1..Window - 1 /\ k + 1 \in 1..Window
            /\ (n + 1) - Window + k = n - Window + (k + 1)
            /\ (n + 1) - Window + k \in Nat /\ (n + 1) - Window + k # n + 1
        BY <1>1, <1>8, <3>2
      <4>2. Sent(sent)[k] = upTo[n - Window + (k + 1)]
        BY <1>7, <2>4, <4>1, Zenon
      <4>3. u[(n + 1) - Window + k] = upTo[(n + 1) - Window + k]
        BY <1>2, <4>1, Zenon
      <4> QED
        BY <4>1, <4>2, <4>3, Zenon
    <3> QED
      BY <3>1, <3>2
  <2>6. Sent(sent) \in Seq(Nat) /\ Len(Sent(sent)) = Window
    BY <2>3, <2>7, <2>8, Zenon DEF tail
  <2> QED
    BY <2>5, <2>6, Zenon DEF Remembers
<1>13. u[a[0]] = upTo[at[0]]
  <2>1. at[0] \in Nat /\ at[0] # n + 1 /\ a[0] = at[0]
    BY <1>3, <1>4
  <2> QED
    BY <1>2, <2>1, Zenon
<1>16. /\ \A i \in 0..Len(q) : a[i] = at[i]
       /\ a[Len(q) + 1] = n + 1
  BY <1>2, <1>3, Zenon DEF l
<1> QED
  BY <1>2, <1>10, <1>11, <1>12, <1>13, <1>16, Zenon DEF r, Grown

\* Between positions x and z are those between x and y, y, and those after.
LEMMA Between ==
  ASSUME NEW x \in Nat, NEW y \in Nat, NEW z \in Nat, x < y, y < z
  PROVE  /\ x < z
         /\ y - x - 1 \in Nat /\ z - y - 1 \in Nat
         /\ (z - y - 1) + (y - x - 1) + 1 = z - x - 1
OBVIOUS

LEMMA Behind ==
  ASSUME NEW x \in Nat, NEW y \in Nat, NEW z \in Nat, x < y, y <= z
  PROVE  /\ z - y \in Nat /\ y - x - 1 \in Nat
         /\ (z - y) + (y - x - 1) + 1 = z - x
OBVIOUS

\* Line r, rest is q, last without packet i: the packet behind it counts it and
\* those lost before it, or rest does.
Loses(q, last, i, r, rest) ==
  /\ r \in Seq(Packet) /\ Len(r) = Len(q) - 1
  /\ \A k \in 1..Len(q) - 1 :
       /\ k < i => r[k] = q[k]
       /\ k = i => r[k] = [q[k + 1] EXCEPT !.lost = Count(@ + q[i].lost + 1)]
       /\ k > i => r[k] = q[k + 1]
  /\ i = Len(q) => rest = Count(last + q[i].lost + 1)
  /\ i # Len(q) => rest = last

\* Packet d at position b is packet e at position c.
Same(d, b, e, c) ==
  b = c /\ d.first = e.first /\ d.commands = e.commands

\* Line r, rest stands where packets of line q stood.
Shrunk(q, at, r, rest, n, upTo, a) ==
  /\ Line(r, rest, n, upTo, a)
  /\ a[0] = at[0]
  /\ \A k \in 1..Len(r) : \E j \in 1..Len(q) : Same(r[k], a[k], q[j], at[j])

\* A line without its packet i.
LEMMA LineLoses ==
  ASSUME NEW q, NEW last \in Nat, NEW n \in Nat,
         NEW upTo \in [Nat -> Nat], NEW at \in [Nat -> Nat], NEW i \in 1..Len(q),
         NEW r, NEW rest
  PROVE  /\ Line(q, last, n, upTo, at) /\ Loses(q, last, i, r, rest)
         => \E a \in [Nat -> Nat] : Shrunk(q, at, r, rest, n, upTo, a)
<1>0. SUFFICES ASSUME Line(q, last, n, upTo, at), Loses(q, last, i, r, rest)
               PROVE  \E a \in [Nat -> Nat] : Shrunk(q, at, r, rest, n, upTo, a)
  OBVIOUS
<1> DEFINE l == Len(q)
           a == [k \in Nat |-> IF k < i THEN at[k] ELSE at[k + 1]]
           lost(k) == at[k] - at[k - 1] - 1
<1>1. l \in Nat /\ i \in 1..l /\ i \in Nat /\ Window \in Nat \ {0} /\ l - 1 \in Nat
  <2>1. q \in Seq(Packet)
    BY <1>0, Zenon DEF Line
  <2> QED
    BY <2>1, WindowType, LenProperties
<1>2. /\ a \in [Nat -> Nat]
      /\ \A k \in Nat : k < i => a[k] = at[k]
      /\ \A k \in Nat : ~(k < i) => a[k] = at[k + 1]
  <2>1. \A k \in Nat : k + 1 \in Nat
    OBVIOUS
  <2> QED
    BY <2>1, Zenon
<1> HIDE DEF a, l
<1>3. \A k \in 0..l : at[k] \in Nat /\ Window <= at[k] /\ at[k] <= n
  <2>1. \A k \in 0..l : Window <= at[k] /\ at[k] <= n
    BY <1>0, Zenon DEF Line, l
  <2>2. \A k \in 0..l : k \in Nat
    BY <1>1
  <2>3. \A k \in 0..l : at[k] \in Nat
    BY <2>2, Zenon
  <2> QED
    BY <2>1, <2>3, Zenon
<1>4. \A k \in 1..l :
        /\ at[k - 1] < at[k] /\ q[k].lost = Count(lost(k))
        /\ q[k].upTo = upTo[at[k]] /\ Follows(q[k], upTo[at[k] - Window])
  BY <1>0, Zenon DEF Line, l
<1>5. /\ r \in Seq(Packet) /\ Len(r) = l - 1
      /\ \A k \in 1..l - 1 : k < i => r[k] = q[k]
      /\ \A k \in 1..l - 1 : k = i => r[k] = [q[k + 1] EXCEPT !.lost = Count(@ + q[i].lost + 1)]
      /\ \A k \in 1..l - 1 : k > i => r[k] = q[k + 1]
      /\ i = l => rest = Count(last + q[i].lost + 1)
      /\ i # l => rest = last
  BY <1>0, Zenon DEF Loses, l
<1>6. ASSUME NEW k \in 1..l - 1
      PROVE  /\ Window <= a[k] /\ a[k] <= n
             /\ a[k - 1] < a[k]
             /\ r[k].lost = Count(a[k] - a[k - 1] - 1)
             /\ r[k].upTo = upTo[a[k]]
             /\ Follows(r[k], upTo[a[k] - Window])
             /\ \E j \in 1..l : Same(r[k], a[k], q[j], at[j])
  <2>0. k \in Nat /\ k - 1 \in Nat /\ k \in 1..l /\ k + 1 \in 1..l /\ k \in 0..l /\ k + 1 \in 0..l
        /\ k - 1 \in 0..l /\ (k - 1) + 1 = k /\ (k + 1) - 1 = k
    BY <1>1
  <2>1. CASE k < i
    <3>1. a[k] = at[k] /\ a[k - 1] = at[k - 1]
      <4>1. k - 1 < i
        BY <1>1, <2>0, <2>1
      <4> QED
        BY <1>2, <2>0, <2>1, <4>1, Zenon
    <3>2. r[k] = q[k]
      BY <1>5, <2>1, Zenon
    <3>3. Same(r[k], a[k], q[k], at[k])
      BY <3>1, <3>2, Zenon DEF Same
    <3> QED
      BY <1>3, <1>4, <2>0, <3>1, <3>2, <3>3, Zenon
  <2>2. CASE k > i
    <3>1. a[k] = at[k + 1] /\ a[k - 1] = at[k]
      <4>1. ~(k < i) /\ ~(k - 1 < i)
        BY <1>1, <2>0, <2>2
      <4> QED
        BY <1>2, <2>0, <4>1, Zenon
    <3>2. r[k] = q[k + 1]
      BY <1>5, <2>2, Zenon
    <3>3. /\ at[k] < at[k + 1] /\ q[k + 1].lost = Count(at[k + 1] - at[k] - 1)
          /\ q[k + 1].upTo = upTo[at[k + 1]] /\ Follows(q[k + 1], upTo[at[k + 1] - Window])
      BY <1>4, <2>0, Zenon
    <3>4. Same(r[k], a[k], q[k + 1], at[k + 1])
      BY <3>1, <3>2, Zenon DEF Same
    <3> QED
      BY <1>3, <2>0, <3>1, <3>2, <3>3, <3>4, Zenon
  <2>3. CASE k = i
    <3>1. a[k] = at[k + 1] /\ a[k - 1] = at[k - 1]
      <4>1. ~(k < i) /\ k - 1 < i
        BY <1>1, <2>0, <2>3
      <4> QED
        BY <1>2, <2>0, <4>1, Zenon
    <3> DEFINE p == q[k + 1]
               more == Count(p.lost + q[k].lost + 1)
    <3>2. r[k] = [p EXCEPT !.lost = more]
      BY <1>5, <2>3, Zenon
    <3>3. p \in Packet
      <4>1. q \in Seq(Packet)
        BY <1>0, Zenon DEF Line
      <4> QED
        BY <2>0, <4>1, ElementOfSeq DEF l
    <3>4. /\ at[k - 1] < at[k] /\ q[k].lost = Count(at[k] - at[k - 1] - 1)
          /\ at[k] < at[k + 1] /\ p.lost = Count(at[k + 1] - at[k] - 1)
          /\ p.upTo = upTo[at[k + 1]] /\ Follows(p, upTo[at[k + 1] - Window])
      BY <1>4, <2>0, Zenon
    <3>5. at[k] \in Nat /\ at[k - 1] \in Nat /\ at[k + 1] \in Nat
      BY <1>3, <2>0, Zenon
    <3>6. /\ at[k - 1] < at[k + 1]
          /\ at[k] - at[k - 1] - 1 \in Nat /\ at[k + 1] - at[k] - 1 \in Nat
          /\ (at[k + 1] - at[k] - 1) + (at[k] - at[k - 1] - 1) + 1 = at[k + 1] - at[k - 1] - 1
      BY <3>4, <3>5, Between, Zenon
    <3>7. more = Count(a[k] - a[k - 1] - 1)
      <4>1. Count(Count(at[k + 1] - at[k] - 1) + Count(at[k] - at[k - 1] - 1) + 1)
              = Count((at[k + 1] - at[k] - 1) + (at[k] - at[k - 1] - 1) + 1)
        BY <3>6, CountAdds, Zenon
      <4> HIDE DEF p
      <4> QED
        BY <3>1, <3>4, <3>6, <4>1, Zenon
    <3> HIDE DEF p, more
    <3>8. /\ r[k].lost = more /\ r[k].upTo = p.upTo /\ r[k].clipped = p.clipped
          /\ r[k].from = p.from /\ r[k].first = p.first /\ r[k].commands = p.commands
      BY <3>2, <3>3, Zenon DEF Packet
    <3>9. Follows(r[k], upTo[a[k] - Window])
      BY <3>1, <3>4, <3>8, Zenon DEF Follows
    <3>10. Same(r[k], a[k], q[k + 1], at[k + 1])
      BY <3>1, <3>8, Zenon DEF Same, p
    <3>11. Window <= a[k] /\ a[k] <= n
      BY <1>3, <2>0, <3>1, Zenon
    <3> QED
      BY <2>0, <3>1, <3>4, <3>6, <3>7, <3>8, <3>9, <3>10, <3>11, Zenon
  <2> QED
    BY <1>1, <2>0, <2>1, <2>2, <2>3
<1>7. a[0] = at[0]
  <2>1. 0 \in Nat /\ 0 < i
    BY <1>1
  <2> QED
    BY <1>2, <2>1, Zenon
<1>8. rest = Count(n - a[l - 1])
  <2>0. last = Count(n - at[l]) /\ l \in 1..l
    <3>1. l \in 1..l
      BY <1>1
    <3> QED
      BY <1>0, <3>1, Zenon DEF Line, l
  <2>1. CASE i = l
    <3>1. a[l - 1] = at[l - 1]
      <4>1. l - 1 < i
        BY <1>1, <2>1
      <4> QED
        BY <1>1, <1>2, <4>1, Zenon
    <3>2. q[l].lost = Count(at[l] - at[l - 1] - 1) /\ at[l - 1] < at[l]
      BY <1>4, <2>0, Zenon
    <3>3. /\ n - at[l] \in Nat /\ at[l] - at[l - 1] - 1 \in Nat
          /\ (n - at[l]) + (at[l] - at[l - 1] - 1) + 1 = n - at[l - 1]
      <4>1. l \in 0..l /\ l - 1 \in 0..l
        BY <1>1
      <4>2. at[l] \in Nat /\ at[l - 1] \in Nat /\ at[l] <= n
        BY <1>3, <4>1, Zenon
      <4> QED
        BY <3>2, <4>2, Behind, Zenon
    <3>4. Count(Count(n - at[l]) + Count(at[l] - at[l - 1] - 1) + 1) = Count(n - at[l - 1])
      <4>1. Count(Count(n - at[l]) + Count(at[l] - at[l - 1] - 1) + 1)
              = Count((n - at[l]) + (at[l] - at[l - 1] - 1) + 1)
        BY <3>3, CountAdds, Zenon
      <4> QED
        BY <3>3, <4>1, Zenon
    <3>5. rest = Count(last + q[l].lost + 1)
      BY <1>5, <2>1, Zenon
    <3> QED
      BY <2>0, <3>1, <3>2, <3>4, <3>5, Zenon
  <2>2. CASE i # l
    <3>1. a[l - 1] = at[l]
      <4>1. ~(l - 1 < i) /\ (l - 1) + 1 = l
        BY <1>1, <2>2
      <4> QED
        BY <1>1, <1>2, <4>1, Zenon
    <3> QED
      BY <1>5, <2>0, <2>2, <3>1, Zenon
  <2> QED
    BY <2>1, <2>2
<1>9. Line(r, rest, n, upTo, a)
  <2>1. ASSUME NEW k \in 0..l - 1 PROVE Window <= a[k] /\ a[k] <= n
    <3>1. CASE k = 0
      <4>1. 0 \in 0..l
        BY <1>1
      <4> QED
        BY <1>3, <1>7, <3>1, <4>1, Zenon
    <3>2. CASE k # 0
      <4>1. k \in 1..l - 1
        BY <1>1, <3>2
      <4> QED
        BY <1>6, <4>1, Zenon
    <3> QED
      BY <3>1, <3>2
  <2> QED
    BY <1>5, <1>6, <1>8, <2>1, Zenon DEF Line
<1>10. \A k \in 1..Len(r) : \E j \in 1..Len(q) : Same(r[k], a[k], q[j], at[j])
  BY <1>5, <1>6, Zenon DEF l
<1> QED
  BY <1>2, <1>7, <1>9, <1>10, Zenon DEF Shrunk

\* The positions a are those of at behind the first.
Onward(a, at) == \A k \in Nat : a[k] = at[k + 1]

\* A line without its first packet, which the server has read.
LEMMA LineAdvances ==
  ASSUME NEW q, NEW last, NEW n \in Nat,
         NEW upTo \in [Nat -> Nat], NEW at \in [Nat -> Nat]
  PROVE  Line(q, last, n, upTo, at) /\ q # <<>>
         => \E a \in [Nat -> Nat] : Line(Tail(q), last, n, upTo, a) /\ Onward(a, at)
<1>0. SUFFICES ASSUME Line(q, last, n, upTo, at), q # <<>>
               PROVE  \E a \in [Nat -> Nat] : Line(Tail(q), last, n, upTo, a) /\ Onward(a, at)
  OBVIOUS
<1> DEFINE a == [k \in Nat |-> at[k + 1]]
           l == Len(q)
           r == Tail(q)
<1>1. /\ l \in Nat \ {0} /\ r \in Seq(Packet) /\ Len(r) = l - 1
      /\ \A k \in 1..l - 1 : r[k] = q[k + 1]
  <2>1. q \in Seq(Packet)
    BY <1>0, Zenon DEF Line
  <2> QED
    BY <1>0, <2>1, HeadTailProperties, LenProperties, EmptySeq
<1>2. a \in [Nat -> Nat] /\ \A k \in Nat : a[k] = at[k + 1]
  OBVIOUS
<1> HIDE DEF a, r
<1>3. ASSUME NEW k \in 0..l - 1 PROVE Window <= a[k] /\ a[k] <= n
  <2>1. k + 1 \in 0..l /\ k \in Nat
    BY <1>1
  <2>2. Window <= at[k + 1] /\ at[k + 1] <= n
    BY <1>0, <2>1, Zenon DEF Line
  <2> QED
    BY <1>2, <2>1, <2>2, Zenon
<1>4. ASSUME NEW k \in 1..l - 1
      PROVE  /\ a[k - 1] < a[k] /\ r[k].lost = Count(a[k] - a[k - 1] - 1)
             /\ r[k].upTo = upTo[a[k]] /\ Follows(r[k], upTo[a[k] - Window])
  <2>1. k + 1 \in 1..l /\ k \in Nat /\ k - 1 \in Nat /\ (k - 1) + 1 = k /\ (k + 1) - 1 = k
    BY <1>1
  <2>2. /\ at[k] < at[k + 1] /\ q[k + 1].lost = Count(at[k + 1] - at[k] - 1)
        /\ q[k + 1].upTo = upTo[at[k + 1]] /\ Follows(q[k + 1], upTo[at[k + 1] - Window])
    BY <1>0, <2>1, Zenon DEF Line
  <2>3. a[k] = at[k + 1] /\ a[k - 1] = at[k] /\ r[k] = q[k + 1]
    BY <1>1, <1>2, <2>1, Zenon
  <2> QED
    BY <2>2, <2>3, Zenon
<1>5. last = Count(n - a[l - 1])
  <2>1. last = Count(n - at[l])
    BY <1>0, Zenon DEF Line
  <2>2. l - 1 \in Nat /\ (l - 1) + 1 = l
    BY <1>1
  <2> QED
    BY <1>2, <2>1, <2>2, Zenon
<1>6. Line(r, last, n, upTo, a)
  BY <1>1, <1>3, <1>4, <1>5, Zenon DEF Line
<1> QED
  BY <1>2, <1>6, Zenon DEF r, Onward

-----------------------------------------------------------------------------
(* Where the packets stand. *)

\* There are positions for the packets in flight.
PositionInv == \E n \in Nat : \E upTo, at \in [Nat -> Nat] : Positions(n, upTo, at)

\* The packet built after sent, whose last command is number k.
LEMMA NewPacketMoves ==
  ASSUME TypeOK, NEW k \in Nat, clc.reliableAcknowledge <= k, NEW ring \in [Slots -> Nat],
         NEW sent \in Seq(Nat), Len(sent) = cl_packetdup + 1,
         \A j \in DOMAIN sent : sent[j] <= cmdNumber, NEW lost \in Nat
  PROVE  LET p == NewPacket(k, ring, sent, lost)
         IN  /\ IsNext(p, sent, lost)
             /\ LastCommand(p) = k
             /\ clc.reliableAcknowledge < k =>
                  p.commands # <<>> /\ p.commands[Len(p.commands)] = ring[k % M]
<1> DEFINE p == NewPacket(k, ring, sent, lost)
           count == cmdNumber - FirstMove(sent)
           clipped == count > MAX_PACKET_USERCMDS
           from == IF clipped THEN cmdNumber - MAX_PACKET_USERCMDS ELSE sent[1]
<1>1. sent[1] \in Nat /\ sent[1] <= cmdNumber
  BY SentHas
<1>2. /\ p \in Packet
      /\ p.first = clc.reliableAcknowledge + 1
      /\ LastCommand(p) = k
      /\ p.upTo = cmdNumber
      /\ \A j \in DOMAIN p.commands : p.commands[j] = ring[(p.first + j - 1) % M]
  BY <1>1, NewPacketHas
<1>3. p.lost = lost /\ p.clipped = clipped /\ p.from = from
  BY DEF NewPacket, FirstMove
<1>4. clipped \/ from = sent[1]
  OBVIOUS
<1> HIDE DEF p, clipped, from
<1>5. IsNext(p, sent, lost)
  BY <1>2, <1>3, <1>4, Zenon DEF IsNext, Follows
<1>6. ASSUME clc.reliableAcknowledge < k
      PROVE  p.commands # <<>> /\ p.commands[Len(p.commands)] = ring[k % M]
  <2>1. /\ p.commands \in Seq(Nat) /\ DOMAIN p.commands = 1..Len(p.commands)
        /\ Len(p.commands) \in Nat /\ p.first \in Nat
    BY <1>2, PacketNumbers
  <2>2. clc.reliableAcknowledge \in Nat /\ k = p.first + Len(p.commands) - 1
    BY <1>2, Numbers DEF LastCommand
  <2>3. Len(p.commands) \in DOMAIN p.commands /\ Len(p.commands) # 0
    BY <1>2, <1>6, <2>1, <2>2
  <2>4. p.commands # <<>>
    BY <2>1, <2>3, EmptySeq
  <2>5. p.commands[Len(p.commands)] = ring[(p.first + Len(p.commands) - 1) % M]
    BY <1>2, <2>3, Zenon
  <2> QED
    BY <2>2, <2>4, <2>5, Zenon
<1> QED
  BY <1>2, <1>5, <1>6 DEF p

\* Steps that neither send nor read a packet, nor add a move.
LEMMA SamePositions ==
  ASSUME PositionInv, cl \in ClientT, UNCHANGED <<toServer, lostLast, outPackets, cmds>>,
         clc'.state = clc.state, clc.state = "CA_DISCONNECTED" => added' = added,
         cl' = cl \/ cl' = Drop(cl)
  PROVE  PositionInv'
<1>1. PICK n \in Nat : \E upTo, at \in [Nat -> Nat] : Positions(n, upTo, at)
  BY DEF PositionInv
<1>2. PICK upTo \in [Nat -> Nat], at \in [Nat -> Nat] : Positions(n, upTo, at)
  BY <1>1
<1>3. /\ Line(toServer, lostLast, n, upTo, at) /\ Numbered(n, upTo)
      /\ Connected => Remembers(outPackets, n, upTo)
      /\ Followed(upTo, at) /\ Left(n, at)
  BY <1>2 DEF Positions
<1>4. \/ cl' = cl
      \/ cl'.state = "CS_ZOMBIE"
  BY DropKeeps
<1>5. \A k : Time(k)' = Time(k)
  BY DEF Time
<1>6. Line(toServer, lostLast, n, upTo, at)'
  BY <1>3, Zenon DEF Line
<1>7. Numbered(n, upTo)'
  BY <1>3, Zenon DEF Numbered, cmdNumber
<1>8. (Connected => Remembers(outPackets, n, upTo))'
  BY <1>3, Zenon DEF Remembers, Connected
<1>9. Followed(upTo, at)'
  <2>1. CASE cl' = cl
    BY <1>3, <1>5, <2>1, Zenon DEF Followed
  <2>2. CASE cl'.state = "CS_ZOMBIE"
    <3>1. cl'.state # "CS_ACTIVE"
      BY <2>2
    <3> QED
      BY <3>1, Zenon DEF Followed
  <2> QED
    BY <1>4, <2>1, <2>2
<1>10. Left(n, at)'
  <2>1. CASE cl' = cl
    BY <1>3, <2>1, Zenon DEF Left, reliableSequence, LastCommand
  <2>2. CASE cl'.state = "CS_ZOMBIE"
    BY <1>3, <2>2, Zenon DEF Left, reliableSequence, LastCommand
  <2> QED
    BY <1>4, <2>1, <2>2
<1>11. Positions(n, upTo, at)'
  BY <1>6, <1>7, <1>8, <1>9, <1>10 DEF Positions
<1> QED
  BY <1>11, Zenon DEF PositionInv

\* A move is none of the packets sent before.
LEMMA CreatePositions ==
  ASSUME TypeOK, PositionInv, CL_CreateNewCommands
  PROVE  PositionInv'
<1>1. PICK n \in Nat : \E upTo, at \in [Nat -> Nat] : Positions(n, upTo, at)
  BY DEF PositionInv
<1>2. PICK upTo \in [Nat -> Nat], at \in [Nat -> Nat] : Positions(n, upTo, at)
  BY <1>1
<1>3. /\ Line(toServer, lostLast, n, upTo, at) /\ Numbered(n, upTo)
      /\ Connected => Remembers(outPackets, n, upTo)
      /\ Followed(upTo, at) /\ Left(n, at)
  BY <1>2 DEF Positions
<1>4. UNCHANGED <<toServer, lostLast, outPackets, cl, clc, added>>
  BY DEF CL_CreateNewCommands, serverVars
<1>5. /\ cmdNumber \in Nat /\ DOMAIN cmds = 1..cmdNumber
      /\ cmdNumber' = cmdNumber + 1 /\ DOMAIN cmds' = 1..cmdNumber + 1
      /\ \A k \in 1..cmdNumber : Time(k)' = Time(k)
  BY MoveAdded
<1>6. Line(toServer, lostLast, n, upTo, at)'
  BY <1>3, <1>4, Zenon DEF Line
<1>7. Numbered(n, upTo)'
  <2>1. upTo[n] <= cmdNumber'
    BY <1>3, <1>5 DEF Numbered
  <2> QED
    BY <1>3, <2>1, Zenon DEF Numbered
<1>8. (Connected => Remembers(outPackets, n, upTo))'
  BY <1>3, <1>4, Zenon DEF Remembers, Connected
<1>9. Followed(upTo, at)'
  <2>1. upTo[at[0]] <= cmdNumber /\ upTo[at[0]] \in Nat
    <3>1. Len(toServer) \in Nat
      BY LenProperties DEF TypeOK
    <3>2. 0 \in 0..Len(toServer) /\ 0 \in Nat
      BY <3>1
    <3>3. at[0] <= n /\ at[0] \in Nat
      BY <1>3, <3>2, Zenon DEF Line
    <3>4. at[0] \in 0..n /\ n \in 0..n
      BY <3>3
    <3>5. upTo[at[0]] <= upTo[n] /\ upTo[n] <= cmdNumber
      BY <1>3, <3>3, <3>4, Zenon DEF Numbered
    <3>6. upTo[at[0]] \in Nat /\ upTo[n] \in Nat
      BY <3>3
    <3> QED
      BY <1>5, <3>5, <3>6
  <2>2. ASSUME NEW k \in DOMAIN cmds', k <= upTo[at[0]]
        PROVE  k \in DOMAIN cmds /\ Time(k)' = Time(k)
    <3> DEFINE m == upTo[at[0]]
    <3>1. k \in 1..cmdNumber + 1 /\ k <= m /\ m <= cmdNumber /\ m \in Nat /\ cmdNumber \in Nat
      BY <1>5, <2>1, <2>2, Zenon
    <3> HIDE DEF m
    <3>2. k \in 1..cmdNumber
      BY <3>1
    <3> QED
      BY <1>5, <3>2, Zenon
  <2> QED
    BY <1>3, <1>4, <2>2, Zenon DEF Followed
<1>10. Left(n, at)'
  BY <1>3, <1>4, Zenon DEF Left, reliableSequence, LastCommand
<1>11. Positions(n, upTo, at)'
  BY <1>6, <1>7, <1>8, <1>9, <1>10 DEF Positions
<1> QED
  BY <1>11, Zenon DEF PositionInv

\* A packet sent is the last in the line.
LEMMA WritePositions ==
  ASSUME ClientCommandsInv, PositionInv, CL_WritePacket
  PROVE  PositionInv'
<1> DEFINE p == NewPacket(reliableSequence, clc.reliableCommands, outPackets, lostLast)
<1>0. TypeOK /\ RingInv /\ AcknowledgeInv /\ MoveInv
  BY DEF ClientCommandsInv
<1>1. PICK n \in Nat : \E upTo, at \in [Nat -> Nat] : Positions(n, upTo, at)
  BY DEF PositionInv
<1>2. PICK upTo \in [Nat -> Nat], at \in [Nat -> Nat] : Positions(n, upTo, at)
  BY <1>1
<1>3. /\ Line(toServer, lostLast, n, upTo, at) /\ Numbered(n, upTo)
      /\ Connected => Remembers(outPackets, n, upTo)
      /\ Followed(upTo, at)
  BY <1>2 DEF Positions
<1>4. /\ UNCHANGED <<clc, cmds, added, cl>> /\ clc.state # "CA_DISCONNECTED"
      /\ toServer' = Append(toServer, p) /\ lostLast' = 0 /\ outPackets' = Sent(outPackets)
  BY DEF CL_WritePacket, serverVars
<1>5. IsNext(p, outPackets, lostLast)
  <2>1. /\ reliableSequence \in Nat /\ clc.reliableCommands \in [Slots -> Nat] /\ lostLast \in Nat
        /\ clc.reliableAcknowledge \in Nat /\ cl.lastClientCommand \in Nat
        /\ outPackets \in Seq(Nat)
    BY <1>0, Numbers DEF TypeOK
  <2>2. clc.reliableAcknowledge <= cl.lastClientCommand /\ cl.lastClientCommand <= reliableSequence
    BY <1>0, <1>4, Zenon DEF RingInv, AcknowledgeInv, Connected
  <2>5. /\ reliableSequence \in Nat /\ clc.reliableAcknowledge \in Nat
        /\ cl.lastClientCommand \in Nat
    BY <2>1
  <2>3. clc.reliableAcknowledge <= reliableSequence
    BY <2>2, <2>5
  <2>4. Len(outPackets) = cl_packetdup + 1 /\ \A j \in DOMAIN outPackets : outPackets[j] <= cmdNumber
    BY <1>0, Zenon DEF MoveInv
  <2> QED
    BY <1>0, <2>1, <2>3, <2>4, NewPacketMoves
<1> HIDE DEF p
<1>6. lostLast \in Nat
  BY <1>0 DEF TypeOK
<1>7. PICK u \in [Nat -> Nat], a \in [Nat -> Nat] :
         /\ Line(Append(toServer, p), 0, n + 1, u, a)
         /\ Numbered(n + 1, u) /\ Remembers(Sent(outPackets), n + 1, u)
         /\ \A i \in 0..Len(toServer) : a[i] = at[i]
         /\ a[Len(toServer) + 1] = n + 1
         /\ u[a[0]] = upTo[at[0]]
  <2>1. Remembers(outPackets, n, upTo)
    BY <1>3, <1>4 DEF Connected
  <2>2. \E v, b \in [Nat -> Nat] : Grown(toServer, n, upTo, at, outPackets, p, v, b)
    BY <1>0, <1>3, <1>5, <1>6, <2>1, LineAppends
  <2> QED
    BY <2>2, Zenon DEF Grown
<1>8. Line(toServer, lostLast, n + 1, u, a)'
  BY <1>4, <1>7, Zenon DEF Line
<1>9. Numbered(n + 1, u)'
  BY <1>4, <1>7, Zenon DEF Numbered, cmdNumber
<1>10. (Connected => Remembers(outPackets, n + 1, u))'
  BY <1>4, <1>7, Zenon DEF Remembers
<1>11. Followed(u, a)'
  <2>1. \A k : Time(k)' = Time(k)
    BY <1>4 DEF Time
  <2> QED
    BY <1>3, <1>4, <1>7, <2>1, Zenon DEF Followed
<1>12. Left(n + 1, a)'
  BY <1>4, Zenon DEF Left
<1>13. Positions(n + 1, u, a)'
  BY <1>8, <1>9, <1>10, <1>11, <1>12 DEF Positions
<1>14. n + 1 \in Nat
  OBVIOUS
<1> QED
  BY <1>13, <1>14, Zenon DEF PositionInv

\* Three elements more.
Three(q, x, y, z) == q \o <<x, y, z>>

Added(r, q, x, y, z) ==
  /\ r = Append(Append(Append(q, x), y), z)
  /\ Len(q) \in Nat
  /\ Len(Append(q, x)) = Len(q) + 1 /\ Len(Append(Append(q, x), y)) = Len(q) + 2
  /\ DOMAIN r = 1..Len(q) + 3
  /\ \A k \in 1..Len(q) : r[k] = q[k]
  /\ r[Len(q) + 1] = x /\ r[Len(q) + 2] = y /\ r[Len(q) + 3] = z

LEMMA AppendThree ==
  ASSUME NEW q \in Seq(Packet), NEW x \in Packet, NEW y \in Packet, NEW z \in Packet
  PROVE  Added(Three(q, x, y, z), q, x, y, z)
<1> DEFINE r == Three(q, x, y, z)
<1>0. r = Three(q, x, y, z)
  OBVIOUS
<1> HIDE DEF r
<1> DEFINE a == Append(q, x)
           b == Append(a, y)
           c == Append(b, z)
<1>1. Len(q) \in Nat
  BY LenProperties
<1>2. a \in Seq(Packet) /\ Len(a) = Len(q) + 1
      /\ (\A k \in 1..Len(q) : a[k] = q[k]) /\ a[Len(q) + 1] = x
  BY AppendElement
<1> HIDE DEF a
<1>3. b \in Seq(Packet) /\ Len(b) = Len(a) + 1
      /\ (\A k \in 1..Len(a) : b[k] = a[k]) /\ b[Len(a) + 1] = y
  BY <1>2, AppendElement
<1> HIDE DEF b
<1>4. c \in Seq(Packet) /\ Len(c) = Len(b) + 1
      /\ (\A k \in 1..Len(b) : c[k] = b[k]) /\ c[Len(b) + 1] = z
  BY <1>3, AppendElement
<1> HIDE DEF c
<1>5. /\ r \in Seq(Packet) /\ Len(r) = Len(q) + 3
      /\ \A k \in 1..Len(q) + 3 : r[k] = IF k <= Len(q) THEN q[k] ELSE <<x, y, z>>[k - Len(q)]
  <2>1. <<x, y, z>> \in Seq(Packet) /\ Len(<<x, y, z>>) = 3
    OBVIOUS
  <2>2. r = q \o <<x, y, z>>
    BY <1>0 DEF Three
  <2> QED
    BY <2>1, <2>2, ConcatProperties
<1>6. /\ \A k \in 1..Len(q) : r[k] = q[k]
      /\ r[Len(q) + 1] = x /\ r[Len(q) + 2] = y /\ r[Len(q) + 3] = z
  BY <1>1, <1>5
<1>7. Len(b) = Len(q) + 2 /\ Len(c) = Len(q) + 3
  BY <1>1, <1>2, <1>3, <1>4
<1>8. /\ \A k \in 1..Len(q) : c[k] = q[k]
      /\ c[Len(q) + 1] = x /\ c[Len(q) + 2] = y /\ c[Len(q) + 3] = z
  <2>1. /\ \A k \in 1..Len(q) : k \in 1..Len(a) /\ k \in 1..Len(b)
        /\ Len(q) + 1 \in 1..Len(a) /\ Len(q) + 1 \in 1..Len(b)
        /\ Len(q) + 2 \in 1..Len(b)
        /\ Len(a) + 1 = Len(q) + 2 /\ Len(b) + 1 = Len(q) + 3
    BY <1>1, <1>2, <1>7
  <2> QED
    BY <1>2, <1>3, <1>4, <2>1, Zenon
<1>9. \A k \in 1..Len(q) + 3 : r[k] = c[k]
  <2> SUFFICES ASSUME NEW k \in 1..Len(q) + 3 PROVE r[k] = c[k]
    OBVIOUS
  <2>1. k \in 1..Len(q) \/ k = Len(q) + 1 \/ k = Len(q) + 2 \/ k = Len(q) + 3
    BY <1>1
  <2> QED
    BY <1>6, <1>8, <2>1, Zenon
<1>10. r = c
  <2>1. Len(r) = Len(c)
    BY <1>5, <1>7, Zenon
  <2>2. \A k \in 1..Len(r) : r[k] = c[k]
    BY <1>5, <1>9, Zenon
  <2> QED
    BY <1>4, <1>5, <2>1, <2>2, SeqEqual
<1>11. DOMAIN r = 1..Len(q) + 3
  BY <1>5, LenProperties, Zenon
<1> QED
  BY <1>1, <1>2, <1>3, <1>6, <1>7, <1>10, <1>11, Zenon DEF a, b, c, Added, r

\* The three packets of a client that leaves are the last in the line.
LEMMA DisconnectPositions ==
  ASSUME ClientCommandsInv, PositionInv, CL_Disconnect
  PROVE  PositionInv'
<1> DEFINE N == reliableSequence + 1
           ring == [clc.reliableCommands EXCEPT ![N % M] = N]
           s1 == Sent(outPackets)
           s2 == Sent(s1)
           p1 == NewPacket(N, ring, outPackets, lostLast)
           p2 == NewPacket(N, ring, s1, 0)
           p3 == NewPacket(N, ring, s2, 0)
           l == Len(toServer)
           Tells(p) == /\ LastCommand(p) = N
                       /\ p.commands # <<>> /\ p.commands[Len(p.commands)] = N
<1>0. TypeOK /\ RingInv /\ AcknowledgeInv /\ MoveInv /\ PacketInv
  BY DEF ClientCommandsInv
<1>1. PICK n \in Nat : \E upTo, at \in [Nat -> Nat] : Positions(n, upTo, at)
  BY DEF PositionInv
<1>2. PICK upTo \in [Nat -> Nat], at \in [Nat -> Nat] : Positions(n, upTo, at)
  BY <1>1
<1>3. /\ Line(toServer, lostLast, n, upTo, at) /\ Numbered(n, upTo)
      /\ Connected => Remembers(outPackets, n, upTo)
      /\ Followed(upTo, at)
  BY <1>2 DEF Positions
<1>4. /\ UNCHANGED <<cmds, cl>> /\ clc.state # "CA_DISCONNECTED" /\ clc'.state = "CA_DISCONNECTED"
      /\ toServer' = Three(toServer, p1, p2, p3) /\ lostLast' = 0
      /\ added' = Append(added, "disconnect")
  BY DEF CL_Disconnect, LastPackets, serverVars, Three
<1>5. /\ reliableSequence \in Nat /\ N \in Nat /\ clc.reliableAcknowledge \in Nat
      /\ cl.lastClientCommand \in Nat
  <2>1. /\ reliableSequence \in Nat /\ clc.reliableAcknowledge \in Nat
        /\ cl.lastClientCommand \in Nat
    BY <1>0, Numbers, Zenon
  <2> QED
    BY <2>1
<1>6. clc.reliableAcknowledge <= cl.lastClientCommand /\ cl.lastClientCommand <= reliableSequence
  BY <1>0, <1>4, Zenon DEF RingInv, AcknowledgeInv, Connected
<1>7. clc.reliableAcknowledge <= N /\ clc.reliableAcknowledge < N /\ cl.lastClientCommand # N
  BY <1>5, <1>6
<1>8. ring \in [Slots -> Nat] /\ ring[N % M] = N
  <2>1. N % M \in Slots /\ clc.reliableCommands \in [Slots -> Nat]
    <3>1. N \in Int
      BY <1>5
    <3> QED
      BY <1>0, <3>1, SlotType, Numbers, Zenon
  <2> HIDE DEF N
  <2> QED
    BY <1>5, <2>1
<1>9. lostLast \in Nat /\ outPackets \in Seq(Nat) /\ toServer \in Seq(Packet)
  BY <1>0 DEF TypeOK
<1> HIDE DEF N, ring
<1>10. /\ IsNext(p1, outPackets, lostLast) /\ IsNext(p2, s1, 0) /\ IsNext(p3, s2, 0)
       /\ Tells(p1) /\ Tells(p2) /\ Tells(p3)
  <2>1. Len(outPackets) = cl_packetdup + 1 /\ \A j \in DOMAIN outPackets : outPackets[j] <= cmdNumber
    BY <1>0, Zenon DEF MoveInv
  <2>2. /\ s1 \in Seq(Nat) /\ Len(s1) = cl_packetdup + 1
        /\ \A k \in DOMAIN s1 : s1[k] <= cmdNumber
    BY <1>0, <1>9, <2>1, SentHas
  <2> HIDE DEF s1
  <2>3. /\ s2 \in Seq(Nat) /\ Len(s2) = cl_packetdup + 1
        /\ \A k \in DOMAIN s2 : s2[k] <= cmdNumber
    BY <1>0, <2>2, SentHas
  <2> HIDE DEF s2
  <2>4. IsNext(p1, outPackets, lostLast) /\ Tells(p1)
    BY <1>0, <1>5, <1>7, <1>8, <1>9, <2>1, NewPacketMoves
  <2>7. 0 \in Nat
    OBVIOUS
  <2>5. IsNext(p2, s1, 0) /\ Tells(p2)
    BY <1>0, <1>5, <1>7, <1>8, <2>2, <2>7, NewPacketMoves, Zenon
  <2>6. IsNext(p3, s2, 0) /\ Tells(p3)
    BY <1>0, <1>5, <1>7, <1>8, <2>3, <2>7, NewPacketMoves, Zenon
  <2> QED
    BY <2>4, <2>5, <2>6
<1> HIDE DEF p1, p2, p3, s1, s2
<1> DEFINE q1 == Append(toServer, p1)
           q2 == Append(q1, p2)
<1>11. PICK u1 \in [Nat -> Nat], a1 \in [Nat -> Nat] : Grown(toServer, n, upTo, at, outPackets, p1, u1, a1)
  <2>1. Remembers(outPackets, n, upTo)
    BY <1>3, <1>4 DEF Connected
  <2>2. \E v, b \in [Nat -> Nat] : Grown(toServer, n, upTo, at, outPackets, p1, v, b)
    BY <1>0, <1>3, <1>9, <1>10, <2>1, LineAppends
  <2> QED
    BY <2>2, Zenon
<1>12. PICK u2 \in [Nat -> Nat], a2 \in [Nat -> Nat] : Grown(q1, n + 1, u1, a1, s1, p2, u2, a2)
  <2>1. Line(q1, 0, n + 1, u1, a1) /\ Numbered(n + 1, u1) /\ Remembers(s1, n + 1, u1)
    BY <1>11, Zenon DEF Grown, s1
  <2>2. n + 1 \in Nat
    OBVIOUS
  <2> HIDE DEF q1
  <2>3. \E v, b \in [Nat -> Nat] : Grown(q1, n + 1, u1, a1, s1, p2, v, b)
    BY <1>0, <1>10, <2>1, <2>2, LineAppends
  <2> QED
    BY <2>3, Zenon
<1>13. PICK u \in [Nat -> Nat], a \in [Nat -> Nat] : Grown(q2, n + 2, u2, a2, s2, p3, u, a)
  <2>1. Line(q2, 0, n + 1 + 1, u2, a2) /\ Numbered(n + 1 + 1, u2) /\ Remembers(s2, n + 1 + 1, u2)
    BY <1>12, Zenon DEF Grown, s2
  <2>2. n + 2 \in Nat /\ n + 1 + 1 = n + 2
    OBVIOUS
  <2> HIDE DEF q2
  <2>3. Line(q2, 0, n + 2, u2, a2) /\ Numbered(n + 2, u2) /\ Remembers(s2, n + 2, u2)
    BY <2>1, <2>2, Zenon
  <2>4. \E v, b \in [Nat -> Nat] : Grown(q2, n + 2, u2, a2, s2, p3, v, b)
    BY <1>0, <1>10, <2>2, <2>3, LineAppends
  <2> QED
    BY <2>4, Zenon
<1>14. n + 3 \in Nat /\ n + 2 + 1 = n + 3
  OBVIOUS
<1>15. /\ toServer' = Append(q2, p3)
       /\ l \in Nat /\ Len(q1) = l + 1 /\ Len(q2) = l + 2
       /\ DOMAIN toServer' = 1..l + 3
       /\ \A k \in 1..l : toServer'[k] = toServer[k]
       /\ toServer'[l + 1] = p1 /\ toServer'[l + 2] = p2 /\ toServer'[l + 3] = p3
  <2>1. p1 \in Packet /\ p2 \in Packet /\ p3 \in Packet
    BY <1>10, Zenon DEF IsNext
  <2> QED
    <3>1. Added(toServer', toServer, p1, p2, p3)
      BY <1>4, <1>9, <2>1, AppendThree, Zenon
    <3> QED
      BY <3>1, Zenon DEF Added
<1>23. l \in Nat
  BY <1>15
<1> HIDE DEF l
<1>16. Line(toServer, lostLast, n + 3, u, a)'
  <2>1. Line(Append(q2, p3), 0, n + 2 + 1, u, a)
    BY <1>13, Zenon DEF Grown
  <2>2. Line(Append(q2, p3), 0, n + 3, u, a)
    BY <1>14, <2>1, Zenon
  <2> QED
    BY <1>4, <1>15, <2>2, Zenon DEF Line
<1>17. Numbered(n + 3, u)'
  <2>1. Numbered(n + 2 + 1, u)
    BY <1>13, Zenon DEF Grown
  <2>2. Numbered(n + 3, u)
    BY <1>14, <2>1, Zenon
  <2> QED
    BY <1>4, <2>2, Zenon DEF Numbered, cmdNumber
<1>18. /\ \A i \in 0..l : a[i] = at[i]
       /\ u[a[0]] = upTo[at[0]]
  <2>1. \A i \in 0..l : a1[i] = at[i]
    BY <1>11, Zenon DEF Grown, l
  <2>2. \A i \in 0..l + 1 : a2[i] = a1[i]
    BY <1>12, <1>15, Zenon DEF Grown
  <2>3. \A i \in 0..l + 2 : a[i] = a2[i]
    BY <1>13, <1>15, Zenon DEF Grown
  <2>4. \A i \in 0..l : i \in 0..l + 1 /\ i \in 0..l + 2
    BY <1>23
  <2>5. /\ u[a[0]] = u2[a2[0]] /\ u2[a2[0]] = u1[a1[0]] /\ u1[a1[0]] = upTo[at[0]]
    BY <1>11, <1>12, <1>13, Zenon DEF Grown
  <2> QED
    BY <2>1, <2>2, <2>3, <2>4, <2>5, Zenon
<1>19. (Connected => Remembers(outPackets, n + 3, u))'
  BY <1>4 DEF Connected
<1>20. Followed(u, a)'
  <2>1. \A k : Time(k)' = Time(k)
    BY <1>4 DEF Time
  <2> QED
    BY <1>3, <1>4, <1>18, <2>1, Zenon DEF Followed
<1>21. Left(n + 3, a)'
  <2>1. reliableSequence' = N /\ N \in DOMAIN added' /\ added'[N] = "disconnect"
    <3>1. added \in Seq(Kinds) /\ "disconnect" \in Kinds
      BY <1>0 DEF TypeOK, Kinds
    <3>2. /\ Len(added') = Len(added) + 1 /\ added'[Len(added) + 1] = "disconnect"
          /\ DOMAIN added' = 1..Len(added) + 1 /\ Len(added) \in Nat
      BY <1>4, <3>1, AppendElement
    <3>3. Len(added) + 1 \in 1..Len(added) + 1
      BY <3>2
    <3> QED
      BY <3>2, <3>3, Zenon DEF N, reliableSequence
  <2>2. \A i \in 0..l : at[i] <= n /\ at[i] \in Nat
    <3>1. \A i \in 0..l : at[i] <= n
      BY <1>3, Zenon DEF Line, l
    <3>2. \A i \in 0..l : i \in Nat
      BY <1>23
    <3> QED
      BY <3>1, <3>2, Zenon
  <2>3. ASSUME NEW i \in 0..l PROVE ~(a[i] > (n + 3) - 3)
    <3>1. a[i] = at[i] /\ at[i] <= n /\ at[i] \in Nat
      BY <1>18, <2>2, Zenon
    <3> QED
      BY <3>1
  <2>4. ~(a[0] > (n + 3) - 3)
    <3>1. 0 \in 0..l
      BY <1>23
    <3> QED
      BY <2>3, <3>1, Zenon
  <2>7. \A i \in 1..l + 3 : i \in 1..l \/ i = l + 1 \/ i = l + 2 \/ i = l + 3
    BY <1>23
  <2>5. ASSUME NEW i \in DOMAIN toServer'
        PROVE  /\ a[i] > (n + 3) - 3 => LastCommand(toServer'[i]) = N
               /\ LastCommand(toServer'[i]) = N =>
                    /\ toServer'[i].commands # <<>>
                    /\ toServer'[i].commands[Len(toServer'[i].commands)] = N
    <3>1. i \in 1..l \/ i = l + 1 \/ i = l + 2 \/ i = l + 3
      <4>1. i \in 1..l + 3
        BY <1>15, Zenon
      <4> QED
        BY <2>7, <4>1, Zenon
    <3>2. CASE i \in 1..l
      <4>1. ~(a[i] > (n + 3) - 3)
        <5>1. i \in 0..l
          BY <1>23, <3>2
        <5> QED
          BY <2>3, <5>1, Zenon
      <4>2. LastCommand(toServer'[i]) # N
        <5>1. i \in DOMAIN toServer /\ toServer[i] \in Packet
          BY <1>9, <3>2, LenProperties, ElementOfSeq DEF l
        <5>2. LastCommand(toServer[i]) <= reliableSequence /\ LastCommand(toServer[i]) \in Nat
          BY <1>0, <5>1, PacketNumbers DEF PacketInv, PacketFits
        <5>3. LastCommand(toServer[i]) # N
          BY <1>5, <5>2 DEF N
        <5> QED
          BY <1>15, <3>2, <5>3, Zenon
      <4> QED
        BY <4>1, <4>2, Zenon
    <3>3. CASE i \notin 1..l
      <4>1. Tells(toServer'[i])
        BY <1>10, <1>15, <3>1, <3>3, Zenon
      <4> QED
        BY <4>1, Zenon
    <3> QED
      BY <3>2, <3>3
  <2>6. cl'.lastClientCommand # N
    BY <1>4, <1>7
  <2> QED
    BY <2>1, <2>4, <2>5, <2>6, Zenon DEF Left, LastCommand
<1>22. Positions(n + 3, u, a)'
  BY <1>16, <1>17, <1>19, <1>20, <1>21 DEF Positions
<1> QED
  BY <1>14, <1>22, Zenon DEF PositionInv

LEMMA NotBoth ==
  ASSUME NEW i \in Int, NEW k \in Int
  PROVE  /\ k = i => ~(k < i)
         /\ k > i => ~(k < i) /\ k # i
OBVIOUS

\* A lost packet leaves the line.
LEMMA LostPositions ==
  ASSUME ClientCommandsInv, ClientCommandsInv', PositionInv,
         NEW i \in DOMAIN toServer, LosePacket(i), UNCHANGED <<clientVars, serverVars>>
  PROVE  PositionInv'
<1>1. PICK n \in Nat : \E upTo, at \in [Nat -> Nat] : Positions(n, upTo, at)
  BY DEF PositionInv
<1>2. PICK upTo \in [Nat -> Nat], at \in [Nat -> Nat] : Positions(n, upTo, at)
  BY <1>1
<1>3. /\ Line(toServer, lostLast, n, upTo, at) /\ Numbered(n, upTo)
      /\ Connected => Remembers(outPackets, n, upTo)
      /\ Followed(upTo, at) /\ Left(n, at)
  BY <1>2 DEF Positions
<1>4. UNCHANGED <<clc, cmds, outPackets, added, cl>>
  BY DEF clientVars, serverVars
<1>5. /\ toServer \in Seq(Packet) /\ toServer' \in Seq(Packet) /\ lostLast \in Nat
      /\ DOMAIN toServer = 1..Len(toServer) /\ Len(toServer) \in Nat
      /\ i \in 1..Len(toServer)
  <2>1. toServer \in Seq(Packet) /\ toServer' \in Seq(Packet) /\ lostLast \in Nat
    BY DEF ClientCommandsInv, TypeOK
  <2> QED
    BY <2>1, LenProperties
<1>6. Loses(toServer, lostLast, i, toServer', lostLast')
  <2>1. DOMAIN toServer' = 1..Len(toServer) - 1
    BY Zenon DEF LosePacket
  <2>2. Len(toServer') = Len(toServer) - 1 /\ DOMAIN toServer' = 1..Len(toServer')
    <3>1. DOMAIN toServer' = 1..Len(toServer') /\ Len(toServer') \in Nat
      BY <1>5, LenProperties
    <3>2. Len(toServer) - 1 \in Nat
      BY <1>5
    <3> DEFINE m == Len(toServer')
               l == Len(toServer) - 1
    <3>3. m \in Nat /\ l \in Nat /\ 1..m = 1..l
      BY <2>1, <3>1, <3>2
    <3> HIDE DEF m, l
    <3>4. m = l
      BY <3>3
    <3> QED
      BY <3>1, <3>4, Zenon DEF m, l
  <2>3. ASSUME NEW k \in 1..Len(toServer) - 1
        PROVE  /\ k < i => toServer'[k] = toServer[k]
               /\ k = i => toServer'[k] = [toServer[k + 1] EXCEPT
                                             !.lost = Count(@ + toServer[i].lost + 1)]
               /\ k > i => toServer'[k] = toServer[k + 1]
    <3>1. toServer'[k] = IF k < i THEN toServer[k]
            ELSE IF k = i
            THEN [toServer[k + 1] EXCEPT !.lost = Count(@ + toServer[i].lost + 1)]
            ELSE toServer[k + 1]
      BY Zenon DEF LosePacket
    <3>2. /\ k = i => ~(k < i)
          /\ k > i => ~(k < i) /\ k # i
      <4>1. i \in Int /\ k \in Int
        BY <1>5
      <4> QED
        BY <4>1, NotBoth, Zenon
    <3> QED
      BY <3>1, <3>2, Zenon
  <2>4. /\ i = Len(toServer) => lostLast' = Count(lostLast + toServer[i].lost + 1)
        /\ i # Len(toServer) => lostLast' = lostLast
    BY Zenon DEF LosePacket
  <2> QED
    BY <1>5, <2>2, <2>3, <2>4, Zenon DEF Loses
<1>7. PICK a \in [Nat -> Nat] :
         /\ Line(toServer', lostLast', n, upTo, a)
         /\ a[0] = at[0]
         /\ \A k \in 1..Len(toServer') : \E j \in 1..Len(toServer) :
              Same(toServer'[k], a[k], toServer[j], at[j])
  <2>1. \E a \in [Nat -> Nat] : Shrunk(toServer, at, toServer', lostLast', n, upTo, a)
    BY <1>3, <1>5, <1>6, LineLoses
  <2> QED
    BY <2>1, Zenon DEF Shrunk
<1>8. Line(toServer, lostLast, n, upTo, a)'
  BY <1>7, Zenon DEF Line
<1>9. Numbered(n, upTo)'
  BY <1>3, <1>4, Zenon DEF Numbered, cmdNumber
<1>10. (Connected => Remembers(outPackets, n, upTo))'
  BY <1>3, <1>4, Zenon DEF Remembers, Connected
<1>11. Followed(upTo, a)'
  <2>1. \A k : Time(k)' = Time(k)
    BY <1>4 DEF Time
  <2> QED
    BY <1>3, <1>4, <1>7, <2>1, Zenon DEF Followed
<1>12. Left(n, a)'
  <2>1. DOMAIN toServer' = 1..Len(toServer')
    BY <1>5, LenProperties
  <2>2. ASSUME NEW k \in DOMAIN toServer', clc.state = "CA_DISCONNECTED"
        PROVE  /\ a[k] > n - 3 => LastCommand(toServer'[k]) = reliableSequence
               /\ LastCommand(toServer'[k]) = reliableSequence =>
                    /\ toServer'[k].commands # <<>>
                    /\ toServer'[k].commands[Len(toServer'[k].commands)] = reliableSequence
    <3>1. PICK j \in DOMAIN toServer : Same(toServer'[k], a[k], toServer[j], at[j])
      BY <1>5, <1>7, <2>1, Zenon
    <3>2. /\ at[j] > n - 3 => LastCommand(toServer[j]) = reliableSequence
          /\ LastCommand(toServer[j]) = reliableSequence =>
               /\ toServer[j].commands # <<>>
               /\ toServer[j].commands[Len(toServer[j].commands)] = reliableSequence
      BY <1>3, <2>2, Zenon DEF Left
    <3>3. /\ a[k] = at[j] /\ toServer'[k].commands = toServer[j].commands
          /\ LastCommand(toServer'[k]) = LastCommand(toServer[j])
      BY <3>1, Zenon DEF Same, LastCommand
    <3> QED
      BY <3>2, <3>3, Zenon
  <2> QED
    BY <1>3, <1>4, <1>7, <2>2, Zenon DEF Left, reliableSequence, LastCommand
<1>13. Positions(n, upTo, a)'
  BY <1>8, <1>9, <1>10, <1>11, <1>12 DEF Positions
<1> QED
  BY <1>13, Zenon DEF PositionInv

\* The moves of a packet leave the commands alone.
LEMMA UserMoveHears ==
  ASSUME NEW c \in ClientT, NEW p, NEW done, SV_UserMove(c, p, done)
  PROVE  cl'.lastClientCommand = c.lastClientCommand
<1>1. CASE p.upTo = p.from
  BY <1>1 DEF SV_UserMove
<1>2. CASE p.upTo # p.from
  <2>1. PICK since, now :
          cl' = [c EXCEPT !.state = "CS_ACTIVE", !.entered = since, !.lastUsercmd = now]
    BY <1>2 DEF SV_UserMove
  <2> QED
    BY <2>1, Zenon DEF ClientT
<1> QED
  BY <1>1, <1>2

\* A packet that does not end the session: the server has executed its commands,
\* the last of which was no disconnect, or had executed them before.
LEMMA PacketEventHears ==
  ASSUME ClientCommandsInv, SV_PacketEvent,
         cl.state # "CS_ZOMBIE", cl'.state # "CS_ZOMBIE",
         NEW p \in Packet, p = Head(toServer), PacketFits(p)
  PROVE  \/ /\ cl.lastClientCommand < LastCommand(p)
            /\ cl'.lastClientCommand = LastCommand(p)
            /\ added[p.commands[Len(p.commands)]] # "disconnect"
         \/ /\ LastCommand(p) <= cl.lastClientCommand
            /\ cl'.lastClientCommand = cl.lastClientCommand
<1> DEFINE had == cl.lastClientCommand
           next == IF p.first > NextCommand THEN p.first ELSE NextCommand
           all == IF LastCommand(p) >= next THEN LastCommand(p) ELSE had
           Text(n) == p.commands[n - p.first + 1]
           IsEnd(n) == n >= next /\ added[Text(n)] = "disconnect"
<1>0. TypeOK /\ cl \in ClientT
  BY DEF ClientCommandsInv, TypeOK
<1>1. /\ had \in Nat /\ p.first \in Nat /\ LastCommand(p) \in Nat /\ Len(p.commands) \in Nat
      /\ LastCommand(p) = p.first + Len(p.commands) - 1
  BY <1>0, Numbers, PacketNumbers, Zenon DEF LastCommand
<1>2. next = had + 1
  <2>1. p.first <= had + 1
    BY DEF PacketFits
  <2> QED
    BY <1>1, <2>1 DEF NextCommand
<1>3. SV_ExecuteClientMessage(p)
  BY DEF SV_PacketEvent
<1>4. PICK last \in had..all :
        /\ last = all \/ IsEnd(last)
        /\ IF IsEnd(last) THEN cl' = Drop(Heard(p, last)) /\ UNCHANGED thought
           ELSE \E done : SV_UserMove(Heard(p, last), p, done)
  <2>1. ~(next > had + 1)
    BY <1>1, <1>2
  <2> QED
    BY <1>3, <2>1, Zenon DEF SV_ExecuteClientMessage
<1>5. last \in Nat
  BY <1>1, <1>4
<1>6. Heard(p, last) \in ClientT /\ Heard(p, last).lastClientCommand = last
  BY <1>0, <1>5, HeardType
<1>7. ~IsEnd(last)
  <2> SUFFICES ASSUME IsEnd(last) PROVE FALSE
    OBVIOUS
  <2>1. cl' = Drop(Heard(p, last))
    BY <1>4, Zenon
  <2>2. cl'.state = "CS_ZOMBIE"
    BY <1>6, <2>1, DropKeeps, Zenon
  <2> QED
    BY <2>2
<1>8. last = all /\ cl'.lastClientCommand = all
  <2>1. last = all
    BY <1>4, <1>7, Zenon
  <2>2. PICK done : SV_UserMove(Heard(p, last), p, done)
    BY <1>4, <1>7, Zenon
  <2>3. cl'.lastClientCommand = last
    BY <1>6, <2>2, UserMoveHears, Zenon
  <2> QED
    BY <2>1, <2>3
<1>9. CASE had < LastCommand(p)
  <2>1. all = LastCommand(p) /\ all >= next
    BY <1>1, <1>2, <1>9
  <2>2. all - p.first + 1 = Len(p.commands)
    BY <1>1, <2>1
  <2>3. added[Text(all)] # "disconnect"
    BY <1>7, <1>8, <2>1, Zenon
  <2> QED
    BY <1>8, <1>9, <2>1, <2>2, <2>3, Zenon
<1>10. CASE ~(had < LastCommand(p))
  <2>1. all = had /\ LastCommand(p) <= had
    BY <1>1, <1>2, <1>10
  <2> QED
    BY <1>8, <2>1, Zenon
<1> QED
  BY <1>9, <1>10

\* The first packet of a line.
LEMMA FirstInLine ==
  ASSUME NEW q, NEW last, NEW n \in Nat, NEW upTo \in [Nat -> Nat],
         NEW at \in [Nat -> Nat], Line(q, last, n, upTo, at), q # <<>>
  PROVE  /\ at[0] \in Nat /\ at[1] \in Nat
         /\ Window <= at[0] /\ at[0] < at[1] /\ at[1] <= n
         /\ q[1].lost = Count(at[1] - at[0] - 1)
         /\ q[1].upTo = upTo[at[1]]
         /\ Follows(q[1], upTo[at[1] - Window])
<1>1. 1 \in 1..Len(q) /\ 0 \in 0..Len(q) /\ 1 \in 0..Len(q)
  <2>1. q \in Seq(Packet)
    BY DEF Line
  <2>2. Len(q) \in Nat /\ Len(q) # 0
    BY <2>1, LenProperties, EmptySeq
  <2> QED
    BY <2>2
<1>2. /\ at[1 - 1] < at[1]
      /\ q[1].lost = Count(at[1] - at[1 - 1] - 1)
      /\ q[1].upTo = upTo[at[1]]
      /\ Follows(q[1], upTo[at[1] - Window])
  BY <1>1, Zenon DEF Line
<1>3. Window <= at[0] /\ at[1] <= n
  BY <1>1, Zenon DEF Line
<1>4. 1 - 1 = 0 /\ at[0] \in Nat /\ at[1] \in Nat
  OBVIOUS
<1> QED
  BY <1>2, <1>3, <1>4, Zenon

\* Where the window of a packet at y begins, when few packets were lost behind x.
LEMMA FewLost ==
  ASSUME NEW x \in Nat, NEW y \in Nat, NEW n \in Nat, Window <= x, x < y, y <= n,
         ~(Count(y - x - 1) > cl_packetdup)
  PROVE  y - Window \in 0..n /\ x \in 0..n /\ y - Window <= x /\ y - Window \in Nat
<1>1. y - x - 1 \in Nat
  OBVIOUS
<1>2. y - x - 1 <= cl_packetdup
  BY <1>1, CountTells, Zenon
<1> QED
  BY <1>2, WindowType

\* Packet p of a line, read when no move was missed, begins at the latest behind
\* the moves the server has executed.
LEMMA NothingMissed ==
  ASSUME TypeOK, NEW n \in Nat, NEW upTo \in [Nat -> Nat], NEW at \in [Nat -> Nat],
         Positions(n, upTo, at), toServer # <<>>, NEW p, p = Head(toServer),
         ~p.clipped, ~(p.lost > cl_packetdup), cl.state = "CS_ACTIVE", ~cl.missed
  PROVE  \A k \in DOMAIN cmds : k <= p.from => Time(k) <= cl.lastUsercmd
<1>1. Line(toServer, lostLast, n, upTo, at) /\ Numbered(n, upTo) /\ Followed(upTo, at)
  BY DEF Positions
<1>2. p = toServer[1]
  BY TailElement DEF TypeOK
<1>3. /\ at[0] \in Nat /\ at[1] \in Nat
      /\ Window <= at[0] /\ at[0] < at[1] /\ at[1] <= n
      /\ p.lost = Count(at[1] - at[0] - 1)
      /\ Follows(p, upTo[at[1] - Window])
  BY <1>1, <1>2, FirstInLine, Zenon
<1>4. ~(Count(at[1] - at[0] - 1) > cl_packetdup)
  BY <1>3, Zenon
<1>5. at[1] - Window \in 0..n /\ at[0] \in 0..n /\ at[1] - Window <= at[0] /\ at[1] - Window \in Nat
  BY <1>3, <1>4, FewLost, Zenon
<1>6. p.from = upTo[at[1] - Window]
  BY <1>3, Zenon DEF Follows
<1>7. p.from <= upTo[at[0]] /\ p.from \in Nat /\ upTo[at[0]] \in Nat
  <2>1. upTo[at[1] - Window] <= upTo[at[0]]
    BY <1>1, <1>5, Zenon DEF Numbered
  <2>2. upTo[at[1] - Window] \in Nat /\ upTo[at[0]] \in Nat
    BY <1>3, <1>5
  <2> QED
    BY <1>6, <2>1, <2>2, Zenon
<1>8. \A k \in DOMAIN cmds : k \in Nat
  BY Numbers
<1>9. ASSUME NEW k \in DOMAIN cmds, k <= p.from PROVE Time(k) <= cl.lastUsercmd
  <2>1. k <= upTo[at[0]]
    <3> DEFINE m == upTo[at[0]]
               f == p.from
    <3>1. k \in Nat /\ m \in Nat /\ f \in Nat /\ k <= f /\ f <= m
      BY <1>7, <1>8, <1>9, Zenon
    <3> HIDE DEF m, f
    <3>2. k <= m
      BY <3>1
    <3> QED
      BY <3>2 DEF m
  <2> QED
    BY <1>1, <2>1, Zenon DEF Followed
<1> QED
  BY <1>9

\* The packet the server reads leaves the line.
LEMMA ReadPositions ==
  ASSUME ClientCommandsInv, MovesInv, PositionInv, SV_PacketEvent
  PROVE  PositionInv'
<1> DEFINE p == Head(toServer)
<1>0. TypeOK /\ PacketInv /\ AcknowledgeInv /\ UsercmdInv
  BY DEF ClientCommandsInv, MovesInv
<1>1. PICK n \in Nat : \E upTo, at \in [Nat -> Nat] : Positions(n, upTo, at)
  BY DEF PositionInv
<1>2. PICK upTo \in [Nat -> Nat], at \in [Nat -> Nat] : Positions(n, upTo, at)
  BY <1>1
<1>3. /\ Line(toServer, lostLast, n, upTo, at) /\ Numbered(n, upTo)
      /\ Connected => Remembers(outPackets, n, upTo)
      /\ Left(n, at)
  BY <1>2 DEF Positions
<1>4. /\ UNCHANGED <<clc, cmds, outPackets, added, lostLast>>
      /\ toServer # <<>> /\ toServer' = Tail(toServer)
  BY DEF SV_PacketEvent, clientVars
<1>5. /\ p \in Packet /\ PacketFits(p) /\ p = toServer[1] /\ 1 \in DOMAIN toServer
      /\ DOMAIN toServer = 1..Len(toServer)
      /\ \A k \in DOMAIN toServer' : k \in Nat /\ k + 1 \in DOMAIN toServer
                                     /\ toServer'[k] = toServer[k + 1]
  <2>1. toServer \in Seq(Packet)
    BY <1>0 DEF TypeOK
  <2>2. p \in Packet /\ 1 \in DOMAIN toServer /\ p = toServer[1]
        /\ \A k \in DOMAIN toServer' : k \in Int /\ k + 1 \in DOMAIN toServer
                                       /\ toServer'[k] = toServer[k + 1]
    BY <1>4, <2>1, TailElement
  <2>3. \A k \in DOMAIN toServer' : k \in Nat
    <3>1. toServer' \in Seq(Packet)
      BY <1>4, <2>1, TailElement
    <3>2. DOMAIN toServer' = 1..Len(toServer')
      BY <3>1, LenProperties
    <3>3. \A m : \A k \in 1..m : k \in Nat
      OBVIOUS
    <3> QED
      BY <3>2, <3>3, Zenon
  <2>4. PacketFits(p)
    BY <1>0, <2>2, Zenon DEF PacketInv
  <2>5. DOMAIN toServer = 1..Len(toServer)
    BY <2>1, LenProperties
  <2> QED
    BY <2>2, <2>3, <2>4, <2>5, Zenon
<1> HIDE DEF p
<1>6. PICK a \in [Nat -> Nat] :
         /\ Line(Tail(toServer), lostLast, n, upTo, a)
         /\ \A k \in Nat : a[k] = at[k + 1]
  <2>1. lostLast \in Nat
    BY <1>0 DEF TypeOK
  <2>2. Line(toServer, lostLast, n, upTo, at) /\ toServer # <<>>
    BY <1>3, <1>4
  <2>3. \E a \in [Nat -> Nat] : Line(Tail(toServer), lostLast, n, upTo, a) /\ Onward(a, at)
    BY <2>1, <2>2, LineAdvances
  <2> QED
    BY <2>3, Zenon DEF Onward
<1>7. a[0] = at[1]
  BY <1>6
<1>8. /\ at[0] \in Nat /\ at[1] \in Nat /\ p.upTo = upTo[at[1]]
  <2>1. at[0] \in Nat /\ at[1] \in Nat /\ toServer[1].upTo = upTo[at[1]]
    <3>1. Line(toServer, lostLast, n, upTo, at) /\ toServer # <<>>
      BY <1>3, <1>4
    <3> QED
      BY <3>1, FirstInLine, Zenon
  <2> QED
    BY <1>5, <2>1, Zenon
<1>9. Line(toServer, lostLast, n, upTo, a)'
  BY <1>4, <1>6, Zenon DEF Line
<1>10. Numbered(n, upTo)'
  BY <1>3, <1>4, Zenon DEF Numbered, cmdNumber
<1>11. (Connected => Remembers(outPackets, n, upTo))'
  BY <1>3, <1>4, Zenon DEF Remembers, Connected
<1>12. Followed(upTo, a)'
  <2>0. \A k : Time(k)' = Time(k)
    BY <1>4 DEF Time
  <2>1. DOMAIN cmds = 1..cmdNumber /\ cmdNumber \in Nat /\ p.upTo \in Nat /\ p.from \in Nat
        /\ p.upTo <= cmdNumber /\ p.from <= p.upTo
    BY <1>0, <1>5, Numbers, PacketNumbers DEF PacketFits
  <2> SUFFICES ASSUME cl'.state = "CS_ACTIVE", ~cl'.missed, NEW k \in DOMAIN cmds, k <= p.upTo
               PROVE  Time(k) <= cl'.lastUsercmd
    BY <1>4, <1>7, <1>8, <2>0, Zenon DEF Followed
  <2>2. CASE NoMoves(p)
    <3>1. /\ cl.state = "CS_ACTIVE" /\ p.from = p.upTo
          /\ ~p.clipped /\ ~(p.lost > cl_packetdup)
          /\ cl'.lastUsercmd = cl.lastUsercmd /\ ~cl.missed
      <4>1. "CS_ACTIVE" # "CS_ZOMBIE"
        OBVIOUS
      <4> QED
        BY <2>2, <4>1, Zenon DEF NoMoves
    <3>2. \A j \in DOMAIN cmds : j <= p.from => Time(j) <= cl.lastUsercmd
      BY <1>0, <1>2, <1>4, <3>1, NothingMissed, Zenon DEF p
    <3> QED
      BY <3>1, <3>2, Zenon
  <2>3. ASSUME NEW had \in Nat, NEW done \in Nat, Heard(p, had) \in ClientT, p.from < p.upTo,
               SV_UserMove(Heard(p, had), p, done)
        PROVE  Time(k) <= cl'.lastUsercmd
    <3>1. Time(p.upTo) <= cl'.lastUsercmd /\ cl'.lastUsercmd \in Nat
      BY <1>0, <1>5, <2>1, <2>3, UserMoveTime, Zenon
    <3>2. p.upTo \in DOMAIN cmds
      <4> DEFINE f == p.from
                 t == p.upTo
      <4>1. f \in Nat /\ t \in Nat /\ f < t /\ t <= cmdNumber /\ cmdNumber \in Nat
        BY <2>1, <2>3, Zenon
      <4> HIDE DEF f, t
      <4>2. t \in 1..cmdNumber
        BY <4>1
      <4> QED
        BY <2>1, <4>2, Zenon DEF t
    <3>3. Time(p.upTo) \in Nat /\ Time(k) \in Nat
      BY <1>0, <3>2, TimeType
    <3>4. Time(k) <= Time(p.upTo)
      BY <1>0, <3>2, Zenon DEF UsercmdInv
    <3> DEFINE x == Time(k)
               y == Time(p.upTo)
               z == cl'.lastUsercmd
    <3>5. x \in Nat /\ y \in Nat /\ z \in Nat /\ x <= y /\ y <= z
      BY <3>1, <3>3, <3>4, Zenon
    <3> HIDE DEF x, y, z
    <3>6. x <= z
      BY <3>5
    <3> QED
      BY <3>6 DEF x, z
  <2> QED
    BY <2>2, <2>3, PacketEventMakes, Zenon DEF p
<1>13. Left(n, a)'
  <2> SUFFICES ASSUME clc.state = "CA_DISCONNECTED" PROVE Left(n, a)'
    BY <1>4, Zenon DEF Left
  <2>1. /\ reliableSequence \in DOMAIN added /\ added[reliableSequence] = "disconnect"
        /\ at[0] > n - 3 \/ cl.lastClientCommand = reliableSequence => cl.state = "CS_ZOMBIE"
        /\ \A i \in DOMAIN toServer :
             /\ at[i] > n - 3 => LastCommand(toServer[i]) = reliableSequence
             /\ LastCommand(toServer[i]) = reliableSequence =>
                  /\ toServer[i].commands # <<>>
                  /\ toServer[i].commands[Len(toServer[i].commands)] = reliableSequence
    BY <1>3, Zenon DEF Left
  <2>2. ASSUME NEW i \in DOMAIN toServer'
        PROVE  /\ a[i] > n - 3 => LastCommand(toServer'[i]) = reliableSequence
               /\ LastCommand(toServer'[i]) = reliableSequence =>
                    /\ toServer'[i].commands # <<>>
                    /\ toServer'[i].commands[Len(toServer'[i].commands)] = reliableSequence
    <3>1. i + 1 \in DOMAIN toServer /\ toServer'[i] = toServer[i + 1] /\ a[i] = at[i + 1]
      BY <1>5, <1>6, Zenon
    <3> QED
      BY <2>1, <3>1, Zenon
  <2>3. ASSUME at[1] > n - 3 \/ cl'.lastClientCommand = reliableSequence,
               cl'.state # "CS_ZOMBIE"
        PROVE  FALSE
    <3>1. cl.state # "CS_ZOMBIE"
      <4>1. cl.state = "CS_ZOMBIE" => cl' = cl
        BY DEF SV_PacketEvent, serverVars
      <4> QED
        BY <2>3, <4>1, Zenon
    <3>2. cl.lastClientCommand # reliableSequence
      BY <2>1, <3>1, Zenon
    <3>3. /\ at[1] > n - 3 => LastCommand(p) = reliableSequence
          /\ LastCommand(p) = reliableSequence =>
               p.commands[Len(p.commands)] = reliableSequence
      BY <1>5, <2>1, Zenon
    <3>4. /\ cl.lastClientCommand \in Nat /\ reliableSequence \in Nat /\ LastCommand(p) \in Nat
          /\ cl.lastClientCommand <= reliableSequence
      <4>1. LastCommand(p) \in Nat
        BY <1>5, PacketNumbers, Zenon
      <4> QED
        BY <1>0, <4>1, Numbers, Zenon DEF AcknowledgeInv
    <3>5. CASE /\ cl.lastClientCommand < LastCommand(p)
               /\ cl'.lastClientCommand = LastCommand(p)
               /\ added[p.commands[Len(p.commands)]] # "disconnect"
      <4>1. LastCommand(p) = reliableSequence
        BY <2>3, <3>3, <3>5, Zenon
      <4> QED
        BY <2>1, <3>3, <3>5, <4>1, Zenon
    <3>6. CASE /\ LastCommand(p) <= cl.lastClientCommand
               /\ cl'.lastClientCommand = cl.lastClientCommand
      <4>1. LastCommand(p) = reliableSequence
        BY <2>3, <3>2, <3>3, <3>6, Zenon
      <4> QED
        BY <3>2, <3>4, <3>6, <4>1
    <3> QED
      BY <1>5, <2>3, <3>1, <3>5, <3>6, PacketEventHears, Zenon DEF p
  <2>4. at[1] > n - 3 \/ cl'.lastClientCommand = reliableSequence => cl'.state = "CS_ZOMBIE"
    BY <2>3, Zenon
  <2> QED
    BY <1>4, <1>7, <2>1, <2>2, <2>4, Zenon DEF Left, reliableSequence, LastCommand
<1>14. Positions(n, upTo, a)'
  BY <1>9, <1>10, <1>11, <1>12, <1>13 DEF Positions
<1> QED
  BY <1>14, Zenon DEF PositionInv

LEMMA PositionStep ==
  ASSUME ClientCommandsInv, ClientCommandsInv', MovesInv, PositionInv, [Next]_vars
  PROVE  PositionInv'
<1>1. TypeOK /\ cl \in ClientT
  BY DEF ClientCommandsInv, TypeOK
<1>2. CASE CL_CreateNewCommands
  BY <1>1, <1>2, CreatePositions
<1>3. CASE CL_WritePacket
  BY <1>3, WritePositions
<1>4. CASE CL_Disconnect
  BY <1>4, DisconnectPositions
<1>5. CASE SV_PacketEvent
  BY <1>5, ReadPositions
<1>6. CASE \E i \in DOMAIN toServer : LosePacket(i) /\ UNCHANGED <<clientVars, serverVars>>
  BY <1>6, LostPositions
<1> DEFINE same == /\ UNCHANGED <<toServer, lostLast, outPackets, cmds>>
                   /\ clc'.state = clc.state
                   /\ clc.state = "CA_DISCONNECTED" => added' = added
                   /\ cl' = cl \/ cl' = Drop(cl)
<1>7. CASE same
  BY <1>1, <1>7, SamePositions
<1>8. CL_AddReliableCommand => same
  <2>1. \A s, n, c : c = [clc EXCEPT !.reliableCommands[s] = n] => c.state = clc.state
    BY Zenon, <1>1 DEF TypeOK, ClientConnection
  <2> QED
    BY <2>1, Zenon DEF CL_AddReliableCommand, serverVars
<1>9. CL_ParseServerMessage => same
  <2>1. \A n, c : c = [clc EXCEPT !.reliableAcknowledge = n] => c.state = clc.state
    BY Zenon, <1>1 DEF TypeOK, ClientConnection
  <2> SUFFICES ASSUME CL_ParseServerMessage PROVE same
    OBVIOUS
  <2>2. clc'.state = clc.state
    BY <2>1, Zenon DEF CL_ParseServerMessage
  <2> QED
    BY <2>2, Zenon DEF CL_ParseServerMessage, serverVars
<1>10. SV_SendMessage => same
  BY Zenon DEF SV_SendMessage, clientVars, serverVars
<1>11. SV_DropClient => same
  BY Zenon DEF SV_DropClient, clientVars
<1>12. UNCHANGED vars => same
  BY Zenon DEF vars
<1>13. Lose => \/ same
               \/ \E i \in DOMAIN toServer : LosePacket(i) /\ UNCHANGED <<clientVars, serverVars>>
  BY Zenon DEF Lose, clientVars, serverVars
<1> HIDE DEF same
<1> QED
  BY <1>2, <1>3, <1>4, <1>5, <1>6, <1>7, <1>8, <1>9, <1>10, <1>11, <1>12, <1>13, Zenon DEF Next

\* At first all packets are imagined, and without moves.
LEMMA InitPositions == Init => PositionInv
<1> SUFFICES ASSUME Init PROVE PositionInv
  OBVIOUS
<1> DEFINE n == Window
           upTo == [k \in Nat |-> 0]
           at == [k \in Nat |-> n]
<1>1. /\ clc.state = "CA_ACTIVE" /\ cmds = <<>> /\ toServer = <<>> /\ lostLast = 0
      /\ outPackets = [k \in 1..Window |-> 0] /\ cl.state = "CS_PRIMED"
  BY Zenon DEF Init, Window
<1>2. n \in Nat /\ n - n = 0 /\ n >= 1 /\ cl_packetdup \in Nat
  BY WindowType
<1> HIDE DEF n
<1>3. upTo \in [Nat -> Nat] /\ at \in [Nat -> Nat]
  BY <1>2
<1>4. (\A k \in Nat : upTo[k] = 0) /\ (\A k \in Nat : at[k] = n)
  OBVIOUS
<1> HIDE DEF upTo, at
<1>5. Line(toServer, lostLast, n, upTo, at)
  <2>1. toServer \in Seq(Packet) /\ Len(toServer) = 0 /\ 0 \in Nat
    BY <1>1
  <2>2. \A i \in 0..0 : at[i] = n
    BY <1>4
  <2>3. \A i : i \notin 1..0
    OBVIOUS
  <2>4. n <= n
    BY <1>2
  <2>5. lostLast = Count(n - at[0])
    <3>1. at[0] = n
      BY <1>4, <2>1, Zenon
    <3>2. Count(0) = 0
      BY CountTells
    <3> QED
      BY <1>1, <1>2, <3>1, <3>2, Zenon
  <2> QED
    BY <2>1, <2>2, <2>3, <2>4, <2>5, Zenon DEF Line, n
<1>6. Numbered(n, upTo)
  <2>1. cmdNumber = 0
    BY <1>1 DEF cmdNumber
  <2>2. \A i \in 0..n : upTo[i] = 0
    BY <1>4
  <2>3. n \in 0..n /\ 0 <= 0
    BY <1>2
  <2> QED
    BY <2>1, <2>2, <2>3, Zenon DEF Numbered
<1>7. Remembers(outPackets, n, upTo)
  <2>1. outPackets \in Seq(Nat) /\ Len(outPackets) = Window
    <3>1. \A k \in 1..Window : 0 \in Nat
      OBVIOUS
    <3>2. outPackets \in [1..Window -> Nat]
      BY <1>1, <3>1
    <3>3. DOMAIN outPackets = 1..Window /\ Window \in Nat
      BY <1>1, <1>2 DEF n
    <3> QED
      BY <3>2, <3>3, SeqDef
  <2>2. ASSUME NEW k \in 1..Window PROVE outPackets[k] = upTo[n - Window + k]
    <3>1. n - Window + k \in Nat
      BY <1>2 DEF n
    <3> QED
      BY <1>1, <1>4, <3>1, Zenon
  <2> QED
    BY <2>1, <2>2, Zenon DEF Remembers
<1>8. Followed(upTo, at) /\ Left(n, at)
  BY <1>1, Zenon DEF Followed, Left
<1>9. Positions(n, upTo, at)
  BY <1>5, <1>6, <1>7, <1>8 DEF Positions
<1> QED
  BY <1>2, <1>3, <1>9, Zenon DEF PositionInv

-----------------------------------------------------------------------------
(* Every move is made. *)

\* Move k is the first after move f at the time of move m.
FirstAt(f, k, m) == Time(k) = Time(m) /\ \A j \in f + 1..k - 1 : Time(j) # Time(k)

\* Of the moves of a packet at some time, one is the first.
LEMMA FirstOfTime ==
  ASSUME NEW f \in Nat, NEW t \in Nat, NEW m \in f + 1..t
  PROVE  \E k \in f + 1..t : FirstAt(f, k, m)
<1> DEFINE T == {k \in f + 1..t : Time(k) = Time(m)}
<1>1. T \subseteq Nat /\ m \in T
  OBVIOUS
<1>2. PICK k \in T : \A j \in T : ~(<<j, k>> \in OpToRel(<, Nat))
  <2> HIDE DEF T
  <2> QED
    BY <1>1, NatLessThanWellFounded, WFMin
<1>3. ASSUME NEW j \in f + 1..k - 1, Time(j) = Time(k) PROVE FALSE
  <2>1. k \in f + 1..t /\ k \in Nat /\ Time(k) = Time(m)
    OBVIOUS
  <2>2. j \in f + 1..t /\ j \in Nat /\ j < k
    BY <2>1
  <2>3. j \in T
    BY <1>3, <2>1, <2>2
  <2>4. <<j, k>> \in OpToRel(<, Nat)
    BY <2>1, <2>2, Zenon DEF OpToRel
  <2> QED
    BY <1>2, <2>3, <2>4, Zenon
<1>4. k \in f + 1..t /\ Time(k) = Time(m)
  OBVIOUS
<1>5. FirstAt(f, k, m)
  BY <1>3, <1>4, Zenon DEF FirstAt
<1> QED
  BY <1>4, <1>5, Zenon

\* A new move is for a time after lastUsercmd, or one that was executed.
LEMMA CreateMade ==
  ASSUME ClientCommandsInv, MovesInv, MovesMade, CL_CreateNewCommands
  PROVE  MovesMade'
<1>1. TypeOK /\ MoveInv /\ UsercmdInv
  BY DEF ClientCommandsInv, MovesInv
<1>2. UNCHANGED <<cl, thought>>
  BY DEF CL_CreateNewCommands, serverVars
<1>3. /\ cmdNumber \in Nat /\ DOMAIN cmds = 1..cmdNumber /\ DOMAIN cmds' = 1..cmdNumber + 1
      /\ \A k \in 1..cmdNumber : Time(k)' = Time(k)
  BY <1>1, MoveAdded
<1>4. \A i \in DOMAIN thought : \A k \in thought[i].moves : Time(k)' = Time(k)
  <2>1. \A i \in DOMAIN thought : thought[i].moves \subseteq 1..cmdNumber
    BY <1>1, Zenon DEF MoveInv
  <2> QED
    BY <1>3, <2>1, Zenon
<1>5. UsercmdInv' /\ TypeOK'
  BY CreateMoves, CreateStep DEF MovesInv, ClientCommandsInv
<1> SUFFICES ASSUME ~cl.missed, NEW k \in DOMAIN cmds',
                    cl.entered < Time(k)', Time(k)' <= cl.lastUsercmd
             PROVE  \E i \in DOMAIN thought : \E l \in thought[i].moves : Time(l)' = Time(k)'
  BY <1>2, Zenon DEF MovesMade
<1>6. PICK j \in DOMAIN cmds : Time(j) = Time(k)'
  <2>1. CASE k \in DOMAIN cmds
    BY <1>3, <2>1, Zenon
  <2>2. CASE k \notin DOMAIN cmds
    <3>1. cl.entered \in Nat /\ Time(k)' \in Nat
      <4>1. Time(k)' \in Nat
        <5>1. cmds' \in Seq(Usercmd)
          BY <1>5 DEF TypeOK
        <5>2. cmds'[k] \in Usercmd
          BY <5>1, ElementOfSeq, LenProperties
        <5> QED
          BY <5>2 DEF Time, Usercmd
      <4> QED
        BY <1>1, <4>1 DEF TypeOK, ClientT
    <3>2. cl.lastUsercmd # 0
      BY <3>1
    <3>3. PICK j \in DOMAIN cmds : Time(j) = cl.lastUsercmd
      BY <1>1, <3>2 DEF UsercmdInv
    <3>4. j \in DOMAIN cmds' /\ j <= k
      BY <1>3, <2>2
    <3>5. Time(j)' <= Time(k)'
      BY <1>5, <3>4, Zenon DEF UsercmdInv
    <3>6. Time(j)' = Time(j) /\ Time(j) \in Nat
      BY <1>1, <1>3, TimeType
    <3> QED
      BY <3>1, <3>3, <3>5, <3>6
  <2> QED
    BY <2>1, <2>2
<1>7. cl.entered < Time(j) /\ Time(j) <= cl.lastUsercmd
  BY <1>6, Zenon
<1>8. PICK i \in DOMAIN thought : \E l \in thought[i].moves : Time(l) = Time(j)
  BY <1>7, Zenon DEF MovesMade
<1> QED
  BY <1>4, <1>6, <1>8, Zenon

\* The moves a packet makes the server execute are thought of last.
LEMMA ThoughtAdded ==
  ASSUME thought \in Seq(Thought), NEW moves \in SUBSET Nat, NEW done \in Nat,
         thought' = Append(thought, [moves |-> moves, commands |-> done])
  PROVE  /\ \A i \in DOMAIN thought : i \in DOMAIN thought' /\ thought'[i] = thought[i]
         /\ \E i \in DOMAIN thought' : thought'[i].moves = moves
<1> DEFINE e == [moves |-> moves, commands |-> done]
<1>1. e \in Thought /\ e.moves = moves
  BY Zenon DEF Thought
<1>2. thought' = Append(thought, e)
  OBVIOUS
<1> HIDE DEF e
<1>3. /\ Len(thought) \in Nat
      /\ DOMAIN thought = 1..Len(thought) /\ DOMAIN thought' = 1..Len(thought) + 1
      /\ \A k \in 1..Len(thought) : thought'[k] = thought[k]
      /\ thought'[Len(thought) + 1] = e
  BY <1>1, <1>2, AppendElement
<1>4. Len(thought) + 1 \in DOMAIN thought' /\ \A k \in DOMAIN thought : k \in DOMAIN thought'
  BY <1>3
<1> QED
  BY <1>1, <1>3, <1>4, Zenon

\* A packet brings the moves for all times up to its last one, or some were missed.
LEMMA PacketEventMade ==
  ASSUME ClientCommandsInv, MovesInv, PositionInv, MovesMade, SV_PacketEvent
  PROVE  MovesMade'
<1>1. TypeOK /\ cl \in ClientT /\ UsercmdInv /\ thought \in Seq(Thought)
  BY DEF ClientCommandsInv, MovesInv, TypeOK
<1>2. UNCHANGED cmds /\ toServer # <<>>
  BY DEF SV_PacketEvent, clientVars
<1>3. \A k : Time(k)' = Time(k)
  BY <1>2 DEF Time
<1> SUFFICES ASSUME ~cl'.missed, NEW k \in DOMAIN cmds,
                    cl'.entered < Time(k), Time(k) <= cl'.lastUsercmd
             PROVE  \E i \in DOMAIN thought' : \E l \in thought'[i].moves : Time(l) = Time(k)
  BY <1>2, <1>3, Zenon DEF MovesMade
<1>4. CASE NoMoves(Head(toServer))
  <2>1. /\ thought' = thought /\ cl'.lastUsercmd = cl.lastUsercmd /\ cl'.entered = cl.entered
        /\ ~cl.missed
    BY <1>4, Zenon DEF NoMoves
  <2>2. cl.entered < Time(k) /\ Time(k) <= cl.lastUsercmd
    BY <2>1, Zenon
  <2>3. \E i \in DOMAIN thought : \E l \in thought[i].moves : Time(l) = Time(k)
    BY <2>1, <2>2, Zenon DEF MovesMade
  <2> QED
    BY <2>1, <2>3, Zenon
<1>5. PICK p \in Packet : p = Head(toServer) /\ PacketFits(p)
  <2>1. toServer \in Seq(Packet)
    BY <1>1 DEF TypeOK
  <2>2. Head(toServer) \in Packet /\ 1 \in DOMAIN toServer /\ Head(toServer) = toServer[1]
    BY <1>2, <2>1, TailElement
  <2> QED
    BY <2>2 DEF ClientCommandsInv, PacketInv
<1>6. ASSUME NEW had \in Nat, NEW done \in Nat, Heard(p, had) \in ClientT, p.from < p.upTo,
             SV_UserMove(Heard(p, had), p, done)
      PROVE  \E i \in DOMAIN thought' : \E l \in thought'[i].moves : Time(l) = Time(k)
  <2> DEFINE c == Heard(p, had)
             f == p.from
             t == p.upTo
  <2>1. /\ c.state = cl.state /\ c.lastUsercmd = cl.lastUsercmd /\ c.entered = cl.entered
        /\ cl.missed => c.missed
        /\ cl.state = "CS_ACTIVE" /\ (p.clipped \/ p.lost > cl_packetdup) => c.missed
    BY <1>1, HeardKeeps, Zenon
  <2>2. p.upTo <= cmdNumber
    BY <1>5 DEF PacketFits
  <2>3. PICK last \in Nat :
          /\ cl.state = "CS_PRIMED" => last = Time(f + 1)
          /\ cl.state # "CS_PRIMED" => last = cl.lastUsercmd
          /\ cl'.state = "CS_ACTIVE"
          /\ cl.state = "CS_PRIMED" => cl'.entered = last
          /\ cl.state # "CS_PRIMED" => cl'.entered = cl.entered
          /\ cl'.missed = c.missed
          /\ Time(t) > last => cl'.lastUsercmd = Time(t)
          /\ ~(Time(t) > last) => cl'.lastUsercmd = last
          /\ Made(last, p) = {} => thought' = thought
          /\ Made(last, p) # {} =>
               thought' = Append(thought, [moves |-> Made(last, p), commands |-> done])
    <3>1. \E last \in Nat :
           /\ c.state = "CS_PRIMED" => last = Time(p.from + 1)
           /\ c.state # "CS_PRIMED" => last = c.lastUsercmd
           /\ cl'.state = "CS_ACTIVE"
           /\ c.state = "CS_PRIMED" => cl'.entered = last
           /\ c.state # "CS_PRIMED" => cl'.entered = c.entered
           /\ cl'.missed = c.missed
           /\ Time(p.upTo) > last => cl'.lastUsercmd = Time(p.upTo)
           /\ ~(Time(p.upTo) > last) => cl'.lastUsercmd = last
           /\ Made(last, p) = {} => thought' = thought
           /\ Made(last, p) # {} =>
                thought' = Append(thought, [moves |-> Made(last, p), commands |-> done])
      BY <1>1, <1>5, <1>6, <2>2, UserMoveMakes
    <3> HIDE DEF c
    <3> QED
      BY <2>1, <3>1, Zenon
  <2> HIDE DEF c
  <2>4. /\ ~cl.missed
        /\ cl.state = "CS_ACTIVE" => ~p.clipped /\ ~(p.lost > cl_packetdup)
    BY <2>1, <2>3, Zenon
  <2>5. /\ f \in Nat /\ t \in Nat /\ f < t /\ t <= cmdNumber
        /\ cmdNumber \in Nat /\ DOMAIN cmds = 1..cmdNumber
    BY <1>1, <1>5, <1>6, <2>2, Numbers, PacketNumbers, Zenon
  <2> HIDE DEF f, t
  <2>6. /\ k \in Nat /\ t \in DOMAIN cmds /\ f + 1 \in DOMAIN cmds /\ t \in f + 1..t
        /\ k <= f => k <= f + 1
        /\ \A m \in f + 1..t : m \in DOMAIN cmds
    BY <2>5
  <2>7. Time(k) \in Nat /\ Time(t) \in Nat /\ Time(f + 1) \in Nat
    BY <1>1, <2>6, TimeType
  <2>8. Made(last, p) \in SUBSET Nat
    BY <2>5 DEF Made, f, t
  <2>9. Made(last, p) # {} =>
          /\ \A i \in DOMAIN thought : i \in DOMAIN thought' /\ thought'[i] = thought[i]
          /\ \E i \in DOMAIN thought' : thought'[i].moves = Made(last, p)
    BY <1>1, <1>6, <2>3, <2>8, ThoughtAdded
  <2>10. cl.state = "CS_PRIMED" \/ cl.state = "CS_ACTIVE"
    <3>1. cl.state # "CS_ZOMBIE"
      <4>1. cl.state = "CS_ZOMBIE" => cl' = cl
        BY DEF SV_PacketEvent, serverVars
      <4> QED
        BY <2>3, <4>1
    <3>2. cl.state \in {"CS_ZOMBIE", "CS_PRIMED", "CS_ACTIVE"}
      BY <1>1, Zenon DEF ClientT
    <3> QED
      BY <3>1, <3>2
  <2>11. CASE Time(k) > last
    <3>1. Time(t) > last /\ Time(k) <= Time(t)
      BY <2>3, <2>7, <2>11
    <3>2. ~(k <= f)
      <4> SUFFICES ASSUME k <= f PROVE FALSE
        OBVIOUS
      <4>1. CASE cl.state = "CS_PRIMED"
        <5>1. Time(k) <= Time(f + 1)
          BY <1>1, <2>6, Zenon DEF UsercmdInv
        <5>2. last = Time(f + 1)
          BY <2>3, <4>1, Zenon
        <5> QED
          BY <2>7, <2>11, <5>1, <5>2
      <4>2. CASE cl.state = "CS_ACTIVE"
        <5>1. PICK n \in Nat : \E upTo, at \in [Nat -> Nat] : Positions(n, upTo, at)
          BY DEF PositionInv
        <5>2. PICK upTo \in [Nat -> Nat], at \in [Nat -> Nat] : Positions(n, upTo, at)
          BY <5>1
        <5>3. \A j \in DOMAIN cmds : j <= p.from => Time(j) <= cl.lastUsercmd
          BY <1>1, <1>2, <1>5, <2>4, <4>2, <5>2, NothingMissed, Zenon
        <5>4. Time(k) <= cl.lastUsercmd
          BY <5>3, Zenon DEF f
        <5>5. last = cl.lastUsercmd
          BY <2>3, <4>2
        <5> QED
          BY <2>7, <2>11, <5>4, <5>5
      <4> QED
        BY <2>10, <4>1, <4>2
    <3>3. PICK m \in f + 1..t : Time(m) = Time(k)
      <4>1. CASE k <= t
        <5>1. k \in f + 1..t
          BY <2>5, <2>6, <3>2, <4>1
        <5> QED
          BY <5>1
      <4>2. CASE ~(k <= t)
        <5>1. t <= k
          BY <2>5, <2>6, <4>2
        <5>2. Time(t) <= Time(k)
          BY <1>1, <2>6, <5>1, Zenon DEF UsercmdInv
        <5>3. Time(t) = Time(k)
          BY <2>7, <3>1, <5>2
        <5> QED
          BY <2>6, <5>3, Zenon
      <4> QED
        BY <4>1, <4>2
    <3>4. PICK l \in f + 1..t : /\ Time(l) = Time(m)
                                /\ \A j \in f + 1..l - 1 : Time(j) # Time(l)
      <4>1. f \in Nat /\ t \in Nat
        BY <2>5
      <4>2. \E l \in f + 1..t : FirstAt(f, l, m)
        BY <4>1, FirstOfTime, Zenon
      <4> QED
        BY <4>2, Zenon DEF FirstAt
    <3>5. l \in Made(last, p)
      <4>1. Time(l) <= Time(t) /\ IsNew(last, l)
        BY <2>11, <3>1, <3>3, <3>4, Zenon DEF IsNew
      <4> QED
        BY <3>4, <4>1, Zenon DEF Made, f, t
    <3>6. PICK i \in DOMAIN thought' : thought'[i].moves = Made(last, p)
      BY <2>9, <3>5, Zenon
    <3> QED
      BY <3>3, <3>4, <3>5, <3>6, Zenon
  <2>12. CASE ~(Time(k) > last)
    <3>1. cl.state # "CS_PRIMED"
      <4> SUFFICES ASSUME cl.state = "CS_PRIMED" PROVE FALSE
        OBVIOUS
      <4>1. cl'.entered = last
        BY <2>3, Zenon
      <4> QED
        BY <2>7, <2>12, <4>1
    <3>2. cl.entered < Time(k)
      BY <2>3, <3>1, Zenon
    <3>3. Time(k) <= cl.lastUsercmd
      <4>1. last = cl.lastUsercmd
        BY <2>3, <3>1, Zenon
      <4> QED
        BY <2>7, <2>12, <4>1
    <3>4. PICK i \in DOMAIN thought : \E l \in thought[i].moves : Time(l) = Time(k)
      BY <2>4, <3>2, <3>3, Zenon DEF MovesMade
    <3>5. i \in DOMAIN thought' /\ thought'[i] = thought[i]
      BY <2>3, <2>9, <3>4, Zenon
    <3> QED
      BY <3>4, <3>5, Zenon
  <2> QED
    BY <2>11, <2>12
<1> QED
  BY <1>4, <1>5, <1>6, PacketEventMakes, Zenon

LEMMA MadeStep == ClientCommandsInv /\ MovesInv /\ PositionInv /\ MovesMade /\ [Next]_vars => MovesMade'
<1> SUFFICES ASSUME ClientCommandsInv, MovesInv, PositionInv, MovesMade, [Next]_vars PROVE MovesMade'
  OBVIOUS
<1>1. CASE CL_CreateNewCommands
  BY <1>1, CreateMade
<1>2. CASE SV_PacketEvent
  BY <1>2, PacketEventMade
<1>3. ASSUME UNCHANGED <<cmds, thought>>, cl'.lastUsercmd = cl.lastUsercmd,
             cl'.entered = cl.entered, cl'.missed = cl.missed
      PROVE  MovesMade'
  <2>1. \A k : Time(k)' = Time(k)
    BY <1>3 DEF Time
  <2> QED
    BY <1>3, <2>1, Zenon DEF MovesMade
<1>4. CASE SV_DropClient
  <2>1. cl \in ClientT
    BY DEF ClientCommandsInv, TypeOK
  <2>2. cl'.lastUsercmd = cl.lastUsercmd /\ cl'.entered = cl.entered /\ cl'.missed = cl.missed
    BY <1>4, <2>1, DropKeeps DEF SV_DropClient
  <2>3. UNCHANGED <<cmds, thought>>
    BY <1>4 DEF SV_DropClient, clientVars
  <2> QED
    BY <1>3, <2>2, <2>3
<1>5. CASE UNCHANGED <<cmds, cl, thought>>
  <2>1. /\ UNCHANGED <<cmds, thought>> /\ cl'.lastUsercmd = cl.lastUsercmd
        /\ cl'.entered = cl.entered /\ cl'.missed = cl.missed
    BY <1>5
  <2> QED
    BY <1>3, <2>1
<1>6. CL_AddReliableCommand \/ CL_WritePacket \/ CL_Disconnect \/ CL_ParseServerMessage
        \/ SV_SendMessage \/ Lose \/ UNCHANGED vars
      => UNCHANGED <<cmds, cl, thought>>
  BY DEF CL_AddReliableCommand, CL_WritePacket, CL_Disconnect, CL_ParseServerMessage,
         SV_SendMessage, Lose, vars, clientVars, serverVars
<1> QED
  BY <1>1, <1>2, <1>4, <1>5, <1>6, Zenon DEF Next

LEMMA PositionInvariant == Spec => []PositionInv
<1>1. Init => MovesInv
  BY InitMoves
<1> QED
  BY <1>1, InitPositions, MovesStep, PositionStep, ClientCommandsInvariant, PTL DEF Spec

\* While no more than cl_packetdup packets in a row are lost, and none held more
\* moves than fit, a move is executed for every time the client moved at
\* (CL_WritePacket, SV_UserMove).
THEOREM ClientMovesMade == Spec => []MovesMade
<1>1. Init => MovesMade
  <2> SUFFICES ASSUME Init PROVE MovesMade
    OBVIOUS
  <2>1. cmds = <<>>
    BY DEF Init
  <2> QED
    BY <2>1 DEF MovesMade
<1>2. ClientCommandsInv /\ MovesInv /\ PositionInv /\ MovesMade /\ [Next]_vars => MovesMade'
  BY MadeStep
<1> QED
  BY <1>1, <1>2, InitMoves, MovesStep, PositionInvariant, ClientCommandsInvariant, PTL DEF Spec

\* The position of the oldest packet under way, and how many were lost since.
LEMMA LastThree ==
  ASSUME NEW x \in Nat, NEW n \in Nat, x <= n
  PROVE  n - x \in Nat /\ (n - x < 3 => x > n - 3)
OBVIOUS

\* The server knows that the client left unless its last three packets were all
\* lost (CL_Disconnect).
THEOREM ClientDisconnectHeard == Spec => []DisconnectHeard
<1>1. ClientCommandsInv /\ PositionInv => DisconnectHeard
  <2> SUFFICES ASSUME ClientCommandsInv, PositionInv, clc.state = "CA_DISCONNECTED",
                      toServer = <<>>, lostLast < 3
               PROVE  cl.state = "CS_ZOMBIE"
    BY DEF DisconnectHeard
  <2>1. PICK n \in Nat : \E upTo, at \in [Nat -> Nat] : Positions(n, upTo, at)
    BY DEF PositionInv
  <2>2. PICK upTo \in [Nat -> Nat], at \in [Nat -> Nat] : Positions(n, upTo, at)
    BY <2>1
  <2>3. Line(toServer, lostLast, n, upTo, at) /\ Left(n, at)
    BY <2>2 DEF Positions
  <2>4. Len(toServer) = 0 /\ 0 \in 0..0
    OBVIOUS
  <2>5. at[0] <= n /\ lostLast = Count(n - at[0])
    BY <2>3, <2>4, Zenon DEF Line
  <2>6. at[0] \in Nat
    OBVIOUS
  <2>7. n - at[0] \in Nat /\ (n - at[0] < 3 => at[0] > n - 3)
    BY <2>5, <2>6, LastThree, Zenon
  <2>8. n - at[0] < 3
    BY <2>5, <2>7, CountTells, Zenon
  <2>9. at[0] > n - 3
    BY <2>7, <2>8, Zenon
  <2> QED
    BY <2>3, <2>9, Zenon DEF Left
<1> QED
  BY <1>1, PositionInvariant, ClientCommandsInvariant, PTL
=============================================================================
