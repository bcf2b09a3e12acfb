--------------------------- MODULE SessionProofs ---------------------------
(***************************************************************************)
(* Proofs about Session: the inductive invariant, and from it that the     *)
(* client executes the commands in order, that a snapshot is shown after   *)
(* its commands, and that the session keeps the promise of                 *)
(* ReliableCommands.  All for every size of the ring and every bound.      *)
(***************************************************************************)
EXTENDS Session, SequenceTheorems, WellFoundedInduction, TLAPS

-----------------------------------------------------------------------------
(* Slots of a ring. *)

\* Every number has a slot.
LEMMA SlotType ==
  ASSUME NEW n \in Int
  PROVE  n % M \in Slots
BY RingAssumption DEF Slots, M

\* Two numbers less than M apart have different slots.
LEMMA SlotsDiffer ==
  ASSUME NEW a \in Int, NEW b \in Int, a < b, b < a + M
  PROVE  a % M # b % M
<1>1. M \in Int /\ M > 0
  BY RingAssumption
<1> DEFINE q == a \div M
           r == b \div M
<1>2. q \in Int /\ r \in Int
  BY <1>1
<1>3. a = M * q + (a % M) /\ b = M * r + (b % M)
  BY <1>1
<1>4. a % M \in Int /\ b % M \in Int
  BY <1>1
<1> HIDE DEF q, r
<1> SUFFICES ASSUME a % M = b % M PROVE FALSE
  OBVIOUS
<1>5. b - a = M * (r - q)
  BY <1>1, <1>2, <1>3, <1>4
<1>6. CASE r - q <= 0
  <2>1. M * (r - q) <= 0
    BY <1>1, <1>2, <1>6
  <2> QED
    BY <2>1, <1>5
<1>7. CASE r - q >= 1
  <2>1. M * (r - q) >= M
    BY <1>1, <1>2, <1>7
  <2> QED
    BY <2>1, <1>5, <1>1
<1> QED
  BY <1>2, <1>6, <1>7

-----------------------------------------------------------------------------
(* Adding commands. *)

\* d is c after the server added commands: what was issued stays, what was
\* overflowed stays so, and the ring is as RingInv says.
Grows(c, d) ==
  /\ d \in ClientT
  /\ d.reliableAcknowledge = c.reliableAcknowledge
  /\ reliableSequence(c) <= reliableSequence(d)
  /\ \A n \in DOMAIN c.issued : d.issued[n] = c.issued[n]
  /\ c.overflowed => d.overflowed
  /\ RingInv(d)

LEMMA GrowsTransitive ==
  ASSUME NEW c \in ClientT, NEW d, NEW e, Grows(c, d), Grows(d, e)
  PROVE  Grows(c, e)
<1>1. c.issued \in Seq(Command) /\ d.issued \in Seq(Command) /\ e.issued \in Seq(Command)
  BY DEF Grows, ClientT
<1>2. reliableSequence(c) <= reliableSequence(e)
  BY <1>1, LenProperties DEF Grows, reliableSequence
<1>3. ASSUME NEW n \in DOMAIN c.issued PROVE e.issued[n] = c.issued[n]
  BY <1>1, <1>3, LenProperties DEF Grows, reliableSequence
<1> QED
  BY <1>2, <1>3 DEF Grows

\* A record that differs only in what RingInv does not look at.
LEMMA GrowsSame ==
  ASSUME NEW c \in ClientT, NEW d \in ClientT, RingInv(c),
         d.issued = c.issued, d.reliableAcknowledge = c.reliableAcknowledge,
         d.reliableCommands = c.reliableCommands, d.overflowed = c.overflowed
  PROVE  Grows(c, d)
<1>1. RingInv(d)
  BY DEF RingInv, reliableSequence, Pending
<1>2. reliableSequence(c) = reliableSequence(d) /\ reliableSequence(c) \in Nat
  BY LenProperties DEF reliableSequence, ClientT
<1> QED
  BY <1>1, <1>2 DEF Grows

\* The fields of a client_t after a command was stored.
LEMMA StoreFields ==
  ASSUME NEW c \in ClientT, NEW cmd \in Command
  PROVE  LET d == Store(c, cmd)
             n == reliableSequence(c) + 1
         IN  /\ d \in ClientT
             /\ d.issued = Append(c.issued, cmd)
             /\ d.reliableAcknowledge = c.reliableAcknowledge
             /\ d.reliableCommands = [c.reliableCommands EXCEPT ![n % M] = n]
             /\ d.overflowed = c.overflowed
             /\ reliableSequence(d) = n
             /\ d.state = c.state
             /\ n \in Nat
<1> DEFINE n == reliableSequence(c) + 1
<1>1. c.issued \in Seq(Command) /\ reliableSequence(c) \in Nat
  BY LenProperties DEF ClientT, reliableSequence
<1>2. Append(c.issued, cmd) \in Seq(Command) /\ Len(Append(c.issued, cmd)) = n
  BY <1>1, AppendProperties DEF reliableSequence
<1>3. n \in Nat
  BY <1>1
<1> HIDE DEF n
<1>3a. n % M \in Slots /\ c.reliableCommands \in [Slots -> Nat]
  <2>1. n % M \in Slots
    BY <1>3, SlotType
  <2>2. c.reliableCommands \in [Slots -> Nat]
    BY DEF ClientT
  <2> QED
    BY <2>1, <2>2
<1>5. [c.reliableCommands EXCEPT ![n % M] = n] \in [Slots -> Nat]
  BY <1>3, <1>3a
<1>4. Store(c, cmd) = [c EXCEPT !.issued = Append(@, cmd),
                                !.reliableCommands = [c.reliableCommands EXCEPT ![n % M] = n]]
  BY DEF Store, n, ClientT
<1> DEFINE d == Store(c, cmd)
<1>6. d \in ClientT
  BY <1>2, <1>4, <1>5 DEF ClientT
<1>7. /\ d.issued = Append(c.issued, cmd)
      /\ d.reliableAcknowledge = c.reliableAcknowledge
      /\ d.reliableCommands = [c.reliableCommands EXCEPT ![n % M] = n]
      /\ d.state = c.state
  BY <1>4 DEF ClientT
<1>8. d.overflowed = c.overflowed
  BY <1>4, Zenon DEF ClientT
<1>9. reliableSequence(d) = n
  BY <1>2, <1>7 DEF reliableSequence
<1> QED
  BY <1>3, <1>6, <1>7, <1>8, <1>9 DEF n

\* A command stored while there is room keeps the ring.
LEMMA StoreGrows ==
  ASSUME NEW c \in ClientT, NEW cmd \in Command, RingInv(c),
         c.overflowed \/ Pending(c) < M
  PROVE  Grows(c, Store(c, cmd))
<1> DEFINE d == Store(c, cmd)
           n == reliableSequence(c) + 1
<1>1. /\ d \in ClientT
      /\ d.issued = Append(c.issued, cmd)
      /\ d.reliableAcknowledge = c.reliableAcknowledge
      /\ d.reliableCommands = [c.reliableCommands EXCEPT ![n % M] = n]
      /\ d.overflowed = c.overflowed
      /\ reliableSequence(d) = n
      /\ n \in Nat
  BY StoreFields
<1>2. /\ c.issued \in Seq(Command) /\ reliableSequence(c) \in Nat
      /\ c.reliableAcknowledge \in Nat /\ c.reliableCommands \in [Slots -> Nat]
  BY LenProperties DEF ClientT, reliableSequence
<1>3. \A k \in DOMAIN c.issued : d.issued[k] = c.issued[k]
  BY <1>1, <1>2, AppendProperties, LenProperties
<1>4. n % M \in Slots /\ M \in Nat
  BY <1>1, SlotType, RingAssumption
<1> HIDE DEF d
<1>5. d.reliableAcknowledge <= reliableSequence(d)
  BY <1>1, <1>2 DEF RingInv
<1>6. \A s \in Slots : d.reliableCommands[s] <= reliableSequence(d)
  BY <1>1, <1>2, <1>4 DEF RingInv
<1>7. ASSUME ~d.overflowed PROVE Pending(d) <= M
  <2>1. Pending(c) < M
    BY <1>1, <1>7
  <2> QED
    BY <2>1, <1>1, <1>2, <1>4 DEF Pending
<1>8. ASSUME ~d.overflowed, NEW k \in 1..n, k > n - M
      PROVE  d.reliableCommands[k % M] = k
  <2>1. CASE k = n
    BY <2>1, <1>1, <1>2, <1>4
  <2>2. CASE k < n
    <3>1. k % M # n % M
      BY <2>2, <1>8, <1>1, <1>4, SlotsDiffer
    <3>2. k % M \in Slots
      BY SlotType
    <3>3. ~c.overflowed
      BY <1>1, <1>8
    <3>4. \A i \in 1..reliableSequence(c) :
            i > reliableSequence(c) - M => c.reliableCommands[i % M] = i
      BY <3>3, Zenon DEF RingInv
    <3>5. c.reliableCommands[k % M] = k
      BY <3>4, <2>2, <1>8, <1>1, <1>2, <1>4
    <3> QED
      BY <3>1, <3>2, <3>5, <1>1, <1>2
  <2> QED
    BY <2>1, <2>2, <1>8, <1>1
<1>9. RingInv(d)
  BY <1>1, <1>5, <1>6, <1>7, <1>8 DEF RingInv
<1> QED
  BY <1>1, <1>2, <1>3, <1>9 DEF Grows, d

\* Changes of a client_t that the ring has no part in.
LEMMA UnringedGrows ==
  ASSUME NEW c \in ClientT, RingInv(c),
         NEW st \in CS_FREE..CS_ACTIVE, NEW calls \in Nat, NEW b \in BOOLEAN, NEW l \in Nat
  PROVE  LET d == [c EXCEPT !.state = st, !.dropCalls = calls, !.csUpdated = b, !.unheard = l]
         IN  Grows(c, d) /\ d.state = st
<1> DEFINE d == [c EXCEPT !.state = st, !.dropCalls = calls, !.csUpdated = b, !.unheard = l]
<1>1. d \in ClientT
  BY Zenon DEF ClientT
<1>2. /\ d.issued = c.issued /\ d.reliableAcknowledge = c.reliableAcknowledge
      /\ d.reliableCommands = c.reliableCommands /\ d.overflowed = c.overflowed
      /\ d.state = st
  BY Zenon DEF ClientT
<1> HIDE DEF d
<1>3. Grows(c, d)
  BY <1>1, <1>2, GrowsSame
<1> QED
  BY <1>2, <1>3 DEF d

\* The fields of the record that a change leaves alone may be left out.
LEMMA Unchanged ==
  ASSUME NEW c \in ClientT, NEW st, NEW calls, NEW b
  PROVE  /\ [c EXCEPT !.state = st]
              = [c EXCEPT !.state = st, !.dropCalls = c.dropCalls, !.csUpdated = c.csUpdated,
                          !.unheard = c.unheard]
         /\ [c EXCEPT !.csUpdated = b]
              = [c EXCEPT !.state = c.state, !.dropCalls = c.dropCalls, !.csUpdated = b,
                          !.unheard = c.unheard]
         /\ [c EXCEPT !.dropCalls = calls]
              = [c EXCEPT !.state = c.state, !.dropCalls = calls, !.csUpdated = c.csUpdated,
                          !.unheard = c.unheard]
         /\ [c EXCEPT !.state = st, !.dropCalls = calls]
              = [c EXCEPT !.state = st, !.dropCalls = calls, !.csUpdated = c.csUpdated,
                          !.unheard = c.unheard]
         /\ \A l : [c EXCEPT !.dropCalls = calls, !.unheard = l]
              = [c EXCEPT !.state = c.state, !.dropCalls = calls, !.csUpdated = c.csUpdated,
                          !.unheard = l]
BY DEF ClientT

LEMMA ChangesGrow ==
  ASSUME NEW c \in ClientT, RingInv(c),
         NEW st \in CS_FREE..CS_ACTIVE, NEW calls \in Nat, NEW b \in BOOLEAN
  PROVE  /\ Grows(c, [c EXCEPT !.state = st])
         /\ Grows(c, [c EXCEPT !.csUpdated = b])
         /\ Grows(c, [c EXCEPT !.dropCalls = calls])
         /\ Grows(c, [c EXCEPT !.state = st, !.dropCalls = calls])
         /\ \A l \in Nat : Grows(c, [c EXCEPT !.dropCalls = calls, !.unheard = l])
<1>1. /\ c.state \in CS_FREE..CS_ACTIVE /\ c.dropCalls \in Nat /\ c.unheard \in Nat
  BY DEF ClientT
<1>2. c.csUpdated \in BOOLEAN
  BY Zenon DEF ClientT
<1>3. Grows(c, [c EXCEPT !.state = st])
  <2>1. Grows(c, [c EXCEPT !.state = st, !.dropCalls = c.dropCalls,
                           !.csUpdated = c.csUpdated, !.unheard = c.unheard])
    BY <1>1, <1>2, UnringedGrows
  <2> QED
    BY <2>1, Unchanged, Zenon
<1>4. Grows(c, [c EXCEPT !.csUpdated = b])
  <2>1. Grows(c, [c EXCEPT !.state = c.state, !.dropCalls = c.dropCalls,
                           !.csUpdated = b, !.unheard = c.unheard])
    BY <1>1, UnringedGrows
  <2> QED
    BY <2>1, Unchanged, Zenon
<1>5. Grows(c, [c EXCEPT !.dropCalls = calls])
  <2>1. Grows(c, [c EXCEPT !.state = c.state, !.dropCalls = calls,
                           !.csUpdated = c.csUpdated, !.unheard = c.unheard])
    BY <1>1, <1>2, UnringedGrows
  <2> QED
    BY <2>1, Unchanged, Zenon
<1>6. Grows(c, [c EXCEPT !.state = st, !.dropCalls = calls])
  <2>1. Grows(c, [c EXCEPT !.state = st, !.dropCalls = calls,
                           !.csUpdated = c.csUpdated, !.unheard = c.unheard])
    BY <1>1, <1>2, UnringedGrows
  <2> QED
    BY <2>1, Unchanged, Zenon
<1>7. ASSUME NEW l \in Nat PROVE Grows(c, [c EXCEPT !.dropCalls = calls, !.unheard = l])
  <2>1. Grows(c, [c EXCEPT !.state = c.state, !.dropCalls = calls,
                           !.csUpdated = c.csUpdated, !.unheard = l])
    BY <1>1, <1>2, UnringedGrows
  <2> QED
    BY <2>1, Unchanged, Zenon
<1> QED
  BY <1>3, <1>4, <1>5, <1>6, <1>7

LEMMA DropOverflowedGrows ==
  ASSUME NEW c \in ClientT, RingInv(c), c.overflowed
  PROVE  Grows(c, DropOverflowed(c))
<1>1. Plain("print") \in Command /\ Plain("disconnect") \in Command
  BY DEF Plain, Command, Kinds
<1> DEFINE d == Store(c, Plain("print"))
           e == Store(d, Plain("disconnect"))
<1>2. Grows(c, d)
  BY <1>1, StoreGrows
<1>3. d \in ClientT /\ RingInv(d) /\ d.overflowed
  BY <1>2, Zenon DEF Grows
<1>4. Grows(d, e)
  <2> HIDE DEF d
  <2> QED
    BY <1>1, <1>3, StoreGrows
<1>5. Grows(c, e)
  <2> HIDE DEF d, e
  <2> QED
    BY <1>2, <1>4, GrowsTransitive
<1> HIDE DEF d, e
<1>6. e \in ClientT /\ RingInv(e)
  BY <1>4 DEF Grows
<1>7. e.dropCalls + 1 \in Nat /\ CS_ZOMBIE \in CS_FREE..CS_ACTIVE
  BY <1>6 DEF ClientT, CS_ZOMBIE, CS_FREE, CS_ACTIVE
<1>8. Grows(e, [e EXCEPT !.state = CS_ZOMBIE, !.dropCalls = @ + 1])
  BY <1>6, <1>7, ChangesGrow
<1> QED
  BY <1>5, <1>8, GrowsTransitive DEF d, e, DropOverflowed

LEMMA OverflowGrows ==
  ASSUME NEW c \in ClientT, NEW cmd \in Command, RingInv(c)
  PROVE  Grows(c, Overflow(c, cmd))
<1> DEFINE d == [c EXCEPT !.issued = Append(@, cmd), !.overflowed = TRUE]
<1>1. c.issued \in Seq(Command) /\ c.reliableAcknowledge \in Nat
      /\ c.reliableCommands \in [Slots -> Nat]
  BY DEF ClientT
<1>2. /\ Append(c.issued, cmd) \in Seq(Command)
      /\ Len(Append(c.issued, cmd)) = Len(c.issued) + 1 /\ Len(c.issued) \in Nat
      /\ \A n \in DOMAIN c.issued : Append(c.issued, cmd)[n] = c.issued[n]
  BY <1>1, AppendProperties, LenProperties
<1>3. d \in ClientT
  BY <1>2, Zenon DEF ClientT
<1>4. /\ d.issued = Append(c.issued, cmd) /\ d.reliableAcknowledge = c.reliableAcknowledge
      /\ d.reliableCommands = c.reliableCommands /\ d.overflowed
  BY Zenon DEF ClientT
<1> HIDE DEF d
<1>5. RingInv(d)
  <2>1. d.reliableAcknowledge <= reliableSequence(d)
    BY <1>1, <1>2, <1>4 DEF RingInv, reliableSequence
  <2>2. \A s \in Slots : d.reliableCommands[s] <= reliableSequence(d)
    BY <1>1, <1>2, <1>4 DEF RingInv, reliableSequence
  <2> QED
    BY <1>4, <2>1, <2>2, Zenon DEF RingInv
<1>6. Grows(c, d)
  <2>1. reliableSequence(c) <= reliableSequence(d)
    BY <1>2, <1>4 DEF reliableSequence
  <2>2. \A n \in DOMAIN c.issued : d.issued[n] = c.issued[n]
    BY <1>2, <1>4
  <2> QED
    BY <1>3, <1>4, <1>5, <2>1, <2>2, Zenon DEF Grows
<1>7. Grows(d, DropOverflowed(d))
  BY <1>3, <1>4, <1>5, DropOverflowedGrows
<1> QED
  BY <1>6, <1>7, GrowsTransitive DEF d, Overflow

\* Whatever the server adds, the ring is kept, or the client is given up.
LEMMA AddGrows ==
  ASSUME NEW c \in ClientT, NEW cmd \in Command, RingInv(c)
  PROVE  Grows(c, SV_AddServerCommand(c, cmd))
<1>1. CASE c.state < CS_PRIMED
  BY <1>1, GrowsSame DEF SV_AddServerCommand
<1>2. CASE ~(c.state < CS_PRIMED) /\ Pending(c) = M
  BY <1>2, OverflowGrows DEF SV_AddServerCommand
<1>3. CASE ~(c.state < CS_PRIMED) /\ Pending(c) # M
  <2>1. Pending(c) \in Int /\ M \in Int
    BY LenProperties, RingAssumption DEF ClientT, Pending, reliableSequence
  <2>2. ASSUME ~c.overflowed PROVE Pending(c) < M
    <3>1. Pending(c) <= M
      BY <2>2, Zenon DEF RingInv
    <3> QED
      BY <3>1, <2>1, <1>3
  <2>3. c.overflowed \/ Pending(c) < M
    BY <2>2, Zenon
  <2> QED
    BY <1>3, <2>3, StoreGrows DEF SV_AddServerCommand
<1> QED
  BY <1>1, <1>2, <1>3, Zenon

LEMMA DropGrows ==
  ASSUME NEW c \in ClientT, RingInv(c)
  PROVE  Grows(c, SV_DropClient(c))
<1>1. Plain("print") \in Command /\ Plain("disconnect") \in Command
  BY DEF Plain, Command, Kinds
<1> DEFINE d == SV_AddServerCommand(c, Plain("print"))
           e == SV_AddServerCommand(d, Plain("disconnect"))
<1>2. CASE c.state = CS_ZOMBIE
  BY <1>2, GrowsSame DEF SV_DropClient
<1>3. CASE c.state # CS_ZOMBIE
  <2>1. Grows(c, d)
    BY <1>1, AddGrows
  <2>2. Grows(d, e)
    <3> HIDE DEF d
    <3> QED
      BY <1>1, <2>1, AddGrows DEF Grows
  <2> HIDE DEF d, e
  <2>3. Grows(c, e)
    BY <2>1, <2>2, GrowsTransitive
  <2>4. e \in ClientT /\ RingInv(e)
    BY <2>2 DEF Grows
  <2>5. e.dropCalls + 1 \in Nat /\ CS_ZOMBIE \in CS_FREE..CS_ACTIVE
    BY <2>4 DEF ClientT, CS_ZOMBIE, CS_FREE, CS_ACTIVE
  <2>6. Grows(e, [e EXCEPT !.state = CS_ZOMBIE, !.dropCalls = @ + 1])
    BY <2>4, <2>5, ChangesGrow
  <2> QED
    BY <1>3, <2>3, <2>6, GrowsTransitive DEF d, e, SV_DropClient
<1> QED
  BY <1>2, <1>3

LEMMA EnterGrows ==
  ASSUME sv \in SvState, NEW c \in ClientT, RingInv(c)
  PROVE  Grows(c, SV_ClientEnterWorld(c))
<1> DEFINE d == [c EXCEPT !.state = CS_ACTIVE]
           cmd == [kind |-> "cs", serverId |-> sv.systemInfo]
           e == SV_AddServerCommand(d, cmd)
<1>1. CS_ACTIVE \in CS_FREE..CS_ACTIVE /\ c.dropCalls \in Nat
  BY DEF CS_FREE, CS_ACTIVE, ClientT
<1>2. Grows(c, d)
  BY <1>1, ChangesGrow
<1>3. cmd \in Command
  BY DEF Command, Kinds, SvState
<1>4. Grows(d, e)
  <2> HIDE DEF d, cmd
  <2> QED
    BY <1>2, <1>3, AddGrows DEF Grows
<1>5. Grows(e, [e EXCEPT !.csUpdated = FALSE])
  <2> HIDE DEF e
  <2>1. e \in ClientT /\ RingInv(e)
    BY <1>4 DEF Grows
  <2>2. e.dropCalls \in Nat /\ FALSE \in BOOLEAN
    BY <2>1 DEF ClientT
  <2> QED
    BY <1>1, <2>1, <2>2, ChangesGrow
<1>6. Grows(c, e)
  <2> HIDE DEF d, e
  <2> QED
    BY <1>2, <1>4, GrowsTransitive
<1>7. Grows(c, [e EXCEPT !.csUpdated = FALSE])
  <2> HIDE DEF d, e
  <2> QED
    BY <1>5, <1>6, GrowsTransitive
<1>8. CASE ~c.csUpdated
  BY <1>2, <1>8, Zenon DEF SV_ClientEnterWorld
<1>9. CASE c.csUpdated
  BY <1>7, <1>9, Zenon DEF SV_ClientEnterWorld
<1> QED
  BY <1>8, <1>9, Zenon

LEMMA SystemInfoGrows ==
  ASSUME sv \in SvState, NEW c \in ClientT, RingInv(c)
  PROVE  Grows(c, SetSystemInfo(c))
<1>1. [kind |-> "cs", serverId |-> sv.serverId] \in Command
  BY DEF Command, Kinds, SvState
<1>2. CASE c.state >= CS_ACTIVE
  BY <1>1, <1>2, AddGrows DEF SetSystemInfo
<1>3. CASE ~(c.state >= CS_ACTIVE) /\ c.state = CS_PRIMED
  <2>1. c.state \in CS_FREE..CS_ACTIVE /\ c.dropCalls \in Nat /\ TRUE \in BOOLEAN
    BY DEF ClientT
  <2> QED
    BY <1>3, <2>1, ChangesGrow DEF SetSystemInfo
<1>4. CASE ~(c.state >= CS_ACTIVE) /\ c.state # CS_PRIMED
  BY <1>4, GrowsSame DEF SetSystemInfo
<1> QED
  BY <1>2, <1>3, <1>4

\* Every step of the server but the reading of a packet only adds commands.
LEMMA ServerGrows ==
  ASSUME TypeOK, RingInv(cl),
         \/ SV_SendServerCommand \/ SV_SpawnServer \/ SV_MapRestart_f
         \/ UpdateSystemInfo \/ SV_SendClientSnapshot \/ DropClient \/ SV_CheckTimeouts
  PROVE  Grows(cl, cl')
<1>1. cl \in ClientT /\ sv \in SvState
  BY DEF TypeOK
<1>2. Grows(cl, cl)
  BY <1>1, GrowsSame
<1>3. CASE SV_SendServerCommand
  <2>1. Plain("game") \in Command
    BY DEF Plain, Command, Kinds
  <2> QED
    BY <1>1, <1>3, <2>1, AddGrows DEF SV_SendServerCommand
<1>4. CASE SV_SpawnServer
  <2>1. CS_CONNECTED \in CS_FREE..CS_ACTIVE /\ 0 \in Nat /\ FALSE \in BOOLEAN
    BY DEF CS_CONNECTED, CS_FREE, CS_ACTIVE
  <2>2. Grows(cl, [cl EXCEPT !.state = CS_CONNECTED, !.dropCalls = 0])
    BY <1>1, <2>1, ChangesGrow
  <2> QED
    BY <1>2, <1>4, <2>2 DEF SV_SpawnServer
<1>5. CASE SV_MapRestart_f
  <2> DEFINE d == SV_AddServerCommand(cl, Plain("map_restart"))
             e == [d EXCEPT !.dropCalls = 0, !.unheard = Unheard(cl)]
  <2>1. Plain("map_restart") \in Command
    BY DEF Plain, Command, Kinds
  <2>2. Grows(cl, d)
    BY <1>1, <2>1, AddGrows
  <2>3. Grows(d, e)
    <3> HIDE DEF d
    <3>1. d \in ClientT /\ RingInv(d)
      BY <2>2 DEF Grows
    <3>2. d.state \in CS_FREE..CS_ACTIVE /\ 0 \in Nat /\ Unheard(cl) \in Nat
          /\ FALSE \in BOOLEAN
      BY <1>1, <3>1 DEF ClientT, Unheard, SvState
    <3> QED
      BY <3>1, <3>2, ChangesGrow
  <2>4. cl' = cl \/ cl' = SV_ClientEnterWorld(e) \/ cl' = SV_DropClient(e)
    BY <1>5 DEF SV_MapRestart_f
  <2> HIDE DEF d, e
  <2>5. Grows(cl, e) /\ e \in ClientT /\ RingInv(e)
    BY <1>1, <2>2, <2>3, GrowsTransitive DEF Grows
  <2>6. Grows(e, SV_ClientEnterWorld(e)) /\ Grows(e, SV_DropClient(e))
    BY <1>1, <2>5, EnterGrows, DropGrows
  <2> QED
    BY <1>1, <1>2, <2>4, <2>5, <2>6, GrowsTransitive
<1>6. CASE UpdateSystemInfo
  BY <1>1, <1>6, SystemInfoGrows DEF UpdateSystemInfo
<1>7. CASE SV_SendClientSnapshot
  BY <1>2, <1>7 DEF SV_SendClientSnapshot
<1>8. CASE DropClient
  BY <1>1, <1>8, DropGrows DEF DropClient
<1>9. CASE SV_CheckTimeouts
  <2> DEFINE d == SV_DropClient(cl)
  <2>1. Grows(cl, d)
    BY <1>1, DropGrows
  <2>2. cl' = [d EXCEPT !.state = CS_FREE]
    BY <1>9 DEF SV_CheckTimeouts
  <2> HIDE DEF d
  <2>3. d \in ClientT /\ RingInv(d)
    BY <2>1 DEF Grows
  <2>4. CS_FREE \in CS_FREE..CS_ACTIVE /\ d.dropCalls \in Nat /\ FALSE \in BOOLEAN
    BY <2>3 DEF ClientT, CS_FREE, CS_ACTIVE
  <2> QED
    BY <1>1, <2>1, <2>2, <2>3, <2>4, ChangesGrow, GrowsTransitive
<1> QED
  BY <1>3, <1>4, <1>5, <1>6, <1>7, <1>8, <1>9

-----------------------------------------------------------------------------
(* What the invariant says of the rest stays true when the server adds     *)
(* commands.                                                               *)

LEMMA MessageFitsKept ==
  ASSUME NEW c \in ClientT, NEW d, Grows(c, d), NEW k \in ClientConnection,
         NEW m \in Message, MessageFits(c, k, m)
  PROVE  MessageFits(d, k, m)
<1>1. /\ reliableSequence(c) \in Nat /\ reliableSequence(d) \in Nat
      /\ reliableSequence(c) <= reliableSequence(d)
  BY LenProperties DEF Grows, ClientT, reliableSequence
<1>2. m.built \in Nat /\ m.commands \in Seq(Nat)
  BY DEF Message
<1>3. m.built <= reliableSequence(d)
  BY <1>1, <1>2 DEF MessageFits
<1>4. ASSUME NEW i \in DOMAIN m.commands PROVE m.commands[i] <= reliableSequence(d)
  <2>1. m.commands[i] \in Nat
    BY <1>2, LenProperties, ElementOfSeq
  <2>2. m.commands[i] <= reliableSequence(c)
    BY DEF MessageFits
  <2> QED
    BY <1>1, <2>1, <2>2
<1>5. ~d.overflowed => ~c.overflowed
  BY Zenon DEF Grows
<1> QED
  BY <1>3, <1>4, <1>5, Zenon DEF MessageFits

LEMMA GrowsKeeps ==
  ASSUME NEW c \in ClientT, NEW d, Grows(c, d), NEW k \in ClientConnection,
         NEW ch \in Seq(Message), NEW ts \in Seq(Packet), NEW done,
         MessageInv(c, k, ch), PacketInv(c, k, ts), ClientInv(c, k), Ordered(c, done)
  PROVE  /\ MessageInv(d, k, ch)
         /\ PacketInv(d, k, ts)
         /\ ClientInv(d, k)
         /\ Ordered(d, done)
<1>1. /\ reliableSequence(c) \in Nat /\ reliableSequence(d) \in Nat
      /\ reliableSequence(c) <= reliableSequence(d)
  BY LenProperties DEF Grows, ClientT, reliableSequence
<1>2. ~d.overflowed => ~c.overflowed
  BY Zenon DEF Grows
<1>3. d.reliableAcknowledge = c.reliableAcknowledge
  BY DEF Grows
<1>4. MessageInv(d, k, ch)
  <2>1. ASSUME NEW i \in DOMAIN ch PROVE MessageFits(d, k, ch[i])
    <3>1. ch[i] \in Message
      BY LenProperties, ElementOfSeq
    <3>2. MessageFits(c, k, ch[i])
      BY DEF MessageInv
    <3> QED
      BY <3>1, <3>2, MessageFitsKept
  <2> QED
    BY <2>1, Zenon DEF MessageInv
<1>5. PacketInv(d, k, ts)
  <2>1. ASSUME NEW i \in DOMAIN ts PROVE PacketFits(d, k, ts[i])
    <3>0. ts[i] \in Packet
      BY LenProperties, ElementOfSeq
    <3>1. ts[i].serverCommandSequence \in Nat
      BY <3>0 DEF Packet
    <3>2. PacketFits(c, k, ts[i])
      BY DEF PacketInv
    <3>3. ts[i].serverCommandSequence <= reliableSequence(d)
      BY <1>1, <3>1, <3>2 DEF PacketFits
    <3> QED
      BY <1>2, <1>3, <3>2, <3>3, Zenon DEF PacketFits
  <2> QED
    BY <2>1, Zenon DEF PacketInv
<1>6. ClientInv(d, k)
  <2>1. k.serverCommandSequence \in Nat /\ k.serverCommands \in [Slots -> Nat]
    BY DEF ClientConnection
  <2>2. k.serverCommandSequence <= reliableSequence(d)
    BY <1>1, <2>1 DEF ClientInv
  <2>3. \A s \in Slots : k.serverCommands[s] <= reliableSequence(d)
    BY <1>1, <2>1 DEF ClientInv
  <2> QED
    BY <1>2, <1>3, <2>2, <2>3, Zenon DEF ClientInv
<1>7. Ordered(d, done)
  BY <1>2, Zenon DEF Ordered
<1> QED
  BY <1>4, <1>5, <1>6, <1>7

-----------------------------------------------------------------------------
(* Channels. *)

\* What the invariant says of a channel is true of any part of it in order.
LEMMA PartOfMessages ==
  ASSUME NEW c, NEW k, NEW ch \in Seq(Message), MessageInv(c, k, ch),
         NEW part \in Seq(Message), NEW f \in [DOMAIN part -> DOMAIN ch],
         \A i, j \in DOMAIN part : i <= j => f[i] <= f[j],
         \A i \in DOMAIN part : /\ part[i].first = ch[f[i]].first
                                /\ part[i].commands = ch[f[i]].commands
                                /\ part[i].built = ch[f[i]].built
  PROVE  MessageInv(c, k, part)
<1>1. ASSUME NEW i \in DOMAIN part PROVE MessageFits(c, k, part[i])
  <2>1. f[i] \in DOMAIN ch
    OBVIOUS
  <2>2. MessageFits(c, k, ch[f[i]])
    BY <2>1, Zenon DEF MessageInv
  <2>3. /\ part[i].first = ch[f[i]].first
        /\ part[i].commands = ch[f[i]].commands
        /\ part[i].built = ch[f[i]].built
    BY <1>1, Zenon
  <2> QED
    BY <2>2, <2>3, Zenon DEF MessageFits, LastCommand
<1>2. ASSUME NEW i \in DOMAIN part, NEW j \in DOMAIN part, i <= j
      PROVE  part[i].built <= part[j].built
  <2>1. f[i] \in DOMAIN ch /\ f[j] \in DOMAIN ch /\ f[i] <= f[j]
    BY <1>2
  <2>2. ch[f[i]].built <= ch[f[j]].built
    BY <2>1, Zenon DEF MessageInv
  <2> QED
    BY <2>2, Zenon
<1> QED
  BY <1>1, <1>2, Zenon DEF MessageInv

LEMMA PartOfPackets ==
  ASSUME NEW c, NEW k, NEW ts \in Seq(Packet), PacketInv(c, k, ts),
         NEW part \in Seq(Packet), NEW f \in [DOMAIN part -> DOMAIN ts],
         \A i, j \in DOMAIN part : i <= j => f[i] <= f[j],
         \A i \in DOMAIN part :
           part[i].serverCommandSequence = ts[f[i]].serverCommandSequence
  PROVE  PacketInv(c, k, part)
<1>1. ASSUME NEW i \in DOMAIN part PROVE PacketFits(c, k, part[i])
  <2>1. f[i] \in DOMAIN ts
    OBVIOUS
  <2>2. PacketFits(c, k, ts[f[i]])
    BY <2>1, Zenon DEF PacketInv
  <2>3. part[i].serverCommandSequence = ts[f[i]].serverCommandSequence
    BY <1>1, Zenon
  <2> QED
    BY <2>2, <2>3, Zenon DEF PacketFits
<1>2. ASSUME NEW i \in DOMAIN part, NEW j \in DOMAIN part, i <= j
      PROVE  part[i].serverCommandSequence <= part[j].serverCommandSequence
  <2>1. f[i] \in DOMAIN ts /\ f[j] \in DOMAIN ts /\ f[i] <= f[j]
    BY <1>2
  <2>2. ts[f[i]].serverCommandSequence <= ts[f[j]].serverCommandSequence
    BY <2>1, Zenon DEF PacketInv
  <2> QED
    BY <2>2, Zenon
<1> QED
  BY <1>1, <1>2, Zenon DEF PacketInv

\* Losing an element keeps the others, in their order.
LEMMA LoseElement ==
  ASSUME NEW S, NEW q \in Seq(S), NEW n \in DOMAIN q
  PROVE  LET part == LoseFrom(q, n)
             f == [i \in DOMAIN part |-> IF i < n THEN i ELSE i + 1]
         IN  /\ part \in Seq(S)
             /\ f \in [DOMAIN part -> DOMAIN q]
             /\ \A i, j \in DOMAIN part : i <= j => f[i] <= f[j]
             /\ \A i \in DOMAIN part : part[i] = q[f[i]]
<1>1. Len(q) \in Nat /\ DOMAIN q = 1..Len(q) /\ n \in 1..Len(q)
  BY LenProperties
<1> DEFINE a == SubSeq(q, 1, n - 1)
           b == SubSeq(q, n + 1, Len(q))
           part == LoseFrom(q, n)
<1>2. /\ a \in Seq(S) /\ Len(a) = n - 1
      /\ \A i \in 1..(n - 1) : a[i] = q[i]
  BY <1>1, SubSeqProperties
<1>3. /\ b \in Seq(S) /\ Len(b) = Len(q) - n
      /\ \A i \in 1..(Len(q) - n) : b[i] = q[i + n]
  BY <1>1, SubSeqProperties
<1> HIDE DEF a, b
<1>4. /\ a \o b \in Seq(S) /\ Len(a \o b) = Len(q) - 1
      /\ \A i \in 1..(Len(q) - 1) : (a \o b)[i] = IF i < n THEN q[i] ELSE q[i + 1]
  <2>1. /\ a \o b \in Seq(S) /\ Len(a \o b) = Len(a) + Len(b)
        /\ \A i \in 1..(Len(a) + Len(b)) :
             (a \o b)[i] = IF i <= Len(a) THEN a[i] ELSE b[i - Len(a)]
    BY <1>2, <1>3, ConcatProperties
  <2>2. Len(a) + Len(b) = Len(q) - 1
    BY <1>1, <1>2, <1>3
  <2>3. ASSUME NEW i \in 1..(Len(q) - 1)
        PROVE  (a \o b)[i] = IF i < n THEN q[i] ELSE q[i + 1]
    <3>1. CASE i < n
      BY <3>1, <2>1, <2>2, <1>1, <1>2
    <3>2. CASE ~(i < n)
      <4> DEFINE j == i - (n - 1)
      <4>1. j \in 1..(Len(q) - n) /\ j + n = i + 1
        BY <3>2, <1>1
      <4>2. (a \o b)[i] = b[j]
        BY <3>2, <2>1, <2>2, <1>1, <1>2
      <4> HIDE DEF j
      <4> QED
        BY <3>2, <4>1, <4>2, <1>3
    <3> QED
      BY <3>1, <3>2
  <2> QED
    BY <2>1, <2>2, <2>3, Zenon
<1>5. part = a \o b
  BY DEF a, b, LoseFrom
<1>6. DOMAIN part = 1..(Len(q) - 1) /\ part \in Seq(S)
  BY <1>4, <1>5, LenProperties
<1> HIDE DEF part
<1> DEFINE f == [i \in DOMAIN part |-> IF i < n THEN i ELSE i + 1]
<1>7. f \in [DOMAIN part -> DOMAIN q]
  BY <1>1, <1>6
<1>8. \A i, j \in DOMAIN part : i <= j => f[i] <= f[j]
  BY <1>1, <1>6
<1>9. \A i \in DOMAIN part : part[i] = q[f[i]]
  BY <1>4, <1>5, <1>6
<1> QED
  BY <1>6, <1>7, <1>8, <1>9 DEF part

LEMMA TailElement ==
  ASSUME NEW S, NEW q \in Seq(S), q # <<>>
  PROVE  LET part == Tail(q)
             f == [i \in DOMAIN part |-> i + 1]
         IN  /\ part \in Seq(S)
             /\ f \in [DOMAIN part -> DOMAIN q]
             /\ \A i, j \in DOMAIN part : i <= j => f[i] <= f[j]
             /\ \A i \in DOMAIN part : part[i] = q[f[i]]
<1> DEFINE part == Tail(q)
<1>1. Len(q) \in Nat /\ Len(q) # 0 /\ DOMAIN q = 1..Len(q)
  BY LenProperties, EmptySeq
<1>2. part \in Seq(S) /\ Len(part) = Len(q) - 1 /\ \A i \in 1..Len(part) : part[i] = q[i + 1]
  BY HeadTailProperties
<1> HIDE DEF part
<1>3. DOMAIN part = 1..(Len(q) - 1)
  BY <1>2, LenProperties
<1> DEFINE f == [i \in DOMAIN part |-> i + 1]
<1>4. f \in [DOMAIN part -> DOMAIN q]
  BY <1>1, <1>3
<1>5. \A i, j \in DOMAIN part : i <= j => f[i] <= f[j]
  BY <1>1, <1>3
<1>6. \A i \in DOMAIN part : part[i] = q[f[i]]
  BY <1>2, <1>3
<1> QED
  BY <1>2, <1>4, <1>5, <1>6 DEF part

LEMMA LoseKeepsMessages ==
  ASSUME NEW c, NEW k, NEW ch \in Seq(Message), MessageInv(c, k, ch), NEW n \in DOMAIN ch
  PROVE  LoseFrom(ch, n) \in Seq(Message) /\ MessageInv(c, k, LoseFrom(ch, n))
<1> DEFINE part == LoseFrom(ch, n)
           f == [i \in DOMAIN part |-> IF i < n THEN i ELSE i + 1]
<1>1. /\ part \in Seq(Message) /\ f \in [DOMAIN part -> DOMAIN ch]
      /\ \A i, j \in DOMAIN part : i <= j => f[i] <= f[j]
      /\ \A i \in DOMAIN part : part[i] = ch[f[i]]
  BY LoseElement
<1> HIDE DEF part, f
<1>2. MessageInv(c, k, part)
  BY <1>1, PartOfMessages
<1> QED
  BY <1>1, <1>2 DEF part

LEMMA LoseKeepsPackets ==
  ASSUME NEW c, NEW k, NEW ts \in Seq(Packet), PacketInv(c, k, ts), NEW n \in DOMAIN ts
  PROVE  LoseFrom(ts, n) \in Seq(Packet) /\ PacketInv(c, k, LoseFrom(ts, n))
<1> DEFINE part == LoseFrom(ts, n)
           f == [i \in DOMAIN part |-> IF i < n THEN i ELSE i + 1]
<1>1. /\ part \in Seq(Packet) /\ f \in [DOMAIN part -> DOMAIN ts]
      /\ \A i, j \in DOMAIN part : i <= j => f[i] <= f[j]
      /\ \A i \in DOMAIN part : part[i] = ts[f[i]]
  BY LoseElement
<1> HIDE DEF part, f
<1>2. PacketInv(c, k, part)
  BY <1>1, PartOfPackets
<1> QED
  BY <1>1, <1>2 DEF part

LEMMA TailKeepsMessages ==
  ASSUME NEW c, NEW k, NEW ch \in Seq(Message), MessageInv(c, k, ch), ch # <<>>
  PROVE  Tail(ch) \in Seq(Message) /\ MessageInv(c, k, Tail(ch))
<1> DEFINE part == Tail(ch)
           f == [i \in DOMAIN part |-> i + 1]
<1>1. /\ part \in Seq(Message) /\ f \in [DOMAIN part -> DOMAIN ch]
      /\ \A i, j \in DOMAIN part : i <= j => f[i] <= f[j]
      /\ \A i \in DOMAIN part : part[i] = ch[f[i]]
  BY TailElement
<1> HIDE DEF part, f
<1>2. MessageInv(c, k, part)
  BY <1>1, PartOfMessages
<1> QED
  BY <1>1, <1>2 DEF part

LEMMA TailKeepsPackets ==
  ASSUME NEW c, NEW k, NEW ts \in Seq(Packet), PacketInv(c, k, ts), ts # <<>>
  PROVE  Tail(ts) \in Seq(Packet) /\ PacketInv(c, k, Tail(ts))
<1> DEFINE part == Tail(ts)
           f == [i \in DOMAIN part |-> i + 1]
<1>1. /\ part \in Seq(Packet) /\ f \in [DOMAIN part -> DOMAIN ts]
      /\ \A i, j \in DOMAIN part : i <= j => f[i] <= f[j]
      /\ \A i \in DOMAIN part : part[i] = ts[f[i]]
  BY TailElement
<1> HIDE DEF part, f
<1>2. PacketInv(c, k, part)
  BY <1>1, PartOfPackets
<1> QED
  BY <1>1, <1>2 DEF part

\* A gamestate changes only what a message says of its number.
LEMMA ForgetKeepsMessages ==
  ASSUME NEW c, NEW k, NEW ch \in Seq(Message), MessageInv(c, k, ch)
  PROVE  ForgetLater(ch) \in Seq(Message) /\ MessageInv(c, k, ForgetLater(ch))
<1> DEFINE f == [i \in DOMAIN ch |-> i]
           part == ForgetLater(ch)
<1>1. Len(ch) \in Nat /\ DOMAIN ch = 1..Len(ch) /\ \A i \in 1..Len(ch) : ch[i] \in Message
  BY LenProperties, ElementOfSeq
<1>2. DOMAIN part = DOMAIN ch /\ part = [i \in 1..Len(ch) |-> [ch[i] EXCEPT !.later = FALSE]]
  BY <1>1 DEF ForgetLater
<1>3. ASSUME NEW i \in 1..Len(ch)
      PROVE  /\ [ch[i] EXCEPT !.later = FALSE] \in Message
             /\ part[i].first = ch[i].first /\ part[i].commands = ch[i].commands
             /\ part[i].built = ch[i].built
  BY <1>1, <1>2, Zenon DEF Message
<1>4. part \in Seq(Message)
  <2>1. [i \in 1..Len(ch) |-> [ch[i] EXCEPT !.later = FALSE]] \in [1..Len(ch) -> Message]
    BY <1>3
  <2> QED
    BY <1>1, <1>2, <2>1, SeqDef
<1>5. f \in [DOMAIN part -> DOMAIN ch]
  BY <1>2
<1>6. /\ \A i, j \in DOMAIN part : i <= j => f[i] <= f[j]
      /\ \A i \in DOMAIN part : /\ part[i].first = ch[f[i]].first
                                /\ part[i].commands = ch[f[i]].commands
                                /\ part[i].built = ch[f[i]].built
  BY <1>1, <1>2, <1>3
<1> HIDE DEF part, f
<1>7. MessageInv(c, k, part)
  BY <1>4, <1>5, <1>6, PartOfMessages
<1> QED
  BY <1>4, <1>7 DEF part

LEMMA ForgetKeepsPackets ==
  ASSUME NEW c, NEW k, NEW ts \in Seq(Packet), PacketInv(c, k, ts)
  PROVE  ForgetLater(ts) \in Seq(Packet) /\ PacketInv(c, k, ForgetLater(ts))
<1> DEFINE f == [i \in DOMAIN ts |-> i]
           part == ForgetLater(ts)
<1>1. Len(ts) \in Nat /\ DOMAIN ts = 1..Len(ts) /\ \A i \in 1..Len(ts) : ts[i] \in Packet
  BY LenProperties, ElementOfSeq
<1>2. DOMAIN part = DOMAIN ts /\ part = [i \in 1..Len(ts) |-> [ts[i] EXCEPT !.later = FALSE]]
  BY <1>1 DEF ForgetLater
<1>3. ASSUME NEW i \in 1..Len(ts)
      PROVE  /\ [ts[i] EXCEPT !.later = FALSE] \in Packet
             /\ part[i].serverCommandSequence = ts[i].serverCommandSequence
  BY <1>1, <1>2, Zenon DEF Packet
<1>4. part \in Seq(Packet)
  <2>1. [i \in 1..Len(ts) |-> [ts[i] EXCEPT !.later = FALSE]] \in [1..Len(ts) -> Packet]
    BY <1>3
  <2> QED
    BY <1>1, <1>2, <2>1, SeqDef
<1>5. f \in [DOMAIN part -> DOMAIN ts]
  BY <1>2
<1>6. /\ \A i, j \in DOMAIN part : i <= j => f[i] <= f[j]
      /\ \A i \in DOMAIN part : part[i].serverCommandSequence = ts[f[i]].serverCommandSequence
  BY <1>1, <1>2, <1>3
<1> HIDE DEF part, f
<1>7. PacketInv(c, k, part)
  BY <1>4, <1>5, <1>6, PartOfPackets
<1> QED
  BY <1>4, <1>7 DEF part

\* An element added to a channel keeps the others before it.
LEMMA AppendMessage ==
  ASSUME NEW c \in ClientT, NEW k, NEW ch \in Seq(Message), MessageInv(c, k, ch),
         NEW m \in Message, MessageFits(c, k, m), m.built = reliableSequence(c)
  PROVE  Append(ch, m) \in Seq(Message) /\ MessageInv(c, k, Append(ch, m))
<1> DEFINE q == Append(ch, m)
<1>1. /\ q \in Seq(Message) /\ Len(ch) \in Nat /\ DOMAIN ch = 1..Len(ch)
      /\ Len(q) = Len(ch) + 1
      /\ \A i \in 1..Len(ch) : q[i] = ch[i]
      /\ q[Len(ch) + 1] = m
  BY AppendProperties, LenProperties
<1> HIDE DEF q
<1>2. DOMAIN q = 1..(Len(ch) + 1)
  BY <1>1, LenProperties
<1>3. \A i \in 1..Len(ch) : MessageFits(c, k, ch[i])
  BY <1>1, Zenon DEF MessageInv
<1>4. ASSUME NEW i \in DOMAIN q PROVE MessageFits(c, k, q[i]) /\ q[i].built <= m.built
  <2>1. i \in 1..Len(ch) \/ i = Len(ch) + 1
    BY <1>1, <1>2
  <2>2. CASE i \in 1..Len(ch)
    <3>1. MessageFits(c, k, ch[i]) /\ q[i] = ch[i]
      BY <1>1, <1>3, <2>2
    <3>2. q[i].built <= m.built
      BY <3>1 DEF MessageFits
    <3> QED
      BY <3>1, <3>2, Zenon
  <2>3. CASE i = Len(ch) + 1
    <3>1. m.built \in Nat
      BY DEF Message
    <3>2. q[i] = m
      BY <1>1, <2>3
    <3>3. m.built <= m.built
      BY <3>1
    <3> QED
      BY <3>2, <3>3, Zenon
  <2> QED
    BY <2>1, <2>2, <2>3, Zenon
<1>5. ASSUME NEW i \in DOMAIN q, NEW j \in DOMAIN q, i <= j
      PROVE  q[i].built <= q[j].built
  <2>1. CASE j = Len(ch) + 1
    BY <1>1, <1>4, <2>1
  <2>2. CASE j # Len(ch) + 1
    <3>1. i \in 1..Len(ch) /\ j \in 1..Len(ch)
      BY <1>1, <1>2, <1>5, <2>2
    <3>2. ch[i].built <= ch[j].built
      BY <1>1, <1>5, <3>1, Zenon DEF MessageInv
    <3> QED
      BY <1>1, <3>1, <3>2
  <2> QED
    BY <2>1, <2>2
<1> QED
  BY <1>1, <1>4, <1>5, Zenon DEF MessageInv, q

LEMMA AppendPacket ==
  ASSUME NEW c \in ClientT, NEW k \in ClientConnection, Connected(k),
         NEW ts \in Seq(Packet), PacketInv(c, k, ts),
         NEW p \in Packet, PacketFits(c, k, p),
         p.serverCommandSequence = k.serverCommandSequence
  PROVE  Append(ts, p) \in Seq(Packet) /\ PacketInv(c, k, Append(ts, p))
<1> DEFINE q == Append(ts, p)
<1>1. /\ q \in Seq(Packet) /\ Len(ts) \in Nat /\ DOMAIN ts = 1..Len(ts)
      /\ Len(q) = Len(ts) + 1
      /\ \A i \in 1..Len(ts) : q[i] = ts[i]
      /\ q[Len(ts) + 1] = p
  BY AppendProperties, LenProperties
<1> HIDE DEF q
<1>2. DOMAIN q = 1..(Len(ts) + 1)
  BY <1>1, LenProperties
<1>3. \A i \in 1..Len(ts) : PacketFits(c, k, ts[i])
  BY <1>1, Zenon DEF PacketInv
<1>4. ASSUME NEW i \in DOMAIN q
      PROVE  PacketFits(c, k, q[i]) /\ q[i].serverCommandSequence <= p.serverCommandSequence
  <2>1. i \in 1..Len(ts) \/ i = Len(ts) + 1
    BY <1>1, <1>2
  <2>2. PacketFits(c, k, q[i])
    BY <1>1, <1>3, <2>1
  <2>3. q[i].serverCommandSequence <= p.serverCommandSequence
    BY <2>2, Zenon DEF PacketFits
  <2> QED
    BY <2>2, <2>3
<1>5. ASSUME NEW i \in DOMAIN q, NEW j \in DOMAIN q, i <= j
      PROVE  q[i].serverCommandSequence <= q[j].serverCommandSequence
  <2>1. CASE j = Len(ts) + 1
    BY <1>1, <1>4, <2>1
  <2>2. CASE j # Len(ts) + 1
    <3>1. i \in 1..Len(ts) /\ j \in 1..Len(ts)
      BY <1>1, <1>2, <1>5, <2>2
    <3>2. ts[i].serverCommandSequence <= ts[j].serverCommandSequence
      BY <1>1, <1>5, <3>1, Zenon DEF PacketInv
    <3> QED
      BY <1>1, <3>1, <3>2
  <2> QED
    BY <2>1, <2>2
<1> QED
  BY <1>1, <1>4, <1>5, Zenon DEF PacketInv, q

LEMMA SendMessageKeeps ==
  ASSUME NEW c \in ClientT, NEW k, NEW ch \in Seq(Message), MessageInv(c, k, ch),
         NEW m \in Message, MessageFits(c, k, m), m.built = reliableSequence(c)
  PROVE  Send(ch, m) \in Seq(Message) /\ MessageInv(c, k, Send(ch, m))
<1>1. CASE Len(ch) < Capacity
  BY <1>1, AppendMessage DEF Send
<1>2. CASE ~(Len(ch) < Capacity)
  <2>1. ch # <<>>
    BY <1>2, EmptySeq, CapacityAssumption
  <2> QED
    BY <1>2, <2>1, TailKeepsMessages, AppendMessage DEF Send
<1> QED
  BY <1>1, <1>2

LEMMA SendPacketKeeps ==
  ASSUME NEW c \in ClientT, NEW k \in ClientConnection, Connected(k),
         NEW ts \in Seq(Packet), PacketInv(c, k, ts),
         NEW p \in Packet, PacketFits(c, k, p),
         p.serverCommandSequence = k.serverCommandSequence
  PROVE  Send(ts, p) \in Seq(Packet) /\ PacketInv(c, k, Send(ts, p))
<1>1. CASE Len(ts) < Capacity
  BY <1>1, AppendPacket DEF Send
<1>2. CASE ~(Len(ts) < Capacity)
  <2>1. ts # <<>>
    BY <1>2, EmptySeq, CapacityAssumption
  <2> QED
    BY <1>2, <2>1, TailKeepsPackets, AppendPacket DEF Send
<1> QED
  BY <1>1, <1>2

\* The commands a message carries are the unacknowledged ones.
LEMMA CommandsSent ==
  ASSUME NEW c \in ClientT, RingInv(c)
  PROVE  /\ CommandsToSend(c) \in Seq(Nat)
         /\ Len(CommandsToSend(c)) = reliableSequence(c) - c.reliableAcknowledge
         /\ FirstToSend(c) \in Nat \ {0}
         /\ \A i \in DOMAIN CommandsToSend(c) : CommandsToSend(c)[i] <= reliableSequence(c)
         /\ ~c.overflowed =>
              \A i \in DOMAIN CommandsToSend(c) : CommandsToSend(c)[i] = FirstToSend(c) + i - 1
<1> DEFINE a == c.reliableAcknowledge
           n == reliableSequence(c)
           q == CommandsToSend(c)
           ring == c.reliableCommands
<1>1. /\ a \in Nat /\ n \in Nat /\ a <= n /\ ring \in [Slots -> Nat]
      /\ \A s \in Slots : ring[s] <= n
  BY LenProperties DEF ClientT, reliableSequence, RingInv
<1>2. FirstToSend(c) = a + 1
  BY DEF FirstToSend
<1> HIDE DEF a, n
<1>3. q = [i \in 1..(n - a) |-> ring[(a + i) % M]]
  <2>1. n - (a + 1) + 1 = n - a
    BY <1>1
  <2>2. \A i \in 1..(n - a) : a + 1 + i - 1 = a + i
    BY <1>1
  <2> QED
    BY <1>2, <2>1, <2>2 DEF CommandsToSend, n
<1>4. ASSUME NEW i \in 1..(n - a) PROVE ring[(a + i) % M] \in Nat /\ ring[(a + i) % M] <= n
  <2>1. (a + i) % M \in Slots
    <3>1. a + i \in Int
      BY <1>1
    <3> QED
      BY <3>1, SlotType
  <2> QED
    BY <1>1, <2>1
<1>5. n - a \in Nat
  BY <1>1
<1> HIDE DEF q, ring
<1>6. q \in [1..(n - a) -> Nat]
  BY <1>3, <1>4
<1>7. q \in Seq(Nat) /\ Len(q) = n - a /\ DOMAIN q = 1..(n - a)
  <2>1. q \in Seq(Nat)
    BY <1>5, <1>6, SeqDef
  <2>2. DOMAIN q = 1..(n - a) /\ DOMAIN q = 1..Len(q) /\ Len(q) \in Nat
    BY <1>6, <2>1, LenProperties
  <2>3. Len(q) = n - a
    BY <1>5, <2>2
  <2> QED
    BY <2>1, <2>2, <2>3
<1>8. \A i \in DOMAIN q : q[i] <= n
  BY <1>3, <1>4, <1>7
<1>9. ASSUME ~c.overflowed, NEW i \in DOMAIN q PROVE q[i] = a + i
  <2>1. Pending(c) <= M /\ \A j \in 1..n : j > n - M => ring[j % M] = j
    BY <1>9, Zenon DEF RingInv, n, ring
  <2>2. n - a <= M
    BY <2>1 DEF Pending, n, a
  <2>3. i \in 1..(n - a)
    BY <1>7
  <2>4. a + i \in 1..n /\ a + i > n - M
    BY <2>2, <2>3, <1>1, RingAssumption
  <2>5. ring[(a + i) % M] = a + i
    BY <2>1, <2>4
  <2> QED
    BY <1>3, <2>3, <2>5
<1>10. ASSUME ~c.overflowed PROVE \A i \in DOMAIN q : q[i] = FirstToSend(c) + i - 1
  <2>1. \A i \in DOMAIN q : FirstToSend(c) + i - 1 = a + i
    BY <1>1, <1>2, <1>7
  <2> QED
    BY <1>9, <1>10, <2>1
<1>11. FirstToSend(c) \in Nat \ {0}
  BY <1>1, <1>2
<1> QED
  BY <1>7, <1>8, <1>10, <1>11, Zenon DEF q, n, a

LEMMA BuiltFits ==
  ASSUME NEW c \in ClientT, RingInv(c), NEW k \in ClientConnection, ClientInv(c, k),
         NEW m \in Message, m.first = FirstToSend(c), m.commands = CommandsToSend(c),
         m.built = reliableSequence(c)
  PROVE  MessageFits(c, k, m)
<1>1. /\ reliableSequence(c) \in Nat /\ c.reliableAcknowledge \in Nat
      /\ c.reliableAcknowledge <= reliableSequence(c) /\ k.serverCommandSequence \in Nat
  BY LenProperties DEF ClientT, ClientConnection, reliableSequence, RingInv
<1>2. LastCommand(m) = m.built
  <2>1. LastCommand(m) = (c.reliableAcknowledge + 1)
                           + (reliableSequence(c) - c.reliableAcknowledge) - 1
    BY CommandsSent DEF LastCommand, FirstToSend
  <2> QED
    BY <1>1, <2>1
<1>3. m.built <= reliableSequence(c)
  BY <1>1
<1>4. \A i \in DOMAIN m.commands : m.commands[i] <= reliableSequence(c)
  BY CommandsSent
<1>5. Connected(k) => k.serverCommandSequence <= m.built
  BY DEF ClientInv
<1>6. ASSUME ~c.overflowed PROVE \A i \in DOMAIN m.commands : m.commands[i] = m.first + i - 1
  BY <1>6, CommandsSent, Zenon
<1>7. ASSUME ~c.overflowed, Connected(k) PROVE m.first <= k.serverCommandSequence + 1
  <2>1. c.reliableAcknowledge <= k.serverCommandSequence
    BY <1>7, Zenon DEF ClientInv
  <2> QED
    BY <2>1, <1>1 DEF FirstToSend
<1> QED
  BY <1>2, <1>3, <1>4, <1>5, <1>6, <1>7, Zenon DEF MessageFits

-----------------------------------------------------------------------------
(* The server reads a packet. *)

\* An acknowledgement moves forward, and only as far as the client is.
LEMMA AcknowledgeKeeps ==
  ASSUME NEW c \in ClientT, RingInv(c), NEW k \in ClientConnection, ClientInv(c, k),
         NEW ch, MessageInv(c, k, ch), NEW ts, PacketInv(c, k, ts),
         NEW done, Ordered(c, done),
         NEW a \in Nat, a <= reliableSequence(c),
         ~c.overflowed => /\ c.reliableAcknowledge <= a
                          /\ Connected(k) => a <= k.serverCommandSequence
                          /\ \A i \in DOMAIN ts : a <= ts[i].serverCommandSequence
  PROVE  LET d == [c EXCEPT !.reliableAcknowledge = a]
         IN  /\ d \in ClientT /\ d.issued = c.issued /\ d.overflowed = c.overflowed
             /\ d.state = c.state
             /\ RingInv(d) /\ ClientInv(d, k) /\ MessageInv(d, k, ch) /\ PacketInv(d, k, ts)
             /\ Ordered(d, done)
<1> DEFINE d == [c EXCEPT !.reliableAcknowledge = a]
<1>1. /\ d \in ClientT /\ d.issued = c.issued /\ d.overflowed = c.overflowed
      /\ d.reliableCommands = c.reliableCommands /\ d.reliableAcknowledge = a
      /\ d.state = c.state
  BY Zenon DEF ClientT
<1> HIDE DEF d
<1>2. reliableSequence(d) = reliableSequence(c) /\ reliableSequence(c) \in Nat
      /\ c.reliableAcknowledge \in Nat
  BY <1>1, LenProperties DEF reliableSequence, ClientT
<1>3. RingInv(d)
  <2>1. d.reliableAcknowledge <= reliableSequence(d)
    BY <1>1, <1>2
  <2>2. \A s \in Slots : d.reliableCommands[s] <= reliableSequence(d)
    BY <1>1, <1>2 DEF RingInv
  <2>3. ASSUME ~d.overflowed
        PROVE  /\ Pending(d) <= M
               /\ \A n \in 1..reliableSequence(d) :
                    n > reliableSequence(d) - M => d.reliableCommands[n % M] = n
    <3>1. ~c.overflowed
      BY <1>1, <2>3, Zenon
    <3>2. c.reliableAcknowledge <= a /\ Pending(c) <= M
      BY <3>1, Zenon DEF RingInv
    <3>3. Pending(d) <= M
      BY <3>2, <1>1, <1>2, RingAssumption DEF Pending
    <3>4. \A n \in 1..reliableSequence(c) :
            n > reliableSequence(c) - M => c.reliableCommands[n % M] = n
      BY <3>1, Zenon DEF RingInv
    <3> QED
      BY <3>3, <3>4, <1>1, <1>2, Zenon
  <2> QED
    BY <2>1, <2>2, <2>3, Zenon DEF RingInv
<1>4. ClientInv(d, k)
  BY <1>1, <1>2, Zenon DEF ClientInv
<1>5. MessageInv(d, k, ch)
  BY <1>1, <1>2, Zenon DEF MessageInv, MessageFits
<1>6. PacketInv(d, k, ts)
  BY <1>1, <1>2, Zenon DEF PacketInv, PacketFits
<1>7. Ordered(d, done)
  BY <1>1, Zenon DEF Ordered
<1> QED
  BY <1>1, <1>3, <1>4, <1>5, <1>6, <1>7 DEF d

\* The acknowledgement of the packet read.
LEMMA HeadAcknowledges ==
  ASSUME NEW c \in ClientT, RingInv(c), NEW k \in ClientConnection,
         NEW ts \in Seq(Packet), PacketInv(c, k, ts), ts # <<>>
  PROVE  LET a == Head(ts).serverCommandSequence
         IN  /\ a \in Nat /\ a <= reliableSequence(c)
             /\ Connected(k) => a <= k.serverCommandSequence
             /\ \A i \in DOMAIN Tail(ts) : a <= Tail(ts)[i].serverCommandSequence
             /\ ~c.overflowed => c.reliableAcknowledge <= a
             /\ Stale(c, Head(ts)) => c.overflowed
<1>1. Len(ts) \in Nat /\ 1 \in DOMAIN ts /\ DOMAIN ts = 1..Len(ts)
  BY EmptySeq, LenProperties
<1>2. Head(ts) = ts[1] /\ Head(ts) \in Packet
  BY HeadTailProperties
<1> DEFINE p == Head(ts)
           a == p.serverCommandSequence
<1>3. a \in Nat
  BY <1>2 DEF Packet
<1>4. PacketFits(c, k, p)
  BY <1>1, <1>2, Zenon DEF PacketInv
<1>5. ASSUME NEW i \in DOMAIN Tail(ts) PROVE a <= Tail(ts)[i].serverCommandSequence
  <2>1. /\ Tail(ts) \in Seq(Packet) /\ Len(Tail(ts)) = Len(ts) - 1
        /\ \A j \in 1..Len(Tail(ts)) : Tail(ts)[j] = ts[j + 1]
    BY HeadTailProperties
  <2>2. i \in 1..(Len(ts) - 1)
    BY <2>1, LenProperties
  <2>3. Tail(ts)[i] = ts[i + 1] /\ i + 1 \in DOMAIN ts /\ 1 <= i + 1
    BY <1>1, <2>1, <2>2
  <2>4. ts[1].serverCommandSequence <= ts[i + 1].serverCommandSequence
    BY <1>1, <2>3, Zenon DEF PacketInv
  <2> QED
    BY <1>2, <2>3, <2>4, Zenon
<1>6. ASSUME Stale(c, p) PROVE c.overflowed
  <2> SUFFICES ASSUME ~c.overflowed PROVE FALSE
    BY Zenon
  <2>1. c.reliableAcknowledge <= a
    BY <1>4, Zenon DEF PacketFits
  <2>2. Pending(c) <= M
    BY Zenon DEF RingInv
  <2>3. a < reliableSequence(c) - M
    BY <1>6 DEF Stale
  <2>4. reliableSequence(c) \in Nat /\ c.reliableAcknowledge \in Nat
    BY LenProperties DEF reliableSequence, ClientT
  <2> QED
    BY <1>3, <2>1, <2>2, <2>3, <2>4, RingAssumption DEF Pending
<1> QED
  BY <1>3, <1>4, <1>5, <1>6, Zenon DEF PacketFits

\* The invariant without the types.
Inv(c, k, g, ch, ts, done) ==
  /\ RingInv(c)
  /\ MessageInv(c, k, ch)
  /\ PacketInv(c, k, ts)
  /\ ClientInv(c, k)
  /\ CGameInv(k, g, done)
  /\ Ordered(c, done)

LEMMA SessionInvDef ==
  /\ SessionInv <=> TypeOK /\ Inv(cl, clc, cg, toClient, toServer, executed)
  /\ SessionInv' <=> TypeOK' /\ Inv(cl', clc', cg', toClient', toServer', executed')
BY Zenon DEF SessionInv, Inv

\* The server adds commands, and the client and the channels stay.
LEMMA GrowsInv ==
  ASSUME NEW c \in ClientT, NEW d, Grows(c, d), NEW k \in ClientConnection, NEW g,
         NEW ch \in Seq(Message), NEW ts \in Seq(Packet), NEW done,
         Inv(c, k, g, ch, ts, done)
  PROVE  Inv(d, k, g, ch, ts, done)
<1>1. /\ MessageInv(c, k, ch) /\ PacketInv(c, k, ts) /\ ClientInv(c, k) /\ Ordered(c, done)
      /\ CGameInv(k, g, done)
  BY Zenon DEF Inv
<1>2. MessageInv(d, k, ch) /\ PacketInv(d, k, ts) /\ ClientInv(d, k) /\ Ordered(d, done)
  BY <1>1, GrowsKeeps
<1>3. RingInv(d)
  BY Zenon DEF Grows
<1> QED
  BY <1>1, <1>2, <1>3, Zenon DEF Inv

\* A connection that differs in what the invariant does not look at.
LEMMA ConnectionInv ==
  ASSUME NEW c, NEW k, NEW g, NEW ch, NEW ts, NEW done, Inv(c, k, g, ch, ts, done),
         NEW l, l.state = k.state, l.serverCommandSequence = k.serverCommandSequence,
         l.serverCommands = k.serverCommands
  PROVE  Inv(c, l, g, ch, ts, done)
BY Zenon DEF Inv, MessageInv, MessageFits, PacketInv, PacketFits, ClientInv, CGameInv,
             SnapshotReady, Connected

LEMMA GameStateKeeps ==
  ASSUME TypeOK, toServer # <<>>, NEW c \in ClientT,
         Inv(c, clc, cg, toClient, Tail(toServer), executed),
         SV_SendClientGameState(c), UNCHANGED <<sv, cg, executed>>
  PROVE  /\ cl' \in ClientT /\ clc' \in ClientConnection
         /\ toClient' \in Seq(Message) /\ toServer' \in Seq(Packet)
         /\ Inv(cl', clc', cg', toClient', toServer', executed')
<1> DEFINE m == [gamestate |-> TRUE, first |-> FirstToSend(c),
                 commands |-> CommandsToSend(c),
                 built |-> reliableSequence(c), serverId |-> sv.systemInfo,
                 level |-> sv.restartedServerId, active |-> FALSE, later |-> FALSE]
           part == ForgetLater(toClient)
           rest == ForgetLater(Tail(toServer))
           d == [c EXCEPT !.state = CS_PRIMED]
           k == [clc EXCEPT !.later = FALSE]
<1>1. /\ sv \in SvState /\ clc \in ClientConnection /\ toClient \in Seq(Message)
      /\ toServer \in Seq(Packet)
  BY DEF TypeOK
<1>2. RingInv(c) /\ MessageInv(c, clc, toClient) /\ PacketInv(c, clc, Tail(toServer))
      /\ ClientInv(c, clc) /\ CGameInv(clc, cg, executed) /\ Ordered(c, executed)
  BY Zenon DEF Inv
<1>3. Tail(toServer) \in Seq(Packet)
  BY <1>1, HeadTailProperties
<1>4. part \in Seq(Message) /\ MessageInv(c, clc, part)
      /\ rest \in Seq(Packet) /\ PacketInv(c, clc, rest)
  BY <1>1, <1>2, <1>3, ForgetKeepsMessages, ForgetKeepsPackets
<1>5. m \in Message
  <2>1. /\ FirstToSend(c) \in Nat \ {0} /\ CommandsToSend(c) \in Seq(Nat)
        /\ reliableSequence(c) \in Nat /\ sv.systemInfo \in Nat /\ sv.restartedServerId \in Nat
    BY <1>1, <1>2, CommandsSent, LenProperties DEF SvState, ClientT, reliableSequence
  <2> QED
    BY <2>1, Zenon DEF Message
<1>6. m.first = FirstToSend(c) /\ m.commands = CommandsToSend(c) /\ m.built = reliableSequence(c)
  OBVIOUS
<1>7. toClient' = Send(part, m) /\ toServer' = rest /\ cl' = d /\ clc' = k
  BY DEF SV_SendClientGameState
<1> HIDE DEF m, part, rest
<1>8. Send(part, m) \in Seq(Message) /\ MessageInv(c, clc, Send(part, m))
  <2>1. MessageFits(c, clc, m)
    BY <1>1, <1>2, <1>5, <1>6, BuiltFits
  <2> QED
    BY <1>4, <1>5, <1>6, <2>1, SendMessageKeeps
<1>9. Inv(c, clc, cg, Send(part, m), rest, executed)
  BY <1>2, <1>4, <1>8, Zenon DEF Inv
<1>10. Grows(c, d)
  <2>1. /\ CS_PRIMED \in CS_FREE..CS_ACTIVE /\ sv.restartedServerId \in Nat
        /\ c.dropCalls \in Nat /\ FALSE \in BOOLEAN
    BY <1>1 DEF CS_PRIMED, CS_FREE, CS_ACTIVE, SvState, ClientT
  <2> QED
    BY <1>2, <2>1, ChangesGrow
<1>11. k \in ClientConnection /\ k.state = clc.state
       /\ k.serverCommandSequence = clc.serverCommandSequence
       /\ k.serverCommands = clc.serverCommands
  BY <1>1, Zenon DEF ClientConnection
<1> HIDE DEF d, k
<1>12. Inv(d, clc, cg, Send(part, m), rest, executed)
  BY <1>1, <1>4, <1>8, <1>9, <1>10, GrowsInv
<1>13. Inv(d, k, cg, Send(part, m), rest, executed)
  BY <1>11, <1>12, ConnectionInv
<1> QED
  BY <1>4, <1>7, <1>8, <1>10, <1>11, <1>13 DEF Grows

LEMMA PacketEventStep ==
  ASSUME SessionInv, SV_PacketEvent
  PROVE  SessionInv'
<1> DEFINE p == Head(toServer)
           a == p.serverCommandSequence
           rest == Tail(toServer)
           acked == [cl EXCEPT !.reliableAcknowledge = a]
           all == [cl EXCEPT !.reliableAcknowledge = reliableSequence(cl)]
<1>1. TypeOK /\ Inv(cl, clc, cg, toClient, toServer, executed)
  BY SessionInvDef
<1>2. /\ sv \in SvState /\ cl \in ClientT /\ clc \in ClientConnection /\ cg \in CGame
      /\ toClient \in Seq(Message) /\ toServer \in Seq(Packet) /\ executed \in Seq(Nat)
  BY <1>1 DEF TypeOK
<1>3. /\ RingInv(cl) /\ MessageInv(cl, clc, toClient) /\ PacketInv(cl, clc, toServer)
      /\ ClientInv(cl, clc) /\ CGameInv(clc, cg, executed) /\ Ordered(cl, executed)
  BY <1>1, Zenon DEF Inv
<1>4. toServer # <<>> /\ UNCHANGED <<sv, cg, executed>>
  BY DEF SV_PacketEvent
<1>5. rest \in Seq(Packet) /\ PacketInv(cl, clc, rest)
  BY <1>2, <1>3, <1>4, TailKeepsPackets
<1>6. /\ a \in Nat /\ a <= reliableSequence(cl)
      /\ Connected(clc) => a <= clc.serverCommandSequence
      /\ \A i \in DOMAIN rest : a <= rest[i].serverCommandSequence
      /\ ~cl.overflowed => cl.reliableAcknowledge <= a
      /\ Stale(cl, p) => cl.overflowed
  BY <1>2, <1>3, <1>4, HeadAcknowledges
<1>7. acked \in ClientT /\ Inv(acked, clc, cg, toClient, rest, executed)
  <2>1. ~cl.overflowed => /\ cl.reliableAcknowledge <= a
                          /\ Connected(clc) => a <= clc.serverCommandSequence
                          /\ \A i \in DOMAIN rest : a <= rest[i].serverCommandSequence
    BY <1>6, Zenon
  <2> HIDE DEF rest, a
  <2>2. /\ acked \in ClientT /\ RingInv(acked) /\ ClientInv(acked, clc)
        /\ MessageInv(acked, clc, toClient) /\ PacketInv(acked, clc, rest)
        /\ Ordered(acked, executed)
    BY <1>2, <1>3, <1>5, <1>6, <2>1, AcknowledgeKeeps
  <2> QED
    BY <1>3, <2>2, Zenon DEF Inv
<1>8. ASSUME Stale(cl, p)
      PROVE  all \in ClientT /\ Inv(all, clc, cg, toClient, rest, executed)
  <2>1. cl.overflowed
    BY <1>6, <1>8, Zenon
  <2> DEFINE n == reliableSequence(cl)
  <2>2. n \in Nat /\ n <= reliableSequence(cl)
    BY <1>2, LenProperties DEF reliableSequence, ClientT
  <2>3. ~cl.overflowed => /\ cl.reliableAcknowledge <= n
                          /\ Connected(clc) => n <= clc.serverCommandSequence
                          /\ \A i \in DOMAIN rest : n <= rest[i].serverCommandSequence
    BY <2>1, Zenon
  <2> HIDE DEF rest, n
  <2>4. LET d == [cl EXCEPT !.reliableAcknowledge = n]
        IN  /\ d \in ClientT /\ RingInv(d) /\ ClientInv(d, clc)
            /\ MessageInv(d, clc, toClient) /\ PacketInv(d, clc, rest)
            /\ Ordered(d, executed)
    BY <1>2, <1>3, <1>5, <2>2, <2>3, AcknowledgeKeeps
  <2> QED
    BY <1>3, <2>4, Zenon DEF Inv, n
<1> HIDE DEF acked, all, rest, a
<1>9. ASSUME cl' \in ClientT, Inv(cl', clc, cg, toClient, rest, executed),
             toServer' = rest, UNCHANGED <<toClient, clc>>
      PROVE  SessionInv'
  <2>1. TypeOK'
    BY <1>2, <1>4, <1>5, <1>9 DEF TypeOK
  <2>2. Inv(cl', clc', cg', toClient', toServer', executed')
    BY <1>4, <1>9
  <2> QED
    BY <2>1, <2>2, SessionInvDef
<1>10. CASE SV_SendClientGameState(acked)
  <2>1. /\ cl' \in ClientT /\ clc' \in ClientConnection
        /\ toClient' \in Seq(Message) /\ toServer' \in Seq(Packet)
        /\ Inv(cl', clc', cg', toClient', toServer', executed')
    BY <1>1, <1>4, <1>7, <1>10, GameStateKeeps DEF rest
  <2>2. TypeOK'
    BY <1>2, <1>4, <2>1 DEF TypeOK
  <2> QED
    BY <2>1, <2>2, SessionInvDef
<1>11. CASE toServer' = rest /\ UNCHANGED <<toClient, clc>> /\ cl' = acked
  BY <1>7, <1>9, <1>11
<1>12. CASE Stale(cl, p) /\ toServer' = rest /\ UNCHANGED <<toClient, clc>> /\ cl' = all
  BY <1>8, <1>9, <1>12
<1>13. CASE toServer' = rest /\ UNCHANGED <<toClient, clc>> /\ cl' = SV_ClientEnterWorld(acked)
  <2>1. RingInv(acked)
    BY <1>7, Zenon DEF Inv
  <2>2. Grows(acked, SV_ClientEnterWorld(acked))
    BY <1>2, <1>7, <2>1, EnterGrows
  <2>3. Inv(cl', clc, cg, toClient, rest, executed)
    BY <1>2, <1>5, <1>7, <1>13, <2>2, GrowsInv
  <2>4. cl' \in ClientT
    BY <1>13, <2>2 DEF Grows
  <2> QED
    BY <1>9, <1>13, <2>3, <2>4
<1>14. CASE toServer' = rest /\ UNCHANGED <<cl, clc, toClient>>
  <2>1. Inv(cl', clc, cg, toClient, rest, executed)
    BY <1>3, <1>5, <1>14, Zenon DEF Inv
  <2> QED
    BY <1>2, <1>9, <1>14, <2>1
<1> QED
  BY <1>10, <1>11, <1>12, <1>13, <1>14
     DEF SV_PacketEvent, SV_ExecuteClientMessage, WrongServerId, acked, all, rest, a

-----------------------------------------------------------------------------
(* The other steps of the server, and losses. *)

LEMMA SvStateStep ==
  ASSUME sv \in SvState, Next
  PROVE  sv' \in SvState
<1>1. sv' = sv \/ SV_SpawnServer \/ SV_MapRestart_f \/ UpdateSystemInfo
  BY DEF Next, Server, Client, Lose, SV_SendServerCommand, SV_SendClientSnapshot,
         DropClient, SV_CheckTimeouts, SV_PacketEvent, CL_WritePacket,
         CL_ParseServerMessage, CG_SetInitialSnapshot, CG_SetNextSnap,
         CG_TransitionSnapshot, CL_Disconnect
<1>2. CASE SV_SpawnServer
  BY <1>2 DEF SV_SpawnServer, SvState
<1>3. CASE SV_MapRestart_f
  <2>1. sv' = [sv EXCEPT !.serverId = @ + 1]
    BY <1>3 DEF SV_MapRestart_f
  <2> QED
    BY <2>1 DEF SvState
<1>4. CASE UpdateSystemInfo
  <2>1. sv' = [sv EXCEPT !.systemInfo = sv.serverId]
    BY <1>4 DEF UpdateSystemInfo
  <2> QED
    BY <2>1 DEF SvState
<1> QED
  BY <1>1, <1>2, <1>3, <1>4

LEMMA SnapshotStep ==
  ASSUME SessionInv, SV_SendClientSnapshot
  PROVE  toClient' \in Seq(Message) /\ MessageInv(cl, clc, toClient')
<1> DEFINE m == [gamestate |-> FALSE, first |-> FirstToSend(cl),
                 commands |-> CommandsToSend(cl), built |-> reliableSequence(cl),
                 serverId |-> 0, level |-> 0, active |-> cl.state = CS_ACTIVE,
                 later |-> TRUE]
<1>1. /\ cl \in ClientT /\ clc \in ClientConnection /\ toClient \in Seq(Message)
      /\ RingInv(cl) /\ MessageInv(cl, clc, toClient) /\ ClientInv(cl, clc)
  BY Zenon DEF SessionInv, TypeOK
<1>2. m \in Message
  <2>1. /\ FirstToSend(cl) \in Nat \ {0} /\ CommandsToSend(cl) \in Seq(Nat)
        /\ reliableSequence(cl) \in Nat /\ 0 \in Nat
    BY <1>1, CommandsSent, LenProperties DEF ClientT, reliableSequence
  <2>2. (cl.state = CS_ACTIVE) \in BOOLEAN
    BY Zenon
  <2> QED
    BY <2>1, <2>2, Zenon DEF Message
<1>3. m.first = FirstToSend(cl) /\ m.commands = CommandsToSend(cl) /\ m.built = reliableSequence(cl)
  OBVIOUS
<1>4. toClient' = Send(toClient, m)
  BY DEF SV_SendClientSnapshot
<1> HIDE DEF m
<1>5. MessageFits(cl, clc, m)
  BY <1>1, <1>2, <1>3, BuiltFits
<1> QED
  BY <1>1, <1>2, <1>3, <1>4, <1>5, SendMessageKeeps

LEMMA ServerStep ==
  ASSUME SessionInv, Server
  PROVE  SessionInv'
<1>1. CASE SV_PacketEvent
  BY <1>1, PacketEventStep
<1>2. CASE \/ SV_SendServerCommand \/ SV_SpawnServer \/ SV_MapRestart_f
           \/ UpdateSystemInfo \/ SV_SendClientSnapshot \/ DropClient \/ SV_CheckTimeouts
  <2>1. TypeOK /\ Inv(cl, clc, cg, toClient, toServer, executed)
    BY SessionInvDef
  <2>2. /\ sv \in SvState /\ cl \in ClientT /\ clc \in ClientConnection /\ cg \in CGame
        /\ toClient \in Seq(Message) /\ toServer \in Seq(Packet) /\ executed \in Seq(Nat)
    BY <2>1 DEF TypeOK
  <2>3. Grows(cl, cl')
    <3>1. RingInv(cl)
      BY <2>1, Zenon DEF Inv
    <3> QED
      BY <1>2, <2>1, <3>1, ServerGrows
  <2>4. UNCHANGED <<clc, cg, toServer, executed>>
    BY <1>2 DEF SV_SendServerCommand, SV_SpawnServer, SV_MapRestart_f, UpdateSystemInfo,
                SV_SendClientSnapshot, DropClient, SV_CheckTimeouts
  <2>5. sv' \in SvState
    BY <1>2, <2>2, SvStateStep DEF Next, Server
  <2>6. toClient' \in Seq(Message) /\ MessageInv(cl, clc, toClient')
    <3>1. CASE SV_SendClientSnapshot
      BY <3>1, SnapshotStep
    <3>2. CASE toClient' = toClient
      <4>1. MessageInv(cl, clc, toClient)
        BY <2>1, Zenon DEF Inv
      <4> QED
        BY <2>2, <3>2, <4>1
    <3> QED
      BY <1>2, <3>1, <3>2
         DEF SV_SendServerCommand, SV_SpawnServer, SV_MapRestart_f, UpdateSystemInfo,
             DropClient, SV_CheckTimeouts
  <2>7. Inv(cl, clc, cg, toClient', toServer, executed)
    BY <2>1, <2>6, Zenon DEF Inv
  <2>8. Inv(cl', clc, cg, toClient', toServer, executed)
    BY <2>2, <2>3, <2>6, <2>7, GrowsInv
  <2>9. TypeOK'
    BY <2>2, <2>3, <2>4, <2>5, <2>6 DEF TypeOK, Grows
  <2> QED
    BY <2>4, <2>8, <2>9, SessionInvDef
<1> QED
  BY <1>1, <1>2 DEF Server

LEMMA LoseStep ==
  ASSUME SessionInv, Lose
  PROVE  SessionInv'
<1>1. TypeOK /\ Inv(cl, clc, cg, toClient, toServer, executed)
  BY SessionInvDef
<1>2. /\ toClient \in Seq(Message) /\ toServer \in Seq(Packet)
      /\ MessageInv(cl, clc, toClient) /\ PacketInv(cl, clc, toServer)
  BY <1>1, Zenon DEF Inv, TypeOK
<1>3. ASSUME NEW i \in DOMAIN toClient, toClient' = LoseFrom(toClient, i),
             UNCHANGED <<sv, cl, clc, cg, toServer, executed>>
      PROVE  SessionInv'
  <2>1. toClient' \in Seq(Message) /\ MessageInv(cl, clc, toClient')
    BY <1>2, <1>3, LoseKeepsMessages
  <2>2. Inv(cl, clc, cg, toClient', toServer, executed)
    BY <1>1, <2>1, Zenon DEF Inv
  <2>3. TypeOK'
    BY <1>1, <1>3, <2>1 DEF TypeOK
  <2> QED
    BY <1>3, <2>2, <2>3, SessionInvDef
<1>4. ASSUME NEW i \in DOMAIN toServer, toServer' = LoseFrom(toServer, i),
             UNCHANGED <<sv, cl, clc, cg, toClient, executed>>
      PROVE  SessionInv'
  <2>1. toServer' \in Seq(Packet) /\ PacketInv(cl, clc, toServer')
    BY <1>2, <1>4, LoseKeepsPackets
  <2>2. Inv(cl, clc, cg, toClient, toServer', executed)
    BY <1>1, <2>1, Zenon DEF Inv
  <2>3. TypeOK'
    BY <1>1, <1>4, <2>1 DEF TypeOK
  <2> QED
    BY <1>4, <2>2, <2>3, SessionInvDef
<1> QED
  BY <1>3, <1>4 DEF Lose

-----------------------------------------------------------------------------
(* The client. *)

LEMMA WritePacketStep ==
  ASSUME SessionInv, NEW move \in BOOLEAN, CL_WritePacket(move)
  PROVE  SessionInv'
<1> DEFINE p == [serverId |-> clc.serverId, level |-> clc.level, later |-> clc.later,
                 serverCommandSequence |-> clc.serverCommandSequence, move |-> move,
                 key |-> clc.serverCommands[clc.serverCommandSequence % M]]
<1>1. TypeOK /\ Inv(cl, clc, cg, toClient, toServer, executed)
  BY SessionInvDef
<1>2. /\ cl \in ClientT /\ clc \in ClientConnection /\ toServer \in Seq(Packet)
  BY <1>1 DEF TypeOK
<1>3. PacketInv(cl, clc, toServer) /\ ClientInv(cl, clc)
  BY <1>1, Zenon DEF Inv
<1>4. /\ clc.serverId \in Nat /\ clc.level \in Nat /\ clc.serverCommandSequence \in Nat
      /\ clc.serverCommands \in [Slots -> Nat]
  BY <1>2 DEF ClientConnection
<1>5. clc.later \in BOOLEAN
  BY <1>2, Zenon DEF ClientConnection
<1>6. clc.serverCommands[clc.serverCommandSequence % M] \in Nat
  <2>1. clc.serverCommandSequence % M \in Slots
    BY <1>4, SlotType
  <2> QED
    BY <1>4, <2>1
<1>7. p \in Packet /\ p.serverCommandSequence = clc.serverCommandSequence
  BY <1>4, <1>5, <1>6, Zenon DEF Packet
<1>8. Connected(clc) /\ toServer' = Send(toServer, p)
      /\ UNCHANGED <<sv, cl, clc, cg, toClient, executed>>
  BY DEF CL_WritePacket, Connected
<1> HIDE DEF p
<1>9. PacketFits(cl, clc, p)
  <2>1. p.serverCommandSequence <= reliableSequence(cl)
    BY <1>3, <1>7 DEF ClientInv
  <2>2. p.serverCommandSequence <= clc.serverCommandSequence
    BY <1>4, <1>7
  <2>3. ~cl.overflowed => cl.reliableAcknowledge <= p.serverCommandSequence
    BY <1>3, <1>7, <1>8, Zenon DEF ClientInv
  <2> QED
    BY <2>1, <2>2, <2>3, Zenon DEF PacketFits
<1>10. toServer' \in Seq(Packet) /\ PacketInv(cl, clc, toServer')
  BY <1>2, <1>3, <1>7, <1>8, <1>9, SendPacketKeeps
<1>11. Inv(cl, clc, cg, toClient, toServer', executed)
  BY <1>1, <1>10, Zenon DEF Inv
<1>12. TypeOK'
  BY <1>1, <1>8, <1>10 DEF TypeOK
<1> QED
  BY <1>8, <1>11, <1>12, SessionInvDef

\* A client that disconnects has nothing left to keep right but the ring.
LEMMA DisconnectInv ==
  ASSUME cl \in ClientT, NEW done, NEW dones,
         Inv(cl, clc, cg, toClient, toServer, done), Ordered(cl, dones)
  PROVE  /\ NoConnection("CA_DISCONNECTED") \in ClientConnection
         /\ NoCGame \in CGame
         /\ Inv(cl, NoConnection("CA_DISCONNECTED"), NoCGame, toClient, toServer, dones)
<1> DEFINE k == NoConnection("CA_DISCONNECTED")
<1>1. /\ k.state = "CA_DISCONNECTED" /\ k.serverCommandSequence = 0
      /\ k.serverCommands = [s \in Slots |-> 0]
  BY DEF NoConnection
<1>2. k \in ClientConnection
  <2>1. [s \in Slots |-> 0] \in [Slots -> Nat]
    OBVIOUS
  <2>2. ("CA_DISCONNECTED" = "CA_CONNECTED") \in BOOLEAN
    BY Zenon
  <2>3. "CA_DISCONNECTED" \in {"CA_CONNECTED", "CA_PRIMED", "CA_DISCONNECTED"} /\ 0 \in Nat
    OBVIOUS
  <2> QED
    BY <2>1, <2>2, <2>3, Zenon DEF NoConnection, ClientConnection
<1>3. NoCGame \in CGame
  <2>1. <<>> \in Seq(Snapshot) /\ NoSnapshot \in Snapshot \cup {NoSnapshot}
    BY EmptySeq
  <2> QED
    BY <2>1, Zenon DEF NoCGame, CGame
<1> HIDE DEF k
<1>4. ~Connected(k)
  BY <1>1 DEF Connected
<1>5. reliableSequence(cl) \in Nat
  BY LenProperties DEF ClientT, reliableSequence
<1>6. ClientInv(cl, k)
  <2>1. k.serverCommandSequence <= reliableSequence(cl)
    BY <1>1, <1>5
  <2>2. \A s \in Slots : k.serverCommands[s] <= reliableSequence(cl)
    BY <1>1, <1>5
  <2> QED
    BY <1>4, <2>1, <2>2, Zenon DEF ClientInv
<1>7. CGameInv(k, NoCGame, dones)
  <2>1. DOMAIN NoCGame.snapshots = {} /\ NoCGame.nextSnap = NoSnapshot
        /\ NoCGame.snap = NoSnapshot
    BY DEF NoCGame
  <2> QED
    BY <1>4, <2>1, Zenon DEF CGameInv
<1>8. MessageInv(cl, k, toClient) /\ PacketInv(cl, k, toServer)
  BY <1>4, Zenon DEF Inv, MessageInv, MessageFits, PacketInv, PacketFits
<1> QED
  BY <1>2, <1>3, <1>6, <1>7, <1>8, Zenon DEF Inv, k

\* A set of numbers has a least element, and one with a bound a greatest.
LEMMA LeastExists ==
  ASSUME NEW S, S \subseteq Nat, S # {}
  PROVE  \E n \in S : \A k \in S : n <= k
<1>1. PICK n \in S : \A k \in S : ~(<<k, n>> \in OpToRel(<, Nat))
  BY NatLessThanWellFounded, WFMin
<1>2. ASSUME NEW k \in S PROVE n <= k
  <2>1. k \in Nat /\ n \in Nat
    OBVIOUS
  <2>2. <<k, n>> \in OpToRel(<, Nat) <=> k < n
    BY <2>1, Zenon DEF OpToRel
  <2>3. ~(k < n)
    BY <1>1, <2>2, Zenon
  <2> QED
    BY <2>1, <2>3
<1> QED
  BY <1>2

LEMMA GreatestExists ==
  ASSUME NEW S, S \subseteq Nat, S # {}, NEW b \in Nat, \A k \in S : k <= b
  PROVE  \E n \in S : \A k \in S : k <= n
<1> DEFINE T == {u \in Nat : \A k \in S : k <= u}
<1>1. T \subseteq Nat /\ T # {}
  <2>1. b \in T
    OBVIOUS
  <2> QED
    BY <2>1
<1> HIDE DEF T
<1>2. PICK t \in T : \A u \in T : t <= u
  BY <1>1, LeastExists
<1>3. t \in Nat /\ \A k \in S : k <= t
  BY DEF T
<1>4. t \in S
  <2> SUFFICES ASSUME t \notin S PROVE FALSE
    OBVIOUS
  <2>1. PICK k \in S : TRUE
    OBVIOUS
  <2>2. k \in Nat /\ k < t
    BY <1>3
  <2>3. t - 1 \in Nat /\ \A j \in S : j <= t - 1
    BY <1>3, <2>2
  <2>4. t - 1 \in T
    BY <2>3 DEF T
  <2>5. t <= t - 1
    BY <1>2, <2>4
  <2> QED
    BY <2>5, <1>3
<1> QED
  BY <1>3, <1>4

\* The ring of the client after message m: what it says of every command from
\* the one after the last received on, and nothing else.
LEMMA ParseCommands ==
  ASSUME TypeOK, ClientInv(cl, clc), Connected(clc),
         NEW m \in Message, MessageFits(cl, clc, m)
  PROVE  LET ring == CL_ParseCommandStrings(m)
         IN  /\ ring \in [Slots -> Nat]
             /\ \A s \in Slots : ring[s] <= reliableSequence(cl)
             /\ ~cl.overflowed =>
                  \A n \in 1..m.built : n > m.built - M => ring[n % M] = n
<1> DEFINE ring == CL_ParseCommandStrings(m)
           seq == clc.serverCommandSequence
           last == LastCommand(m)
           new(s) == {n \in m.first..last : n > seq /\ n % M = s}
           old == clc.serverCommands
<1>1. cl \in ClientT /\ clc \in ClientConnection
  BY DEF TypeOK
<1>2. /\ seq \in Nat /\ old \in [Slots -> Nat]
      /\ m.first \in Nat \ {0} /\ m.built \in Nat /\ m.commands \in Seq(Nat)
  BY <1>1 DEF ClientConnection, Message
<1>3. /\ DOMAIN m.commands = 1..Len(m.commands) /\ Len(m.commands) \in Nat
  BY <1>2, LenProperties
<1>4. last = m.built /\ last - m.first + 1 = Len(m.commands) /\ seq <= m.built
  <2>1. last = m.first + Len(m.commands) - 1 /\ last = m.built
    BY DEF LastCommand, MessageFits
  <2>2. seq <= m.built
    BY Zenon DEF MessageFits
  <2> HIDE DEF last
  <2> QED
    BY <2>1, <2>2, <1>2, <1>3
<1>5. \A s \in Slots : old[s] <= reliableSequence(cl)
  BY Zenon DEF ClientInv
<1>6. ring = [s \in Slots |->
                IF new(s) = {} THEN old[s]
                ELSE m.commands[(CHOOSE n \in new(s) : \A k \in new(s) : k <= n) - m.first + 1]]
  BY Zenon DEF CL_ParseCommandStrings
<1> HIDE DEF ring, last, old, seq
\* What is written comes from the message.
<1>7. ASSUME NEW s \in Slots, NEW n \in new(s)
      PROVE  /\ n - m.first + 1 \in DOMAIN m.commands /\ n \in 1..m.built /\ n > seq
             /\ n % M = s
  BY <1>2, <1>3, <1>4
<1>8. ASSUME NEW s \in Slots
      PROVE  ring[s] \in Nat /\ ring[s] <= reliableSequence(cl)
  <2>1. CASE new(s) = {}
    <3>1. ring[s] = old[s]
      BY <1>6, <2>1, Zenon
    <3>2. old[s] \in Nat
      BY <1>2
    <3> QED
      BY <3>1, <3>2, <1>5
  <2>2. CASE new(s) # {}
    <3> DEFINE n == CHOOSE x \in new(s) : \A k \in new(s) : k <= x
    <3>1. new(s) \subseteq Nat /\ \A k \in new(s) : k <= m.built
      BY <1>2, <1>4
    <3>2. \E x \in new(s) : \A k \in new(s) : k <= x
      <4> HIDE DEF new
      <4> QED
        BY <3>1, <2>2, <1>2, GreatestExists
    <3>3. n \in new(s)
      BY <3>2, Zenon
    <3>4. ring[s] = m.commands[n - m.first + 1]
      BY <1>6, <2>2, Zenon
    <3> HIDE DEF n, new
    <3>5. n - m.first + 1 \in DOMAIN m.commands
      BY <1>7, <3>3
    <3>6. m.commands[n - m.first + 1] <= reliableSequence(cl)
      BY <3>5, Zenon DEF MessageFits
    <3>7. m.commands[n - m.first + 1] \in Nat
      BY <1>2, <1>3, <3>5, ElementOfSeq
    <3> QED
      BY <3>4, <3>6, <3>7, Zenon
  <2> QED
    BY <2>1, <2>2
<1>9. ring \in [Slots -> Nat]
  <2>1. DOMAIN ring = Slots
    BY <1>6, Zenon
  <2> HIDE DEF new
  <2> QED
    BY <1>6, <1>8, <2>1
<1>10. ASSUME ~cl.overflowed, NEW n \in 1..m.built, n > m.built - M
       PROVE  ring[n % M] = n
  <2> DEFINE s == n % M
  <2>0. n \in Nat /\ n \in Int /\ M \in Nat /\ m.built \in Nat
    BY <1>2, RingAssumption
  <2>1. s \in Slots
    BY <2>0, SlotType
  <2> HIDE DEF new
  \* No other command up to the last one shares the slot.
  <2>2. ASSUME NEW k \in Int, n < k, k <= m.built PROVE k % M # s
    <3>1. k < n + M
      BY <2>0, <2>2, <1>10
    <3> QED
      BY <2>0, <2>2, <3>1, SlotsDiffer DEF s
  <2>3. CASE n > seq
    <3>1. /\ m.first <= seq + 1
          /\ \A i \in DOMAIN m.commands : m.commands[i] = m.first + i - 1
      BY <1>10, Zenon DEF MessageFits, seq
    <3>2. n \in m.first..last
      BY <3>1, <2>3, <1>2, <1>4
    <3>3. n \in new(s)
      BY <3>2, <2>3 DEF new, s
    <3>4. \A k \in new(s) : k <= n
      <4> SUFFICES ASSUME NEW k \in new(s), n < k PROVE FALSE
        BY <1>7, <2>0, <2>1
      <4>1. k \in Int /\ k <= m.built /\ k % M = s
        BY <1>7, <2>1
      <4> QED
        BY <4>1, <2>2
    <3> DEFINE x == CHOOSE y \in new(s) : \A k \in new(s) : k <= y
    <3>5. x \in new(s) /\ \A k \in new(s) : k <= x
      BY <3>3, <3>4, Zenon
    <3>6. x = n
      <4>1. x \in Int /\ x <= n /\ n <= x
        BY <3>3, <3>4, <3>5, <1>7, <2>1
      <4> HIDE DEF x
      <4> QED
        BY <4>1, <2>0
    <3>7. ring[s] = m.commands[x - m.first + 1]
      BY <1>6, <2>1, <3>3, Zenon
    <3> HIDE DEF x, s
    <3>8. ring[s] = m.commands[n - m.first + 1] /\ n - m.first + 1 \in DOMAIN m.commands
      BY <3>6, <3>7, <1>7, <2>1, <3>3
    <3>9. m.commands[n - m.first + 1] = m.first + (n - m.first + 1) - 1
      BY <3>1, <3>8
    <3>10. ring[s] = n
      BY <3>8, <3>9, <2>0, <1>2
    <3> QED
      BY <3>10 DEF s
  <2>4. CASE ~(n > seq)
    <3>1. new(s) = {}
      <4> SUFFICES ASSUME NEW k \in new(s) PROVE FALSE
        OBVIOUS
      <4>1. k \in Int /\ k <= m.built /\ k > seq /\ k % M = s
        BY <1>7, <2>1
      <4>2. n < k
        BY <4>1, <2>4, <2>0, <1>2
      <4> QED
        BY <4>1, <4>2, <2>2
    <3>2. ring[s] = old[s]
      BY <1>6, <2>1, <3>1, Zenon
    <3>3. \A j \in 1..seq : j > seq - M => old[j % M] = j
      BY <1>10, Zenon DEF ClientInv, seq, old
    <3>4. n \in 1..seq /\ n > seq - M
      BY <2>4, <2>0, <1>2, <1>4, <1>10
    <3> QED
      BY <3>2, <3>3, <3>4 DEF s
  <2> QED
    BY <2>3, <2>4
<1> QED
  BY <1>8, <1>9, <1>10, Zenon DEF ring

\* The invariant for a connection that has taken in the next message.
LEMMA ReceivedInv ==
  ASSUME SessionInv, toClient # <<>>, Connected(clc),
         NEW k \in ClientConnection, Connected(k),
         k.serverCommandSequence = Head(toClient).built,
         k.serverCommands = CL_ParseCommandStrings(Head(toClient))
  PROVE  /\ MessageInv(cl, k, Tail(toClient))
         /\ PacketInv(cl, k, toServer)
         /\ ClientInv(cl, k)
         /\ clc.serverCommandSequence <= k.serverCommandSequence
         /\ Head(toClient) \in Message
<1> DEFINE m == Head(toClient)
           rest == Tail(toClient)
           old == clc.serverCommandSequence
           seq == k.serverCommandSequence
<1>1. /\ cl \in ClientT /\ clc \in ClientConnection /\ toClient \in Seq(Message)
      /\ toServer \in Seq(Packet) /\ TypeOK
      /\ MessageInv(cl, clc, toClient) /\ PacketInv(cl, clc, toServer)
      /\ ClientInv(cl, clc)
  BY Zenon DEF SessionInv, TypeOK
<1>2. Len(toClient) \in Nat /\ 1 \in DOMAIN toClient /\ DOMAIN toClient = 1..Len(toClient)
  BY <1>1, EmptySeq, LenProperties
<1>3. m = toClient[1] /\ m \in Message
  BY <1>1, HeadTailProperties
<1>4. MessageFits(cl, clc, m)
  BY <1>1, <1>2, <1>3, Zenon DEF MessageInv
<1>5. old \in Nat /\ seq \in Nat /\ old <= seq /\ seq <= reliableSequence(cl)
  <2>1. old <= m.built /\ m.built <= reliableSequence(cl)
    BY <1>4, Zenon DEF MessageFits
  <2>2. old \in Nat /\ seq \in Nat
    BY <1>1 DEF ClientConnection
  <2> QED
    BY <2>1, <2>2
<1>6. \A i \in DOMAIN rest : i + 1 \in DOMAIN toClient /\ rest[i] = toClient[i + 1]
  <2>1. /\ rest \in Seq(Message) /\ Len(rest) = Len(toClient) - 1
        /\ \A i \in 1..Len(rest) : rest[i] = toClient[i + 1]
    BY <1>1, HeadTailProperties
  <2>2. DOMAIN rest = 1..(Len(toClient) - 1)
    BY <2>1, LenProperties
  <2> HIDE DEF rest
  <2> QED
    BY <1>2, <2>1, <2>2
<1>7. rest \in Seq(Message) /\ MessageInv(cl, clc, rest)
  BY <1>1, TailKeepsMessages
<1> HIDE DEF m, rest, old, seq
<1>8. MessageInv(cl, k, rest)
  <2>1. ASSUME NEW i \in DOMAIN rest PROVE MessageFits(cl, k, rest[i])
    <3>1. MessageFits(cl, clc, rest[i])
      BY <1>7, Zenon DEF MessageInv
    <3>2. seq <= rest[i].built
      <4>1. i \in Nat
        BY <1>7, LenProperties
      <4>2. 1 <= i + 1
        BY <4>1
      <4>3. toClient[1].built <= toClient[i + 1].built
        BY <4>2, <1>1, <1>2, <1>6, Zenon DEF MessageInv
      <4> QED
        BY <4>3, <1>3, <1>6 DEF seq, m
    <3>3. ASSUME ~cl.overflowed PROVE rest[i].first <= seq + 1
      <4>1. rest[i].first <= old + 1
        BY <3>1, <3>3, Zenon DEF MessageFits, old
      <4>2. rest[i] \in Message
        BY <1>7, LenProperties, ElementOfSeq
      <4>3. rest[i].first \in Nat
        BY <4>2 DEF Message
      <4> QED
        BY <4>1, <4>3, <1>5
    <3> QED
      BY <3>1, <3>2, <3>3, Zenon DEF MessageFits, seq
  <2> QED
    BY <1>7, <2>1, Zenon DEF MessageInv
<1>9. PacketInv(cl, k, toServer)
  <2>1. ASSUME NEW i \in DOMAIN toServer PROVE PacketFits(cl, k, toServer[i])
    <3>1. PacketFits(cl, clc, toServer[i])
      BY <1>1, Zenon DEF PacketInv
    <3>2. toServer[i] \in Packet
      BY <1>1, LenProperties, ElementOfSeq
    <3>3. toServer[i].serverCommandSequence \in Nat
      BY <3>2 DEF Packet
    <3>4. toServer[i].serverCommandSequence <= old
      BY <3>1, Zenon DEF PacketFits, old
    <3>5. toServer[i].serverCommandSequence <= seq
      BY <3>3, <3>4, <1>5
    <3> QED
      BY <3>1, <3>5, Zenon DEF PacketFits, seq
  <2> QED
    BY <1>1, <2>1, Zenon DEF PacketInv
<1>10. ClientInv(cl, k)
  <2>1. /\ \A s \in Slots : k.serverCommands[s] <= reliableSequence(cl)
        /\ ~cl.overflowed => \A n \in 1..seq : n > seq - M => k.serverCommands[n % M] = n
    <3>1. /\ \A s \in Slots : CL_ParseCommandStrings(m)[s] <= reliableSequence(cl)
          /\ ~cl.overflowed =>
               \A n \in 1..m.built : n > m.built - M => CL_ParseCommandStrings(m)[n % M] = n
      BY <1>1, <1>3, <1>4, ParseCommands, Zenon
    <3> QED
      BY <3>1, Zenon DEF m, seq
  <2>2. ASSUME ~cl.overflowed PROVE cl.reliableAcknowledge <= seq
    <3>1. cl.reliableAcknowledge <= old
      BY <1>1, <2>2, Zenon DEF ClientInv, old
    <3>2. cl.reliableAcknowledge \in Nat
      BY <1>1 DEF ClientT
    <3> QED
      BY <3>1, <3>2, <1>5
  <2> QED
    BY <1>5, <2>1, <2>2, Zenon DEF ClientInv, seq
<1> QED
  BY <1>3, <1>5, <1>8, <1>9, <1>10 DEF m, rest, old, seq

LEMMA SnapshotsType ==
  ASSUME NEW q \in Seq(Snapshot), NEW t \in Snapshot, NEW k,
         \A i \in DOMAIN q : SnapshotReady(k, q[i]), SnapshotReady(k, t)
  PROVE  /\ Keep(q, t) \in Seq(Snapshot)
         /\ \A i \in DOMAIN Keep(q, t) : SnapshotReady(k, Keep(q, t)[i])
<1>1. ASSUME NEW r \in Seq(Snapshot), \A i \in DOMAIN r : SnapshotReady(k, r[i])
      PROVE  /\ Append(r, t) \in Seq(Snapshot)
             /\ \A i \in DOMAIN Append(r, t) : SnapshotReady(k, Append(r, t)[i])
  <2> DEFINE u == Append(r, t)
  <2>1. /\ u \in Seq(Snapshot) /\ Len(u) = Len(r) + 1 /\ Len(r) \in Nat
        /\ DOMAIN r = 1..Len(r) /\ u[Len(r) + 1] = t
        /\ \A i \in 1..Len(r) : u[i] = r[i]
    BY AppendProperties, LenProperties
  <2> HIDE DEF u
  <2>2. DOMAIN u = 1..(Len(r) + 1)
    BY <2>1, LenProperties
  <2>3. ASSUME NEW i \in DOMAIN u PROVE SnapshotReady(k, u[i])
    <3>1. (i \in DOMAIN r /\ u[i] = r[i]) \/ u[i] = t
      BY <2>1, <2>2
    <3> QED
      BY <1>1, <3>1, Zenon
  <2> QED
    BY <2>1, <2>3 DEF u
<1>2. CASE Len(q) < PACKET_BACKUP
  BY <1>1, <1>2 DEF Keep
<1>3. CASE ~(Len(q) < PACKET_BACKUP)
  <2>1. q # <<>>
    BY <1>3, EmptySeq, BackupAssumption
  <2>2. Tail(q) \in Seq(Snapshot) /\ \A i \in DOMAIN Tail(q) : SnapshotReady(k, Tail(q)[i])
    <3> DEFINE f == [i \in DOMAIN Tail(q) |-> i + 1]
    <3>1. /\ Tail(q) \in Seq(Snapshot) /\ f \in [DOMAIN Tail(q) -> DOMAIN q]
          /\ \A i \in DOMAIN Tail(q) : Tail(q)[i] = q[f[i]]
      BY <2>1, TailElement
    <3> HIDE DEF f
    <3>2. \A i \in DOMAIN Tail(q) : f[i] \in DOMAIN q
      BY <3>1
    <3> QED
      BY <3>1, <3>2, Zenon
  <2> QED
    BY <1>1, <1>3, <2>2 DEF Keep
<1> QED
  BY <1>2, <1>3

LEMMA ParseServerMessageStep ==
  ASSUME SessionInv, CL_ParseServerMessage
  PROVE  SessionInv'
<1> DEFINE m == Head(toClient)
           ring == CL_ParseCommandStrings(m)
<1>1. TypeOK /\ Inv(cl, clc, cg, toClient, toServer, executed)
  BY SessionInvDef
<1>2. /\ sv \in SvState /\ cl \in ClientT /\ clc \in ClientConnection /\ cg \in CGame
      /\ toClient \in Seq(Message) /\ toServer \in Seq(Packet) /\ executed \in Seq(Nat)
  BY <1>1 DEF TypeOK
<1>3. /\ RingInv(cl) /\ MessageInv(cl, clc, toClient) /\ PacketInv(cl, clc, toServer)
      /\ ClientInv(cl, clc) /\ CGameInv(clc, cg, executed) /\ Ordered(cl, executed)
  BY <1>1, Zenon DEF Inv
<1>4. /\ toClient # <<>> /\ toClient' = Tail(toClient)
      /\ UNCHANGED <<sv, cl, toServer, executed>>
  BY DEF CL_ParseServerMessage
<1>5. Tail(toClient) \in Seq(Message) /\ MessageInv(cl, clc, Tail(toClient))
  BY <1>2, <1>3, <1>4, TailKeepsMessages
<1>6. CASE clc.state = "CA_DISCONNECTED"
  <2>1. UNCHANGED <<clc, cg>>
    BY <1>6 DEF CL_ParseServerMessage
  <2>2. Inv(cl, clc, cg, toClient', toServer, executed)
    BY <1>3, <1>4, <1>5, Zenon DEF Inv
  <2>3. TypeOK'
    BY <1>2, <1>4, <1>5, <2>1 DEF TypeOK
  <2> QED
    BY <1>4, <2>1, <2>2, <2>3, SessionInvDef
<1>7. CASE clc.state # "CA_DISCONNECTED"
  <2>1. Connected(clc)
    BY <1>7 DEF Connected
  <2>2. Len(toClient) \in Nat /\ 1 \in DOMAIN toClient
    BY <1>2, <1>4, EmptySeq, LenProperties
  <2>3. m = toClient[1] /\ m \in Message
    BY <1>2, <1>4, HeadTailProperties
  <2>4. MessageFits(cl, clc, m)
    BY <1>3, <2>2, <2>3, Zenon DEF MessageInv
  <2>5. ring \in [Slots -> Nat]
    BY <1>1, <1>3, <2>1, <2>3, <2>4, ParseCommands
  <2>6. /\ clc.serverCommandSequence <= m.built /\ LastCommand(m) = m.built
        /\ m.built \in Nat /\ m.serverId \in Nat /\ m.level \in Nat
        /\ clc.serverCommandSequence \in Nat
    <3>1. clc.serverCommandSequence <= m.built /\ LastCommand(m) = m.built
      BY <2>1, <2>4, Zenon DEF MessageFits
    <3> QED
      BY <1>2, <2>3, <3>1 DEF Message, ClientConnection
  <2>7. m.later \in BOOLEAN /\ m.active \in BOOLEAN
    BY <2>3, Zenon DEF Message
  <2>8. CASE m.gamestate
    <3>1. clc' = CL_ParseGamestate(m) /\ cg' = NoCGame
      BY <1>7, <2>8, Zenon DEF CL_ParseServerMessage
    <3>2. /\ clc' \in ClientConnection /\ clc'.state = "CA_PRIMED"
          /\ clc'.serverCommandSequence = m.built /\ clc'.serverCommands = ring
      <4>1. "CA_PRIMED" \in {"CA_CONNECTED", "CA_PRIMED", "CA_DISCONNECTED"}
        OBVIOUS
      <4> HIDE DEF m, ring
      <4> QED
        BY <1>2, <2>5, <2>6, <2>7, <3>1, <4>1, Zenon
           DEF CL_ParseGamestate, ClientConnection, ring
    <3>3. Connected(clc')
      BY <3>2 DEF Connected
    <3>4. /\ MessageInv(cl, clc', Tail(toClient)) /\ PacketInv(cl, clc', toServer)
          /\ ClientInv(cl, clc') /\ clc.serverCommandSequence <= clc'.serverCommandSequence
      BY <1>4, <2>1, <3>2, <3>3, ReceivedInv
    <3>5. CGameInv(clc', NoCGame, executed)
      <4>1. /\ DOMAIN NoCGame.snapshots = {} /\ NoCGame.nextSnap = NoSnapshot
            /\ NoCGame.snap = NoSnapshot
        BY DEF NoCGame
      <4>2. Len(executed) <= clc.serverCommandSequence
        BY <1>3, <2>1, Zenon DEF CGameInv
      <4>3. Len(executed) <= clc'.serverCommandSequence
        <5>1. Len(executed) \in Nat
          BY <1>2, LenProperties
        <5> QED
          BY <4>2, <5>1, <2>6, <3>2
      <4> QED
        BY <4>1, <4>3, Zenon DEF CGameInv
    <3>6. NoCGame \in CGame
      BY <1>1, <1>2, <1>3, DisconnectInv
    <3>7. Inv(cl, clc', cg', toClient', toServer, executed)
      BY <1>3, <1>4, <3>1, <3>4, <3>5, Zenon DEF Inv
    <3>8. TypeOK'
      BY <1>2, <1>4, <1>5, <3>1, <3>2, <3>6 DEF TypeOK
    <3> QED
      BY <1>4, <3>7, <3>8, SessionInvDef
  <2>9. CASE ~m.gamestate
    <3> DEFINE t == [serverCommandNum |-> clc'.serverCommandSequence,
                     built |-> m.built, active |-> m.active]
    <3>1. clc' = CL_ParseSnapshot(m) /\ cg' = [cg EXCEPT !.snapshots = Keep(@, t)]
      BY <1>7, <2>9, Zenon DEF CL_ParseServerMessage
    <3>2. clc' = [clc EXCEPT !.serverCommands = ring, !.serverCommandSequence = m.built,
                             !.later = m.later]
      <4>1. (IF clc.serverCommandSequence >= LastCommand(m)
             THEN clc.serverCommandSequence ELSE LastCommand(m)) = m.built
        BY <2>6
      <4> HIDE DEF m
      <4> QED
        BY <3>1, <4>1, Zenon DEF CL_ParseSnapshot, ring
    <3>3. /\ clc' \in ClientConnection /\ clc'.state = clc.state
          /\ clc'.serverCommandSequence = m.built /\ clc'.serverCommands = ring
      <4> HIDE DEF m, ring
      <4> QED
        BY <1>2, <2>5, <2>6, <2>7, <3>2, Zenon DEF ClientConnection
    <3>4. Connected(clc')
      BY <1>7, <3>3 DEF Connected
    <3>5. /\ MessageInv(cl, clc', Tail(toClient)) /\ PacketInv(cl, clc', toServer)
          /\ ClientInv(cl, clc') /\ clc.serverCommandSequence <= clc'.serverCommandSequence
      BY <1>4, <2>1, <3>3, <3>4, ReceivedInv
    <3>6. t \in Snapshot /\ SnapshotReady(clc', t)
      <4>1. t \in Snapshot
        BY <2>6, <2>7, <3>3, Zenon DEF Snapshot
      <4>2. t.built <= t.serverCommandNum /\ t.serverCommandNum <= clc'.serverCommandSequence
        BY <2>6, <3>3
      <4> QED
        BY <4>1, <4>2, Zenon DEF SnapshotReady
    <3>7. cg.snapshots \in Seq(Snapshot) /\ cg.nextSnap \in Snapshot \cup {NoSnapshot}
          /\ cg.snap \in Snapshot \cup {NoSnapshot}
      BY <1>2, Zenon DEF CGame
    <3>8. ASSUME NEW r, SnapshotReady(clc, r), r.serverCommandNum \in Nat
          PROVE  SnapshotReady(clc', r)
      <4>1. r.serverCommandNum <= clc'.serverCommandSequence
        BY <2>6, <3>3, <3>8 DEF SnapshotReady
      <4> QED
        BY <3>8, <4>1 DEF SnapshotReady
    <3>9. \A i \in DOMAIN cg.snapshots : SnapshotReady(clc', cg.snapshots[i])
      <4> SUFFICES ASSUME NEW i \in DOMAIN cg.snapshots
                   PROVE  SnapshotReady(clc', cg.snapshots[i])
        BY Zenon
      <4>1. cg.snapshots[i] \in Snapshot
        BY <3>7, LenProperties, ElementOfSeq
      <4>2. cg.snapshots[i].serverCommandNum \in Nat
        BY <4>1 DEF Snapshot
      <4>3. SnapshotReady(clc, cg.snapshots[i])
        BY <1>3, Zenon DEF CGameInv
      <4> QED
        BY <3>8, <4>2, <4>3
    <3>10. ASSUME cg.nextSnap # NoSnapshot PROVE SnapshotReady(clc', cg.nextSnap)
      <4>1. cg.nextSnap \in Snapshot
        BY <3>7, <3>10
      <4>2. cg.nextSnap.serverCommandNum \in Nat
        BY <4>1 DEF Snapshot
      <4>3. SnapshotReady(clc, cg.nextSnap)
        BY <1>3, <3>10, Zenon DEF CGameInv
      <4> QED
        BY <3>8, <4>2, <4>3
    <3> HIDE DEF t
    <3>11. /\ Keep(cg.snapshots, t) \in Seq(Snapshot)
           /\ \A i \in DOMAIN Keep(cg.snapshots, t) :
                SnapshotReady(clc', Keep(cg.snapshots, t)[i])
      BY <3>6, <3>7, <3>9, SnapshotsType
    <3>12. /\ cg' \in CGame /\ cg'.snapshots = Keep(cg.snapshots, t)
           /\ cg'.nextSnap = cg.nextSnap /\ cg'.snap = cg.snap
      BY <1>2, <3>1, <3>11, Zenon DEF CGame
    <3>13. Len(executed) <= clc'.serverCommandSequence
      <4>1. Len(executed) <= clc.serverCommandSequence
        BY <1>3, <2>1, Zenon DEF CGameInv
      <4>2. Len(executed) \in Nat
        BY <1>2, LenProperties
      <4> QED
        BY <4>1, <4>2, <2>6, <3>3
    <3>14. CGameInv(clc', cg', executed)
      <4>1. cg.snap # NoSnapshot => cg.snap.built <= Len(executed)
        BY <1>3, Zenon DEF CGameInv
      <4> QED
        BY <3>10, <3>11, <3>12, <3>13, <4>1, Zenon DEF CGameInv
    <3>15. Inv(cl, clc', cg', toClient', toServer, executed)
      BY <1>3, <1>4, <3>5, <3>14, Zenon DEF Inv
    <3>16. TypeOK'
      BY <1>2, <1>4, <1>5, <3>3, <3>12 DEF TypeOK
    <3> QED
      BY <1>4, <3>15, <3>16, SessionInvDef
  <2> QED
    BY <2>8, <2>9, Zenon
<1> QED
  BY <1>6, <1>7

\* The commands first to last as the client has them.
Batch(first, last) == [k \in 1..(last - first + 1) |-> Content(first + k - 1)]

LEMMA ContentType ==
  ASSUME TypeOK, ClientInv(cl, clc), NEW n \in Int
  PROVE  Content(n) \in Nat /\ Content(n) <= reliableSequence(cl)
<1>1. n % M \in Slots
  BY SlotType
<1>2. clc.serverCommands \in [Slots -> Nat]
  BY DEF TypeOK, ClientConnection
<1> QED
  BY <1>1, <1>2 DEF Content, ClientInv

LEMMA BatchType ==
  ASSUME TypeOK, ClientInv(cl, clc), NEW first \in Nat, NEW last \in Nat, first <= last + 1
  PROVE  /\ Batch(first, last) \in Seq(Nat)
         /\ Len(Batch(first, last)) = last - first + 1
         /\ \A k \in 1..(last - first + 1) : Batch(first, last)[k] = Content(first + k - 1)
<1> DEFINE q == Batch(first, last)
           n == last - first + 1
<1>1. n \in Nat
  OBVIOUS
<1>2. \A k \in 1..n : Content(first + k - 1) \in Nat
  <2> SUFFICES ASSUME NEW k \in 1..n PROVE Content(first + k - 1) \in Nat
    OBVIOUS
  <2>1. first + k - 1 \in Int
    OBVIOUS
  <2> QED
    BY <2>1, ContentType
<1>3. q = [k \in 1..n |-> Content(first + k - 1)]
  BY Zenon DEF Batch
<1> HIDE DEF q, n
<1>4. q \in [1..n -> Nat]
  BY <1>2, <1>3
<1>5. q \in Seq(Nat)
  BY <1>1, <1>4, SeqDef
<1>6. DOMAIN q = 1..n /\ DOMAIN q = 1..Len(q) /\ Len(q) \in Nat
  BY <1>4, <1>5, LenProperties
<1>7. Len(q) = n
  BY <1>1, <1>6
<1>8. \A k \in 1..n : q[k] = Content(first + k - 1)
  BY <1>3, Zenon
<1> QED
  BY <1>5, <1>7, <1>8 DEF q, n

\* Up to a loss the client has every command it is about to execute.
LEMMA BatchOrdered ==
  ASSUME TypeOK, ClientInv(cl, clc), Connected(clc), Ordered(cl, executed),
         NEW first \in Nat, first = lastExecutedServerCommand + 1,
         NEW last \in Nat, first <= last + 1,
         first <= last => /\ first > clc.serverCommandSequence - M
                          /\ last <= clc.serverCommandSequence
  PROVE  Ordered(cl, executed \o Batch(first, last))
<1> SUFFICES ASSUME ~cl.overflowed, NEW n \in DOMAIN (executed \o Batch(first, last))
             PROVE  (executed \o Batch(first, last))[n] = n
  BY Zenon DEF Ordered
<1> DEFINE b == Batch(first, last)
           seq == clc.serverCommandSequence
<1>1. executed \in Seq(Nat) /\ Len(executed) \in Nat /\ first = Len(executed) + 1
      /\ seq \in Nat /\ DOMAIN executed = 1..Len(executed)
  BY LenProperties DEF TypeOK, lastExecutedServerCommand, ClientConnection
<1>2. /\ b \in Seq(Nat) /\ Len(b) = last - first + 1
      /\ \A k \in 1..(last - first + 1) : b[k] = Content(first + k - 1)
  BY BatchType
<1> HIDE DEF b, seq
<1>3. /\ executed \o b \in Seq(Nat) /\ Len(executed \o b) = Len(executed) + Len(b)
      /\ \A k \in 1..(Len(executed) + Len(b)) :
           (executed \o b)[k] = IF k <= Len(executed) THEN executed[k] ELSE b[k - Len(executed)]
  BY <1>1, <1>2, ConcatProperties
<1>4. Len(executed) + Len(b) = last
  BY <1>1, <1>2
<1>5. n \in 1..last
  BY <1>3, <1>4, LenProperties DEF b
<1>6. CASE n <= Len(executed)
  <2>0. n \in DOMAIN executed
    BY <1>1, <1>5, <1>6
  <2>1. executed[n] = n
    BY <2>0, Zenon DEF Ordered
  <2> QED
    BY <2>1, <1>3, <1>4, <1>5, <1>6 DEF b
<1>7. CASE ~(n <= Len(executed))
  <2> DEFINE k == n - Len(executed)
  <2>1. k \in 1..(last - first + 1) /\ first + k - 1 = n /\ first <= last
    BY <1>1, <1>5, <1>7
  <2>2. (executed \o b)[n] = b[k]
    BY <1>3, <1>4, <1>5, <1>7
  <2> HIDE DEF k
  <2>3. b[k] = clc.serverCommands[n % M]
    BY <1>2, <2>1 DEF Content
  <2>4. n \in 1..seq /\ n > seq - M
    BY <1>1, <1>5, <1>7, <2>1, RingAssumption DEF seq
  <2>5. clc.serverCommands[n % M] = n
    BY <2>4, Zenon DEF ClientInv, seq
  <2> QED
    BY <2>2, <2>3, <2>5 DEF b
<1> QED
  BY <1>6, <1>7

LEMMA ExecuteStep ==
  ASSUME SessionInv, NEW latest \in Nat, NEW next \in CGame, Connected(clc),
         ExecuteNewServerCommands(latest, next), UNCHANGED <<sv, cl, toClient, toServer>>,
         \A i \in DOMAIN next.snapshots : SnapshotReady(clc, next.snapshots[i]),
         next.nextSnap # NoSnapshot => SnapshotReady(clc, next.nextSnap),
         next.snap # NoSnapshot => next.snap.built <= latest
  PROVE  /\ SessionInv'
         /\ Len(executed') \in Len(executed)..Len(cl.issued)
<1> DEFINE first == lastExecutedServerCommand + 1
           seq == clc.serverCommandSequence
           lost == first <= latest /\ (first <= seq - M \/ latest > seq)
           ends == {n \in first..latest : KindOf(n) = "disconnect"}
           last == IF ends = {} THEN latest ELSE CHOOSE n \in ends : \A k \in ends : n <= k
           ids == {n \in first..last : KindOf(n) = "cs"}
           newest == CHOOSE n \in ids : \A k \in ids : k <= n
<1>1. TypeOK /\ Inv(cl, clc, cg, toClient, toServer, executed)
  BY SessionInvDef
<1>2. /\ sv \in SvState /\ cl \in ClientT /\ clc \in ClientConnection
      /\ toClient \in Seq(Message) /\ toServer \in Seq(Packet) /\ executed \in Seq(Nat)
  BY <1>1 DEF TypeOK
<1>3. /\ RingInv(cl) /\ MessageInv(cl, clc, toClient) /\ PacketInv(cl, clc, toServer)
      /\ ClientInv(cl, clc) /\ CGameInv(clc, cg, executed) /\ Ordered(cl, executed)
  BY <1>1, Zenon DEF Inv
<1>4. /\ first \in Nat /\ first = Len(executed) + 1 /\ Len(executed) \in Nat
      /\ seq \in Nat /\ reliableSequence(cl) \in Nat /\ seq <= reliableSequence(cl)
      /\ Len(executed) <= seq
  <2>1. Len(executed) <= seq /\ seq <= reliableSequence(cl)
    BY <1>3, Zenon DEF CGameInv, ClientInv
  <2> QED
    BY <1>2, <2>1, LenProperties
       DEF lastExecutedServerCommand, ClientConnection, reliableSequence, ClientT
<1>5. last \in Nat /\ last <= latest /\ (first <= latest => first <= last)
      /\ (ends # {} => first <= last)
  <2>1. CASE ends = {}
    BY <2>1, <1>4
  <2>2. CASE ends # {}
    <3>1. ends \subseteq Nat /\ \A n \in ends : first <= n /\ n <= latest
      BY <1>4
    <3> HIDE DEF ends
    <3>2. \E n \in ends : \A k \in ends : n <= k
      BY <3>1, <2>2, LeastExists
    <3>3. last \in ends
      BY <2>2, <3>2, Zenon
    <3> HIDE DEF last
    <3> QED
      BY <3>1, <3>3
  <2> QED
    BY <2>1, <2>2
<1>6. ids # {} => newest \in ids
  <2> SUFFICES ASSUME ids # {} PROVE newest \in ids
    BY Zenon
  <2> HIDE DEF last
  <2>1. ids \subseteq Nat /\ \A n \in ids : n <= last
    BY <1>4, <1>5
  <2> HIDE DEF ids
  <2>2. \E n \in ids : \A k \in ids : k <= n
    BY <2>1, <1>5, GreatestExists
  <2> QED
    BY <2>2, Zenon
<1>7. /\ executed' = IF lost THEN executed ELSE executed \o Batch(first, last)
      /\ IF lost \/ ends # {}
         THEN clc' = NoConnection("CA_DISCONNECTED") /\ cg' = NoCGame
         ELSE /\ clc' = IF ids = {} THEN clc
                        ELSE [clc EXCEPT !.serverId = cl.issued[Content(newest)].serverId]
              /\ cg' = next
  BY Zenon DEF ExecuteNewServerCommands, Batch
<1> HIDE DEF first, ends, last, ids, newest, seq
<1>8. executed' \in Seq(Nat) /\ Ordered(cl, executed')
      /\ Len(executed') \in Len(executed)..reliableSequence(cl)
      /\ (~lost /\ ends = {} => latest <= Len(executed') /\ Len(executed') <= seq)
  <2>1. CASE lost \/ latest < first
    <3>1. executed' = executed /\ (~lost => latest <= Len(executed))
      <4>1. CASE lost
        BY <1>7, <4>1, Zenon
      <4>2. CASE ~lost
        <5>1. latest < first
          BY <2>1, <4>2, Zenon
        <5>2. ends = {}
          BY <5>1, <1>4 DEF ends
        <5>3. last = latest
          BY <5>2, Zenon DEF last
        <5>4. Batch(first, last) = <<>>
          <6>1. 1..(last - first + 1) = {}
            BY <5>1, <5>3, <1>4
          <6>2. Batch(first, last) = [k \in {} |-> Content(first + k - 1)]
            BY <6>1, Zenon DEF Batch
          <6> QED
            BY <6>2
        <5>5. executed \o <<>> = executed
          BY <1>2, ConcatEmptySeq
        <5>6. latest <= Len(executed)
          BY <5>1, <1>4
        <5> QED
          BY <1>7, <4>2, <5>4, <5>5, <5>6, Zenon
      <4> QED
        BY <4>1, <4>2, Zenon
    <3>2. Len(executed) \in Len(executed)..reliableSequence(cl)
      BY <1>4
    <3> QED
      BY <3>1, <3>2, <1>2, <1>3, <1>4, Zenon
  <2>2. CASE ~lost /\ ~(latest < first)
    <3>1. first <= latest /\ first > seq - M /\ latest <= seq
      <4>1. first <= latest
        BY <2>2, <1>4
      <4>2. ~(first <= seq - M) /\ ~(latest > seq)
        BY <2>2, <4>1, Zenon
      <4> QED
        BY <4>1, <4>2, <1>4, RingAssumption
    <3>2. first <= last /\ last <= latest /\ first <= last + 1 /\ last <= seq
      BY <3>1, <1>4, <1>5
    <3>3. executed' = executed \o Batch(first, last)
      BY <1>7, <2>2, Zenon
    <3>4. Batch(first, last) \in Seq(Nat) /\ Len(Batch(first, last)) = last - first + 1
      BY <1>1, <1>3, <1>4, <1>5, <3>2, BatchType
    <3>5. /\ executed' \in Seq(Nat)
          /\ Len(executed') = Len(executed) + Len(Batch(first, last))
      BY <1>2, <3>3, <3>4, ConcatProperties
    <3>6. Len(executed') = last
      BY <1>4, <1>5, <3>4, <3>5
    <3>7. Ordered(cl, executed')
      BY <1>1, <1>3, <1>4, <1>5, <3>1, <3>2, <3>3, BatchOrdered DEF first, seq
    <3>8. last \in Len(executed)..reliableSequence(cl)
      BY <1>4, <1>5, <3>2
    <3>9. ends = {} => last = latest
      BY Zenon DEF last
    <3>10. latest <= latest
      OBVIOUS
    <3> QED
      BY <3>2, <3>5, <3>6, <3>7, <3>8, <3>9, <3>10, Zenon
  <2> QED
    BY <2>1, <2>2, Zenon
<1> HIDE DEF lost
<1>9. CASE lost \/ ends # {}
  <2>1. clc' = NoConnection("CA_DISCONNECTED") /\ cg' = NoCGame
    BY <1>7, <1>9, Zenon
  <2>2. clc' \in ClientConnection /\ cg' \in CGame
        /\ Inv(cl, clc', cg', toClient, toServer, executed')
    BY <1>1, <1>2, <1>8, <2>1, DisconnectInv
  <2>3. TypeOK'
    BY <1>2, <1>8, <2>2 DEF TypeOK
  <2>4. SessionInv'
    BY <2>2, <2>3, SessionInvDef
  <2> QED
    BY <2>4, <1>8 DEF reliableSequence
<1>10. CASE ~(lost \/ ends # {})
  <2>1. cg' = next /\ (clc' = clc \/ (ids # {} /\ clc' =
          [clc EXCEPT !.serverId = cl.issued[Content(newest)].serverId]))
    BY <1>7, <1>10, Zenon
  <2>2. ASSUME ids # {} PROVE cl.issued[Content(newest)].serverId \in Nat
    <3>1. newest \in Int /\ KindOf(newest) = "cs"
      BY <1>4, <1>5, <1>6, <2>2 DEF ids
    <3>2. Content(newest) # 0
      BY <3>1 DEF KindOf
    <3>3. Content(newest) \in Nat /\ Content(newest) <= reliableSequence(cl)
      BY <1>1, <1>3, <3>1, ContentType
    <3>4. cl.issued \in Seq(Command)
      BY <1>2 DEF ClientT
    <3>5. Content(newest) \in 1..Len(cl.issued)
      BY <3>2, <3>3, <1>4 DEF reliableSequence
    <3>6. cl.issued[Content(newest)] \in Command
      BY <3>4, <3>5, ElementOfSeq
    <3> QED
      BY <3>6 DEF Command
  <2>3. /\ clc' \in ClientConnection /\ clc'.state = clc.state
        /\ clc'.serverCommandSequence = clc.serverCommandSequence
        /\ clc'.serverCommands = clc.serverCommands
    <3> DEFINE id == cl.issued[Content(newest)].serverId
    <3> HIDE DEF id
    <3>1. ids # {} => id \in Nat
      BY <2>2, Zenon DEF id
    <3>2. clc' = clc \/ (ids # {} /\ clc' = [clc EXCEPT !.serverId = id])
      BY <2>1, Zenon DEF id
    <3> QED
      BY <1>2, <3>1, <3>2, Zenon DEF ClientConnection
  <2>4. latest <= Len(executed') /\ Len(executed') <= seq
    BY <1>8, <1>10, Zenon
  <2>5. next.snap # NoSnapshot => next.snap.built <= Len(executed')
    <3> SUFFICES ASSUME next.snap # NoSnapshot PROVE next.snap.built <= Len(executed')
      BY Zenon
    <3>1. next.snap \in Snapshot
      BY Zenon DEF CGame
    <3>2. next.snap.built \in Nat /\ next.snap.built <= latest
      BY <3>1 DEF Snapshot
    <3>3. Len(executed') \in Nat
      BY <1>8, LenProperties
    <3> QED
      BY <3>2, <3>3, <2>4
  <2>6. CGameInv(clc, next, executed')
    BY <2>4, <2>5, Zenon DEF CGameInv, seq
  <2>7. Inv(cl, clc, cg', toClient, toServer, executed')
    BY <1>3, <1>8, <2>1, <2>6, Zenon DEF Inv
  <2>8. Inv(cl, clc', cg', toClient, toServer, executed')
    BY <2>3, <2>7, ConnectionInv
  <2>9. TypeOK'
    BY <1>2, <1>8, <2>1, <2>3 DEF TypeOK
  <2>10. SessionInv'
    BY <2>8, <2>9, SessionInvDef
  <2> QED
    BY <2>10, <1>8 DEF reliableSequence
<1> QED
  BY <1>9, <1>10, Zenon

LEMMA ClientStep ==
  ASSUME SessionInv, Client
  PROVE  /\ SessionInv'
         /\ executed' = executed \/ Len(executed') \in Len(executed)..Len(cl.issued)
<1>1. TypeOK /\ Inv(cl, clc, cg, toClient, toServer, executed)
  BY SessionInvDef
<1>2. /\ cl \in ClientT /\ clc \in ClientConnection /\ cg \in CGame
      /\ executed \in Seq(Nat)
  BY <1>1 DEF TypeOK
<1>3. /\ ClientInv(cl, clc) /\ CGameInv(clc, cg, executed) /\ Ordered(cl, executed)
  BY <1>1, Zenon DEF Inv
<1>4. /\ cg.snapshots \in Seq(Snapshot) /\ cg.nextSnap \in Snapshot \cup {NoSnapshot}
      /\ cg.snap \in Snapshot \cup {NoSnapshot}
  BY <1>2, Zenon DEF CGame
<1> DEFINE s == Head(cg.snapshots)
           q == Tail(cg.snapshots)
\* What is left of the snapshots when the first is taken.
<1>5. ASSUME cg.snapshots # <<>>
      PROVE  /\ s \in Snapshot /\ SnapshotReady(clc, s)
             /\ q \in Seq(Snapshot) /\ \A i \in DOMAIN q : SnapshotReady(clc, q[i])
  <2>1. 1 \in DOMAIN cg.snapshots
    <3>1. Len(cg.snapshots) \in Nat \ {0} /\ DOMAIN cg.snapshots = 1..Len(cg.snapshots)
      BY <1>4, <1>5, EmptySeq, LenProperties
    <3> QED
      BY <3>1
  <2>2. s = cg.snapshots[1] /\ s \in Snapshot
    BY <1>4, <1>5, HeadTailProperties
  <2>3. SnapshotReady(clc, s)
    BY <1>3, <2>1, <2>2, Zenon DEF CGameInv
  <2> DEFINE f == [i \in DOMAIN q |-> i + 1]
  <2>4. /\ q \in Seq(Snapshot) /\ f \in [DOMAIN q -> DOMAIN cg.snapshots]
        /\ \A i \in DOMAIN q : q[i] = cg.snapshots[f[i]]
    BY <1>4, <1>5, TailElement
  <2> HIDE DEF f, q
  <2>5. \A i \in DOMAIN q : f[i] \in DOMAIN cg.snapshots
    BY <2>4
  <2>6. \A i \in DOMAIN q : SnapshotReady(clc, q[i])
    BY <1>3, <2>4, <2>5, Zenon DEF CGameInv
  <2> QED
    BY <2>2, <2>3, <2>4, <2>6
<1> HIDE DEF s, q
\* A step that only takes snapshots.
<1>6. ASSUME cg' \in CGame, CGameInv(clc, cg', executed), Connected(clc),
             UNCHANGED <<sv, cl, clc, toClient, toServer, executed>>
      PROVE  SessionInv'
  <2>1. Inv(cl, clc, cg', toClient, toServer, executed)
    BY <1>1, <1>6, Zenon DEF Inv
  <2>2. TypeOK'
    BY <1>1, <1>6 DEF TypeOK
  <2> QED
    BY <1>6, <2>1, <2>2, SessionInvDef
<1>7. ASSUME NEW move \in BOOLEAN, CL_WritePacket(move)
      PROVE  SessionInv' /\ executed' = executed
  BY <1>7, WritePacketStep DEF CL_WritePacket
<1>8. CASE CG_SetInitialSnapshot
  <2>1. /\ cg.snapshots # <<>> /\ cg.snap = NoSnapshot /\ Connected(clc)
        /\ UNCHANGED <<sv, cl, toClient, toServer>>
    BY <1>8 DEF CG_SetInitialSnapshot, Connected
  <2>2. CASE s.active
    <3> DEFINE next == [cg EXCEPT !.snapshots = q, !.snap = s]
    <3>1. next \in CGame /\ next.snapshots = q /\ next.snap = s /\ next.nextSnap = cg.nextSnap
      BY <1>2, <1>5, <2>1, Zenon DEF CGame
    <3>2. ExecuteNewServerCommands(s.serverCommandNum, next)
      BY <1>8, <2>2, Zenon DEF CG_SetInitialSnapshot, s, q
    <3> HIDE DEF next
    <3>3. s.serverCommandNum \in Nat /\ s.built <= s.serverCommandNum
      BY <1>5, <2>1 DEF Snapshot, SnapshotReady
    <3>4. next.nextSnap # NoSnapshot => SnapshotReady(clc, next.nextSnap)
      BY <1>3, <3>1, Zenon DEF CGameInv
    <3> QED
      BY <1>5, <2>1, <3>1, <3>2, <3>3, <3>4, ExecuteStep
  <2>3. CASE ~s.active
    <3>1. cg' = [cg EXCEPT !.snapshots = q] /\ UNCHANGED <<clc, executed>>
      BY <1>8, <2>3, Zenon DEF CG_SetInitialSnapshot, s, q
    <3>2. cg' \in CGame /\ cg'.snapshots = q /\ cg'.snap = cg.snap /\ cg'.nextSnap = cg.nextSnap
      BY <1>2, <1>5, <2>1, <3>1, Zenon DEF CGame
    <3>3. CGameInv(clc, cg', executed)
      BY <1>3, <1>5, <2>1, <3>2, Zenon DEF CGameInv
    <3> QED
      BY <1>6, <2>1, <3>1, <3>2, <3>3
  <2> QED
    BY <2>2, <2>3, Zenon
<1>9. CASE CG_SetNextSnap
  <2>1. /\ cg.snapshots # <<>> /\ Connected(clc)
        /\ UNCHANGED <<sv, cl, clc, toClient, toServer, executed>>
        /\ cg' = [cg EXCEPT !.snapshots = q, !.nextSnap = s]
    BY <1>9 DEF CG_SetNextSnap, Connected, s, q
  <2>2. cg' \in CGame /\ cg'.snapshots = q /\ cg'.snap = cg.snap /\ cg'.nextSnap = s
    BY <1>2, <1>5, <2>1, Zenon DEF CGame
  <2>3. CGameInv(clc, cg', executed)
    BY <1>3, <1>5, <2>1, <2>2, Zenon DEF CGameInv
  <2> QED
    BY <1>6, <2>1, <2>2, <2>3
<1>10. CASE CG_TransitionSnapshot
  <2> DEFINE next == [cg EXCEPT !.snap = cg.nextSnap, !.nextSnap = NoSnapshot]
  <2>1. /\ cg.nextSnap # NoSnapshot /\ Connected(clc)
        /\ UNCHANGED <<sv, cl, toClient, toServer>>
        /\ ExecuteNewServerCommands(cg.nextSnap.serverCommandNum, next)
    BY <1>10 DEF CG_TransitionSnapshot, Connected
  <2>2. NoSnapshot \in Snapshot \cup {NoSnapshot} /\ cg.nextSnap \in Snapshot
    BY <1>4, <2>1
  <2>3. /\ next \in CGame /\ next.snapshots = cg.snapshots /\ next.snap = cg.nextSnap
        /\ next.nextSnap = NoSnapshot
    BY <1>2, <1>4, <2>2, Zenon DEF CGame
  <2> HIDE DEF next
  <2>4. /\ \A i \in DOMAIN cg.snapshots : SnapshotReady(clc, cg.snapshots[i])
        /\ SnapshotReady(clc, cg.nextSnap)
    BY <1>3, <2>1, Zenon DEF CGameInv
  <2>5. cg.nextSnap.serverCommandNum \in Nat
        /\ cg.nextSnap.built <= cg.nextSnap.serverCommandNum
    BY <2>2, <2>4 DEF Snapshot, SnapshotReady
  <2> QED
    BY <2>1, <2>3, <2>4, <2>5, ExecuteStep
<1>11. CASE CL_Disconnect
  <2>1. /\ clc' = NoConnection("CA_DISCONNECTED") /\ cg' = NoCGame /\ Connected(clc)
        /\ UNCHANGED <<sv, cl, toClient, toServer, executed>>
    BY <1>11 DEF CL_Disconnect, Connected
  <2>2. clc' \in ClientConnection /\ cg' \in CGame
        /\ Inv(cl, clc', cg', toClient, toServer, executed)
    BY <1>1, <1>2, <1>3, <2>1, DisconnectInv
  <2>3. TypeOK'
    BY <1>1, <2>1, <2>2 DEF TypeOK
  <2> QED
    BY <2>1, <2>2, <2>3, SessionInvDef
<1>12. CASE CL_ParseServerMessage
  BY <1>12, ParseServerMessageStep DEF CL_ParseServerMessage
<1> QED
  BY <1>7, <1>8, <1>9, <1>10, <1>11, <1>12 DEF Client

-----------------------------------------------------------------------------
(* The theorems. *)

LEMMA InitInv == Init => SessionInv
<1> SUFFICES ASSUME Init PROVE SessionInv
  OBVIOUS
<1> DEFINE k == NoConnection("CA_CONNECTED")
           zero == [s \in Slots |-> 0]
<1>1. /\ zero \in [Slots -> Nat] /\ \A s \in Slots : zero[s] = 0
      /\ <<>> \in Seq(Command) /\ <<>> \in Seq(Message) /\ <<>> \in Seq(Packet)
      /\ <<>> \in Seq(Nat) /\ <<>> \in Seq(Snapshot) /\ Len(<<>>) = 0
      /\ 0 \in Nat /\ 1 \in Nat /\ CS_CONNECTED \in CS_FREE..CS_ACTIVE
  BY EmptySeq DEF CS_CONNECTED, CS_FREE, CS_ACTIVE
<1>2. /\ cl.issued = <<>> /\ cl.reliableAcknowledge = 0 /\ cl.reliableCommands = zero
      /\ clc.serverCommandSequence = 0 /\ clc.serverCommands = zero
      /\ cg = NoCGame /\ toClient = <<>> /\ toServer = <<>> /\ executed = <<>>
  BY DEF Init, NoConnection
<1>3. TypeOK
  <2>1. sv \in SvState
    BY DEF Init, SvState
  <2>2. cl \in ClientT
    <3> HIDE DEF zero
    <3>1. cl = [state |-> CS_CONNECTED, issued |-> <<>>, reliableAcknowledge |-> 0,
                reliableCommands |-> zero, csUpdated |-> FALSE,
                overflowed |-> FALSE, unheard |-> 0, dropCalls |-> 0]
      BY Zenon DEF Init, zero
    <3> QED
      BY <1>1, <3>1, Zenon DEF ClientT
  <2>3. clc \in ClientConnection
    <3>1. "CA_CONNECTED" \in {"CA_CONNECTED", "CA_PRIMED", "CA_DISCONNECTED"}
      OBVIOUS
    <3>2. ("CA_CONNECTED" = "CA_CONNECTED") \in BOOLEAN
      BY Zenon
    <3>3. clc = [state |-> "CA_CONNECTED", serverId |-> 0, level |-> 0,
                 serverCommandSequence |-> 0, serverCommands |-> zero,
                 later |-> "CA_CONNECTED" = "CA_CONNECTED"]
      BY Zenon DEF Init, NoConnection
    <3> HIDE DEF zero
    <3> QED
      BY <1>1, <3>1, <3>2, <3>3, Zenon DEF ClientConnection
  <2>4. cg \in CGame
    <3>1. NoSnapshot \in Snapshot \cup {NoSnapshot}
      OBVIOUS
    <3> QED
      BY <1>1, <1>2, <3>1, Zenon DEF NoCGame, CGame
  <2> QED
    BY <1>1, <1>2, <2>1, <2>2, <2>3, <2>4, Zenon DEF TypeOK
<1> HIDE DEF zero
<1>4. reliableSequence(cl) = 0 /\ DOMAIN toClient = {} /\ DOMAIN toServer = {}
      /\ DOMAIN executed = {} /\ 1..0 = {} /\ 0 <= 0
  BY <1>1, <1>2 DEF reliableSequence
<1>5. \A s \in Slots : /\ cl.reliableCommands[s] <= reliableSequence(cl)
                       /\ clc.serverCommands[s] <= reliableSequence(cl)
  BY <1>1, <1>2, <1>4
<1>6. RingInv(cl)
  <2>1. Pending(cl) <= M
    BY <1>2, <1>4, RingAssumption DEF Pending
  <2>2. \A n \in 1..reliableSequence(cl) :
          n > reliableSequence(cl) - M => cl.reliableCommands[n % M] = n
    BY <1>4
  <2>3. cl.reliableAcknowledge <= reliableSequence(cl)
    BY <1>2, <1>4
  <2> QED
    BY <1>5, <2>1, <2>2, <2>3, Zenon DEF RingInv
<1>7. ClientInv(cl, clc)
  <2>1. clc.serverCommandSequence <= reliableSequence(cl)
        /\ cl.reliableAcknowledge <= clc.serverCommandSequence
    BY <1>2, <1>4
  <2>2. \A n \in 1..clc.serverCommandSequence :
          n > clc.serverCommandSequence - M => clc.serverCommands[n % M] = n
    BY <1>2, <1>4
  <2> QED
    BY <1>5, <2>1, <2>2, Zenon DEF ClientInv
<1>8. CGameInv(clc, cg, executed)
  <2>1. DOMAIN cg.snapshots = {} /\ cg.nextSnap = NoSnapshot /\ cg.snap = NoSnapshot
    BY <1>2 DEF NoCGame
  <2>2. Len(executed) <= clc.serverCommandSequence
    BY <1>1, <1>2
  <2> QED
    BY <2>1, <2>2, Zenon DEF CGameInv
<1>9. MessageInv(cl, clc, toClient) /\ PacketInv(cl, clc, toServer) /\ Ordered(cl, executed)
  BY <1>4, Zenon DEF MessageInv, PacketInv, Ordered
<1> QED
  BY <1>3, <1>6, <1>7, <1>8, <1>9 DEF SessionInv

LEMMA NextInv == SessionInv /\ [Next]_vars => SessionInv'
<1> SUFFICES ASSUME SessionInv, [Next]_vars PROVE SessionInv'
  OBVIOUS
<1>1. CASE Server
  BY <1>1, ServerStep
<1>2. CASE Client
  BY <1>2, ClientStep
<1>3. CASE Lose
  BY <1>3, LoseStep
<1>4. CASE UNCHANGED vars
  <2>1. TypeOK'
    BY <1>4, SessionInvDef DEF TypeOK, vars
  <2>2. Inv(cl', clc', cg', toClient', toServer', executed')
    BY <1>4, SessionInvDef DEF vars
  <2> QED
    BY <2>1, <2>2, SessionInvDef
<1> QED
  BY <1>1, <1>2, <1>3, <1>4 DEF Next

\* The rings of both sides, the messages and the acknowledgements on their way
\* and the snapshots kept fit together, for every size of the ring, whatever
\* levels and restarts come and whatever is lost.
THEOREM SessionInvariant == Spec => []SessionInv
<1> QED
  BY InitInv, NextInv, PTL DEF Spec

\* Every variable of the session keeps its type.
THEOREM SessionTypeCorrect == Spec => []TypeOK
<1>1. SessionInv => TypeOK
  BY DEF SessionInv
<1> QED
  BY <1>1, SessionInvariant, PTL

\* The client executes the commands of the server, each once, in the order
\* they were issued, unless the server gave it up (CL_ParseCommandString,
\* CL_GetServerCommand).
THEOREM SessionInOrder == Spec => []InOrder
<1>1. SessionInv => InOrder
  BY Zenon DEF SessionInv, Ordered, InOrder
<1> QED
  BY <1>1, SessionInvariant, PTL

\* No snapshot is shown before the commands issued before it are executed
\* ("guaranteed to not have future snapshot_t executed before it is
\* executed").
THEOREM SessionCommandsBeforeSnapshot == Spec => []CommandsBeforeSnapshot
<1>1. SessionInv => CommandsBeforeSnapshot
  BY Zenon DEF SessionInv, CGameInv, CommandsBeforeSnapshot, lastExecutedServerCommand
<1> QED
  BY <1>1, SessionInvariant, PTL

\* Whatever the server does, its commands are the ones issued before and more.
LEMMA ServerIssues ==
  ASSUME SessionInv, Server
  PROVE  Commands!Issue
<1>1. cl \in ClientT /\ RingInv(cl) /\ TypeOK /\ clc \in ClientConnection
      /\ toServer \in Seq(Packet) /\ PacketInv(cl, clc, toServer)
  BY Zenon DEF SessionInv, TypeOK
<1>2. ASSUME Grows(cl, cl'), executed' = executed PROVE Commands!Issue
  <2>1. Len(cl.issued) \in Nat /\ Len(cl'.issued) \in Nat /\ Len(cl.issued) <= Len(cl'.issued)
    BY <1>1, <1>2, LenProperties DEF Grows, ClientT, reliableSequence
  <2>2. Len(cl'.issued) >= Len(cl.issued)
    BY <2>1
  <2>3. (\A n \in DOMAIN cl.issued : cl'.issued[n] = cl.issued[n])
        /\ (cl.overflowed => cl'.overflowed)
    BY <1>2, Zenon DEF Grows
  <2> QED
    BY <1>2, <2>2, <2>3, Zenon DEF Commands!Issue
<1>3. CASE \/ SV_SendServerCommand \/ SV_SpawnServer \/ SV_MapRestart_f
           \/ UpdateSystemInfo \/ SV_SendClientSnapshot \/ DropClient \/ SV_CheckTimeouts
  <2>1. executed' = executed
    BY <1>3 DEF SV_SendServerCommand, SV_SpawnServer, SV_MapRestart_f, UpdateSystemInfo,
                SV_SendClientSnapshot, DropClient, SV_CheckTimeouts
  <2> QED
    BY <1>1, <1>2, <1>3, <2>1, ServerGrows
<1>4. CASE SV_PacketEvent
  <2> DEFINE a == Head(toServer).serverCommandSequence
             acked == [cl EXCEPT !.reliableAcknowledge = a]
             all == [cl EXCEPT !.reliableAcknowledge = reliableSequence(cl)]
  <2>1. toServer # <<>> /\ executed' = executed
    BY <1>4 DEF SV_PacketEvent
  <2>2. \/ cl' \in {cl, acked, all}
        \/ cl' = SV_ClientEnterWorld(acked)
        \/ cl' = [acked EXCEPT !.state = CS_PRIMED]
    BY <1>4 DEF SV_PacketEvent, SV_ExecuteClientMessage, WrongServerId,
                SV_SendClientGameState
  <2>3. a \in Nat
    BY <1>1, <2>1, HeadAcknowledges
  <2>4. reliableSequence(cl) \in Nat
    BY <1>1, LenProperties DEF ClientT, reliableSequence
  <2>5. /\ acked \in ClientT /\ acked.issued = cl.issued /\ acked.overflowed = cl.overflowed
        /\ all.issued = cl.issued /\ all.overflowed = cl.overflowed
    <3> HIDE DEF a
    <3> QED
      BY <1>1, <2>3, Zenon DEF ClientT
  <2>6. RingInv(acked)
    <3>1. a <= reliableSequence(cl) /\ (~cl.overflowed => cl.reliableAcknowledge <= a)
      BY <1>1, <2>1, HeadAcknowledges
    <3>2. acked.reliableAcknowledge = a /\ acked.reliableCommands = cl.reliableCommands
      BY <1>1, Zenon DEF ClientT
    <3> HIDE DEF acked, a
    <3>3. reliableSequence(acked) = reliableSequence(cl) /\ cl.reliableAcknowledge \in Nat
      BY <1>1, <2>5 DEF reliableSequence, ClientT
    <3>4. ASSUME ~acked.overflowed
          PROVE  /\ Pending(acked) <= M
                 /\ \A n \in 1..reliableSequence(acked) :
                      n > reliableSequence(acked) - M => acked.reliableCommands[n % M] = n
      <4>1. ~cl.overflowed
        BY <2>5, <3>4, Zenon
      <4>2. cl.reliableAcknowledge <= a /\ Pending(cl) <= M
            /\ \A n \in 1..reliableSequence(cl) :
                 n > reliableSequence(cl) - M => cl.reliableCommands[n % M] = n
        <5>1. cl.reliableAcknowledge <= a
          BY <3>1, <4>1, Zenon
        <5> QED
          BY <1>1, <4>1, <5>1, Zenon DEF RingInv
      <4>3. Pending(acked) <= M
        BY <2>3, <2>4, <3>2, <3>3, <4>2, RingAssumption DEF Pending
      <4> QED
        BY <3>2, <3>3, <4>2, <4>3, Zenon
    <3>5. acked.reliableAcknowledge <= reliableSequence(acked)
          /\ \A s \in Slots : acked.reliableCommands[s] <= reliableSequence(acked)
      BY <1>1, <3>1, <3>2, <3>3, Zenon DEF RingInv
    <3> QED
      BY <3>4, <3>5, Zenon DEF RingInv
  <2> HIDE DEF acked, all, a
  <2>7. ASSUME NEW d, d.issued = cl.issued, d.overflowed = cl.overflowed, cl' = d
        PROVE  Commands!Issue
    <3>1. Len(cl'.issued) >= Len(cl.issued)
      BY <2>4, <2>7 DEF reliableSequence
    <3> QED
      BY <2>1, <2>7, <3>1, Zenon DEF Commands!Issue
  <2>8. ASSUME NEW d, Grows(acked, d), cl' = d PROVE Commands!Issue
    <3>1. Len(acked.issued) \in Nat /\ Len(d.issued) \in Nat /\ Len(acked.issued) <= Len(d.issued)
      BY <2>5, <2>8, LenProperties DEF Grows, ClientT, reliableSequence
    <3>2. Len(cl'.issued) >= Len(cl.issued)
      BY <3>1, <2>5, <2>8
    <3> QED
      BY <2>1, <2>5, <2>8, <3>2, Zenon DEF Grows, Commands!Issue
  <2>9. Grows(acked, SV_ClientEnterWorld(acked))
    BY <1>1, <2>5, <2>6, EnterGrows DEF TypeOK
  <2>10. Grows(acked, [acked EXCEPT !.state = CS_PRIMED])
    <3>1. /\ CS_PRIMED \in CS_FREE..CS_ACTIVE /\ sv.restartedServerId \in Nat
          /\ acked.dropCalls \in Nat /\ FALSE \in BOOLEAN
      BY <1>1, <2>5 DEF CS_PRIMED, CS_FREE, CS_ACTIVE, TypeOK, SvState, ClientT
    <3> QED
      BY <2>5, <2>6, <3>1, ChangesGrow
  <2> QED
    BY <2>2, <2>5, <2>7, <2>8, <2>9, <2>10
<1> QED
  BY <1>3, <1>4 DEF Server

\* Every step of the session is a step of ReliableCommands.
LEMMA StepOfCommands ==
  ASSUME SessionInv, SessionInv', [Next]_vars
  PROVE  [Commands!Next]_(Commands!vars)
<1>1. CASE Server
  BY <1>1, ServerIssues DEF Commands!Next
<1>2. CASE Client
  <2>1. executed' = executed \/ Len(executed') \in Len(executed)..Len(cl.issued)
    BY <1>2, ClientStep
  <2>2. cl' = cl
    BY <1>2 DEF Client, CL_WritePacket, CL_ParseServerMessage, CG_SetInitialSnapshot,
                CG_SetNextSnap, CG_TransitionSnapshot, CL_Disconnect
  <2>3. CASE executed' = executed
    BY <2>2, <2>3 DEF Commands!vars
  <2>4. CASE cl.overflowed
    BY <2>2, <2>4, Zenon DEF Commands!ExecuteGivenUp, Commands!Next
  <2>5. CASE ~cl.overflowed /\ Len(executed') \in Len(executed)..Len(cl.issued)
    <3>1. \A n \in DOMAIN executed' : executed'[n] = n
      BY <2>2, <2>5, Zenon DEF SessionInv, Ordered
    <3> QED
      BY <2>2, <2>5, <3>1, Zenon DEF Commands!Execute, Commands!Next
  <2> QED
    BY <2>1, <2>3, <2>4, <2>5, Zenon
<1>3. CASE Lose \/ UNCHANGED vars
  BY <1>3 DEF Lose, vars, Commands!vars
<1> QED
  BY <1>1, <1>2, <1>3 DEF Next

\* The session implements ReliableCommands: rings, acknowledgements, resends,
\* gamestates and drops come down to commands issued and executed in order.
THEOREM SessionKeepsPromise == Spec => KeepsPromise
<1>1. Init => Commands!Init
  <2> SUFFICES ASSUME Init PROVE Commands!Init
    OBVIOUS
  <2>1. cl.issued = <<>> /\ executed = <<>>
    BY DEF Init
  <2>2. cl.overflowed = FALSE
    BY Zenon DEF Init
  <2> QED
    BY <2>1, <2>2, Zenon DEF Commands!Init
<1>2. SessionInv /\ SessionInv' /\ [Next]_vars => [Commands!Next]_(Commands!vars)
  BY StepOfCommands
<1> QED
  BY <1>1, <1>2, SessionInvariant, PTL DEF Spec, KeepsPromise, Commands!Spec

-----------------------------------------------------------------------------
(* Without a map_restart an overflow is a drop.                            *)

\* Nothing waits to be told to client_t c, and it is out of the game after an
\* overflow.
Quiet(c) == ~c.csUpdated /\ (c.overflowed => c.state <= CS_ZOMBIE)

\* Without restarts the systeminfo does not change within a level.
QuietInv == sv.systemInfo = sv.serverId /\ sv.serverId = sv.restartedServerId /\ Quiet(cl)

LEMMA StoreQuiet ==
  ASSUME NEW c \in ClientT, NEW cmd \in Command
  PROVE  LET d == Store(c, cmd)
         IN  /\ d \in ClientT /\ d.state = c.state /\ d.overflowed = c.overflowed
             /\ d.csUpdated = c.csUpdated
<1> DEFINE d == Store(c, cmd)
<1>1. d.state = c.state /\ d.overflowed = c.overflowed /\ d \in ClientT
  BY StoreFields
<1>2. d.csUpdated = c.csUpdated
  BY Zenon DEF Store, ClientT
<1> QED
  BY <1>1, <1>2

\* c after a drop.
LEMMA ZombieQuiet ==
  ASSUME NEW c \in ClientT, ~c.csUpdated
  PROVE  LET d == [c EXCEPT !.state = CS_ZOMBIE, !.dropCalls = @ + 1]
         IN  d \in ClientT /\ Quiet(d) /\ d.state = CS_ZOMBIE
<1> DEFINE d == [c EXCEPT !.state = CS_ZOMBIE, !.dropCalls = @ + 1]
<1>1. c.dropCalls + 1 \in Nat /\ CS_ZOMBIE \in CS_FREE..CS_ACTIVE
  BY DEF ClientT, CS_ZOMBIE, CS_FREE, CS_ACTIVE
<1>2. d \in ClientT /\ d.state = CS_ZOMBIE /\ d.csUpdated = c.csUpdated
  BY <1>1, Zenon DEF ClientT
<1> HIDE DEF d
<1>3. d.state <= CS_ZOMBIE
  BY <1>2 DEF CS_ZOMBIE
<1>4. Quiet(d)
  BY <1>2, <1>3, Zenon DEF Quiet
<1> QED
  BY <1>2, <1>4 DEF d

LEMMA DropOverflowedQuiet ==
  ASSUME NEW c \in ClientT, ~c.csUpdated
  PROVE  DropOverflowed(c) \in ClientT /\ Quiet(DropOverflowed(c))
<1> DEFINE d == Store(c, Plain("print"))
           e == Store(d, Plain("disconnect"))
<1>1. Plain("print") \in Command /\ Plain("disconnect") \in Command
  BY DEF Plain, Command, Kinds
<1>2. d \in ClientT /\ d.csUpdated = c.csUpdated
  BY <1>1, StoreQuiet
<1>3. e \in ClientT /\ e.csUpdated = d.csUpdated
  <2> HIDE DEF d
  <2> QED
    BY <1>1, <1>2, StoreQuiet
<1> HIDE DEF d, e
<1>4. ~e.csUpdated
  BY <1>2, <1>3, Zenon
<1> QED
  BY <1>3, <1>4, ZombieQuiet DEF DropOverflowed, d, e

LEMMA AddQuiet ==
  ASSUME NEW c \in ClientT, NEW cmd \in Command, Quiet(c)
  PROVE  SV_AddServerCommand(c, cmd) \in ClientT /\ Quiet(SV_AddServerCommand(c, cmd))
<1>1. CASE c.state < CS_PRIMED
  BY <1>1 DEF SV_AddServerCommand
<1>2. CASE ~(c.state < CS_PRIMED) /\ Pending(c) = M
  <2> DEFINE d == [c EXCEPT !.issued = Append(@, cmd), !.overflowed = TRUE]
  <2>1. Append(c.issued, cmd) \in Seq(Command)
    BY AppendProperties DEF ClientT
  <2>2. d \in ClientT /\ d.csUpdated = c.csUpdated
    BY <2>1, Zenon DEF ClientT
  <2>3. SV_AddServerCommand(c, cmd) = DropOverflowed(d)
    BY <1>2, Zenon DEF SV_AddServerCommand, Overflow
  <2> HIDE DEF d
  <2>4. ~d.csUpdated
    BY <2>2, Zenon DEF Quiet
  <2> QED
    BY <2>2, <2>3, <2>4, DropOverflowedQuiet
<1>3. CASE ~(c.state < CS_PRIMED) /\ Pending(c) # M
  <2> DEFINE d == Store(c, cmd)
  <2>1. SV_AddServerCommand(c, cmd) = d
    BY <1>3, Zenon DEF SV_AddServerCommand
  <2>2. d \in ClientT /\ d.state = c.state /\ d.overflowed = c.overflowed
        /\ d.csUpdated = c.csUpdated
    BY StoreQuiet
  <2> HIDE DEF d
  <2> QED
    BY <2>1, <2>2, Zenon DEF Quiet
<1> QED
  BY <1>1, <1>2, <1>3, Zenon

LEMMA DropQuiet ==
  ASSUME NEW c \in ClientT, Quiet(c)
  PROVE  /\ SV_DropClient(c) \in ClientT /\ Quiet(SV_DropClient(c))
         /\ SV_DropClient(c).state = CS_ZOMBIE
<1> DEFINE d == SV_AddServerCommand(c, Plain("print"))
           e == SV_AddServerCommand(d, Plain("disconnect"))
<1>1. Plain("print") \in Command /\ Plain("disconnect") \in Command
  BY DEF Plain, Command, Kinds
<1>2. d \in ClientT /\ Quiet(d)
  BY <1>1, AddQuiet
<1>3. e \in ClientT /\ Quiet(e)
  <2> HIDE DEF d
  <2> QED
    BY <1>1, <1>2, AddQuiet
<1>4. CASE c.state = CS_ZOMBIE
  BY <1>4 DEF SV_DropClient
<1>5. CASE c.state # CS_ZOMBIE
  <2>1. SV_DropClient(c) = [e EXCEPT !.state = CS_ZOMBIE, !.dropCalls = @ + 1]
    BY <1>5, Zenon DEF SV_DropClient
  <2> HIDE DEF d, e
  <2>2. ~e.csUpdated
    BY <1>3, Zenon DEF Quiet
  <2> QED
    BY <1>3, <2>1, <2>2, ZombieQuiet
<1> QED
  BY <1>4, <1>5

LEMMA InitQuiet == Init => QuietInv
<1> SUFFICES ASSUME Init PROVE QuietInv
  OBVIOUS
<1>1. sv.serverId = 1 /\ sv.restartedServerId = 1 /\ sv.systemInfo = 1
  BY DEF Init
<1>2. cl.csUpdated = FALSE /\ cl.overflowed = FALSE
  BY Zenon DEF Init
<1>3. Quiet(cl)
  BY <1>2, Zenon DEF Quiet
<1> QED
  BY <1>1, <1>3 DEF QuietInv

\* A client that is connected was not given up.
LEMMA ConnectedQuiet ==
  ASSUME NEW c \in ClientT, Quiet(c), c.state > CS_ZOMBIE
  PROVE  ~c.overflowed
<1>1. ~(c.state <= CS_ZOMBIE)
  BY DEF ClientT, CS_ZOMBIE, CS_FREE, CS_ACTIVE
<1> QED
  BY <1>1, Zenon DEF Quiet

\* What the server does but for reading a packet.
LEMMA ServerQuiet ==
  ASSUME MaxRestarts = 0, SessionInv, QuietInv,
         \/ SV_SendServerCommand \/ SV_SpawnServer \/ SV_MapRestart_f
         \/ UpdateSystemInfo \/ SV_SendClientSnapshot \/ DropClient \/ SV_CheckTimeouts
  PROVE  QuietInv'
<1>1. cl \in ClientT /\ sv \in SvState
  BY DEF SessionInv, TypeOK
<1>2. sv.serverId = sv.restartedServerId /\ sv.systemInfo = sv.serverId /\ Quiet(cl)
  BY DEF QuietInv
<1>3. ASSUME Quiet(cl'), UNCHANGED sv PROVE QuietInv'
  BY <1>2, <1>3, Zenon DEF QuietInv
<1>4. CASE SV_SendServerCommand
  <2>1. Plain("game") \in Command
    BY DEF Plain, Command, Kinds
  <2> QED
    BY <1>1, <1>2, <1>3, <1>4, <2>1, AddQuiet DEF SV_SendServerCommand
<1>5. CASE SV_SpawnServer
  <2> DEFINE d == [cl EXCEPT !.state = CS_CONNECTED, !.dropCalls = 0]
  <2>1. sv'.serverId = sv'.restartedServerId /\ sv'.systemInfo = sv'.serverId
    BY <1>5 DEF SV_SpawnServer
  <2>2. CASE cl.state < CS_CONNECTED
    BY <1>2, <1>5, <2>1, <2>2 DEF SV_SpawnServer, QuietInv
  <2>3. CASE ~(cl.state < CS_CONNECTED)
    <3>1. cl' = d
      BY <1>5, <2>3 DEF SV_SpawnServer
    <3>2. d.csUpdated = cl.csUpdated /\ d.overflowed = cl.overflowed
      BY <1>1, Zenon DEF ClientT
    <3>3. cl.state > CS_ZOMBIE
      BY <1>1, <2>3 DEF ClientT, CS_CONNECTED, CS_ZOMBIE, CS_FREE, CS_ACTIVE
    <3>4. ~cl.overflowed
      BY <1>1, <1>2, <3>3, ConnectedQuiet
    <3> HIDE DEF d
    <3>5. Quiet(cl')
      BY <1>2, <3>1, <3>2, <3>4, Zenon DEF Quiet
    <3> QED
      BY <2>1, <3>5, Zenon DEF QuietInv
  <2> QED
    BY <2>2, <2>3
<1>6. CASE SV_MapRestart_f
  <2>1. sv.serverId - sv.restartedServerId < 0
    BY <1>6 DEF SV_MapRestart_f
  <2> QED
    BY <1>1, <1>2, <2>1 DEF SvState
<1>7. CASE UpdateSystemInfo
  BY <1>2, <1>7, Zenon DEF UpdateSystemInfo
<1>8. CASE SV_SendClientSnapshot
  BY <1>2, <1>3, <1>8 DEF SV_SendClientSnapshot
<1>9. CASE DropClient
  BY <1>1, <1>2, <1>3, <1>9, DropQuiet DEF DropClient
<1>10. CASE SV_CheckTimeouts
  <2> DEFINE d == SV_DropClient(cl)
             e == [d EXCEPT !.state = CS_FREE]
  <2>1. d \in ClientT /\ Quiet(d)
    BY <1>1, <1>2, DropQuiet
  <2>2. cl' = e /\ UNCHANGED sv
    BY <1>10 DEF SV_CheckTimeouts
  <2> HIDE DEF d
  <2>3. e.state = CS_FREE /\ e.csUpdated = d.csUpdated
    BY <2>1, Zenon DEF ClientT
  <2> HIDE DEF e
  <2>4. cl'.state <= CS_ZOMBIE
    BY <2>2, <2>3 DEF CS_FREE, CS_ZOMBIE
  <2>5. Quiet(cl')
    BY <2>1, <2>2, <2>3, <2>4, Zenon DEF Quiet
  <2> QED
    BY <1>3, <2>2, <2>5
<1> QED
  BY <1>4, <1>5, <1>6, <1>7, <1>8, <1>9, <1>10

\* Reading a packet.
LEMMA PacketQuiet ==
  ASSUME SessionInv, QuietInv, SV_PacketEvent
  PROVE  QuietInv'
<1> DEFINE a == Head(toServer).serverCommandSequence
           acked == [cl EXCEPT !.reliableAcknowledge = a]
           all == [cl EXCEPT !.reliableAcknowledge = reliableSequence(cl)]
<1>1. cl \in ClientT /\ UNCHANGED sv /\ QuietInv
  BY DEF SessionInv, TypeOK, SV_PacketEvent
<1>2. /\ acked.csUpdated = cl.csUpdated /\ acked.overflowed = cl.overflowed
      /\ acked.state = cl.state
      /\ all.csUpdated = cl.csUpdated /\ all.overflowed = cl.overflowed /\ all.state = cl.state
      /\ [acked EXCEPT !.state = CS_ACTIVE].csUpdated = cl.csUpdated
      /\ [acked EXCEPT !.state = CS_ACTIVE].overflowed = cl.overflowed
      /\ [acked EXCEPT !.state = CS_PRIMED].csUpdated = cl.csUpdated
      /\ [acked EXCEPT !.state = CS_PRIMED].overflowed = cl.overflowed
  BY <1>1, Zenon DEF ClientT
<1>3. \/ cl' = cl
      \/ cl' \in {acked, all}
      \/ /\ cl.state > CS_ZOMBIE
         /\ \/ cl' = SV_ClientEnterWorld(acked)
            \/ cl' = [acked EXCEPT !.state = CS_PRIMED]
  BY Zenon DEF SV_PacketEvent, SV_ExecuteClientMessage, WrongServerId, SV_SendClientGameState
<1> HIDE DEF acked, all, a
<1>4. Quiet(cl)
  BY DEF QuietInv
<1>5. CASE cl' \in {cl, acked, all}
  <2>1. Quiet(acked) /\ Quiet(all)
    BY <1>2, <1>4, Zenon DEF Quiet
  <2>2. Quiet(cl')
    BY <1>4, <1>5, <2>1
  <2> QED
    BY <1>1, <2>2, Zenon DEF QuietInv
<1>6. CASE /\ cl.state > CS_ZOMBIE
           /\ \/ cl' = SV_ClientEnterWorld(acked)
              \/ cl' = [acked EXCEPT !.state = CS_PRIMED]
  <2>1. ~cl.overflowed /\ ~cl.csUpdated
    BY <1>1, <1>4, <1>6, ConnectedQuiet, Zenon DEF Quiet
  <2>2. SV_ClientEnterWorld(acked) = [acked EXCEPT !.state = CS_ACTIVE]
    BY <1>2, <2>1, Zenon DEF SV_ClientEnterWorld
  <2>3. cl'.csUpdated = cl.csUpdated /\ cl'.overflowed = cl.overflowed
    BY <1>2, <1>6, <2>2, Zenon
  <2>4. Quiet(cl')
    BY <2>1, <2>3, Zenon DEF Quiet
  <2> QED
    BY <1>1, <2>4, Zenon DEF QuietInv
<1> QED
  BY <1>3, <1>5, <1>6

LEMMA QuietStep ==
  ASSUME MaxRestarts = 0
  PROVE  SessionInv /\ QuietInv /\ [Next]_vars => QuietInv'
<1> SUFFICES ASSUME SessionInv, QuietInv, [Next]_vars PROVE QuietInv'
  OBVIOUS
<1>1. CASE Server
  BY <1>1, ServerQuiet, PacketQuiet DEF Server
<1>2. CASE Client \/ Lose \/ UNCHANGED vars
  <2>1. UNCHANGED <<sv, cl>>
    BY <1>2 DEF Client, CL_WritePacket, CL_ParseServerMessage, CG_SetInitialSnapshot,
                CG_SetNextSnap, CG_TransitionSnapshot, CL_Disconnect, Lose, vars
  <2> QED
    BY <2>1, Zenon DEF QuietInv
<1> QED
  BY <1>1, <1>2 DEF Next

\* While no level is restarted, a client whose ring overflowed is out of the
\* game for good, whatever the game still sends it.
THEOREM SessionOverflowDrops ==
  ASSUME MaxRestarts = 0
  PROVE  Spec => []OverflowDrops
<1>1. QuietInv => OverflowDrops
  BY Zenon DEF QuietInv, Quiet, OverflowDrops
<1>2. SessionInv /\ QuietInv /\ [Next]_vars => QuietInv'
  BY QuietStep
<1> QED
  BY <1>1, <1>2, InitQuiet, SessionInvariant, PTL DEF Spec

-----------------------------------------------------------------------------
(* Levels and restarts: what the server tells the client of serverIds.     *)

\* d is c after commands that name no serverId above id, or after a drop.
Tells(c, d, id) ==
  /\ d \in ClientT /\ d.unheard = c.unheard /\ d.state \in {c.state, CS_ZOMBIE}
  /\ Issues(c, id) => Issues(d, id)

LEMMA TellsTransitive ==
  ASSUME NEW c, NEW d, NEW e, NEW id, Tells(c, d, id), Tells(d, e, id)
  PROVE  Tells(c, e, id)
BY DEF Tells

LEMMA AppendIssues ==
  ASSUME NEW q \in Seq(Command), NEW cmd \in Command, NEW id, cmd.serverId <= id,
         \A n \in DOMAIN q : q[n].serverId <= id
  PROVE  \A n \in DOMAIN Append(q, cmd) : Append(q, cmd)[n].serverId <= id
<1>1. /\ Len(q) \in Nat /\ DOMAIN q = 1..Len(q)
      /\ DOMAIN Append(q, cmd) = 1..Len(q) + 1
      /\ \A n \in 1..Len(q) : Append(q, cmd)[n] = q[n]
      /\ Append(q, cmd)[Len(q) + 1] = cmd
  BY AppendProperties, LenProperties
<1> QED
  BY <1>1

\* A command that names no later serverId is added, stored or not.
LEMMA AppendTells ==
  ASSUME NEW c \in ClientT, NEW cmd \in Command, NEW id \in Nat, cmd.serverId <= id,
         NEW d \in ClientT, d.issued = Append(c.issued, cmd), d.state = c.state,
         d.unheard = c.unheard
  PROVE  Tells(c, d, id)
<1>1. c.issued \in Seq(Command)
  BY DEF ClientT
<1>2. Issues(c, id) => Issues(d, id)
  BY <1>1, AppendIssues DEF Issues
<1> QED
  BY <1>2 DEF Tells

LEMMA StoreTells ==
  ASSUME NEW c \in ClientT, NEW cmd \in Command, NEW id \in Nat, cmd.serverId <= id
  PROVE  Tells(c, Store(c, cmd), id)
<1> DEFINE d == Store(c, cmd)
<1>1. d.issued = Append(c.issued, cmd) /\ d.state = c.state /\ d \in ClientT
  BY StoreFields
<1>2. d.unheard = c.unheard
  BY Zenon DEF Store, ClientT
<1> HIDE DEF d
<1>3. Tells(c, d, id)
  BY <1>1, <1>2, AppendTells
<1> QED
  BY <1>3 DEF d

\* The last step of a drop.
LEMMA ZombieTells ==
  ASSUME NEW c \in ClientT, NEW id \in Nat
  PROVE  LET d == [c EXCEPT !.state = CS_ZOMBIE, !.dropCalls = @ + 1]
         IN  Tells(c, d, id) /\ d.state = CS_ZOMBIE
<1> DEFINE d == [c EXCEPT !.state = CS_ZOMBIE, !.dropCalls = @ + 1]
<1>1. c.dropCalls + 1 \in Nat /\ CS_ZOMBIE \in CS_FREE..CS_ACTIVE
  BY DEF ClientT, CS_ZOMBIE, CS_FREE, CS_ACTIVE
<1>2. /\ d \in ClientT /\ d.state = CS_ZOMBIE /\ d.unheard = c.unheard
      /\ d.issued = c.issued
  BY <1>1, Zenon DEF ClientT
<1> HIDE DEF d
<1>3. Tells(c, d, id)
  BY <1>2 DEF Tells, Issues
<1> QED
  BY <1>2, <1>3 DEF d

\* What the server says to a client it drops names no serverId.
LEMMA PlainCommands ==
  ASSUME NEW k \in Kinds, NEW id \in Nat
  PROVE  Plain(k) \in Command /\ Plain(k).serverId <= id
BY DEF Plain, Command

LEMMA DropOverflowedTells ==
  ASSUME NEW c \in ClientT, NEW id \in Nat
  PROVE  Tells(c, DropOverflowed(c), id)
<1> DEFINE d == Store(c, Plain("print"))
           e == Store(d, Plain("disconnect"))
<1>1. "print" \in Kinds /\ "disconnect" \in Kinds
  BY DEF Kinds
<1>2. Tells(c, d, id)
  BY <1>1, PlainCommands, StoreTells
<1>3. Tells(d, e, id)
  <2>1. d \in ClientT
    BY <1>2 DEF Tells
  <2> HIDE DEF d
  <2> QED
    BY <1>1, <2>1, PlainCommands, StoreTells
<1> HIDE DEF d, e
<1>4. Tells(e, DropOverflowed(c), id)
  <2>1. e \in ClientT
    BY <1>3 DEF Tells
  <2> QED
    BY <2>1, ZombieTells DEF DropOverflowed, d, e
<1> QED
  BY <1>2, <1>3, <1>4, TellsTransitive

LEMMA AddTells ==
  ASSUME NEW c \in ClientT, NEW cmd \in Command, NEW id \in Nat, cmd.serverId <= id
  PROVE  Tells(c, SV_AddServerCommand(c, cmd), id)
<1>1. CASE c.state < CS_PRIMED
  BY <1>1 DEF SV_AddServerCommand, Tells
<1>2. CASE ~(c.state < CS_PRIMED) /\ Pending(c) = M
  <2> DEFINE d == [c EXCEPT !.issued = Append(@, cmd), !.overflowed = TRUE]
  <2>1. Append(c.issued, cmd) \in Seq(Command)
    BY AppendProperties DEF ClientT
  <2>2. /\ d \in ClientT /\ d.issued = Append(c.issued, cmd)
        /\ d.state = c.state /\ d.unheard = c.unheard
    BY <2>1, Zenon DEF ClientT
  <2>3. SV_AddServerCommand(c, cmd) = DropOverflowed(d)
    BY <1>2, Zenon DEF SV_AddServerCommand, Overflow
  <2> HIDE DEF d
  <2>4. Tells(c, d, id)
    BY <2>2, AppendTells
  <2>5. Tells(d, DropOverflowed(d), id)
    BY <2>2, DropOverflowedTells
  <2> QED
    BY <2>3, <2>4, <2>5, TellsTransitive
<1>3. CASE ~(c.state < CS_PRIMED) /\ Pending(c) # M
  BY <1>3, StoreTells DEF SV_AddServerCommand
<1> QED
  BY <1>1, <1>2, <1>3, Zenon

LEMMA DropTells ==
  ASSUME NEW c \in ClientT, NEW id \in Nat
  PROVE  Tells(c, SV_DropClient(c), id) /\ SV_DropClient(c).state = CS_ZOMBIE
<1> DEFINE d == SV_AddServerCommand(c, Plain("print"))
           e == SV_AddServerCommand(d, Plain("disconnect"))
<1>1. "print" \in Kinds /\ "disconnect" \in Kinds
  BY DEF Kinds
<1>2. Tells(c, d, id)
  BY <1>1, PlainCommands, AddTells
<1>3. Tells(d, e, id)
  <2>1. d \in ClientT
    BY <1>2 DEF Tells
  <2> HIDE DEF d
  <2> QED
    BY <1>1, <2>1, PlainCommands, AddTells
<1>4. CASE c.state = CS_ZOMBIE
  BY <1>4 DEF SV_DropClient, Tells
<1>5. CASE c.state # CS_ZOMBIE
  <2>1. SV_DropClient(c) = [e EXCEPT !.state = CS_ZOMBIE, !.dropCalls = @ + 1]
    BY <1>5, Zenon DEF SV_DropClient
  <2> HIDE DEF d, e
  <2>2. e \in ClientT
    BY <1>3 DEF Tells
  <2>3. Tells(e, SV_DropClient(c), id) /\ SV_DropClient(c).state = CS_ZOMBIE
    BY <2>1, <2>2, ZombieTells
  <2> QED
    BY <1>2, <1>3, <2>3, TellsTransitive
<1> QED
  BY <1>4, <1>5

\* Who enters the world may be told the systeminfo.
LEMMA EnterTells ==
  ASSUME sv \in SvState, NEW c \in ClientT, NEW id \in Nat, sv.systemInfo <= id,
         Issues(c, id)
  PROVE  LET d == SV_ClientEnterWorld(c)
         IN  d \in ClientT /\ d.unheard = c.unheard /\ Issues(d, id)
<1> DEFINE d == [c EXCEPT !.state = CS_ACTIVE]
           cmd == [kind |-> "cs", serverId |-> sv.systemInfo]
           e == SV_AddServerCommand(d, cmd)
           f == [e EXCEPT !.csUpdated = FALSE]
<1>1. d \in ClientT /\ d.unheard = c.unheard /\ d.issued = c.issued
  <2>1. CS_ACTIVE \in CS_FREE..CS_ACTIVE
    BY DEF CS_FREE, CS_ACTIVE
  <2> QED
    BY <2>1, Zenon DEF ClientT
<1>2. cmd \in Command /\ cmd.serverId <= id
  BY DEF Command, Kinds, SvState
<1>3. SV_ClientEnterWorld(c) \in {d, f}
  BY Zenon DEF SV_ClientEnterWorld
<1> HIDE DEF d, cmd
<1>4. Issues(d, id)
  BY <1>1 DEF Issues
<1>5. Tells(d, e, id)
  BY <1>1, <1>2, AddTells
<1> HIDE DEF e
<1>6. e \in ClientT /\ e.unheard = d.unheard /\ Issues(e, id)
  BY <1>4, <1>5, Zenon DEF Tells
<1>7. f \in ClientT /\ f.unheard = e.unheard /\ f.issued = e.issued
  BY <1>6, Zenon DEF ClientT
<1> HIDE DEF f
<1>8. Issues(f, id)
  BY <1>6, <1>7 DEF Issues
<1> QED
  BY <1>1, <1>3, <1>4, <1>6, <1>7, <1>8

LEMMA IssuesMore ==
  ASSUME NEW c \in ClientT, NEW id \in Int, NEW more \in Int, id <= more, Issues(c, id)
  PROVE  Issues(c, more)
<1>1. c.issued \in Seq(Command)
  BY DEF ClientT
<1>2. \A n \in DOMAIN c.issued : c.issued[n] \in Command
  BY <1>1, ElementOfSeq, LenProperties
<1> QED
  BY <1>2 DEF Issues, Command

-----------------------------------------------------------------------------
(* Levels and restarts: what is under way.                                 *)

LEMMA GameStatesPart ==
  ASSUME NEW v, NEW k, NEW q, GameStatesOK(v, k, q),
         NEW part, NEW f \in [DOMAIN part -> DOMAIN q],
         \A i, j \in DOMAIN part : i <= j => f[i] <= f[j],
         \A i \in DOMAIN part : /\ part[i].gamestate = q[f[i]].gamestate
                                /\ part[i].serverId = q[f[i]].serverId
                                /\ part[i].level = q[f[i]].level
  PROVE  GameStatesOK(v, k, part)
<1>1. ASSUME NEW i \in DOMAIN part PROVE f[i] \in DOMAIN q
  OBVIOUS
<1>2. ASSUME NEW i \in DOMAIN part PROVE GameStateOK(v, k, part[i])
  BY <1>1, Zenon DEF GameStatesOK, GameStateOK
<1>3. ASSUME NEW i \in DOMAIN part, NEW j \in DOMAIN part, i <= j,
             part[i].gamestate, part[j].gamestate
      PROVE  part[i].level <= part[j].level
  BY <1>1, <1>3, Zenon DEF GameStatesOK
<1> QED
  BY <1>2, <1>3, Zenon DEF GameStatesOK

LEMMA PacketsPart ==
  ASSUME NEW v, NEW c, NEW k, NEW q, PacketsOK(v, c, k, q),
         NEW part, NEW f \in [DOMAIN part -> DOMAIN q],
         \A i \in DOMAIN part : /\ part[i].serverId = q[f[i]].serverId
                                /\ part[i].level = q[f[i]].level
  PROVE  PacketsOK(v, c, k, part)
BY DEF PacketsOK

LEMMA TailLevels ==
  ASSUME NEW v, NEW c, NEW k, NEW S, NEW q \in Seq(S), q # <<>>
  PROVE  /\ GameStatesOK(v, k, q) => GameStatesOK(v, k, Tail(q))
         /\ PacketsOK(v, c, k, q) => PacketsOK(v, c, k, Tail(q))
<1> DEFINE part == Tail(q)
           f == [i \in DOMAIN part |-> i + 1]
<1>1. /\ f \in [DOMAIN part -> DOMAIN q]
      /\ \A i, j \in DOMAIN part : i <= j => f[i] <= f[j]
      /\ \A i \in DOMAIN part : part[i] = q[f[i]]
  BY TailElement
<1> HIDE DEF part, f
<1>2. GameStatesOK(v, k, q) => GameStatesOK(v, k, part)
  BY <1>1, GameStatesPart
<1>3. PacketsOK(v, c, k, q) => PacketsOK(v, c, k, part)
  BY <1>1, PacketsPart
<1> QED
  BY <1>2, <1>3 DEF part

LEMMA LoseLevels ==
  ASSUME NEW v, NEW c, NEW k, NEW S, NEW q \in Seq(S), NEW n \in DOMAIN q
  PROVE  /\ GameStatesOK(v, k, q) => GameStatesOK(v, k, LoseFrom(q, n))
         /\ PacketsOK(v, c, k, q) => PacketsOK(v, c, k, LoseFrom(q, n))
<1> DEFINE part == LoseFrom(q, n)
           f == [i \in DOMAIN part |-> IF i < n THEN i ELSE i + 1]
<1>1. /\ f \in [DOMAIN part -> DOMAIN q]
      /\ \A i, j \in DOMAIN part : i <= j => f[i] <= f[j]
      /\ \A i \in DOMAIN part : part[i] = q[f[i]]
  BY LoseElement
<1> HIDE DEF part, f
<1>2. GameStatesOK(v, k, q) => GameStatesOK(v, k, part)
  BY <1>1, GameStatesPart
<1>3. PacketsOK(v, c, k, q) => PacketsOK(v, c, k, part)
  BY <1>1, PacketsPart
<1> QED
  BY <1>2, <1>3 DEF part

LEMMA ForgetGameStates ==
  ASSUME NEW v, NEW k, NEW q \in Seq(Message), GameStatesOK(v, k, q)
  PROVE  GameStatesOK(v, k, ForgetLater(q))
<1> DEFINE part == ForgetLater(q)
           f == [i \in DOMAIN part |-> i]
<1>1. DOMAIN part = DOMAIN q /\ DOMAIN q \subseteq Int
      /\ \A i \in DOMAIN q : part[i] = [q[i] EXCEPT !.later = FALSE] /\ q[i] \in Message
  BY LenProperties, ElementOfSeq DEF ForgetLater
<1>2. f \in [DOMAIN part -> DOMAIN q] /\ \A i, j \in DOMAIN part : i <= j => f[i] <= f[j]
  BY <1>1
<1>3. ASSUME NEW i \in DOMAIN part
      PROVE  /\ part[i].gamestate = q[f[i]].gamestate
             /\ part[i].serverId = q[f[i]].serverId /\ part[i].level = q[f[i]].level
  <2>1. part[i] = [q[i] EXCEPT !.later = FALSE] /\ q[i] \in Message /\ f[i] = i
    BY <1>1
  <2> HIDE DEF part, f
  <2> QED
    BY <2>1, Zenon DEF Message
<1> HIDE DEF part, f
<1>4. GameStatesOK(v, k, part)
  BY <1>2, <1>3, GameStatesPart
<1> QED
  BY <1>4 DEF part

LEMMA ForgetPackets ==
  ASSUME NEW v, NEW c, NEW k, NEW q \in Seq(Packet), PacketsOK(v, c, k, q)
  PROVE  PacketsOK(v, c, k, ForgetLater(q))
<1> DEFINE part == ForgetLater(q)
           f == [i \in DOMAIN part |-> i]
<1>1. DOMAIN part = DOMAIN q
      /\ \A i \in DOMAIN q : part[i] = [q[i] EXCEPT !.later = FALSE] /\ q[i] \in Packet
  BY LenProperties, ElementOfSeq DEF ForgetLater
<1>2. f \in [DOMAIN part -> DOMAIN q]
  BY <1>1
<1>3. ASSUME NEW i \in DOMAIN part
      PROVE  part[i].serverId = q[f[i]].serverId /\ part[i].level = q[f[i]].level
  <2>1. part[i] = [q[i] EXCEPT !.later = FALSE] /\ q[i] \in Packet /\ f[i] = i
    BY <1>1
  <2> HIDE DEF part, f
  <2> QED
    BY <2>1, Zenon DEF Packet
<1> HIDE DEF part, f
<1>4. PacketsOK(v, c, k, part)
  BY <1>2, <1>3, PacketsPart
<1> QED
  BY <1>4 DEF part

\* A gamestate sent names the level of v, and all before it no later one.
LEMMA SendGameStates ==
  ASSUME NEW v, NEW k, NEW q \in Seq(Message), GameStatesOK(v, k, q),
         NEW m \in Message, GameStateOK(v, k, m), m.gamestate => m.level = v.restartedServerId
  PROVE  GameStatesOK(v, k, Send(q, m))
<1>1. ASSUME NEW r \in Seq(Message), GameStatesOK(v, k, r) PROVE GameStatesOK(v, k, Append(r, m))
  <2> DEFINE t == Append(r, m)
  <2>1. /\ Len(r) \in Nat /\ DOMAIN r = 1..Len(r)
        /\ DOMAIN t = 1..Len(r) + 1
        /\ \A n \in 1..Len(r) : t[n] = r[n]
        /\ t[Len(r) + 1] = m
    BY AppendProperties, LenProperties
  <2> HIDE DEF t
  <2>2. ASSUME NEW i \in DOMAIN t PROVE GameStateOK(v, k, t[i])
    <3>1. i \in DOMAIN r \/ t[i] = m
      BY <2>1
    <3> QED
      BY <1>1, <2>1, <3>1, Zenon DEF GameStatesOK
  <2>3. ASSUME NEW i \in DOMAIN t, NEW j \in DOMAIN t, i <= j, t[i].gamestate, t[j].gamestate
        PROVE  t[i].level <= t[j].level
    <3>1. CASE j = Len(r) + 1
      <4>1. t[j].level = v.restartedServerId
        BY <2>1, <2>3, <3>1
      <4>2. t[i].level <= v.restartedServerId
        BY <2>2, Zenon DEF GameStateOK
      <4> QED
        BY <4>1, <4>2
    <3>2. CASE j # Len(r) + 1
      <4>1. i \in DOMAIN r /\ j \in DOMAIN r /\ t[i] = r[i] /\ t[j] = r[j]
        BY <2>1, <2>3, <3>2
      <4> QED
        BY <1>1, <2>3, <4>1, Zenon DEF GameStatesOK
    <3> QED
      BY <3>1, <3>2
  <2> QED
    BY <2>2, <2>3, Zenon DEF GameStatesOK, t
<1>2. CASE Len(q) < Capacity
  BY <1>1, <1>2 DEF Send
<1>3. CASE ~(Len(q) < Capacity)
  <2>1. q # <<>>
    BY <1>3, EmptySeq, CapacityAssumption
  <2>2. GameStatesOK(v, k, Tail(q)) /\ Tail(q) \in Seq(Message)
    BY <2>1, TailLevels, TailElement
  <2> QED
    BY <1>1, <1>3, <2>2 DEF Send
<1> QED
  BY <1>2, <1>3

LEMMA SendPackets ==
  ASSUME NEW v, NEW c, NEW k, NEW q \in Seq(Packet), PacketsOK(v, c, k, q),
         NEW p \in Packet, PacketsOK(v, c, k, <<p>>)
  PROVE  PacketsOK(v, c, k, Send(q, p))
<1>1. ASSUME NEW r \in Seq(Packet), PacketsOK(v, c, k, r) PROVE PacketsOK(v, c, k, Append(r, p))
  <2>1. /\ Len(r) \in Nat /\ DOMAIN r = 1..Len(r)
        /\ DOMAIN Append(r, p) = 1..Len(r) + 1
        /\ \A n \in 1..Len(r) : Append(r, p)[n] = r[n]
        /\ Append(r, p)[Len(r) + 1] = p
    BY AppendProperties, LenProperties
  <2>2. 1 \in DOMAIN <<p>> /\ <<p>>[1] = p
    OBVIOUS
  <2> QED
    BY <1>1, <2>1, <2>2 DEF PacketsOK
<1>2. CASE Len(q) < Capacity
  BY <1>1, <1>2 DEF Send
<1>3. CASE ~(Len(q) < Capacity)
  <2>1. q # <<>>
    BY <1>3, EmptySeq, CapacityAssumption
  <2>2. PacketsOK(v, c, k, Tail(q)) /\ Tail(q) \in Seq(Packet)
    BY <2>1, TailLevels, TailElement
  <2> QED
    BY <1>1, <1>3, <2>2 DEF Send
<1> QED
  BY <1>2, <1>3

-----------------------------------------------------------------------------
(* Levels and restarts: the steps.                                         *)

\* d, which followed client_t c, is as far in the level of v as c was.
Follows(v, c, d, k) ==
  /\ d.unheard \in {c.unheard, v.restartedServerId}
  /\ d.unheard # v.restartedServerId =>
       InLevel(v, k) \/ (d.state # CS_ACTIVE /\ Issues(d, v.restartedServerId - 1))

\* The level goes on, whatever it is restarted, and so does the connection.
LEMMA LevelsKept ==
  ASSUME NEW v \in SvState, NEW w \in SvState, LevelOK(v), v.serverId <= w.serverId,
         w.restartedServerId = v.restartedServerId,
         NEW c \in ClientT, NEW d \in ClientT, NEW k \in ClientConnection,
         NEW l \in ClientConnection,
         l.state = k.state, l.serverId = k.serverId, l.level = k.level,
         NEW q \in Seq(Message), NEW r \in Seq(Packet),
         LevelsOK(v, c, k), GameStatesOK(v, k, q), PacketsOK(v, c, k, r),
         Follows(v, c, d, k), Issues(d, w.serverId)
  PROVE  LevelsOK(w, d, l) /\ GameStatesOK(w, l, q) /\ PacketsOK(w, d, l, r)
<1>1. /\ v.serverId \in Int /\ w.serverId \in Int /\ v.restartedServerId \in Int
      /\ k.serverId \in Int /\ c.unheard \in Int /\ d.unheard \in Int
      /\ InLevel(w, l) <=> InLevel(v, k)
      /\ Connected(l) <=> Connected(k)
  BY DEF SvState, ClientConnection, ClientT, InLevel, Connected
<1>2. LevelsOK(w, d, l)
  <2>1. d.unheard # w.restartedServerId => c.unheard # v.restartedServerId
    BY Zenon DEF Follows
  <2>2. d.unheard <= w.restartedServerId
    BY <1>1 DEF Follows, LevelsOK
  <2>3. l.serverId <= w.serverId /\ l.level <= w.restartedServerId
    BY <1>1 DEF LevelsOK
  <2>4. d.unheard # w.restartedServerId =>
          /\ l.serverId >= w.restartedServerId => InLevel(w, l)
          /\ InLevel(w, l) \/ (d.state # CS_ACTIVE /\ Issues(d, w.restartedServerId - 1))
    BY <1>1, <2>1, Zenon DEF Follows, LevelsOK
  <2> QED
    BY <2>2, <2>3, <2>4 DEF LevelsOK
<1>3. GameStatesOK(w, l, q)
  <2>1. ASSUME NEW i \in DOMAIN q PROVE GameStateOK(w, l, q[i])
    <3>1. q[i] \in Message /\ GameStateOK(v, k, q[i])
      BY ElementOfSeq, LenProperties DEF GameStatesOK
    <3>2. q[i].serverId \in Int
      BY <3>1 DEF Message
    <3> QED
      BY <1>1, <3>1, <3>2 DEF GameStateOK
  <2> QED
    BY <2>1, Zenon DEF GameStatesOK
<1>4. PacketsOK(w, d, l, r)
  <2>1. ASSUME NEW i \in DOMAIN r PROVE r[i].serverId \in Int
    <3>1. r[i] \in Packet
      BY ElementOfSeq, LenProperties
    <3> QED
      BY <3>1 DEF Packet
  <2>2. d.unheard # w.restartedServerId => c.unheard # v.restartedServerId
    BY Zenon DEF Follows
  <2> QED
    BY <1>1, <2>1, <2>2 DEF PacketsOK
<1> QED
  BY <1>2, <1>3, <1>4

\* What is said to a client, or its end, does not bring it nearer to the level.
LEMMA TellsFollows ==
  ASSUME NEW v \in SvState, LevelOK(v), NEW c \in ClientT, NEW k, NEW d, LevelsOK(v, c, k),
         \A id \in Nat : Tells(c, d, id)
  PROVE  Follows(v, c, d, k) /\ Issues(d, v.serverId)
<1>1. v.restartedServerId - 1 \in Nat /\ v.serverId \in Nat
  BY DEF SvState, LevelOK
<1>2. Tells(c, d, v.restartedServerId - 1) /\ Tells(c, d, v.serverId)
  BY <1>1
<1>3. d.state = CS_ACTIVE => c.state = CS_ACTIVE
  BY <1>2 DEF Tells, CS_ACTIVE, CS_ZOMBIE
<1>4. d.unheard = c.unheard /\ Issues(d, v.serverId)
  BY <1>2, Zenon DEF Tells, LevelsOK
<1>5. d.unheard # v.restartedServerId =>
        InLevel(v, k) \/ (d.state # CS_ACTIVE /\ Issues(d, v.restartedServerId - 1))
  BY <1>2, <1>3, <1>4, Zenon DEF Tells, LevelsOK
<1> QED
  BY <1>4, <1>5, Zenon DEF Follows

\* A client whose fields of interest are those of c.
LEMMA SameFollows ==
  ASSUME NEW v, NEW c, NEW d \in ClientT, NEW k, LevelsOK(v, c, k),
         d.issued = c.issued, d.unheard = c.unheard, d.state = CS_ACTIVE => c.state = CS_ACTIVE
  PROVE  Follows(v, c, d, k) /\ Issues(d, v.serverId)
BY Zenon DEF Follows, LevelsOK, Issues

\* The steps of the server in a level that goes on.
LEMMA LevelGoesOn ==
  ASSUME SessionInv, SessionInv', LevelInv,
         LevelOK(sv'), sv.serverId <= sv'.serverId,
         sv'.restartedServerId = sv.restartedServerId,
         clc'.state = clc.state, clc'.serverId = clc.serverId, clc'.level = clc.level,
         Follows(sv, cl, cl', clc), Issues(cl', sv'.serverId),
         GameStatesOK(sv, clc, toClient'), PacketsOK(sv, cl, clc, toServer')
  PROVE  LevelInv'
<1>1. /\ sv \in SvState /\ cl \in ClientT /\ clc \in ClientConnection
      /\ sv' \in SvState /\ cl' \in ClientT /\ clc' \in ClientConnection
      /\ toClient' \in Seq(Message) /\ toServer' \in Seq(Packet)
  BY DEF SessionInv, TypeOK
<1>2. LevelOK(sv) /\ LevelsOK(sv, cl, clc)
  BY DEF LevelInv
<1>3. /\ LevelsOK(sv', cl', clc') /\ GameStatesOK(sv', clc', toClient')
      /\ PacketsOK(sv', cl', clc', toServer')
  BY <1>1, <1>2, LevelsKept
<1> QED
  BY <1>3 DEF LevelInv

LEMMA InitLevel == Init => LevelInv
<1> SUFFICES ASSUME Init PROVE LevelInv
  OBVIOUS
<1>1. /\ sv.serverId = 1 /\ sv.restartedServerId = 1 /\ sv.systemInfo = 1
      /\ cl.issued = <<>> /\ cl.unheard = 0 /\ cl.state = CS_CONNECTED
      /\ toClient = <<>> /\ toServer = <<>>
  BY DEF Init
<1>2. clc.serverId = 0 /\ clc.level = 0
  BY DEF Init, NoConnection
<1>3. LevelOK(sv)
  BY <1>1 DEF LevelOK
<1>4. \A id : Issues(cl, id)
  BY <1>1 DEF Issues
<1>5. LevelsOK(sv, cl, clc)
  BY <1>1, <1>2, <1>4 DEF LevelsOK, CS_CONNECTED, CS_ACTIVE
<1>6. DOMAIN toClient = {} /\ DOMAIN toServer = {}
  BY <1>1
<1>7. GameStatesOK(sv, clc, toClient) /\ PacketsOK(sv, cl, clc, toServer)
  BY <1>6, Zenon DEF GameStatesOK, PacketsOK
<1> QED
  BY <1>3, <1>5, <1>7 DEF LevelInv

\* A new level has a serverId nobody can have heard of.
LEMMA SpawnLevel ==
  ASSUME SessionInv, SessionInv', LevelInv, SV_SpawnServer
  PROVE  LevelInv'
<1> DEFINE id == sv.serverId + 1
<1>1. /\ sv \in SvState /\ cl \in ClientT /\ clc \in ClientConnection
      /\ toClient \in Seq(Message) /\ toServer \in Seq(Packet)
  BY DEF SessionInv, TypeOK
<1>2. /\ sv'.serverId = id /\ sv'.restartedServerId = id /\ sv'.systemInfo = id
      /\ UNCHANGED <<clc, toClient, toServer>>
  BY DEF SV_SpawnServer
<1>3. LevelOK(sv) /\ LevelsOK(sv, cl, clc)
  BY DEF LevelInv
<1>4. /\ sv.serverId \in Nat /\ sv.restartedServerId \in Nat
      /\ sv.restartedServerId <= sv.serverId /\ 1 <= sv.restartedServerId
      /\ cl.unheard \in Nat /\ cl.unheard <= sv.restartedServerId
      /\ clc.serverId \in Nat /\ clc.serverId <= sv.serverId
      /\ clc.level \in Nat /\ clc.level <= sv.restartedServerId
  BY <1>1, <1>3, Zenon DEF SvState, LevelOK, LevelsOK, ClientT, ClientConnection
<1>5. /\ cl'.issued = cl.issued /\ cl'.unheard = cl.unheard /\ cl'.state # CS_ACTIVE
  <2> DEFINE d == [cl EXCEPT !.state = CS_CONNECTED, !.dropCalls = 0]
  <2>1. d.issued = cl.issued /\ d.unheard = cl.unheard /\ d.state = CS_CONNECTED
    BY <1>1, Zenon DEF ClientT
  <2>2. cl' \in {cl, d} /\ (cl' = cl => cl.state < CS_CONNECTED \/ cl = d)
    BY DEF SV_SpawnServer
  <2> HIDE DEF d
  <2> QED
    BY <2>1, <2>2 DEF CS_CONNECTED, CS_ACTIVE
<1>6. LevelOK(sv')
  BY <1>2, <1>4 DEF LevelOK
<1>7. LevelsOK(sv', cl', clc')
  <2>1. Issues(cl', sv.serverId)
    BY <1>3, <1>5, Zenon DEF LevelsOK, Issues
  <2>2. cl' \in ClientT
    BY DEF SessionInv, TypeOK
  <2>3. Issues(cl', id)
    BY <1>4, <2>1, <2>2, IssuesMore
  <2>4. id - 1 = sv.serverId
    BY <1>4
  <2> QED
    BY <1>2, <1>4, <1>5, <2>1, <2>3, <2>4 DEF LevelsOK
<1>8. GameStatesOK(sv', clc', toClient')
  <2>1. GameStatesOK(sv, clc, toClient)
    BY DEF LevelInv
  <2>2. ASSUME NEW i \in DOMAIN toClient PROVE GameStateOK(sv', clc, toClient[i])
    <3>1. toClient[i] \in Message
      BY <1>1, ElementOfSeq, LenProperties
    <3>2. toClient[i].serverId \in Nat /\ toClient[i].level \in Nat
      BY <3>1 DEF Message
    <3>3. GameStateOK(sv, clc, toClient[i])
      BY <2>1, Zenon DEF GameStatesOK
    <3> QED
      BY <1>2, <1>4, <3>2, <3>3 DEF GameStateOK
  <2> QED
    BY <1>2, <2>1, <2>2, Zenon DEF GameStatesOK
<1>9. PacketsOK(sv', cl', clc', toServer')
  <2>1. PacketsOK(sv, cl, clc, toServer)
    BY DEF LevelInv
  <2>2. ASSUME NEW i \in DOMAIN toServer
        PROVE  toServer[i].serverId \in Nat /\ toServer[i].level \in Nat
    <3>1. toServer[i] \in Packet
      BY <1>1, ElementOfSeq, LenProperties
    <3> QED
      BY <3>1 DEF Packet
  <2> QED
    BY <1>2, <1>4, <2>1, <2>2 DEF PacketsOK
<1> QED
  BY <1>6, <1>7, <1>8, <1>9 DEF LevelInv

\* After a restart either the client is in the level, or it is let in unheard of.
LEMMA RestartLevel ==
  ASSUME SessionInv, SessionInv', LevelInv, SV_MapRestart_f
  PROVE  LevelInv'
<1> DEFINE e == SV_AddServerCommand(cl, Plain("map_restart"))
           told == [e EXCEPT !.dropCalls = 0, !.unheard = Unheard(cl)]
<1>1. /\ sv \in SvState /\ sv' \in SvState /\ cl \in ClientT /\ cl' \in ClientT
  BY DEF SessionInv, TypeOK
<1>2. /\ sv'.serverId = sv.serverId + 1 /\ sv'.restartedServerId = sv.restartedServerId
      /\ sv'.systemInfo = sv.systemInfo /\ UNCHANGED <<clc, toClient, toServer>>
  BY <1>1, Zenon DEF SV_MapRestart_f, SvState
<1>3. LevelOK(sv) /\ LevelsOK(sv, cl, clc)
  BY DEF LevelInv
<1>4. /\ sv.serverId \in Nat /\ sv.systemInfo \in Nat /\ sv.restartedServerId \in Nat
      /\ sv.systemInfo <= sv.serverId + 1
  BY <1>1, <1>3 DEF SvState, LevelOK
<1>5. LevelOK(sv')
  BY <1>2, <1>3, <1>4 DEF LevelOK
<1>6. Follows(sv, cl, cl', clc) /\ Issues(cl', sv'.serverId)
  <2>1. Issues(cl, sv'.serverId)
    BY <1>1, <1>2, <1>3, <1>4, IssuesMore DEF LevelsOK
  <2>2. CASE cl.state < CS_CONNECTED
    <3>1. cl' = cl
      BY <2>2, Zenon DEF SV_MapRestart_f
    <3> QED
      BY <1>1, <1>3, <2>1, <3>1, SameFollows, Zenon
  <2>3. CASE ~(cl.state < CS_CONNECTED)
    <3>1. cl' \in {SV_ClientEnterWorld(told), SV_DropClient(told)}
      BY <2>3, Zenon DEF SV_MapRestart_f
    <3>2. Tells(cl, e, sv'.serverId)
      <4>1. "map_restart" \in Kinds
        BY DEF Kinds
      <4> QED
        BY <1>1, <1>2, <1>4, <4>1, PlainCommands, AddTells
    <3> HIDE DEF e
    <3>3. Unheard(cl) \in Nat /\ Unheard(cl) \in {cl.unheard, sv.restartedServerId}
      BY <1>1, <1>4, Zenon DEF Unheard, ClientT
    <3>4. told \in ClientT /\ told.unheard = Unheard(cl) /\ told.issued = e.issued
      BY <3>2, <3>3, Zenon DEF Tells, ClientT
    <3>5. Issues(told, sv'.serverId)
      BY <2>1, <3>2, <3>4, Zenon DEF Tells, Issues
    <3> HIDE DEF told
    <3>6. cl'.unheard = told.unheard /\ Issues(cl', sv'.serverId)
      <4>1. SV_ClientEnterWorld(told).unheard = told.unheard
            /\ Issues(SV_ClientEnterWorld(told), sv'.serverId)
        BY <1>1, <1>2, <1>4, <3>4, <3>5, EnterTells
      <4>2. Tells(told, SV_DropClient(told), sv'.serverId)
        BY <1>2, <1>4, <3>4, DropTells
      <4> QED
        BY <3>1, <3>5, <4>1, <4>2, Zenon DEF Tells
    <3>7. cl'.unheard # sv.restartedServerId => InLevel(sv, clc)
      <4>1. SUFFICES ASSUME cl'.unheard # sv.restartedServerId PROVE InLevel(sv, clc)
        OBVIOUS
      <4>2. ~(cl.state < CS_ACTIVE) /\ cl.unheard # sv.restartedServerId
        BY <3>3, <3>4, <3>6, <4>1, Zenon DEF Unheard
      <4>3. cl.state = CS_ACTIVE
        BY <1>1, <4>2 DEF ClientT, CS_FREE, CS_ACTIVE
      <4> QED
        BY <1>3, <4>2, <4>3, Zenon DEF LevelsOK
    <3> QED
      BY <3>3, <3>4, <3>6, <3>7, Zenon DEF Follows
  <2> QED
    BY <2>2, <2>3
<1>7. GameStatesOK(sv, clc, toClient') /\ PacketsOK(sv, cl, clc, toServer')
  BY <1>2 DEF LevelInv
<1>8. sv.serverId <= sv'.serverId
  BY <1>2, <1>4
<1> QED
  BY <1>2, <1>5, <1>6, <1>7, <1>8, LevelGoesOn

\* A message that is no gamestate names no level.
LEMMA SnapshotLevels ==
  ASSUME SessionInv, SessionInv', LevelInv, SV_SendClientSnapshot
  PROVE  LevelInv'
<1> DEFINE m == [gamestate |-> FALSE, first |-> FirstToSend(cl),
                 commands |-> CommandsToSend(cl), built |-> reliableSequence(cl),
                 serverId |-> 0, level |-> 0, active |-> cl.state = CS_ACTIVE, later |-> TRUE]
<1>1. /\ sv \in SvState /\ cl \in ClientT /\ toClient \in Seq(Message)
      /\ UNCHANGED <<sv, cl, clc, toServer>> /\ toClient' = Send(toClient, m)
  BY Zenon DEF SessionInv, TypeOK, SV_SendClientSnapshot
<1>2. /\ LevelOK(sv) /\ LevelsOK(sv, cl, clc) /\ GameStatesOK(sv, clc, toClient)
      /\ PacketsOK(sv, cl, clc, toServer)
  BY DEF LevelInv
<1>3. m \in Message
  <2>1. /\ FirstToSend(cl) \in Nat \ {0} /\ CommandsToSend(cl) \in Seq(Nat)
        /\ reliableSequence(cl) \in Nat /\ 0 \in Nat
    BY <1>1, CommandsSent, LenProperties DEF SessionInv, ClientT, reliableSequence
  <2>2. (cl.state = CS_ACTIVE) \in BOOLEAN
    BY Zenon
  <2> QED
    BY <2>1, <2>2, Zenon DEF Message
<1>4. GameStateOK(sv, clc, m) /\ ~m.gamestate
  BY <1>1, <1>2 DEF GameStateOK, LevelOK, SvState
<1> HIDE DEF m
<1>5. GameStatesOK(sv, clc, toClient')
  BY <1>1, <1>2, <1>3, <1>4, SendGameStates
<1> QED
  BY <1>1, <1>2, <1>5, Zenon DEF LevelInv

\* What the server does but for reading a packet.
LEMMA ServerLevel ==
  ASSUME SessionInv, SessionInv', LevelInv,
         \/ SV_SendServerCommand \/ SV_SpawnServer \/ SV_MapRestart_f
         \/ UpdateSystemInfo \/ SV_SendClientSnapshot \/ DropClient \/ SV_CheckTimeouts
  PROVE  LevelInv'
<1>1. /\ sv \in SvState /\ sv' \in SvState /\ cl \in ClientT /\ cl' \in ClientT
  BY DEF SessionInv, TypeOK
<1>2. /\ LevelOK(sv) /\ LevelsOK(sv, cl, clc) /\ GameStatesOK(sv, clc, toClient)
      /\ PacketsOK(sv, cl, clc, toServer)
  BY DEF LevelInv
<1>3. sv.serverId \in Nat /\ sv.restartedServerId \in Nat /\ 1 <= sv.restartedServerId
  BY <1>1, <1>2 DEF SvState, LevelOK
<1>4. ASSUME LevelOK(sv'), sv'.serverId = sv.serverId,
             sv'.restartedServerId = sv.restartedServerId,
             UNCHANGED <<clc, toClient, toServer>>,
             Follows(sv, cl, cl', clc), Issues(cl', sv.serverId)
      PROVE  LevelInv'
  BY <1>2, <1>3, <1>4, LevelGoesOn
<1>5. ASSUME UNCHANGED <<sv, clc, toClient, toServer>>, \A id \in Nat : Tells(cl, cl', id)
      PROVE  LevelInv'
  BY <1>1, <1>2, <1>4, <1>5, TellsFollows
<1>6. CASE SV_SendServerCommand
  <2>1. "game" \in Kinds
    BY DEF Kinds
  <2>2. ASSUME NEW id \in Nat PROVE Tells(cl, SV_AddServerCommand(cl, Plain("game")), id)
    BY <1>1, <2>1, PlainCommands, AddTells
  <2> QED
    BY <1>5, <1>6, <2>2 DEF SV_SendServerCommand
<1>7. CASE UpdateSystemInfo
  <2> DEFINE cmd == [kind |-> "cs", serverId |-> sv.serverId]
  <2>1. /\ sv'.serverId = sv.serverId /\ sv'.restartedServerId = sv.restartedServerId
        /\ sv'.systemInfo = sv.serverId /\ cl' = SetSystemInfo(cl)
        /\ UNCHANGED <<clc, toClient, toServer>>
    BY <1>1, <1>7, Zenon DEF UpdateSystemInfo, SvState
  <2>2. LevelOK(sv')
    BY <1>2, <1>3, <2>1 DEF LevelOK
  <2>3. CASE cl.state >= CS_ACTIVE
    <3>1. cmd \in Command /\ cmd.serverId <= sv.serverId
      BY <1>3 DEF Command, Kinds
    <3>2. cl' = SV_AddServerCommand(cl, cmd)
      BY <2>1, <2>3, Zenon DEF SetSystemInfo
    <3> HIDE DEF cmd
    <3>3. Tells(cl, cl', sv.serverId)
      BY <1>1, <1>3, <3>1, <3>2, AddTells
    <3>4. cl'.unheard = cl.unheard /\ Issues(cl', sv.serverId)
      BY <1>2, <3>3, Zenon DEF Tells, LevelsOK
    <3>5. cl.state = CS_ACTIVE
      BY <1>1, <2>3 DEF ClientT, CS_FREE, CS_ACTIVE
    <3>6. Follows(sv, cl, cl', clc)
      BY <1>2, <3>4, <3>5, Zenon DEF Follows, LevelsOK
    <3> QED
      BY <1>4, <2>1, <2>2, <3>4, <3>6
  <2>4. CASE ~(cl.state >= CS_ACTIVE)
    <3> DEFINE d == [cl EXCEPT !.csUpdated = TRUE]
    <3>1. d.issued = cl.issued /\ d.unheard = cl.unheard /\ d.state = cl.state
      BY <1>1, Zenon DEF ClientT
    <3>2. cl' \in {cl, d}
      BY <2>1, <2>4, Zenon DEF SetSystemInfo
    <3> HIDE DEF d
    <3>3. cl'.issued = cl.issued /\ cl'.unheard = cl.unheard /\ cl'.state = cl.state
      BY <3>1, <3>2
    <3>4. Follows(sv, cl, cl', clc) /\ Issues(cl', sv.serverId)
      BY <1>1, <1>2, <3>3, SameFollows
    <3> QED
      BY <1>4, <2>1, <2>2, <3>4
  <2> QED
    BY <2>3, <2>4
<1>8. CASE DropClient
  <2>1. ASSUME NEW id \in Nat PROVE Tells(cl, SV_DropClient(cl), id)
    BY <1>1, DropTells
  <2> QED
    BY <1>5, <1>8, <2>1 DEF DropClient
<1>9. CASE SV_CheckTimeouts
  <2> DEFINE d == SV_DropClient(cl)
             e == [d EXCEPT !.state = CS_FREE]
  <2>1. \A id \in Nat : Tells(cl, d, id)
    BY <1>1, DropTells
  <2>2. cl' = e /\ UNCHANGED <<sv, clc, toClient, toServer>>
    BY <1>9 DEF SV_CheckTimeouts
  <2>3. d \in ClientT /\ Follows(sv, cl, d, clc) /\ Issues(d, sv.serverId)
    BY <1>1, <1>2, <1>3, <2>1, TellsFollows DEF Tells
  <2> HIDE DEF d
  <2>4. e.issued = d.issued /\ e.unheard = d.unheard /\ e.state = CS_FREE
    BY <2>3, Zenon DEF ClientT
  <2> HIDE DEF e
  <2>5. cl'.state # CS_ACTIVE
    BY <2>2, <2>4 DEF CS_FREE, CS_ACTIVE
  <2>6. Follows(sv, cl, cl', clc) /\ Issues(cl', sv.serverId)
    BY <2>2, <2>3, <2>4, <2>5, Zenon DEF Follows, Issues
  <2> QED
    BY <1>2, <1>4, <2>2, <2>6
<1> QED
  BY <1>4, <1>6, <1>7, <1>8, <1>9, SpawnLevel, RestartLevel, SnapshotLevels

\* Reading a packet: only one that says the server's serverId lets a client in.
LEMMA PacketLevel ==
  ASSUME SessionInv, SessionInv', LevelInv, SV_PacketEvent
  PROVE  LevelInv'
<1> DEFINE p == Head(toServer)
           acked == [cl EXCEPT !.reliableAcknowledge = p.serverCommandSequence]
           all == [cl EXCEPT !.reliableAcknowledge = reliableSequence(cl)]
           m == [gamestate |-> TRUE, first |-> FirstToSend(acked),
                 commands |-> CommandsToSend(acked),
                 built |-> reliableSequence(acked), serverId |-> sv.systemInfo,
                 level |-> sv.restartedServerId, active |-> FALSE, later |-> FALSE]
<1>1. /\ sv \in SvState /\ sv' \in SvState /\ cl \in ClientT /\ cl' \in ClientT
      /\ clc \in ClientConnection /\ toClient \in Seq(Message) /\ toServer \in Seq(Packet)
      /\ toServer # <<>> /\ UNCHANGED sv
  BY DEF SessionInv, TypeOK, SV_PacketEvent
<1>2. /\ LevelOK(sv) /\ LevelsOK(sv, cl, clc) /\ GameStatesOK(sv, clc, toClient)
      /\ PacketsOK(sv, cl, clc, toServer)
  BY DEF LevelInv
<1>3. PacketsOK(sv, cl, clc, Tail(toServer)) /\ Tail(toServer) \in Seq(Packet)
  BY <1>1, <1>2, TailLevels, TailElement
<1>4. p \in Packet /\ p = toServer[1] /\ 1 \in DOMAIN toServer
  BY <1>1, EmptySeq, LenProperties, ElementOfSeq
<1>5. p.serverCommandSequence \in Nat /\ reliableSequence(cl) \in Nat
  BY <1>1, <1>4, LenProperties DEF Packet, ClientT, reliableSequence
<1>6. /\ acked \in ClientT /\ all \in ClientT
      /\ acked.issued = cl.issued /\ acked.unheard = cl.unheard /\ acked.state = cl.state
      /\ all.issued = cl.issued /\ all.unheard = cl.unheard /\ all.state = cl.state
  BY <1>1, <1>5, Zenon DEF ClientT
<1> HIDE DEF acked, all
<1>7. sv.serverId \in Nat /\ sv.systemInfo \in Nat /\ sv.restartedServerId \in Nat
      /\ sv.systemInfo <= sv.serverId /\ sv.restartedServerId <= sv.serverId
  BY <1>1, <1>2 DEF SvState, LevelOK
<1>8. ASSUME cl' \in {cl, acked, all}, UNCHANGED <<clc, toClient>>,
             toServer' = Tail(toServer)
      PROVE  LevelInv'
  <2>1. cl'.issued = cl.issued /\ cl'.unheard = cl.unheard /\ cl'.state = cl.state
    BY <1>6, <1>8
  <2>2. Follows(sv, cl, cl', clc) /\ Issues(cl', sv.serverId)
    BY <1>1, <1>2, <2>1, SameFollows
  <2> QED
    BY <1>1, <1>2, <1>3, <1>7, <1>8, <2>2, LevelGoesOn
<1>9. ASSUME SV_SendClientGameState(acked)
      PROVE  LevelInv'
  <2> DEFINE d == [acked EXCEPT !.state = CS_PRIMED]
  <2>1. /\ cl' = d /\ toClient' = Send(ForgetLater(toClient), m)
        /\ toServer' = ForgetLater(Tail(toServer)) /\ clc' = [clc EXCEPT !.later = FALSE]
    BY <1>9, Zenon DEF SV_SendClientGameState
  <2>2. d.issued = cl.issued /\ d.unheard = cl.unheard /\ d.state = CS_PRIMED
    BY <1>6, Zenon DEF ClientT
  <2> HIDE DEF d
  <2>3. Follows(sv, cl, cl', clc) /\ Issues(cl', sv.serverId)
    BY <1>1, <1>2, <2>1, <2>2, SameFollows DEF CS_PRIMED, CS_ACTIVE
  <2>4. clc'.state = clc.state /\ clc'.serverId = clc.serverId /\ clc'.level = clc.level
    BY <1>1, <2>1, Zenon DEF ClientConnection
  <2>5. PacketsOK(sv, cl, clc, toServer')
    BY <1>3, <2>1, ForgetPackets
  <2>6. m \in Message
    <3>1. /\ RingInv(cl) /\ ClientInv(cl, clc) /\ MessageInv(cl, clc, toClient)
          /\ PacketInv(cl, clc, toServer) /\ Ordered(cl, executed)
      BY DEF SessionInv
    <3>2. PacketInv(cl, clc, Tail(toServer))
      BY <1>1, <3>1, TailKeepsPackets
    <3>3. RingInv(acked)
      <4> DEFINE a == p.serverCommandSequence
      <4>1. /\ a \in Nat /\ a <= reliableSequence(cl)
            /\ Connected(clc) => a <= clc.serverCommandSequence
            /\ \A i \in DOMAIN Tail(toServer) : a <= Tail(toServer)[i].serverCommandSequence
            /\ ~cl.overflowed => cl.reliableAcknowledge <= a
        BY <1>1, <3>1, HeadAcknowledges
      <4> HIDE DEF a
      <4>2. RingInv([cl EXCEPT !.reliableAcknowledge = a])
        BY <1>1, <3>1, <3>2, <4>1, AcknowledgeKeeps
      <4> QED
        BY <4>2 DEF acked, a
    <3>4. /\ FirstToSend(acked) \in Nat \ {0} /\ CommandsToSend(acked) \in Seq(Nat)
          /\ reliableSequence(acked) \in Nat
      BY <1>6, <3>3, CommandsSent, LenProperties DEF ClientT, reliableSequence
    <3> QED
      BY <1>7, <3>4, Zenon DEF Message
  <2>7. GameStateOK(sv, clc, m) /\ m.level = sv.restartedServerId
    BY <1>2, <1>7 DEF GameStateOK, LevelsOK
  <2> HIDE DEF m
  <2>8. ForgetLater(toClient) \in Seq(Message)
    BY <1>1, ForgetKeepsMessages DEF SessionInv
  <2>9. GameStatesOK(sv, clc, toClient')
    BY <1>1, <1>2, <2>1, <2>6, <2>7, ForgetGameStates, <2>8, SendGameStates
  <2> QED
    BY <1>1, <1>2, <1>7, <2>3, <2>4, <2>5, <2>9, LevelGoesOn
<1>10. ASSUME cl' = SV_ClientEnterWorld(acked), UNCHANGED <<clc, toClient>>,
              toServer' = Tail(toServer), p.serverId = sv.serverId
       PROVE  LevelInv'
  <2>1. Issues(acked, sv.serverId)
    BY <1>2, <1>6, Zenon DEF LevelsOK, Issues
  <2>2. cl'.unheard = cl.unheard /\ Issues(cl', sv.serverId)
    BY <1>1, <1>6, <1>7, <1>10, <2>1, EnterTells
  <2>3. ASSUME cl.unheard # sv.restartedServerId PROVE InLevel(sv, clc)
    <3>1. p.level = sv.restartedServerId /\ (Connected(clc) => p.level <= clc.level)
      BY <1>2, <1>4, <1>7, <1>10, <2>3 DEF PacketsOK
    <3>2. clc.level \in Nat /\ clc.level <= sv.restartedServerId
      BY <1>1, <1>2 DEF ClientConnection, LevelsOK
    <3> QED
      BY <1>7, <3>1, <3>2 DEF InLevel
  <2>4. Follows(sv, cl, cl', clc)
    BY <2>2, <2>3, Zenon DEF Follows
  <2> QED
    BY <1>1, <1>2, <1>3, <1>7, <1>10, <2>2, <2>4, LevelGoesOn
<1> HIDE DEF p
<1>11. \/ /\ cl' \in {cl, acked, all} /\ UNCHANGED <<clc, toClient>>
          /\ toServer' = Tail(toServer)
       \/ SV_SendClientGameState(acked)
       \/ /\ cl' = SV_ClientEnterWorld(acked) /\ UNCHANGED <<clc, toClient>>
          /\ toServer' = Tail(toServer) /\ p.serverId = sv.serverId
  BY Zenon DEF SV_PacketEvent, SV_ExecuteClientMessage, WrongServerId, p, acked, all
<1> QED
  BY <1>8, <1>9, <1>10, <1>11

\* A connection that ended names no level.
LEMMA DisconnectLevel ==
  ASSUME SessionInv, LevelInv, clc' = NoConnection("CA_DISCONNECTED"),
         UNCHANGED <<sv, cl, toClient, toServer>>
  PROVE  LevelInv'
<1>1. /\ LevelOK(sv) /\ LevelsOK(sv, cl, clc) /\ GameStatesOK(sv, clc, toClient)
      /\ PacketsOK(sv, cl, clc, toServer)
  BY DEF LevelInv
<1>2. ~Connected(clc') /\ clc'.serverId = 0 /\ clc'.level = 0
  BY DEF NoConnection, Connected
<1>3. sv.serverId \in Nat /\ sv.restartedServerId \in Nat
  BY DEF SessionInv, TypeOK, SvState
<1>4. LevelsOK(sv, cl, clc')
  BY <1>1, <1>2, <1>3 DEF LevelsOK, InLevel
<1>5. GameStatesOK(sv, clc', toClient) /\ PacketsOK(sv, cl, clc', toServer)
  BY <1>1, <1>2, Zenon DEF GameStatesOK, GameStateOK, PacketsOK
<1> QED
  BY <1>1, <1>4, <1>5, Zenon DEF LevelInv

\* The serverId a client takes from the systeminfo is one it was sent.
LEMMA ExecuteLevel ==
  ASSUME SessionInv, SessionInv', LevelInv, NEW latest \in Nat, NEW next,
         ExecuteNewServerCommands(latest, next), UNCHANGED <<sv, cl, toClient, toServer>>
  PROVE  LevelInv'
<1> DEFINE first == lastExecutedServerCommand + 1
           seq == clc.serverCommandSequence
           lost == first <= latest /\ (first <= seq - M \/ latest > seq)
           ends == {n \in first..latest : KindOf(n) = "disconnect"}
           last == IF ends = {} THEN latest ELSE CHOOSE n \in ends : \A k \in ends : n <= k
           ids == {n \in first..last : KindOf(n) = "cs"}
           newest == CHOOSE n \in ids : \A k \in ids : k <= n
<1>1. /\ TypeOK /\ ClientInv(cl, clc) /\ sv \in SvState /\ cl \in ClientT
      /\ clc \in ClientConnection /\ executed \in Seq(Nat)
  BY DEF SessionInv, TypeOK
<1>2. /\ LevelOK(sv) /\ LevelsOK(sv, cl, clc) /\ GameStatesOK(sv, clc, toClient)
      /\ PacketsOK(sv, cl, clc, toServer)
  BY DEF LevelInv
<1>3. IF lost \/ ends # {}
      THEN clc' = NoConnection("CA_DISCONNECTED")
      ELSE clc' = IF ids = {} THEN clc
                  ELSE [clc EXCEPT !.serverId = cl.issued[Content(newest)].serverId]
  BY Zenon DEF ExecuteNewServerCommands
<1>4. first \in Nat
  BY <1>1, LenProperties DEF lastExecutedServerCommand
<1> HIDE DEF lost, first
<1>5. CASE lost \/ ends # {}
  BY <1>3, <1>5, DisconnectLevel
<1>6. CASE ~(lost \/ ends # {}) /\ ids = {}
  BY <1>2, <1>3, <1>6, Zenon DEF LevelInv
<1>7. CASE ~(lost \/ ends # {}) /\ ids # {}
  <2>1. last = latest
    BY <1>7
  <2> HIDE DEF last
  <2>2. ids \subseteq Nat /\ \A n \in ids : n <= latest
    BY <1>4, <2>1
  <2>3. \A n \in ids : KindOf(n) = "cs"
    OBVIOUS
  <2> HIDE DEF ids, ends
  <2>4. \E n \in ids : \A k \in ids : k <= n
    BY <1>7, <2>2, GreatestExists
  <2>5. newest \in ids
    BY <2>4, Zenon
  <2> HIDE DEF newest
  <2>6. KindOf(newest) = "cs" /\ newest \in Nat
    BY <2>2, <2>3, <2>5
  <2> DEFINE n == Content(newest)
  <2>7. n \in Nat /\ n <= reliableSequence(cl) /\ n # 0
    <3>1. Content(newest) \in Nat /\ Content(newest) <= reliableSequence(cl)
      BY <1>1, <2>6, ContentType
    <3>2. Content(newest) # 0
      BY <2>6 DEF KindOf
    <3> QED
      BY <3>1, <3>2
  <2>8. clc' = [clc EXCEPT !.serverId = cl.issued[n].serverId]
    BY <1>3, <1>7, Zenon
  <2> HIDE DEF n
  <2>9. n \in DOMAIN cl.issued /\ cl.issued[n] \in Command
    <3>1. cl.issued \in Seq(Command)
      BY <1>1 DEF ClientT
    <3>2. n \in DOMAIN cl.issued
      BY <2>7, <3>1, LenProperties DEF reliableSequence
    <3> QED
      BY <3>1, <3>2, ElementOfSeq, LenProperties
  <2>10. /\ clc'.serverId = cl.issued[n].serverId /\ clc'.level = clc.level
         /\ clc'.state = clc.state
    BY <1>1, <2>8, Zenon DEF ClientConnection
  <2>11. clc'.serverId \in Nat /\ sv.serverId \in Nat /\ sv.restartedServerId \in Nat
    BY <1>1, <2>9, <2>10 DEF Command, SvState
  <2>12. InLevel(sv, clc) <=> InLevel(sv, clc')
    BY <2>10, Zenon DEF InLevel, Connected
  <2>13. Issues(cl, sv.restartedServerId - 1) => clc'.serverId < sv.restartedServerId
    BY <2>9, <2>10, <2>11 DEF Issues
  <2>14. LevelsOK(sv, cl, clc')
    <3>1. clc'.serverId <= sv.serverId
      BY <1>2, <2>9, <2>10 DEF LevelsOK, Issues
    <3> QED
      BY <1>2, <2>10, <2>11, <2>12, <2>13, <3>1 DEF LevelsOK
  <2>15. GameStatesOK(sv, clc', toClient) /\ PacketsOK(sv, cl, clc', toServer)
    BY <1>2, <2>10, Zenon DEF GameStatesOK, GameStateOK, PacketsOK, Connected
  <2> QED
    BY <1>2, <2>14, <2>15, Zenon DEF LevelInv
<1> QED
  BY <1>5, <1>6, <1>7

\* A packet names the level the client is in.
LEMMA WriteLevel ==
  ASSUME SessionInv, LevelInv, NEW move \in BOOLEAN, CL_WritePacket(move)
  PROVE  LevelInv'
<1> DEFINE p == [serverId |-> clc.serverId, level |-> clc.level, later |-> clc.later,
                 serverCommandSequence |-> clc.serverCommandSequence, move |-> move,
                 key |-> clc.serverCommands[clc.serverCommandSequence % M]]
<1>1. clc \in ClientConnection /\ toServer \in Seq(Packet) /\ sv \in SvState
  BY DEF SessionInv, TypeOK
<1>2. /\ LevelOK(sv) /\ LevelsOK(sv, cl, clc) /\ GameStatesOK(sv, clc, toClient)
      /\ PacketsOK(sv, cl, clc, toServer)
  BY DEF LevelInv
<1>3. p \in Packet
  <2>1. /\ clc.serverId \in Nat /\ clc.level \in Nat /\ clc.serverCommandSequence \in Nat
        /\ clc.serverCommands \in [Slots -> Nat]
    BY <1>1 DEF ClientConnection
  <2>2. clc.later \in BOOLEAN
    BY <1>1, Zenon DEF ClientConnection
  <2>3. clc.serverCommandSequence % M \in Slots
    BY <2>1, SlotType
  <2>4. clc.serverCommands[clc.serverCommandSequence % M] \in Nat
    BY <2>1, <2>3
  <2> QED
    BY <2>1, <2>2, <2>4, Zenon DEF Packet
<1>4. Connected(clc) /\ toServer' = Send(toServer, p) /\ UNCHANGED <<sv, cl, clc, toClient>>
  BY DEF CL_WritePacket, Connected
<1>5. p.serverId = clc.serverId /\ p.level = clc.level
  OBVIOUS
<1> HIDE DEF p
<1>6. PacketsOK(sv, cl, clc, <<p>>)
  <2>1. clc.level \in Nat /\ clc.serverId \in Nat
    BY <1>1 DEF ClientConnection
  <2>2. DOMAIN <<p>> = {1} /\ <<p>>[1] = p
    OBVIOUS
  <2> QED
    BY <1>2, <1>4, <1>5, <2>1, <2>2 DEF PacketsOK, LevelsOK, InLevel
<1>7. PacketsOK(sv, cl, clc, toServer')
  BY <1>1, <1>2, <1>3, <1>4, <1>6, SendPackets
<1> QED
  BY <1>2, <1>4, <1>7, Zenon DEF LevelInv

\* A client moves to the level of the gamestate it gets, which is no earlier one.
LEMMA ParseLevel ==
  ASSUME SessionInv, SessionInv', LevelInv, CL_ParseServerMessage
  PROVE  LevelInv'
<1> DEFINE m == Head(toClient)
           rest == Tail(toClient)
<1>1. /\ sv \in SvState /\ cl \in ClientT /\ clc \in ClientConnection
      /\ toClient \in Seq(Message) /\ toClient # <<>> /\ toClient' = rest
      /\ UNCHANGED <<sv, cl, toServer>>
  BY DEF SessionInv, TypeOK, CL_ParseServerMessage
<1>2. /\ LevelOK(sv) /\ LevelsOK(sv, cl, clc) /\ GameStatesOK(sv, clc, toClient)
      /\ PacketsOK(sv, cl, clc, toServer)
  BY DEF LevelInv
<1>3. GameStatesOK(sv, clc, rest)
  BY <1>1, <1>2, TailLevels
<1>4. /\ m \in Message /\ m = toClient[1] /\ 1 \in DOMAIN toClient
  BY <1>1, EmptySeq, LenProperties, ElementOfSeq
<1>5. ASSUME clc'.state = clc.state, clc'.serverId = clc.serverId, clc'.level = clc.level
      PROVE  LevelInv'
  <2>1. /\ InLevel(sv, clc) <=> InLevel(sv, clc')
        /\ Connected(clc) <=> Connected(clc')
    BY <1>5, Zenon DEF InLevel, Connected
  <2>2. LevelsOK(sv, cl, clc')
    BY <1>2, <1>5, <2>1, Zenon DEF LevelsOK
  <2>3. GameStatesOK(sv, clc', rest) /\ PacketsOK(sv, cl, clc', toServer)
    BY <1>2, <1>3, <1>5, <2>1, Zenon DEF GameStatesOK, GameStateOK, PacketsOK
  <2> QED
    BY <1>1, <1>2, <2>2, <2>3, Zenon DEF LevelInv
<1>6. CASE clc.state = "CA_DISCONNECTED"
  BY <1>5, <1>6 DEF CL_ParseServerMessage
<1>7. CASE clc.state # "CA_DISCONNECTED" /\ ~m.gamestate
  <2>1. clc' = CL_ParseSnapshot(m)
    BY <1>7, Zenon DEF CL_ParseServerMessage
  <2>2. clc'.state = clc.state /\ clc'.serverId = clc.serverId /\ clc'.level = clc.level
    BY <1>1, <2>1, Zenon DEF CL_ParseSnapshot, ClientConnection
  <2> QED
    BY <1>5, <2>2
<1>8. CASE clc.state # "CA_DISCONNECTED" /\ m.gamestate
  <2>1. clc' = CL_ParseGamestate(m)
    BY <1>8, Zenon DEF CL_ParseServerMessage
  <2>2. clc'.state = "CA_PRIMED" /\ clc'.serverId = m.serverId /\ clc'.level = m.level
    BY <1>1, <2>1, Zenon DEF CL_ParseGamestate, ClientConnection
  <2>3. Connected(clc) /\ Connected(clc')
    BY <1>8, <2>2 DEF Connected
  <2>4. GameStateOK(sv, clc, m)
    BY <1>2, <1>4, Zenon DEF GameStatesOK
  <2>5. /\ m.level \in Nat /\ m.serverId \in Nat /\ clc.level \in Nat
        /\ sv.restartedServerId \in Nat /\ sv.serverId \in Nat
    BY <1>1, <1>4 DEF Message, ClientConnection, SvState
  <2>6. clc.level <= m.level /\ m.level <= sv.restartedServerId
    BY <1>8, <2>3, <2>4 DEF GameStateOK
  <2>7. InLevel(sv, clc) => InLevel(sv, clc')
    BY <2>2, <2>3, <2>5, <2>6 DEF InLevel
  <2>8. m.serverId >= sv.restartedServerId => InLevel(sv, clc')
    BY <1>8, <2>2, <2>4 DEF GameStateOK, InLevel
  <2>9. m.serverId <= sv.serverId
    BY <2>4 DEF GameStateOK
  <2>10. LevelsOK(sv, cl, clc')
    BY <1>2, <2>2, <2>6, <2>7, <2>8, <2>9, Zenon DEF LevelsOK
  <2>11. GameStatesOK(sv, clc', rest)
    <3> DEFINE f == [i \in DOMAIN rest |-> i + 1]
    <3>1. /\ f \in [DOMAIN rest -> DOMAIN toClient]
          /\ \A i \in DOMAIN rest : rest[i] = toClient[f[i]]
      BY <1>1, TailElement
    <3>2. ASSUME NEW i \in DOMAIN rest, rest[i].gamestate PROVE m.level <= rest[i].level
      <4>1. f[i] \in DOMAIN toClient /\ 1 <= f[i]
        BY <1>1, <3>1, LenProperties
      <4>2. toClient[f[i]].gamestate
        BY <3>1, <3>2
      <4>3. toClient[1].level <= toClient[f[i]].level
        BY <1>2, <1>4, <1>8, <4>1, <4>2 DEF GameStatesOK
      <4> QED
        BY <1>4, <3>1, <4>3
    <3> HIDE DEF rest, f
    <3> QED
      BY <1>3, <2>2, <3>2 DEF GameStatesOK, GameStateOK
  <2>12. PacketsOK(sv, cl, clc', toServer)
    <3>1. ASSUME NEW i \in DOMAIN toServer PROVE toServer[i].level \in Nat
      <4>1. toServer[i] \in Packet
        BY <3>1, ElementOfSeq, LenProperties DEF SessionInv, TypeOK
      <4> QED
        BY <4>1 DEF Packet
    <3> QED
      BY <1>2, <2>2, <2>3, <2>5, <2>6, <3>1 DEF PacketsOK
  <2> QED
    BY <1>1, <1>2, <2>10, <2>11, <2>12, Zenon DEF LevelInv
<1> QED
  BY <1>6, <1>7, <1>8, Zenon

LEMMA LevelStep == SessionInv /\ SessionInv' /\ LevelInv /\ [Next]_vars => LevelInv'
<1> SUFFICES ASSUME SessionInv, SessionInv', LevelInv, [Next]_vars PROVE LevelInv'
  OBVIOUS
<1>1. /\ LevelOK(sv) /\ LevelsOK(sv, cl, clc) /\ GameStatesOK(sv, clc, toClient)
      /\ PacketsOK(sv, cl, clc, toServer)
  BY DEF LevelInv
<1>2. toClient \in Seq(Message) /\ toServer \in Seq(Packet) /\ cg \in CGame
  BY DEF SessionInv, TypeOK
<1>3. ASSUME UNCHANGED <<sv, cl, clc, toClient, toServer>> PROVE LevelInv'
  BY <1>1, <1>3, Zenon DEF LevelInv
<1>4. CASE Server
  BY <1>4, ServerLevel, PacketLevel DEF Server
<1>5. CASE Lose
  <2>1. ASSUME NEW i \in DOMAIN toClient, toClient' = LoseFrom(toClient, i),
               UNCHANGED <<sv, cl, clc, toServer>>
        PROVE  LevelInv'
    <3>1. GameStatesOK(sv, clc, toClient')
      BY <1>1, <1>2, <2>1, LoseLevels
    <3> QED
      BY <1>1, <2>1, <3>1, Zenon DEF LevelInv
  <2>2. ASSUME NEW i \in DOMAIN toServer, toServer' = LoseFrom(toServer, i),
               UNCHANGED <<sv, cl, clc, toClient>>
        PROVE  LevelInv'
    <3>1. PacketsOK(sv, cl, clc, toServer')
      BY <1>1, <1>2, <2>2, LoseLevels
    <3> QED
      BY <1>1, <2>2, <3>1, Zenon DEF LevelInv
  <2> QED
    BY <1>5, <2>1, <2>2 DEF Lose
<1>6. CASE CG_SetInitialSnapshot
  <2>1. CASE Head(cg.snapshots).active
    <3>1. Head(cg.snapshots).serverCommandNum \in Nat
      <4>1. /\ cg.snapshots \in Seq(Snapshot) /\ cg.snapshots # <<>>
            /\ \A i \in DOMAIN cg.snapshots : SnapshotReady(clc, cg.snapshots[i])
        BY <1>2, <1>6 DEF CGame, CG_SetInitialSnapshot, SessionInv, CGameInv
      <4>2. /\ Head(cg.snapshots) \in Snapshot /\ Head(cg.snapshots) = cg.snapshots[1]
            /\ 1 \in DOMAIN cg.snapshots
        BY <4>1, EmptySeq, LenProperties, ElementOfSeq
      <4>3. SnapshotReady(clc, Head(cg.snapshots))
        BY <4>1, <4>2
      <4> QED
        BY <4>2, <4>3 DEF Snapshot, SnapshotReady
    <3> QED
      BY <1>6, <2>1, <3>1, ExecuteLevel DEF CG_SetInitialSnapshot
  <2>2. CASE ~Head(cg.snapshots).active
    BY <1>3, <1>6, <2>2 DEF CG_SetInitialSnapshot
  <2> QED
    BY <2>1, <2>2, Zenon
<1>7. CASE CG_TransitionSnapshot
  <2>1. cg.nextSnap.serverCommandNum \in Nat
    <3>1. cg.nextSnap \in Snapshot
      BY <1>2, <1>7 DEF CGame, CG_TransitionSnapshot
    <3> QED
      BY <3>1 DEF Snapshot
  <2> QED
    BY <1>7, <2>1, ExecuteLevel DEF CG_TransitionSnapshot
<1>8. CASE CL_Disconnect
  BY <1>8, DisconnectLevel DEF CL_Disconnect
<1>9. CASE CG_SetNextSnap \/ UNCHANGED vars
  BY <1>3, <1>9 DEF CG_SetNextSnap, vars
<1>10. ASSUME NEW move \in BOOLEAN, CL_WritePacket(move) PROVE LevelInv'
  BY <1>10, WriteLevel
<1>11. CASE CL_ParseServerMessage
  BY <1>11, ParseLevel
<1> QED
  BY <1>4, <1>5, <1>6, <1>7, <1>8, <1>9, <1>10, <1>11 DEF Next, Client

\* Which levels and serverIds client and server name to each other, for any
\* number of levels and of restarts (sv_client.c:1744, sv_ccmds.c:205).
THEOREM SessionLevelInvariant == Spec => []LevelInv
<1>1. SessionInv /\ [Next]_vars => SessionInv'
  BY NextInv
<1>2. SessionInv /\ SessionInv' /\ LevelInv /\ [Next]_vars => LevelInv'
  BY LevelStep
<1> QED
  BY <1>1, <1>2, InitInv, InitLevel, PTL DEF Spec

\* Through changes and restarts of a level no packet of another level passes
\* for one of the server's, unless a map_restart let the client in before the
\* server had heard of it in the level (the outdated packets of
\* SV_ExecuteClientMessage).
THEOREM SessionOwnLevel == Spec => []OwnLevel
<1>1. SessionInv /\ LevelInv => OwnLevel
  <2> SUFFICES ASSUME SessionInv, LevelInv, cl.unheard # sv.restartedServerId,
                      NEW i \in DOMAIN toServer, toServer[i].serverId = sv.serverId
               PROVE  toServer[i].level = sv.restartedServerId
    BY DEF OwnLevel, EveryOwnLevel
  <2>1. sv.serverId >= sv.restartedServerId
    BY DEF SessionInv, TypeOK, SvState, LevelInv, LevelOK
  <2> QED
    BY <2>1 DEF LevelInv, PacketsOK
<1> QED
  BY <1>1, SessionInvariant, SessionLevelInvariant, PTL

=============================================================================
