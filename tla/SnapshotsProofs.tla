-------------------------- MODULE SnapshotsProofs --------------------------
(***************************************************************************)
(* Proofs about Snapshots: types, that every snapshot the client's game    *)
(* can ask for is the one the server built, and that the server never      *)
(* writes a difference from a snapshot the client cannot use.  All for any *)
(* size of the four rings, any entities in view and any losses.            *)
(***************************************************************************)
EXTENDS Snapshots, FiniteSetTheorems, SequenceTheorems, WellFoundedInduction, TLAPS

-----------------------------------------------------------------------------
(* The inductive invariant. *)

\* A snapshot as it is sent: entities in the order of their numbers.
Sorted(q) ==
  /\ Len(q) <= MAX_SNAPSHOT_ENTITIES
  /\ \A i \in 1..Len(q) : q[i].number \in Numbers /\ q[i].version \in Nat
  /\ \A i, j \in 1..Len(q) : i < j => q[i].number < q[j].number

SentInv == \A n \in 1..Len(sent) : Sorted(sent[n])

\* The server's frame of message n: its entities are those sent, until the ring
\* of entities comes round.
FrameHolds(n) ==
  LET frame == cl.frames[Slot(n)]
  IN /\ frame.num_entities = Len(sent[n])
     /\ frame.first_entity + frame.num_entities <= svs.nextSnapshotEntities
     /\ frame.first_entity > svs.nextSnapshotEntities - numSnapshotEntities =>
          EntitiesOf(svs, frame) = sent[n]

FrameInv == \A n \in 1..Len(sent) : n + PACKET_BACKUP > Len(sent) => FrameHolds(n)

\* The client got snapshot n, and has it until its ring of snapshots comes round.
Held(n) ==
  /\ n \in 1..client.snap.messageNum
  /\ n + PACKET_BACKUP > client.snap.messageNum =>
       client.snapshots[Slot(n)].valid /\ client.snapshots[Slot(n)].messageNum = n

\* What a message starts from, in the server's eyes.
BaseOf(m) == IF m.lastframe = 0 THEN <<>> ELSE sent[m.messageNum - m.lastframe]

MessageFits(m) ==
  /\ m.messageNum \in client.snap.messageNum + 1..Len(sent)
  /\ m.lastframe # 0 => m.lastframe < PACKET_BACKUP - 3 /\ Held(m.messageNum - m.lastframe)
  /\ m.differences = Differences(BaseOf(m), sent[m.messageNum])

InFlight == {toClient[i] : i \in 1..Len(toClient)}

MessageInv ==
  /\ \A m \in InFlight : MessageFits(m)
  /\ \A i, j \in 1..Len(toClient) : i < j => toClient[i].messageNum < toClient[j].messageNum

DeltaInv ==
  /\ cl.deltaMessage > 0 => Held(cl.deltaMessage)
  /\ \A i \in 1..Len(toServer) : toServer[i].delta => Held(toServer[i].messageAcknowledge)

\* A valid snapshot in slot i of the client's ring: its entities are those sent,
\* until the client's ring of entities comes round, and that is not before as
\* many messages as the snapshot is old could have filled it.
SnapshotHolds(i) ==
  LET snapshot == client.snapshots[i]
      n == snapshot.messageNum
  IN /\ n \in 1..client.snap.messageNum
     /\ n + PACKET_BACKUP > client.snap.messageNum
     /\ Slot(n) = i
     /\ snapshot.numEntities = Len(sent[n])
     /\ snapshot.parseEntitiesNum + snapshot.numEntities <= client.parseEntitiesNum
     /\ client.parseEntitiesNum - snapshot.parseEntitiesNum
          <= (client.snap.messageNum - n + 1) * MAX_SNAPSHOT_ENTITIES
     /\ client.parseEntitiesNum - snapshot.parseEntitiesNum < MAX_PARSE_ENTITIES =>
          ParsedEntities(client.parseEntities, snapshot) = sent[n]

ClientInv ==
  /\ ~client.dumped
  /\ client.serverMessageSequence = client.snap.messageNum
  /\ client.snap.messageNum <= Len(sent)
  /\ client.snap.valid =>
       /\ client.snap.messageNum > 0
       /\ client.snapshots[Slot(client.snap.messageNum)] = client.snap
  /\ \A i \in Slots : client.snapshots[i].valid => SnapshotHolds(i)

SnapshotsInv == TypeOK /\ SentInv /\ FrameInv /\ MessageInv /\ DeltaInv /\ ClientInv

-----------------------------------------------------------------------------
(* Induction over a set of numbers. *)

LEMMA SetInduction ==
  ASSUME NEW S, 0 \in S, \A n \in Nat : n \in S => n + 1 \in S
  PROVE  Nat \subseteq S
<1> SUFFICES ASSUME Nat \ S # {} PROVE FALSE
  OBVIOUS
<1>1. PICK n \in Nat \ S : \A k \in Nat \ S : ~(<<k, n>> \in OpToRel(<, Nat))
  BY NatLessThanWellFounded, WFMin
<1>2. ASSUME NEW k \in Nat \ S, k < n PROVE FALSE
  <2>1. k \in Nat /\ n \in Nat
    OBVIOUS
  <2>2. <<k, n>> \in OpToRel(<, Nat) <=> k < n
    BY <2>1, Zenon DEF OpToRel
  <2> QED
    BY <1>1, <1>2, <2>2, Zenon
<1>3. n # 0 /\ n - 1 \in Nat /\ n - 1 < n /\ (n - 1) + 1 = n
  OBVIOUS
<1> QED
  BY <1>2, <1>3

-----------------------------------------------------------------------------
(* Rings. *)

LEMMA Sizes ==
  /\ PACKET_BACKUP \in Nat /\ PACKET_BACKUP > 3
  /\ MAX_SNAPSHOT_ENTITIES \in Nat /\ MAX_SNAPSHOT_ENTITIES > 0
  /\ numSnapshotEntities \in Nat /\ numSnapshotEntities > MAX_SNAPSHOT_ENTITIES
  /\ MAX_PARSE_ENTITIES \in Nat /\ MAX_PARSE_ENTITIES > MAX_SNAPSHOT_ENTITIES
<1>1. /\ PACKET_BACKUP \in Nat /\ PACKET_BACKUP > 3
      /\ MAX_SNAPSHOT_ENTITIES \in Nat /\ MAX_SNAPSHOT_ENTITIES > 0
      /\ numSnapshotEntities \in Nat /\ numSnapshotEntities > MAX_SNAPSHOT_ENTITIES
  BY BackupAssumption, RingAssumption
<1>2. PACKET_BACKUP * MAX_SNAPSHOT_ENTITIES >= 2 * MAX_SNAPSHOT_ENTITIES
  BY <1>1
<1>3. PACKET_BACKUP * MAX_SNAPSHOT_ENTITIES \in Nat
  BY <1>1
<1> QED
  BY <1>1, <1>2, <1>3 DEF MAX_PARSE_ENTITIES

\* Two numbers less than a ring apart have different slots.
LEMMA SlotsDiffer ==
  ASSUME NEW K \in Nat, K > 0, NEW a \in Int, NEW b \in Int, a < b, b < a + K
  PROVE  a % K # b % K
<1> DEFINE q == a \div K
           r == b \div K
<1>1. q \in Int /\ r \in Int /\ a % K \in Int /\ b % K \in Int
  OBVIOUS
<1>2. a = K * q + (a % K) /\ b = K * r + (b % K)
  OBVIOUS
<1> HIDE DEF q, r
<1> SUFFICES ASSUME a % K = b % K PROVE FALSE
  OBVIOUS
<1>3. b - a = K * (r - q)
  BY <1>1, <1>2
<1>4. CASE r - q <= 0
  <2>1. K * (r - q) <= 0
    BY <1>1, <1>4
  <2> QED
    BY <2>1, <1>3
<1>5. CASE r - q >= 1
  <2>1. K * (r - q) >= K
    BY <1>1, <1>5
  <2> QED
    BY <2>1, <1>3
<1> QED
  BY <1>1, <1>4, <1>5

\* And a number a ring further on has the same.
LEMMA SameSlot ==
  ASSUME NEW K \in Nat, K > 0, NEW a \in Int
  PROVE  (a + K) % K = a % K /\ a % K \in 0..K - 1
<1> DEFINE b == a + K
           q == a \div K
           r == b \div K
           x == a % K
           y == b % K
<1>1. q \in Int /\ r \in Int /\ x \in 0..K - 1 /\ y \in 0..K - 1 /\ b = a + K
  OBVIOUS
<1>2. a = K * q + x /\ b = K * r + y
  OBVIOUS
<1> HIDE DEF b, q, r, x, y
<1>3. y - x = K * (q + 1 - r)
  BY <1>1, <1>2
<1>4. ASSUME q + 1 - r <= -1 PROVE FALSE
  <2>1. K * (q + 1 - r) <= -K
    BY <1>1, <1>4
  <2> QED
    BY <2>1, <1>1, <1>3
<1>5. ASSUME q + 1 - r >= 1 PROVE FALSE
  <2>1. K * (q + 1 - r) >= K
    BY <1>1, <1>5
  <2> QED
    BY <2>1, <1>1, <1>3
<1>6. q + 1 - r = 0
  BY <1>1, <1>4, <1>5
<1>7. K * (q + 1 - r) = 0
  BY <1>6
<1>8. y = x
  BY <1>1, <1>3, <1>7
<1> QED
  BY <1>1, <1>8 DEF b, x, y

-----------------------------------------------------------------------------
(* Sequences of entities. *)

\* The entity with a number is found by it.
LEMMA SortedFinds ==
  ASSUME NEW q, Sorted(q), NEW i \in 1..Len(q), Len(q) \in Nat, DOMAIN q = 1..Len(q)
  PROVE  Has(q, q[i].number) /\ VersionIn(q, q[i].number) = q[i].version
<1>1. Has(q, q[i].number)
  BY DEF Has
<1>2. \A j \in 1..Len(q) : q[j].number = q[i].number => j = i
  <2> SUFFICES ASSUME NEW j \in 1..Len(q), q[j].number = q[i].number, j # i PROVE FALSE
    OBVIOUS
  <2>1. q[i].number \in Int /\ q[j].number \in Int
    BY DEF Sorted, Numbers
  <2>2. i < j \/ j < i
    OBVIOUS
  <2> QED
    BY <2>1, <2>2 DEF Sorted
<1>3. (CHOOSE j \in DOMAIN q : q[j].number = q[i].number) = i
  BY <1>2
<1> QED
  BY <1>1, <1>3 DEF VersionIn


-----------------------------------------------------------------------------
(* What is shown. *)

Rank(view, e) == Cardinality({f \in view : f < e})

LEMMA ViewFinite ==
  ASSUME NEW view \in SUBSET Numbers, NEW T, T \subseteq view
  PROVE  IsFiniteSet(T) /\ Cardinality(T) \in Nat
<1>1. IsFiniteSet(Numbers)
  BY Sizes, FS_Interval DEF Numbers
<1> QED
  BY <1>1, FS_Subset, FS_CardinalityType

\* There is an entity of every rank.
LEMMA RankHas ==
  ASSUME NEW view \in SUBSET Numbers, NEW i \in 1..Cardinality(view)
  PROVE  \E e \in view : Rank(view, e) = i - 1
<1>0. \A f \in view : f \in Int /\ f >= 1 /\ f <= MAX_SNAPSHOT_ENTITIES
  BY Sizes DEF Numbers
<1> DEFINE UpTo(m) == {f \in view : f <= m}
           S == {m \in Nat : \A k \in 1..Cardinality(UpTo(m)) : \E e \in view : Rank(view, e) = k - 1}
<1>1. 0 \in S
  <2>1. UpTo(0) = {}
    BY <1>0
  <2>2. Cardinality(UpTo(0)) = 0
    BY <2>1, FS_EmptySet
  <2> HIDE DEF UpTo
  <2> QED
    BY <2>2
<1>2. ASSUME NEW m \in Nat, m \in S PROVE m + 1 \in S
  <2>2. CASE m + 1 \notin view
    <3>1. \A f \in view : f <= m + 1 <=> f <= m
      BY <1>0, <2>2
    <3>2. UpTo(m + 1) = UpTo(m)
      BY <3>1, Zenon
    <3> HIDE DEF UpTo
    <3> QED
      BY <1>2, <3>2
  <2>3. CASE m + 1 \in view
    <3>0. \A f \in view : /\ f <= m + 1 <=> f <= m \/ f = m + 1
                          /\ f < m + 1 <=> f <= m
      BY <1>0
    <3>1. UpTo(m + 1) = UpTo(m) \cup {m + 1} /\ m + 1 \notin UpTo(m)
      BY <2>3, <3>0
    <3>2. UpTo(m) = {f \in view : f < m + 1}
      BY <3>0, Zenon
    <3>3. IsFiniteSet(UpTo(m)) /\ Cardinality(UpTo(m)) \in Nat
      BY ViewFinite
    <3>4. Cardinality(UpTo(m + 1)) = Cardinality(UpTo(m)) + 1
      BY <3>1, <3>3, FS_AddElement
    <3>5. Rank(view, m + 1) = Cardinality(UpTo(m))
      BY <3>2 DEF Rank
    <3> HIDE DEF UpTo
    <3>6. ASSUME NEW k \in 1..Cardinality(UpTo(m + 1))
          PROVE  \E e \in view : Rank(view, e) = k - 1
      <4>1. CASE k \in 1..Cardinality(UpTo(m))
        BY <1>2, <4>1
      <4>2. CASE k = Cardinality(UpTo(m)) + 1
        BY <2>3, <3>3, <3>5, <4>2
      <4> QED
        BY <3>3, <3>4, <4>1, <4>2
    <3> QED
      BY <3>6
  <2> QED
    BY <2>2, <2>3
<1>3. Nat \subseteq S
  <2> HIDE DEF S
  <2> QED
    BY <1>1, <1>2, SetInduction
<1>4. UpTo(MAX_SNAPSHOT_ENTITIES) = view
  BY <1>0
<1>5. MAX_SNAPSHOT_ENTITIES \in S
  BY <1>3, Sizes
<1> QED
  BY <1>4, <1>5

\* A lower rank is a lower number.
LEMMA RankOrders ==
  ASSUME NEW view \in SUBSET Numbers, NEW d \in view, NEW e \in view, Rank(view, d) < Rank(view, e)
  PROVE  d < e
<1> SUFFICES ASSUME e <= d PROVE FALSE
  BY DEF Numbers
<1>0. \A f \in view : f \in Int
  BY DEF Numbers
<1>1. {f \in view : f < e} \subseteq {f \in view : f < d}
  BY <1>0
<1>2. /\ IsFiniteSet({f \in view : f < d})
      /\ Cardinality({f \in view : f < d}) \in Nat /\ Cardinality({f \in view : f < e}) \in Nat
  BY ViewFinite
<1>3. Cardinality({f \in view : f < e}) <= Cardinality({f \in view : f < d})
  BY <1>1, <1>2, FS_Subset
<1> QED
  BY <1>2, <1>3 DEF Rank

LEMMA VersionType ==
  ASSUME NEW e \in Numbers, NEW n \in Nat
  PROVE  VersionAt(e, n) \in Nat
BY DEF VersionAt, Numbers

\* The entities in view, in the order of their numbers.
LEMMA ShownSorted ==
  ASSUME NEW view \in SUBSET Numbers, sent \in Seq(Seq(Entity))
  PROVE  Sorted(Shown(view)) /\ Shown(view) \in Seq(Entity)
<1> DEFINE n == Cardinality(view)
           pick(i) == CHOOSE e \in view : Rank(view, e) = i - 1
           q == Shown(view)
<1>1. n \in Nat /\ n <= MAX_SNAPSHOT_ENTITIES
  <2>1. IsFiniteSet(Numbers) /\ Cardinality(Numbers) = MAX_SNAPSHOT_ENTITIES
    BY Sizes, FS_Interval DEF Numbers
  <2> QED
    BY <2>1, ViewFinite, FS_Subset
<1>2. q = [i \in 1..n |-> [number |-> pick(i), version |-> VersionAt(pick(i), outgoingSequence)]]
  BY Zenon DEF Shown, Rank
<1>3. ASSUME NEW i \in 1..n PROVE pick(i) \in view /\ Rank(view, pick(i)) = i - 1
  BY RankHas
<1> HIDE DEF n, pick, q
<1>4. outgoingSequence \in Nat
  BY DEF outgoingSequence
<1>5. ASSUME NEW i \in 1..n
      PROVE  /\ q[i] = [number |-> pick(i), version |-> VersionAt(pick(i), outgoingSequence)]
             /\ pick(i) \in Numbers /\ VersionAt(pick(i), outgoingSequence) \in Nat
  BY <1>2, <1>3, <1>4, VersionType
<1>6. ASSUME NEW i \in 1..n
      PROVE  q[i] \in Entity /\ q[i].number = pick(i) /\ q[i].number \in Numbers /\ q[i].version \in Nat
  <2> DEFINE e == pick(i)
             v == VersionAt(pick(i), outgoingSequence)
  <2>1. q[i] = [number |-> e, version |-> v] /\ e \in Numbers /\ v \in Nat
    BY <1>5
  <2> HIDE DEF e, v
  <2>2. q[i].number = e /\ q[i].version = v /\ q[i] \in Entity
    BY <2>1 DEF Entity
  <2> QED
    BY <2>1, <2>2 DEF e
<1>7. q \in Seq(Entity) /\ Len(q) = n
  <2>1. q = [i \in 1..n |-> q[i]]
    BY <1>2, Zenon
  <2>2. q \in [1..n -> Entity]
    BY <1>6, <2>1, Zenon
  <2> QED
    BY <1>1, <2>2
<1>8. ASSUME NEW i \in 1..n, NEW j \in 1..n, i < j PROVE pick(i) < pick(j)
  <2>1. Rank(view, pick(i)) = i - 1 /\ Rank(view, pick(j)) = j - 1 /\ pick(i) \in view /\ pick(j) \in view
    BY <1>3
  <2>2. Rank(view, pick(i)) < Rank(view, pick(j))
    BY <1>1, <1>8, <2>1
  <2> QED
    BY <2>1, <2>2, RankOrders
<1>9. Sorted(q)
  BY <1>1, <1>6, <1>7, <1>8 DEF Sorted
<1> QED
  BY <1>7, <1>9 DEF q

-----------------------------------------------------------------------------
(* The server's ring of entities. *)

SvsT == [snapshotEntities : [0..numSnapshotEntities - 1 -> Entity],
         nextSnapshotEntities : Nat, others : 0..MaxOthers]

\* What is entered is in the ring, and what it did not reach still is.
LEMMA EnteredRing ==
  ASSUME NEW ring \in SvsT, NEW entities \in Seq(Entity), Len(entities) <= MAX_SNAPSHOT_ENTITIES
  PROVE  /\ Entered(ring, entities) \in SvsT
         /\ Entered(ring, entities).others = ring.others
         /\ Entered(ring, entities).nextSnapshotEntities = ring.nextSnapshotEntities + Len(entities)
         /\ \A k \in 1..Len(entities) :
              Entered(ring, entities).snapshotEntities[
                (ring.nextSnapshotEntities + k - 1) % numSnapshotEntities] = entities[k]
         /\ \A p \in Nat :
              p < ring.nextSnapshotEntities
                /\ p > ring.nextSnapshotEntities + Len(entities) - numSnapshotEntities =>
              Entered(ring, entities).snapshotEntities[p % numSnapshotEntities]
                = ring.snapshotEntities[p % numSnapshotEntities]
<1> DEFINE N == numSnapshotEntities
           next == ring.nextSnapshotEntities
           new(i) == {k \in DOMAIN entities : (next + k - 1) % N = i}
           array == [i \in DOMAIN ring.snapshotEntities |->
                       IF new(i) = {} THEN ring.snapshotEntities[i] ELSE entities[Max(new(i))]]
           r == Entered(ring, entities)
<1>1. /\ next \in Nat /\ N \in Nat /\ N > MAX_SNAPSHOT_ENTITIES
      /\ MAX_SNAPSHOT_ENTITIES \in Nat /\ Len(entities) \in Nat /\ DOMAIN entities = 1..Len(entities)
      /\ DOMAIN ring.snapshotEntities = 0..N - 1 /\ ring.snapshotEntities \in [0..N - 1 -> Entity]
  BY Sizes DEF SvsT
<1>2. r = [ring EXCEPT !.nextSnapshotEntities = next + Len(entities), !.snapshotEntities = array]
  BY Zenon DEF Entered
<1>3. /\ r.others = ring.others /\ r.nextSnapshotEntities = next + Len(entities)
      /\ r.snapshotEntities = array
      /\ array \in [0..N - 1 -> Entity] => r \in SvsT
  <2> HIDE DEF array
  <2> QED
    BY <1>1, <1>2 DEF SvsT
<1> HIDE DEF r, N, next
<1>4. ASSUME NEW k \in 1..Len(entities)
      PROVE  new((next + k - 1) % N) = {k}
  <2>1. ASSUME NEW j \in 1..Len(entities), j < k
        PROVE  (next + j - 1) % N # (next + k - 1) % N
    <3>1. /\ next + j - 1 \in Int /\ next + k - 1 \in Int
          /\ next + j - 1 < next + k - 1 /\ next + k - 1 < next + j - 1 + N
      BY <1>1, <2>1
    <3> QED
      BY <1>1, <3>1, SlotsDiffer
  <2>2. ASSUME NEW j \in 1..Len(entities), k < j
        PROVE  (next + j - 1) % N # (next + k - 1) % N
    <3>1. /\ next + j - 1 \in Int /\ next + k - 1 \in Int
          /\ next + k - 1 < next + j - 1 /\ next + j - 1 < next + k - 1 + N
          /\ N \in Nat /\ N > 0
      BY <1>1, <2>2
    <3>2. (next + k - 1) % N # (next + j - 1) % N
      BY <3>1, SlotsDiffer, Zenon
    <3> QED
      BY <3>2
  <2>3. \A j \in 1..Len(entities) : (next + j - 1) % N = (next + k - 1) % N <=> j = k
    BY <1>1, <2>1, <2>2
  <2> QED
    BY <1>1, <2>3
<1>5. ASSUME NEW i \in 0..N - 1, new(i) # {}
      PROVE  \E k \in 1..Len(entities) : new(i) = {k} /\ Max(new(i)) = k /\ i = (next + k - 1) % N
  <2>1. PICK k \in 1..Len(entities) : (next + k - 1) % N = i
    BY <1>1, <1>5
  <2>2. new(i) = {k}
    BY <1>4, <2>1
  <2> HIDE DEF new
  <2>3. Max({k}) = k
    BY <1>1 DEF Max
  <2> QED
    BY <2>1, <2>2, <2>3
<1>6. array \in [0..N - 1 -> Entity]
  <2> SUFFICES ASSUME NEW i \in 0..N - 1 PROVE array[i] \in Entity
    BY <1>1
  <2> HIDE DEF new
  <2>1. CASE new(i) = {}
    BY <1>1, <2>1
  <2>2. CASE new(i) # {}
    <3>1. PICK k \in 1..Len(entities) : Max(new(i)) = k
      BY <1>5, <2>2
    <3>2. entities[k] \in Entity
      BY <1>1
    <3> QED
      BY <1>1, <2>2, <3>1, <3>2
  <2> QED
    BY <2>1, <2>2
<1>7. ASSUME NEW k \in 1..Len(entities) PROVE array[(next + k - 1) % N] = entities[k]
  <2>1. (next + k - 1) % N \in 0..N - 1
    BY <1>1, SameSlot
  <2>2. new((next + k - 1) % N) = {k} /\ Max({k}) = k
    BY <1>1, <1>4 DEF Max
  <2> HIDE DEF new
  <2> QED
    BY <1>1, <2>1, <2>2
<1>8. ASSUME NEW p \in Nat, p < next, p > next + Len(entities) - N
      PROVE  array[p % N] = ring.snapshotEntities[p % N]
  <2>1. p % N \in 0..N - 1
    BY <1>1, SameSlot
  <2>2. ASSUME NEW k \in 1..Len(entities) PROVE p % N # (next + k - 1) % N
    BY <1>1, <1>8, SlotsDiffer
  <2>3. new(p % N) = {}
    BY <1>1, <2>2
  <2> HIDE DEF new
  <2> QED
    BY <1>1, <2>1, <2>3
<1> HIDE DEF array
<1> QED
  BY <1>3, <1>6, <1>7, <1>8 DEF r, next, N

-----------------------------------------------------------------------------
(* Differences. *)

\* Applied to what it was made from, a difference gives what it was made for.
LEMMA DifferenceApplies ==
  ASSUME NEW old, NEW new, NEW e \in Numbers, NEW message,
         message.differences = Differences(old, new)
  PROVE  /\ Has(new, e) =>
              /\ Has(old, e) \/ \E d \in message.differences : d.number = e
              /\ Parsed(old, message, e) = [number |-> e, version |-> VersionIn(new, e)]
         /\ ~Has(new, e) /\ Has(old, e) => Parsed(old, message, e) = NoEntity
         /\ ~Has(new, e) /\ ~Has(old, e) => ~\E d \in message.differences : d.number = e
<1> DEFINE said == {d \in message.differences : d.number = e}
           delta == [number |-> e, kind |-> "delta", from |-> VersionIn(old, e), to |-> VersionIn(new, e)]
           baseline == [number |-> e, kind |-> "baseline", from |-> 0, to |-> VersionIn(new, e)]
           removed == [number |-> e, kind |-> "removed", from |-> 0, to |-> 0]
<1>1. \A d \in said : \/ d = delta /\ Has(old, e) /\ Has(new, e) /\ VersionIn(old, e) # VersionIn(new, e)
                      \/ d = baseline /\ ~Has(old, e) /\ Has(new, e)
                      \/ d = removed /\ Has(old, e) /\ ~Has(new, e)
  BY DEF Differences
<1>2. /\ Has(old, e) /\ Has(new, e) /\ VersionIn(old, e) # VersionIn(new, e) => delta \in said
      /\ ~Has(old, e) /\ Has(new, e) => baseline \in said
      /\ Has(old, e) /\ ~Has(new, e) => removed \in said
  BY DEF Differences
<1>3. said # {} <=> \E d \in message.differences : d.number = e
  OBVIOUS
<1>4. /\ delta.kind = "delta" /\ delta.from = VersionIn(old, e) /\ delta.to = VersionIn(new, e)
      /\ baseline.kind = "baseline" /\ baseline.from = 0 /\ baseline.to = VersionIn(new, e)
      /\ removed.kind = "removed"
  OBVIOUS
<1> HIDE DEF delta, baseline, removed
<1> DEFINE base == IF Has(old, e) THEN VersionIn(old, e) ELSE 0
           d0 == CHOOSE x \in said : TRUE
           kept == [number |-> e, version |->
                      IF (d0.kind = "delta") = Has(old, e) /\ d0.from = base THEN d0.to ELSE Garbled]
<1>5. /\ said = {} => Parsed(old, message, e) = [number |-> e, version |-> base]
      /\ said # {} => Parsed(old, message, e) = IF d0.kind = "removed" THEN NoEntity ELSE kept
  BY Zenon DEF Parsed
<1> HIDE DEF said
<1>6. CASE Has(old, e) /\ Has(new, e) /\ VersionIn(old, e) = VersionIn(new, e)
  BY <1>1, <1>5, <1>6
<1>7. CASE Has(old, e) /\ Has(new, e) /\ VersionIn(old, e) # VersionIn(new, e)
  <2>1. d0 = delta /\ said # {}
    BY <1>1, <1>2, <1>7
  <2> HIDE DEF d0
  <2>2. kept = [number |-> e, version |-> VersionIn(new, e)]
    BY <1>4, <1>7, <2>1
  <2> HIDE DEF kept
  <2> QED
    BY <1>3, <1>4, <1>5, <1>7, <2>1, <2>2
<1>8. CASE ~Has(old, e) /\ Has(new, e)
  <2>1. d0 = baseline /\ said # {}
    BY <1>1, <1>2, <1>8
  <2> HIDE DEF d0
  <2>2. kept = [number |-> e, version |-> VersionIn(new, e)]
    <3>1. (d0.kind = "delta") = Has(old, e)
      BY <1>4, <1>8, <2>1 DEF Has
    <3>2. d0.from = base /\ d0.to = VersionIn(new, e)
      BY <1>4, <1>8, <2>1
    <3> QED
      BY <3>1, <3>2
  <2> HIDE DEF kept
  <2> QED
    BY <1>3, <1>4, <1>5, <1>8, <2>1, <2>2
<1>9. CASE Has(old, e) /\ ~Has(new, e)
  <2>1. d0 = removed /\ said # {}
    BY <1>1, <1>2, <1>9
  <2> HIDE DEF d0, kept
  <2> QED
    BY <1>3, <1>4, <1>5, <1>9, <2>1
<1>10. CASE ~Has(old, e) /\ ~Has(new, e)
  BY <1>1, <1>3, <1>10
<1> QED
  BY <1>6, <1>7, <1>8, <1>9, <1>10

-----------------------------------------------------------------------------
(* The client parses the entities of a snapshot. *)

ParseT == [0..MAX_PARSE_ENTITIES - 1 -> Entity]

\* The entities of old, still in the client's ring, are those the message was
\* made from; new are those it was made for.
Parsing(old, message, new) ==
  /\ client.parseEntities \in ParseT /\ client.parseEntitiesNum \in Nat
  /\ old.numEntities \in Nat /\ old.parseEntitiesNum \in Nat
  /\ old.numEntities > 0 =>
       /\ old.parseEntitiesNum + old.numEntities <= client.parseEntitiesNum
       /\ client.parseEntitiesNum - old.parseEntitiesNum <= MAX_PARSE_ENTITIES - MAX_SNAPSHOT_ENTITIES
  /\ new \in Seq(Entity) /\ Sorted(new)
  /\ message.differences = Differences(ParsedEntities(client.parseEntities, old), new)

\* The entities up to number e have been parsed.
ParsedTo(e, parsing, new) ==
  /\ parsing \in [ring : ParseT, next : Nat]
  /\ \E k \in 0..Len(new) :
       /\ k <= e
       /\ parsing.next = client.parseEntitiesNum + k
       /\ \A i \in 1..k :
            /\ new[i].number <= e
            /\ parsing.ring[(client.parseEntitiesNum + i - 1) % MAX_PARSE_ENTITIES] = new[i]
       /\ \A i \in k + 1..Len(new) : new[i].number > e
  /\ \A q \in Nat : q < client.parseEntitiesNum /\ q > parsing.next - MAX_PARSE_ENTITIES =>
       parsing.ring[q % MAX_PARSE_ENTITIES] = client.parseEntities[q % MAX_PARSE_ENTITIES]

\* One entity more takes the place of the one a ring before.
LEMMA Writes ==
  ASSUME NEW parsing \in [ring : ParseT, next : Nat], NEW entity \in Entity
  PROVE  LET r == CL_DeltaEntity(parsing, entity)
         IN /\ r \in [ring : ParseT, next : Nat]
            /\ r.next = parsing.next + IF entity = NoEntity THEN 0 ELSE 1
            /\ r.ring[parsing.next % MAX_PARSE_ENTITIES] = entity
            /\ \A q \in Nat : q < parsing.next /\ q > parsing.next - MAX_PARSE_ENTITIES =>
                 r.ring[q % MAX_PARSE_ENTITIES] = parsing.ring[q % MAX_PARSE_ENTITIES]
<1> DEFINE M == MAX_PARSE_ENTITIES
           r == CL_DeltaEntity(parsing, entity)
           ring == parsing.ring
           next == parsing.next
           ring1 == [ring EXCEPT ![next % M] = entity]
<1>1. M \in Nat /\ M > 0 /\ next \in Nat /\ ring \in [0..M - 1 -> Entity] /\ next % M \in 0..M - 1
  BY Sizes, SameSlot DEF ParseT
<1> DEFINE next1 == next + (IF entity = NoEntity THEN 0 ELSE 1)
<1>2. r.ring = ring1 /\ r.next = next1 /\ r = [ring |-> ring1, next |-> next1]
  <2>1. r = [parsing EXCEPT !.ring = ring1, !.next = next1]
    <3>1. r = [parsing EXCEPT !.ring[next % M] = entity, !.next = next1]
      BY Zenon DEF CL_DeltaEntity
    <3> HIDE DEF r, next1, M
    <3> QED
      BY <3>1
  <2> HIDE DEF r, next1, ring1
  <2>2. r = [ring |-> ring1, next |-> next1]
    BY <2>1
  <2> QED
    BY <2>2
<1> HIDE DEF r, ring, next, M
<1>3. ring1 \in [0..M - 1 -> Entity] /\ ring1[next % M] = entity
      /\ \A i \in 0..M - 1 : i # next % M => ring1[i] = ring[i]
  BY <1>1
<1> HIDE DEF ring1
<1>4. r \in [ring : ParseT, next : Nat]
  BY <1>1, <1>2, <1>3 DEF ParseT, M
<1>5. ASSUME NEW q \in Nat, q < next, q > next - M PROVE ring1[q % M] = ring[q % M]
  <2>1. q % M \in 0..M - 1
    BY <1>1, SameSlot
  <2>2. q \in Int /\ next \in Int /\ next < q + M
    BY <1>1, <1>5
  <2>3. q % M # next % M
    BY <1>1, <1>5, <2>2, SlotsDiffer
  <2> QED
    BY <1>3, <2>1, <2>3
<1> QED
  BY <1>2, <1>3, <1>4, <1>5 DEF r, ring, next, M

\* While it parses, the client does not overwrite what it parses from.
LEMMA OldStays ==
  ASSUME NEW old, NEW message, NEW new, Parsing(old, message, new),
         NEW e \in Nat, e < MAX_SNAPSHOT_ENTITIES, NEW parsing, ParsedTo(e, parsing, new)
  PROVE  ParsedEntities(parsing.ring, old) = ParsedEntities(client.parseEntities, old)
<1> DEFINE M == MAX_PARSE_ENTITIES
           cur == client.parseEntitiesNum
           pe == old.parseEntitiesNum
           num == old.numEntities
<1>1. M \in Nat /\ MAX_SNAPSHOT_ENTITIES \in Nat /\ cur \in Nat /\ pe \in Nat /\ num \in Nat
  BY Sizes DEF Parsing
<1>2. num > 0 => pe + num <= cur /\ cur - pe <= M - MAX_SNAPSHOT_ENTITIES
  BY DEF Parsing
<1>3. parsing.next \in Nat /\ parsing.next <= cur + e
  BY <1>1 DEF ParsedTo
<1>4. \A q \in Nat : q < cur /\ q > parsing.next - M => parsing.ring[q % M] = client.parseEntities[q % M]
  BY Zenon DEF ParsedTo
<1>5. ASSUME NEW i \in 1..num
      PROVE  parsing.ring[(pe + i - 1) % M] = client.parseEntities[(pe + i - 1) % M]
  <2> HIDE DEF cur, pe, num, M
  <2>1. pe + i - 1 \in Nat /\ pe + i - 1 < cur /\ pe + i - 1 > parsing.next - M
    BY <1>1, <1>2, <1>3
  <2> QED
    BY <1>4, <2>1
<1> QED
  BY <1>5, Zenon DEF ParsedEntities

\* An entity is kept, removed, or passed over, as it is in the new snapshot.
LEMMA ParseStep ==
  ASSUME NEW old, NEW message, NEW new, Parsing(old, message, new),
         NEW e \in Nat, e < MAX_SNAPSHOT_ENTITIES, NEW parsing, ParsedTo(e, parsing, new)
  PROVE  ParsedTo(e + 1, ParseEntity(parsing, old, message, e + 1), new)
<1> DEFINE M == MAX_PARSE_ENTITIES
           cur == client.parseEntitiesNum
           before == ParsedEntities(client.parseEntities, old)
           wrote == CL_DeltaEntity(parsing, Parsed(before, message, e + 1))
           said == \E d \in message.differences : d.number = e + 1
           r == ParseEntity(parsing, old, message, e + 1)
<1>1. /\ M \in Nat /\ MAX_SNAPSHOT_ENTITIES \in Nat /\ cur \in Nat /\ M > MAX_SNAPSHOT_ENTITIES
      /\ new \in Seq(Entity) /\ Sorted(new) /\ Len(new) \in Nat /\ DOMAIN new = 1..Len(new)
      /\ Len(new) <= MAX_SNAPSHOT_ENTITIES
      /\ message.differences = Differences(before, new)
      /\ e + 1 \in Numbers /\ e + 1 \in Nat
  BY Sizes DEF Parsing, Numbers, Sorted
<1>2. r = IF Has(before, e + 1) \/ said THEN wrote ELSE parsing
  <2>1. ParsedEntities(parsing.ring, old) = before
    BY OldStays
  <2> QED
    BY <2>1, Zenon DEF ParseEntity
<1>3. /\ Has(new, e + 1) =>
           /\ Has(before, e + 1) \/ said
           /\ Parsed(before, message, e + 1) = [number |-> e + 1, version |-> VersionIn(new, e + 1)]
      /\ ~Has(new, e + 1) /\ Has(before, e + 1) => Parsed(before, message, e + 1) = NoEntity
      /\ ~Has(new, e + 1) /\ ~Has(before, e + 1) => ~said
  BY <1>1, DifferenceApplies
<1>4. PICK k \in 0..Len(new) :
        /\ k <= e
        /\ parsing.next = cur + k
        /\ \A i \in 1..k : new[i].number <= e /\ parsing.ring[(cur + i - 1) % M] = new[i]
        /\ \A i \in k + 1..Len(new) : new[i].number > e
  BY DEF ParsedTo
<1>5. /\ parsing \in [ring : ParseT, next : Nat]
      /\ \A q \in Nat : q < cur /\ q > parsing.next - M =>
           parsing.ring[q % M] = client.parseEntities[q % M]
  BY Zenon DEF ParsedTo
<1>6. \A i \in 1..Len(new) : new[i].number \in Nat /\ new[i].version \in Nat
  BY <1>1, Sizes DEF Sorted, Numbers
<1>7. \A i, j \in 1..Len(new) : i < j => new[i].number < new[j].number
  BY <1>1 DEF Sorted
<1>8. NoEntity \in Entity
  BY DEF NoEntity, Entity
<1> HIDE DEF M, cur, before, wrote, said, r
<1>9. CASE Has(new, e + 1)
  <2>1. PICK i \in 1..Len(new) : new[i].number = e + 1
    BY <1>1, <1>9 DEF Has
  <2>2. i > k
    BY <1>4, <1>6, <2>1
  <2>3. i = k + 1
    <3> SUFFICES ASSUME k + 1 < i PROVE FALSE
      BY <2>2
    <3>1. k + 1 \in 1..Len(new) /\ k + 1 \in k + 1..Len(new)
      BY <1>1
    <3>2. new[k + 1].number > e /\ new[k + 1].number < new[i].number
      BY <1>4, <1>7, <3>1
    <3> QED
      BY <1>6, <2>1, <3>1, <3>2
  <2>4. VersionIn(new, e + 1) = new[i].version /\ new[i] \in Entity
    BY <1>1, <2>1, SortedFinds
  <2>5. Parsed(before, message, e + 1) = new[i]
    BY <1>3, <1>9, <2>1, <2>4 DEF Entity
  <2>6. new[i] # NoEntity
    BY <2>1 DEF NoEntity
  <2>7. r = CL_DeltaEntity(parsing, new[i])
    BY <1>2, <1>3, <1>9, <2>5 DEF wrote
  <2>8. /\ r \in [ring : ParseT, next : Nat]
        /\ r.next = parsing.next + 1
        /\ r.ring[parsing.next % M] = new[i]
        /\ \A q \in Nat : q < parsing.next /\ q > parsing.next - M => r.ring[q % M] = parsing.ring[q % M]
    BY <1>5, <2>4, <2>6, <2>7, Writes DEF M
  <2>9. i \in 0..Len(new) /\ i <= e + 1 /\ r.next = cur + i
    BY <1>1, <1>4, <2>3, <2>8
  <2>10. ASSUME NEW j \in 1..i
         PROVE  new[j].number <= e + 1 /\ r.ring[(cur + j - 1) % M] = new[j]
    <3>1. CASE j = i
      BY <1>1, <1>4, <2>1, <2>3, <2>8, <3>1
    <3>2. CASE j \in 1..k
      <4>1. cur + j - 1 \in Nat /\ cur + j - 1 < parsing.next /\ cur + j - 1 > parsing.next - M
        BY <1>1, <1>4, <3>2
      <4>2. r.ring[(cur + j - 1) % M] = parsing.ring[(cur + j - 1) % M]
        BY <2>8, <4>1
      <4>3. j \in 1..Len(new)
        BY <1>1, <3>2
      <4> QED
        BY <1>4, <1>6, <3>2, <4>2, <4>3
    <3> QED
      BY <2>3, <3>1, <3>2
  <2>11. ASSUME NEW j \in i + 1..Len(new) PROVE new[j].number > e + 1
    BY <1>6, <1>7, <2>1
  <2>12. ASSUME NEW q \in Nat, q < cur, q > r.next - M
         PROVE  r.ring[q % M] = client.parseEntities[q % M]
    <3>1. q < parsing.next /\ q > parsing.next - M
      BY <1>1, <1>4, <2>8, <2>12
    <3> QED
      BY <1>5, <2>8, <2>12, <3>1
  <2> QED
    BY <2>8, <2>9, <2>10, <2>11, <2>12 DEF ParsedTo, M, cur, r
<1>10. ASSUME ~Has(new, e + 1) PROVE \A i \in k + 1..Len(new) : new[i].number > e + 1
  <2> SUFFICES ASSUME NEW i \in k + 1..Len(new) PROVE new[i].number > e + 1
    OBVIOUS
  <2>1. i \in 1..Len(new) /\ new[i].number # e + 1 /\ new[i].number > e
    BY <1>1, <1>4, <1>10 DEF Has
  <2> QED
    BY <1>6, <2>1
<1>11. \A i \in 1..k : new[i].number <= e + 1
  BY <1>1, <1>4, <1>6
<1>12. CASE ~Has(new, e + 1) /\ Has(before, e + 1)
  <2>1. r = CL_DeltaEntity(parsing, NoEntity)
    BY <1>2, <1>3, <1>12 DEF wrote
  <2>2. /\ r \in [ring : ParseT, next : Nat]
        /\ r.next = parsing.next
        /\ \A q \in Nat : q < parsing.next /\ q > parsing.next - M => r.ring[q % M] = parsing.ring[q % M]
    BY <1>5, <1>8, <2>1, Writes DEF M
  <2>3. ASSUME NEW j \in 1..k PROVE r.ring[(cur + j - 1) % M] = new[j]
    <3>1. cur + j - 1 \in Nat /\ cur + j - 1 < parsing.next /\ cur + j - 1 > parsing.next - M
      BY <1>1, <1>4
    <3> QED
      BY <1>4, <2>2, <3>1
  <2>4. ASSUME NEW q \in Nat, q < cur, q > r.next - M
        PROVE  r.ring[q % M] = client.parseEntities[q % M]
    <3>1. q < parsing.next /\ q > parsing.next - M
      BY <1>1, <1>4, <2>2, <2>4
    <3> QED
      BY <1>5, <2>2, <2>4, <3>1
  <2>5. k <= e + 1 /\ r.next = cur + k
    BY <1>4, <2>2
  <2> QED
    BY <1>10, <1>11, <1>12, <2>2, <2>3, <2>4, <2>5 DEF ParsedTo, M, cur, r
<1>13. CASE ~Has(new, e + 1) /\ ~Has(before, e + 1)
  <2>1. r = parsing
    BY <1>2, <1>3, <1>13
  <2>2. k <= e + 1
    BY <1>4
  <2> QED
    BY <1>4, <1>5, <1>10, <1>11, <1>13, <2>1, <2>2 DEF ParsedTo, M, cur, r
<1> QED
  BY <1>9, <1>12, <1>13

\* The whole of a snapshot's entities.
LEMMA ParsesAll ==
  ASSUME NEW old, NEW message, NEW new, Parsing(old, message, new)
  PROVE  ParsedTo(MAX_SNAPSHOT_ENTITIES, CL_ParsePacketEntities(old, message), new)
<1> DEFINE start == [ring |-> client.parseEntities, next |-> client.parseEntitiesNum]
           Runs(f, n) == f = [e \in 0..n |-> IF e = 0 THEN start
                                             ELSE ParseEntity(f[e - 1], old, message, e)]
           S == {n \in Nat : \E f : Runs(f, n)}
<1>1. ParsedTo(0, start, new)
  <2>1. start \in [ring : ParseT, next : Nat] /\ client.parseEntitiesNum \in Nat
    BY DEF Parsing
  <2>2. Len(new) \in Nat /\ \A i \in 1..Len(new) : new[i].number > 0
    BY Sizes DEF Parsing, Sorted, Numbers
  <2>3. start.next = client.parseEntitiesNum + 0 /\ start.ring = client.parseEntities
    BY <2>1
  <2> HIDE DEF start
  <2>4. \E k \in 0..Len(new) :
          /\ k <= 0
          /\ start.next = client.parseEntitiesNum + k
          /\ \A i \in 1..k :
               /\ new[i].number <= 0
               /\ start.ring[(client.parseEntitiesNum + i - 1) % MAX_PARSE_ENTITIES] = new[i]
          /\ \A i \in k + 1..Len(new) : new[i].number > 0
    <3>1. 0 \in 0..Len(new) /\ 1..0 = {} /\ 0 + 1..Len(new) = 1..Len(new)
      BY <2>2
    <3> QED
      BY <2>2, <2>3, <3>1
  <2> QED
    BY <2>1, <2>3, <2>4, Zenon DEF ParsedTo
<1> HIDE DEF start
<1>2. 0 \in S
  <2> DEFINE f == [e \in 0..0 |-> start]
  <2>1. f = [e \in 0..0 |-> IF e = 0 THEN start ELSE ParseEntity(f[e - 1], old, message, e)]
    <3>1. \A e \in 0..0 : e = 0
      OBVIOUS
    <3> QED
      BY <3>1, Zenon
  <2> QED
    BY <2>1
<1>3. ASSUME NEW n \in Nat, n \in S PROVE n + 1 \in S
  <2>1. PICK f : Runs(f, n)
    BY <1>3
  <2> DEFINE last == ParseEntity(f[n], old, message, n + 1)
             g == [e \in 0..n + 1 |-> IF e = n + 1 THEN last ELSE f[e]]
  <2>3. /\ g[n + 1] = last /\ \A e \in 0..n : g[e] = f[e]
    OBVIOUS
  <2>5. Runs(g, n + 1)
    <3>1. ASSUME NEW e \in 0..n + 1
          PROVE  g[e] = IF e = 0 THEN start ELSE ParseEntity(g[e - 1], old, message, e)
      <4>1. CASE e = n + 1
        <5>1. g[e - 1] = f[n] /\ e # 0
          BY <2>3, <4>1
        <5> HIDE DEF g
        <5> QED
          BY <2>3, <4>1, <5>1
      <4>2. CASE e \in 1..n
        <5>1. g[e] = f[e] /\ g[e - 1] = f[e - 1] /\ e \in 0..n /\ e # 0
          BY <2>3, <4>2
        <5>2. f[e] = ParseEntity(f[e - 1], old, message, e)
          BY <2>1, <5>1, Zenon
        <5> HIDE DEF g
        <5> QED
          BY <5>1, <5>2
      <4>3. CASE e = 0
        <5>1. g[e] = f[e] /\ e \in 0..n
          BY <2>3, <4>3
        <5>2. f[e] = start
          BY <2>1, <4>3, <5>1, Zenon
        <5> HIDE DEF g
        <5> QED
          BY <4>3, <5>1, <5>2
      <4> QED
        BY <4>1, <4>2, <4>3
    <3>2. g = [e \in 0..n + 1 |-> g[e]]
      BY Zenon
    <3> HIDE DEF g
    <3> QED
      BY <3>1, <3>2, Zenon
  <2> HIDE DEF g
  <2> QED
    BY <2>5
<1>4. MAX_SNAPSHOT_ENTITIES \in S
  <2> HIDE DEF S
  <2> QED
    BY <1>2, <1>3, SetInduction, Sizes
<1>5. \E f : Runs(f, MAX_SNAPSHOT_ENTITIES)
  BY <1>4
<1> DEFINE F == CHOOSE f : Runs(f, MAX_SNAPSHOT_ENTITIES)
<1>6. Runs(F, MAX_SNAPSHOT_ENTITIES)
  BY <1>5, Zenon
<1>7. CL_ParsePacketEntities(old, message) = F[MAX_SNAPSHOT_ENTITIES]
  BY Zenon DEF CL_ParsePacketEntities, start
<1> HIDE DEF F
<1> DEFINE T == {n \in Nat : n <= MAX_SNAPSHOT_ENTITIES => ParsedTo(n, F[n], new)}
<1>8. 0 \in T
  <2>1. 0 \in 0..MAX_SNAPSHOT_ENTITIES
    BY Sizes
  <2>2. F[0] = start
    BY <1>6, <2>1, Zenon
  <2> QED
    BY <1>1, <2>2
<1>9. ASSUME NEW n \in Nat, n \in T PROVE n + 1 \in T
  <2> SUFFICES ASSUME n + 1 <= MAX_SNAPSHOT_ENTITIES PROVE ParsedTo(n + 1, F[n + 1], new)
    OBVIOUS
  <2>1. n < MAX_SNAPSHOT_ENTITIES /\ n <= MAX_SNAPSHOT_ENTITIES
        /\ n + 1 \in 0..MAX_SNAPSHOT_ENTITIES /\ n + 1 # 0 /\ (n + 1) - 1 = n
    BY Sizes
  <2>2. F[n + 1] = ParseEntity(F[(n + 1) - 1], old, message, n + 1)
    BY <1>6, <2>1, Zenon
  <2>3. ParsedTo(n, F[n], new)
    BY <1>9, <2>1
  <2>4. F[n + 1] = ParseEntity(F[n], old, message, n + 1)
    BY <2>1, <2>2, Zenon
  <2> QED
    BY <2>1, <2>3, <2>4, ParseStep
<1>10. MAX_SNAPSHOT_ENTITIES \in T
  <2> HIDE DEF T
  <2> QED
    BY <1>8, <1>9, SetInduction, Sizes
<1> QED
  BY <1>7, <1>10, Sizes

-----------------------------------------------------------------------------
(* Messages in flight. *)

\* Some elements of a sequence, in their order.
PartOf(part, q) ==
  /\ Len(part) <= Len(q)
  /\ \E f \in [1..Len(part) -> 1..Len(q)] :
       /\ \A i \in 1..Len(part) : part[i] = q[f[i]]
       /\ \A i, j \in 1..Len(part) : i < j => f[i] < f[j]

LEMMA WholeIsPart ==
  ASSUME NEW S, NEW q \in Seq(S)
  PROVE  PartOf(q, q)
<1> DEFINE f == [i \in 1..Len(q) |-> i]
<1>1. /\ f \in [1..Len(q) -> 1..Len(q)] /\ Len(q) \in Nat
      /\ \A i \in 1..Len(q) : q[i] = q[f[i]]
      /\ \A i, j \in 1..Len(q) : i < j => f[i] < f[j]
  OBVIOUS
<1> HIDE DEF f
<1> QED
  BY <1>1 DEF PartOf

LEMMA RemovedPart ==
  ASSUME NEW S, NEW q \in Seq(S), NEW n \in DOMAIN q
  PROVE  RemoveAt(q, n) \in Seq(S) /\ PartOf(RemoveAt(q, n), q)
<1>1. Len(q) \in Nat /\ DOMAIN q = 1..Len(q) /\ n \in 1..Len(q)
  BY LenProperties
<1> DEFINE a == SubSeq(q, 1, n - 1)
           b == SubSeq(q, n + 1, Len(q))
           part == RemoveAt(q, n)
<1>2. /\ a \in Seq(S) /\ Len(a) = n - 1
      /\ \A i \in 1..(n - 1) : a[i] = q[i]
  BY <1>1, SubSeqProperties
<1>3. /\ b \in Seq(S) /\ Len(b) = Len(q) - n
      /\ \A i \in 1..(Len(q) - n) : b[i] = q[i + n]
  BY <1>1, SubSeqProperties
<1> HIDE DEF a, b
<1>4. part = a \o b
  BY DEF a, b, RemoveAt
<1>5. /\ part \in Seq(S) /\ Len(part) = Len(q) - 1
      /\ \A i \in 1..Len(part) : part[i] = IF i <= n - 1 THEN a[i] ELSE b[i - (n - 1)]
  <2>1. Len(a) + Len(b) = Len(q) - 1
    BY <1>1, <1>2, <1>3
  <2> QED
    <3>1. /\ a \o b \in Seq(S) /\ Len(a \o b) = Len(a) + Len(b)
          /\ \A i \in 1..(Len(a) + Len(b)) :
               (a \o b)[i] = IF i <= Len(a) THEN a[i] ELSE b[i - Len(a)]
      BY <1>2, <1>3, ConcatProperties
    <3> HIDE DEF part
    <3> QED
      BY <1>2, <1>4, <2>1, <3>1
<1> HIDE DEF part
<1> DEFINE f == [i \in 1..Len(part) |-> IF i < n THEN i ELSE i + 1]
<1>6. f \in [1..Len(part) -> 1..Len(q)] /\ \A i, j \in 1..Len(part) : i < j => f[i] < f[j]
  BY <1>1, <1>5
<1>7. ASSUME NEW i \in 1..Len(part) PROVE part[i] = q[f[i]]
  <2>1. CASE i < n
    BY <1>1, <1>2, <1>5, <2>1
  <2>2. CASE ~(i < n)
    <3> DEFINE j == i - (n - 1)
    <3>1. j \in 1..(Len(q) - n) /\ j + n = i + 1 /\ f[i] = i + 1
      BY <1>1, <1>5, <2>2
    <3>2. part[i] = b[j]
      BY <1>1, <1>5, <2>2
    <3> HIDE DEF j, f
    <3> QED
      BY <1>3, <3>1, <3>2
  <2> QED
    BY <2>1, <2>2
<1>8. Len(part) <= Len(q)
  BY <1>1, <1>5
<1> HIDE DEF f
<1>9. PartOf(part, q)
  BY <1>6, <1>7, <1>8 DEF PartOf
<1> QED
  BY <1>5, <1>9 DEF part

LEMMA TailPart ==
  ASSUME NEW S, NEW q \in Seq(S), q # <<>>
  PROVE  /\ Tail(q) \in Seq(S) /\ PartOf(Tail(q), q)
         /\ Head(q) = q[1] /\ 1 \in 1..Len(q) /\ Head(q) \in S
         /\ Len(Tail(q)) = Len(q) - 1
         /\ \A i \in 1..Len(Tail(q)) : Tail(q)[i] = q[i + 1] /\ i + 1 \in 1..Len(q)
<1>1. Len(q) \in Nat /\ Len(q) # 0 /\ DOMAIN q = 1..Len(q)
  BY LenProperties, EmptySeq
<1>2. /\ Tail(q) \in Seq(S) /\ Len(Tail(q)) = Len(q) - 1
      /\ \A i \in 1..Len(Tail(q)) : Tail(q)[i] = q[i + 1]
      /\ Head(q) = q[1] /\ Head(q) \in S
  BY HeadTailProperties
<1> DEFINE f == [i \in 1..Len(Tail(q)) |-> i + 1]
<1>3. /\ f \in [1..Len(Tail(q)) -> 1..Len(q)]
      /\ \A i \in 1..Len(Tail(q)) : Tail(q)[i] = q[f[i]]
      /\ \A i, j \in 1..Len(Tail(q)) : i < j => f[i] < f[j]
  BY <1>1, <1>2
<1>4. PartOf(Tail(q), q)
  <2> HIDE DEF f
  <2> QED
    BY <1>1, <1>2, <1>3 DEF PartOf
<1> QED
  BY <1>1, <1>2, <1>4

\* What holds of the messages of a queue holds of some of them.
LEMMA PartKeeps ==
  ASSUME NEW T, NEW part, NEW q, PartOf(part, q),
         \A i \in 1..Len(q) : q[i] \in T,
         \A i, j \in 1..Len(q) : i < j => q[i].messageNum < q[j].messageNum
  PROVE  /\ \A i \in 1..Len(part) : part[i] \in T
         /\ \A i, j \in 1..Len(part) : i < j => part[i].messageNum < part[j].messageNum
<1>1. PICK f \in [1..Len(part) -> 1..Len(q)] :
        /\ \A i \in 1..Len(part) : part[i] = q[f[i]]
        /\ \A i, j \in 1..Len(part) : i < j => f[i] < f[j]
  BY DEF PartOf
<1>2. \A i \in 1..Len(part) : f[i] \in 1..Len(q)
  BY <1>1
<1> QED
  BY <1>1, <1>2

LEMMA DifferencesType ==
  ASSUME NEW old \in Seq(Entity), NEW new \in Seq(Entity)
  PROVE  Differences(old, new) \in SUBSET Difference
<1>1. ASSUME NEW q \in Seq(Entity), NEW e, Has(q, e) PROVE VersionIn(q, e) \in Nat \cup {Garbled}
  <2> DEFINE k == CHOOSE i \in DOMAIN q : q[i].number = e
  <2>1. k \in DOMAIN q
    BY <1>1, Zenon DEF Has
  <2>2. q[k] \in Entity
    BY <2>1
  <2>3. VersionIn(q, e) = q[k].version
    BY Zenon DEF VersionIn
  <2> HIDE DEF k
  <2> QED
    BY <2>2, <2>3 DEF Entity
<1>2. 0 \in Nat \cup {Garbled}
  OBVIOUS
<1> SUFFICES ASSUME NEW d \in Differences(old, new) PROVE d \in Difference
  OBVIOUS
<1>3. CASE \E e \in Numbers : Has(old, e) /\ Has(new, e)
             /\ d = [number |-> e, kind |-> "delta", from |-> VersionIn(old, e), to |-> VersionIn(new, e)]
  BY <1>1, <1>3 DEF Difference
<1>4. CASE \E e \in Numbers : Has(new, e)
             /\ d = [number |-> e, kind |-> "baseline", from |-> 0, to |-> VersionIn(new, e)]
  BY <1>1, <1>2, <1>4 DEF Difference
<1>5. CASE \E e \in Numbers : d = [number |-> e, kind |-> "removed", from |-> 0, to |-> 0]
  BY <1>2, <1>5 DEF Difference
<1> QED
  BY <1>3, <1>4, <1>5 DEF Differences

-----------------------------------------------------------------------------
(* Frames. *)

\* The frame just entered.
LEMMA EnteredHolds ==
  ASSUME NEW ring \in SvsT, NEW entities \in Seq(Entity), Len(entities) <= MAX_SNAPSHOT_ENTITIES,
         NEW frame, frame.first_entity = ring.nextSnapshotEntities, frame.num_entities = Len(entities)
  PROVE  EntitiesOf(Entered(ring, entities), frame) = entities
<1>1. \A k \in 1..Len(entities) :
        Entered(ring, entities).snapshotEntities[(frame.first_entity + k - 1) % numSnapshotEntities]
          = entities[k]
  BY EnteredRing
<1>2. entities = [k \in 1..Len(entities) |-> entities[k]]
  OBVIOUS
<1> QED
  BY <1>1, <1>2, Zenon DEF EntitiesOf

\* A frame that was in the ring before, and that what is entered does not reach.
LEMMA EnteredKeeps ==
  ASSUME NEW ring \in SvsT, NEW entities \in Seq(Entity), Len(entities) <= MAX_SNAPSHOT_ENTITIES,
         NEW frame \in Frame,
         frame.first_entity + frame.num_entities <= ring.nextSnapshotEntities,
         frame.first_entity > Entered(ring, entities).nextSnapshotEntities - numSnapshotEntities
  PROVE  EntitiesOf(Entered(ring, entities), frame) = EntitiesOf(ring, frame)
<1> DEFINE r == Entered(ring, entities)
           first == frame.first_entity
           num == frame.num_entities
<1>1. first \in Nat /\ num \in Nat /\ ring.nextSnapshotEntities \in Nat /\ Len(entities) \in Nat
      /\ numSnapshotEntities \in Nat
  BY Sizes DEF Frame, SvsT
<1>2. r.nextSnapshotEntities = ring.nextSnapshotEntities + Len(entities)
  BY EnteredRing
<1>3. \A p \in Nat :
        p < ring.nextSnapshotEntities
          /\ p > ring.nextSnapshotEntities + Len(entities) - numSnapshotEntities =>
        r.snapshotEntities[p % numSnapshotEntities] = ring.snapshotEntities[p % numSnapshotEntities]
  BY EnteredRing
<1> HIDE DEF r
<1>4. ASSUME NEW i \in 1..num
      PROVE  r.snapshotEntities[(first + i - 1) % numSnapshotEntities]
               = ring.snapshotEntities[(first + i - 1) % numSnapshotEntities]
  <2>1. /\ first + i - 1 \in Nat /\ first + i - 1 < ring.nextSnapshotEntities
        /\ first + i - 1 > ring.nextSnapshotEntities + Len(entities) - numSnapshotEntities
    BY <1>1, <1>2 DEF r
  <2> QED
    BY <1>3, <2>1
<1> QED
  BY <1>4, Zenon DEF EntitiesOf, r

-----------------------------------------------------------------------------
(* The steps of the server. *)

\* Facts of the invariant that the steps need, and that only unfold it.
LEMMA Types ==
  ASSUME TypeOK
  PROVE  /\ svs \in SvsT
         /\ cl.deltaMessage \in Nat \cup {-1} /\ cl.frames \in [Slots -> Frame]
         /\ cl = [deltaMessage |-> cl.deltaMessage, frames |-> cl.frames]
         /\ client.snap \in Snapshot /\ client.snapshots \in [Slots -> Snapshot]
         /\ client.parseEntities \in ParseT /\ client.parseEntitiesNum \in Nat
         /\ client.serverMessageSequence \in Nat /\ client.snap.messageNum \in Nat
         /\ Len(sent) \in Nat /\ \A n \in 1..Len(sent) : sent[n] \in Seq(Entity)
         /\ outgoingSequence \in Nat /\ outgoingSequence = Len(sent) + 1
<1>1. svs \in SvsT
  BY DEF TypeOK, SvsT
<1>2. cl \in [deltaMessage : Nat \cup {-1}, frames : [Slots -> Frame]]
  BY DEF TypeOK
<1>3. client \in [snap : Snapshot, snapshots : [Slots -> Snapshot], parseEntities : ParseT,
                 parseEntitiesNum : Nat, serverMessageSequence : Nat, dumped : BOOLEAN]
  BY DEF TypeOK, ParseT
<1>4. client.snap \in Snapshot
  BY <1>3
<1>5. client.snap.messageNum \in Nat
  BY <1>4 DEF Snapshot
<1>6. sent \in Seq(Seq(Entity))
  BY DEF TypeOK
<1>7. Len(sent) \in Nat /\ \A n \in 1..Len(sent) : sent[n] \in Seq(Entity)
  BY <1>6
<1>8. outgoingSequence \in Nat /\ outgoingSequence = Len(sent) + 1
  BY <1>7 DEF outgoingSequence
<1>9. /\ cl.deltaMessage \in Nat \cup {-1} /\ cl.frames \in [Slots -> Frame]
      /\ cl = [deltaMessage |-> cl.deltaMessage, frames |-> cl.frames]
  BY <1>2
<1>10. /\ client.snapshots \in [Slots -> Snapshot]
       /\ client.parseEntities \in ParseT /\ client.parseEntitiesNum \in Nat
       /\ client.serverMessageSequence \in Nat
  BY <1>3
<1> QED
  BY <1>1, <1>4, <1>5, <1>7, <1>8, <1>9, <1>10, Zenon

LEMMA SlotType ==
  ASSUME NEW n \in Int
  PROVE  Slot(n) \in Slots /\ Slot(n + PACKET_BACKUP) = Slot(n)
<1>1. PACKET_BACKUP \in Nat /\ PACKET_BACKUP > 0
  BY Sizes
<1>2. (n + PACKET_BACKUP) % PACKET_BACKUP = n % PACKET_BACKUP /\ n % PACKET_BACKUP \in 0..PACKET_BACKUP - 1
  BY <1>1, SameSlot, Zenon
<1> QED
  BY <1>2, Zenon DEF Slot, Slots

LEMMA SlotOther ==
  ASSUME NEW a \in Int, NEW b \in Int, a < b, b < a + PACKET_BACKUP
  PROVE  Slot(a) # Slot(b)
BY Sizes, SlotsDiffer DEF Slot

\* The frame of a message the client has can be used whenever it is in the ring.
LEMMA BaseHolds ==
  ASSUME SnapshotsInv, NEW ring, NEW entities \in Seq(Entity), ring = Entered(svs, entities),
         Len(entities) <= MAX_SNAPSHOT_ENTITIES, HasBase(ring, cl.deltaMessage)
  PROVE  /\ cl.deltaMessage \in 1..Len(sent) /\ Held(cl.deltaMessage)
         /\ outgoingSequence - cl.deltaMessage \in 1..PACKET_BACKUP - 4
         /\ EntitiesOf(ring, cl.frames[Slot(cl.deltaMessage)]) = sent[cl.deltaMessage]
<1> DEFINE n == cl.deltaMessage
           frame == cl.frames[Slot(n)]
<1>1. /\ svs \in SvsT /\ n \in Nat \cup {-1} /\ cl.frames \in [Slots -> Frame]
      /\ Len(sent) \in Nat /\ outgoingSequence = Len(sent) + 1 /\ client.snap.messageNum \in Nat
  BY Types DEF SnapshotsInv
<1>2. n > 0 /\ outgoingSequence - n < PACKET_BACKUP - 3
      /\ frame.first_entity > ring.nextSnapshotEntities - numSnapshotEntities
  BY DEF HasBase
<1>3. Held(n) /\ client.snap.messageNum <= Len(sent)
  BY <1>2 DEF SnapshotsInv, DeltaInv, ClientInv
<1>4. n \in 1..Len(sent)
  BY <1>1, <1>3 DEF Held
<1>5. outgoingSequence - n \in 1..PACKET_BACKUP - 4
  BY <1>1, <1>2, <1>4, Sizes
<1>6. FrameHolds(n)
  BY <1>1, <1>4, <1>5, Sizes DEF SnapshotsInv, FrameInv
<1>7. frame \in Frame
  <2>1. Slot(n) \in Slots
    BY <1>4, SlotType
  <2> QED
    BY <1>1, <2>1
<1>8. /\ frame.first_entity + frame.num_entities <= svs.nextSnapshotEntities
      /\ frame.first_entity > svs.nextSnapshotEntities - numSnapshotEntities =>
           EntitiesOf(svs, frame) = sent[n]
  BY <1>6, Zenon DEF FrameHolds
<1> HIDE DEF n, frame
<1>9. EntitiesOf(ring, frame) = EntitiesOf(svs, frame)
  BY <1>1, <1>2, <1>7, <1>8, EnteredKeeps
<1>10. frame.first_entity > svs.nextSnapshotEntities - numSnapshotEntities
  <2>1. ring.nextSnapshotEntities = svs.nextSnapshotEntities + Len(entities)
    BY <1>1, EnteredRing
  <2>2. /\ svs.nextSnapshotEntities \in Nat /\ Len(entities) \in Nat /\ frame.first_entity \in Nat
        /\ numSnapshotEntities \in Nat
    BY <1>1, <1>7, Sizes DEF SvsT, Frame
  <2> QED
    BY <1>2, <2>1, <2>2
<1> QED
  BY <1>3, <1>4, <1>5, <1>8, <1>9, <1>10 DEF n, frame

\* What is entered for this snapshot or another leaves the other frames as they
\* were, as far as they may still be used.
LEMMA FramesStay ==
  ASSUME SnapshotsInv, NEW entities \in Seq(Entity), Len(entities) <= MAX_SNAPSHOT_ENTITIES,
         NEW ring, ring = Entered(svs, entities),
         NEW n \in 1..Len(sent), n + PACKET_BACKUP > Len(sent)
  PROVE  LET frame == cl.frames[Slot(n)]
         IN /\ frame \in Frame
            /\ frame.num_entities = Len(sent[n])
            /\ frame.first_entity + frame.num_entities <= ring.nextSnapshotEntities
            /\ frame.first_entity > ring.nextSnapshotEntities - numSnapshotEntities =>
                 EntitiesOf(ring, frame) = sent[n]
<1> DEFINE frame == cl.frames[Slot(n)]
<1>1. /\ svs \in SvsT /\ cl.frames \in [Slots -> Frame] /\ Len(sent) \in Nat
  BY Types DEF SnapshotsInv
<1>2. FrameHolds(n)
  BY DEF SnapshotsInv, FrameInv
<1>3. frame \in Frame
  <2>1. Slot(n) \in Slots
    BY <1>1, SlotType
  <2> QED
    BY <1>1, <2>1
<1>4. /\ frame.num_entities = Len(sent[n])
      /\ frame.first_entity + frame.num_entities <= svs.nextSnapshotEntities
      /\ frame.first_entity > svs.nextSnapshotEntities - numSnapshotEntities =>
           EntitiesOf(svs, frame) = sent[n]
  BY <1>2, Zenon DEF FrameHolds
<1> HIDE DEF frame
<1>5. ring.nextSnapshotEntities = svs.nextSnapshotEntities + Len(entities)
  BY <1>1, EnteredRing
<1>6. /\ svs.nextSnapshotEntities \in Nat /\ Len(entities) \in Nat /\ frame.first_entity \in Nat
      /\ numSnapshotEntities \in Nat /\ frame.num_entities \in Nat
  BY <1>1, <1>3, Sizes DEF SvsT, Frame
<1>7. frame.first_entity + frame.num_entities <= ring.nextSnapshotEntities
  BY <1>4, <1>5, <1>6
<1>8. ASSUME frame.first_entity > ring.nextSnapshotEntities - numSnapshotEntities
      PROVE  EntitiesOf(ring, frame) = sent[n]
  <2>1. EntitiesOf(ring, frame) = EntitiesOf(svs, frame)
    BY <1>1, <1>3, <1>4, <1>8, EnteredKeeps
  <2>2. frame.first_entity > svs.nextSnapshotEntities - numSnapshotEntities
    BY <1>5, <1>6, <1>8
  <2> QED
    BY <1>4, <2>1, <2>2
<1> QED
  BY <1>3, <1>4, <1>7, <1>8 DEF frame

\* A message keeps its meaning while the client gets nothing and the server sends more.
LEMMA FitsStays ==
  ASSUME NEW m, MessageFits(m), client' = client, Len(sent) \in Nat, Len(sent') \in Nat,
         client.snap.messageNum \in Nat, client.snap.messageNum <= Len(sent),
         Len(sent) <= Len(sent'), \A n \in 1..Len(sent) : sent'[n] = sent[n]
  PROVE  MessageFits(m)'
<1>1. m.messageNum \in client.snap.messageNum + 1..Len(sent)
  BY DEF MessageFits
<1>2. sent'[m.messageNum] = sent[m.messageNum] /\ m.messageNum \in client'.snap.messageNum + 1..Len(sent')
  BY <1>1
<1>3. m.lastframe # 0 => /\ m.lastframe < PACKET_BACKUP - 3 /\ Held(m.messageNum - m.lastframe)
                         /\ m.messageNum - m.lastframe \in 1..Len(sent)
  BY <1>1 DEF MessageFits, Held
<1>4. m.lastframe # 0 => Held(m.messageNum - m.lastframe)'
  BY <1>3 DEF Held
<1>5. BaseOf(m)' = BaseOf(m)
  BY <1>3 DEF BaseOf
<1>6. m.differences = Differences(BaseOf(m), sent[m.messageNum])
  BY DEF MessageFits
<1>7. m.differences = Differences(BaseOf(m), sent[m.messageNum])'
  BY <1>2, <1>5, <1>6, Zenon
<1> QED
  BY <1>2, <1>3, <1>4, <1>7, Zenon DEF MessageFits

\* So does what the client holds.
LEMMA SnapshotStays ==
  ASSUME NEW i, SnapshotHolds(i), client' = client, Len(sent) \in Nat,
         client.snap.messageNum \in Nat, client.snap.messageNum <= Len(sent),
         \A n \in 1..Len(sent) : sent'[n] = sent[n]
  PROVE  SnapshotHolds(i)'
<1> DEFINE n == client.snapshots[i].messageNum
<1>1. n \in 1..Len(sent)
  BY DEF SnapshotHolds
<1>2. sent'[n] = sent[n]
  BY <1>1
<1> QED
  BY <1>2, Zenon DEF SnapshotHolds

\* A step that leaves the client and its moves alone.
LEMMA ServerSide ==
  ASSUME SnapshotsInv, client' = client, toServer' = toServer, cl'.deltaMessage = cl.deltaMessage,
         Len(sent') \in Nat, Len(sent) <= Len(sent'), \A n \in 1..Len(sent) : sent'[n] = sent[n]
  PROVE  DeltaInv' /\ ClientInv'
<1>1. client.snap.messageNum \in Nat /\ Len(sent) \in Nat
  BY Types DEF SnapshotsInv
<1>2. client.snap.messageNum <= Len(sent)
  BY DEF SnapshotsInv, ClientInv
<1>3. \A n : Held(n) => Held(n)'
  BY DEF Held
<1>4. DeltaInv'
  BY <1>3, Zenon DEF SnapshotsInv, DeltaInv
<1>5. \A i \in Slots : client'.snapshots[i].valid => SnapshotHolds(i)'
  BY <1>1, <1>2, SnapshotStays DEF SnapshotsInv, ClientInv
<1>6. client'.snap.messageNum <= Len(sent')
  BY <1>1, <1>2
<1> QED
  BY <1>4, <1>5, <1>6 DEF SnapshotsInv, ClientInv

LEMMA SendStep ==
  ASSUME SnapshotsInv, SV_SendClientSnapshot
  PROVE  SnapshotsInv'
<1> DEFINE n == outgoingSequence
           entities == Shown(views[(Len(sent) % Len(views)) + 1])
           ring == Entered(svs, entities)
           frame == [first_entity |-> svs.nextSnapshotEntities, num_entities |-> Len(entities)]
           delta == cl.deltaMessage
           base == HasBase(ring, delta)
           old == IF base THEN EntitiesOf(ring, cl.frames[Slot(delta)]) ELSE <<>>
           m == [messageNum |-> n, lastframe |-> IF base THEN n - delta ELSE 0,
                 differences |-> Differences(old, EntitiesOf(ring, frame))]
<1>1. /\ svs \in SvsT /\ delta \in Nat \cup {-1} /\ cl.frames \in [Slots -> Frame]
      /\ cl = [deltaMessage |-> delta, frames |-> cl.frames]
      /\ client.snap.messageNum \in Nat
      /\ Len(sent) \in Nat /\ n \in Nat /\ n = Len(sent) + 1
      /\ \A k \in 1..Len(sent) : sent[k] \in Seq(Entity)
  BY Types DEF SnapshotsInv
<1>2. /\ Len(toClient) < Capacity /\ svs' = ring
      /\ cl' = [cl EXCEPT !.frames[Slot(n)] = frame]
      /\ toClient' = Append(toClient, m)
      /\ sent' = Append(sent, entities)
      /\ UNCHANGED <<client, toServer, views>>
  BY Zenon DEF SV_SendClientSnapshot
<1>3. /\ toClient \in Seq(Message) /\ Len(toClient) <= Capacity
      /\ toServer \in Seq(Move) /\ Len(toServer) <= Capacity
      /\ views \in Views /\ sent \in Seq(Seq(Entity))
  BY DEF SnapshotsInv, TypeOK
<1>4. entities \in Seq(Entity) /\ Sorted(entities) /\ Len(entities) <= MAX_SNAPSHOT_ENTITIES /\ Len(entities) \in Nat
  <2>1. views \in Seq(SUBSET Numbers) /\ Len(views) \in Nat /\ Len(views) > 0
    <3>1. views \in Seq(SUBSET Numbers) /\ views # <<>>
      BY <1>3, ViewsAssumption DEF Numbers
    <3> QED
      BY <3>1, EmptySeq, LenProperties
  <2>2. (Len(sent) % Len(views)) + 1 \in 1..Len(views)
    <3>1. Len(sent) % Len(views) \in 0..Len(views) - 1
      BY <1>1, <2>1, SameSlot
    <3> QED
      BY <2>1, <3>1
  <2>3. views[(Len(sent) % Len(views)) + 1] \in SUBSET Numbers
    BY <2>1, <2>2
  <2>4. entities \in Seq(Entity) /\ Sorted(entities)
    BY <1>3, <2>3, ShownSorted
  <2> HIDE DEF entities
  <2> QED
    BY <2>4 DEF Sorted
<1> HIDE DEF entities
<1>5. /\ Len(sent') = Len(sent) + 1 /\ sent'[n] = entities /\ sent' \in Seq(Seq(Entity))
      /\ \A k \in 1..Len(sent) : sent'[k] = sent[k]
  BY <1>1, <1>2, <1>3, <1>4
<1>6. /\ ring \in SvsT /\ ring.nextSnapshotEntities = svs.nextSnapshotEntities + Len(entities)
  BY <1>1, <1>4, EnteredRing
<1>7. frame \in Frame /\ frame.first_entity = svs.nextSnapshotEntities /\ frame.num_entities = Len(entities)
  BY <1>1, <1>4 DEF Frame, SvsT
<1> HIDE DEF frame
<1>8. EntitiesOf(ring, frame) = entities
  BY <1>1, <1>4, <1>7, EnteredHolds
<1>9. Slot(n) \in Slots
  BY <1>1, SlotType
<1>10. /\ cl'.deltaMessage = delta
       /\ cl'.frames = [cl.frames EXCEPT ![Slot(n)] = frame]
       /\ cl' = [deltaMessage |-> delta, frames |-> cl'.frames]
       /\ cl'.frames \in [Slots -> Frame] /\ cl'.frames[Slot(n)] = frame
       /\ \A i \in Slots : i # Slot(n) => cl'.frames[i] = cl.frames[i]
  BY <1>1, <1>2, <1>7, <1>9
<1>11. FrameInv'
  <2> SUFFICES ASSUME NEW k \in 1..Len(sent'), k + PACKET_BACKUP > Len(sent') PROVE FrameHolds(k)'
    BY DEF FrameInv
  <2>1. CASE k = n
    <3>1. /\ frame.num_entities = Len(entities)
          /\ frame.first_entity + frame.num_entities <= ring.nextSnapshotEntities
      BY <1>1, <1>4, <1>6, <1>7 DEF SvsT
    <3> QED
      BY <1>2, <1>5, <1>8, <1>10, <2>1, <3>1 DEF FrameHolds
  <2>2. CASE k \in 1..Len(sent)
    <3>1. k \in Int /\ n \in Int /\ k < n /\ n < k + PACKET_BACKUP /\ k + PACKET_BACKUP > Len(sent)
      BY <1>1, <1>5, <2>2, Sizes
    <3>2. Slot(k) # Slot(n) /\ Slot(k) \in Slots
      BY <3>1, SlotOther, SlotType
    <3>3. cl'.frames[Slot(k)] = cl.frames[Slot(k)] /\ sent'[k] = sent[k]
      BY <1>5, <1>10, <2>2, <3>2
    <3>4. LET f == cl.frames[Slot(k)]
          IN /\ f \in Frame
             /\ f.num_entities = Len(sent[k])
             /\ f.first_entity + f.num_entities <= ring.nextSnapshotEntities
             /\ f.first_entity > ring.nextSnapshotEntities - numSnapshotEntities =>
                  EntitiesOf(ring, f) = sent[k]
      BY <1>4, <2>2, <3>1, FramesStay
    <3> HIDE DEF ring
    <3> QED
      BY <1>2, <3>3, <3>4 DEF FrameHolds
  <2> QED
    BY <1>1, <1>5, <2>1, <2>2
<1>12. ASSUME base
       PROVE  /\ delta \in 1..Len(sent) /\ Held(delta) /\ n - delta \in 1..PACKET_BACKUP - 4
              /\ old = sent[delta]
  BY <1>4, <1>12, BaseHolds
<1>13. old \in Seq(Entity)
  BY <1>1, <1>12
<1>14. m.differences = Differences(old, entities) /\ m.messageNum = n
       /\ (base => m.lastframe = n - delta) /\ (~base => m.lastframe = 0)
  BY <1>8
<1>15. m \in Message
  <2>1. m.differences \in SUBSET Difference
    BY <1>4, <1>13, <1>14, DifferencesType
  <2>2. m.lastframe \in Nat
    BY <1>12, <1>14, Sizes
  <2>3. m = [messageNum |-> m.messageNum, lastframe |-> m.lastframe, differences |-> m.differences]
    OBVIOUS
  <2> HIDE DEF m
  <2> QED
    BY <1>1, <1>14, <2>1, <2>2, <2>3 DEF Message
<1>16. ASSUME NEW x, x = m PROVE MessageFits(x)'
  <2>0. ~base => old = <<>>
    OBVIOUS
  <2> HIDE DEF m, old, ring, base
  <2>1. client.snap.messageNum <= Len(sent)
    BY DEF SnapshotsInv, ClientInv
  <2>2. x.messageNum = n /\ x.messageNum \in client'.snap.messageNum + 1..Len(sent')
    BY <1>1, <1>2, <1>5, <1>14, <1>16, <2>1
  <2>3. x.differences = Differences(old, sent'[x.messageNum])
    BY <1>5, <1>14, <1>16, <2>2
  <2>4. CASE base
    <3>1. x.lastframe < PACKET_BACKUP - 3 /\ x.lastframe # 0 /\ x.messageNum - x.lastframe = delta
      BY <1>1, <1>12, <1>14, <1>16, <2>4, Sizes
    <3>2. Held(x.messageNum - x.lastframe)'
      BY <1>2, <1>12, <2>4, <3>1 DEF Held
    <3>3. sent'[x.messageNum - x.lastframe] = old
      BY <1>5, <1>12, <2>4, <3>1
    <3>4. BaseOf(x)' = old
      BY <3>1, <3>3 DEF BaseOf
    <3> QED
      BY <2>2, <2>3, <3>1, <3>2, <3>4 DEF MessageFits
  <2>5. CASE ~base
    <3>1. BaseOf(x)' = old /\ x.lastframe = 0
      BY <1>14, <1>16, <2>0, <2>5 DEF BaseOf
    <3> QED
      BY <2>2, <2>3, <3>1 DEF MessageFits
  <2> QED
    BY <2>4, <2>5
<1> HIDE DEF m, base, old, ring
<1>17. /\ toClient' \in Seq(Message) /\ Len(toClient') = Len(toClient) + 1 /\ Len(toClient) \in Nat
       /\ toClient'[Len(toClient) + 1] = m
       /\ \A i \in 1..Len(toClient) : toClient'[i] = toClient[i]
  BY <1>2, <1>3, <1>15
<1>18. client.snap.messageNum <= Len(sent)
  BY DEF SnapshotsInv, ClientInv
<1>19. MessageInv'
  <2>1. ASSUME NEW x \in InFlight PROVE MessageFits(x)' /\ x.messageNum \in Nat /\ x.messageNum < n
    <3>1. MessageFits(x)
      BY DEF SnapshotsInv, MessageInv
    <3>2. x.messageNum \in Nat /\ x.messageNum < n
      BY <1>1, <3>1 DEF MessageFits
    <3>3. MessageFits(x)'
      BY <1>1, <1>2, <1>5, <1>18, <3>1, FitsStays
    <3> QED
      BY <3>2, <3>3
  <2>2. \A x \in InFlight' : x \in InFlight \/ x = m
    BY <1>17 DEF InFlight
  <2>3. \A x \in InFlight' : MessageFits(x)'
    BY <1>16, <2>1, <2>2
  <2>4. \A i \in 1..Len(toClient) : toClient[i].messageNum \in Nat /\ toClient[i].messageNum < n
    BY <2>1 DEF InFlight
  <2>5. \A i, j \in 1..Len(toClient) : i < j => toClient[i].messageNum < toClient[j].messageNum
    BY DEF SnapshotsInv, MessageInv
  <2>6. ASSUME NEW i \in 1..Len(toClient'), NEW j \in 1..Len(toClient'), i < j
        PROVE  toClient'[i].messageNum < toClient'[j].messageNum
    <3>1. i \in 1..Len(toClient) /\ toClient'[i] = toClient[i]
      BY <1>17, <2>6
    <3>2. CASE j \in 1..Len(toClient)
      BY <1>17, <2>5, <2>6, <3>1, <3>2
    <3>3. CASE j = Len(toClient) + 1
      BY <1>14, <1>17, <2>4, <3>1, <3>3
    <3> QED
      BY <1>17, <3>2, <3>3
  <2> QED
    BY <2>3, <2>6 DEF MessageInv
<1>20. SentInv'
  <2>1. \A k \in 1..Len(sent) : Sorted(sent'[k])
    BY <1>5 DEF SnapshotsInv, SentInv
  <2> QED
    BY <1>1, <1>4, <1>5, <2>1 DEF SentInv
<1>21. DeltaInv' /\ ClientInv'
  BY <1>1, <1>2, <1>5, <1>10, ServerSide
<1>22. TypeOK'
  <2>1. cl' \in [deltaMessage : Nat \cup {-1}, frames : [Slots -> Frame]]
    BY <1>1, <1>10
  <2>2. Len(toClient') <= Capacity
    BY <1>2, <1>17, BoundsAssumption
  <2> QED
    BY <1>2, <1>3, <1>5, <1>6, <1>17, <2>1, <2>2 DEF SnapshotsInv, TypeOK, SvsT
<1> QED
  BY <1>11, <1>19, <1>20, <1>21, <1>22 DEF SnapshotsInv

\* A step that sends nothing leaves the messages as they fit.
LEMMA MessagesStay ==
  ASSUME SnapshotsInv, client' = client, sent' = sent, toClient' \in Seq(Message), PartOf(toClient', toClient)
  PROVE  MessageInv' /\ Len(toClient') <= Capacity
<1>1. client.snap.messageNum \in Nat /\ Len(sent) \in Nat
  BY Types DEF SnapshotsInv
<1>2. client.snap.messageNum <= Len(sent)
  BY DEF SnapshotsInv, ClientInv
<1>3. ASSUME NEW m \in InFlight PROVE MessageFits(m)'
  <2>1. MessageFits(m)
    BY DEF SnapshotsInv, MessageInv
  <2> QED
    BY <1>1, <1>2, <2>1, FitsStays
<1>4. /\ \A i \in 1..Len(toClient) : toClient[i] \in InFlight
      /\ \A i, j \in 1..Len(toClient) : i < j => toClient[i].messageNum < toClient[j].messageNum
  BY DEF InFlight, SnapshotsInv, MessageInv
<1>5. /\ \A i \in 1..Len(toClient') : toClient'[i] \in InFlight
      /\ \A i, j \in 1..Len(toClient') : i < j => toClient'[i].messageNum < toClient'[j].messageNum
  <2> DEFINE part == toClient'
             T == InFlight
  <2>1. PartOf(part, toClient) /\ \A i \in 1..Len(toClient) : toClient[i] \in T
    BY <1>4
  <2> HIDE DEF part, T
  <2>2. /\ \A i \in 1..Len(part) : part[i] \in T
        /\ \A i, j \in 1..Len(part) : i < j => part[i].messageNum < part[j].messageNum
    BY <1>4, <2>1, PartKeeps
  <2> QED
    BY <2>2 DEF part, T
<1>6. \A m \in InFlight' : m \in InFlight
  BY <1>5 DEF InFlight
<1>7. Len(toClient') <= Capacity
  <2>1. /\ Len(toClient') <= Len(toClient) /\ Len(toClient) <= Capacity
        /\ Len(toClient') \in Nat /\ Len(toClient) \in Nat /\ Capacity \in Nat
    BY BoundsAssumption DEF PartOf, SnapshotsInv, TypeOK
  <2> QED
    BY <2>1
<1> QED
  BY <1>3, <1>5, <1>6, <1>7 DEF MessageInv

LEMMA OtherStep ==
  ASSUME SnapshotsInv, NEW n \in 1..MAX_SNAPSHOT_ENTITIES, OtherSnapshot(n)
  PROVE  SnapshotsInv'
<1> DEFINE entities == [i \in 1..n |-> NoEntity]
           ring == Entered(svs, entities)
<1>1. /\ svs \in SvsT /\ Len(sent) \in Nat /\ cl.frames \in [Slots -> Frame]
  BY Types DEF SnapshotsInv
<1>2. entities \in Seq(Entity) /\ Len(entities) = n /\ n \in Nat /\ n <= MAX_SNAPSHOT_ENTITIES
  <2>1. NoEntity \in Entity
    BY DEF NoEntity, Entity
  <2> QED
    BY <2>1, Sizes
<1> HIDE DEF entities
<1>3. /\ svs.others + n <= MaxOthers
      /\ svs' = [ring EXCEPT !.others = ring.others + n]
      /\ UNCHANGED <<cl, client, toClient, toServer, views, sent>>
  BY Zenon DEF OtherSnapshot, entities
<1>4. ring \in SvsT /\ ring.others = svs.others
  BY <1>1, <1>2, EnteredRing
<1> HIDE DEF ring
<1>5. /\ svs' \in SvsT
      /\ svs'.snapshotEntities = ring.snapshotEntities
      /\ svs'.nextSnapshotEntities = ring.nextSnapshotEntities
  BY <1>1, <1>2, <1>3, <1>4, BoundsAssumption DEF SvsT
<1>6. FrameInv'
  <2> SUFFICES ASSUME NEW k \in 1..Len(sent), k + PACKET_BACKUP > Len(sent) PROVE FrameHolds(k)'
    BY <1>3 DEF FrameInv
  <2>1. LET f == cl.frames[Slot(k)]
        IN /\ f \in Frame
           /\ f.num_entities = Len(sent[k])
           /\ f.first_entity + f.num_entities <= ring.nextSnapshotEntities
           /\ f.first_entity > ring.nextSnapshotEntities - numSnapshotEntities =>
                EntitiesOf(ring, f) = sent[k]
    BY <1>2, FramesStay DEF ring
  <2> QED
    BY <1>3, <1>5, <2>1 DEF FrameHolds, EntitiesOf
<1>7. toClient \in Seq(Message) /\ PartOf(toClient, toClient)
  <2>1. toClient \in Seq(Message)
    BY DEF SnapshotsInv, TypeOK
  <2> QED
    BY <2>1, WholeIsPart
<1>8. MessageInv'
  <2>1. client' = client /\ sent' = sent /\ toClient' \in Seq(Message) /\ PartOf(toClient', toClient)
    BY <1>3, <1>7
  <2> QED
    BY <2>1, MessagesStay
<1>9. DeltaInv' /\ ClientInv'
  BY <1>1, <1>3, ServerSide
<1>10. SentInv'
  BY <1>3 DEF SnapshotsInv, SentInv
<1>11. TypeOK'
  BY <1>3, <1>5 DEF SnapshotsInv, TypeOK, SvsT
<1> QED
  BY <1>6, <1>8, <1>9, <1>10, <1>11 DEF SnapshotsInv

\* Moves and losses: the server's frames and the client's snapshots stay.
LEMMA QueueStep ==
  ASSUME SnapshotsInv, UNCHANGED <<svs, client, views, sent>>, cl'.frames = cl.frames,
         toClient' \in Seq(Message), PartOf(toClient', toClient), TypeOK', DeltaInv'
  PROVE  SnapshotsInv'
<1>1. MessageInv'
  BY MessagesStay
<1>2. FrameInv' /\ SentInv'
  BY DEF SnapshotsInv, FrameInv, FrameHolds, SentInv
<1>3. ClientInv'
  BY DEF SnapshotsInv, ClientInv, SnapshotHolds
<1> QED
  BY <1>1, <1>2, <1>3 DEF SnapshotsInv

LEMMA UserMoveStep ==
  ASSUME SnapshotsInv, SV_UserMove
  PROVE  SnapshotsInv'
<1> DEFINE move == Head(toServer)
           delta == IF move.delta THEN move.messageAcknowledge ELSE -1
<1>1. /\ toServer # <<>> /\ toServer' = Tail(toServer)
      /\ cl' = [cl EXCEPT !.deltaMessage = delta]
      /\ UNCHANGED <<svs, client, toClient, views, sent>>
  BY Zenon DEF SV_UserMove
<1>2. toServer \in Seq(Move) /\ Len(toServer) \in Nat /\ Len(toServer) <= Capacity /\ toClient \in Seq(Message)
  BY DEF SnapshotsInv, TypeOK
<1>3. /\ toServer' \in Seq(Move)
      /\ Len(toServer') = Len(toServer) - 1 /\ Len(toServer') \in Nat
      /\ move = toServer[1] /\ 1 \in 1..Len(toServer) /\ move \in Move
      /\ \A i \in 1..Len(toServer') : toServer'[i] = toServer[i + 1] /\ i + 1 \in 1..Len(toServer)
  BY <1>1, <1>2, TailPart
<1>4. cl = [deltaMessage |-> cl.deltaMessage, frames |-> cl.frames] /\ cl.frames \in [Slots -> Frame]
  BY Types DEF SnapshotsInv
<1>5. delta \in Nat \cup {-1}
  BY <1>3 DEF Move
<1>6. cl' = [deltaMessage |-> delta, frames |-> cl.frames] /\ cl'.deltaMessage = delta /\ cl'.frames = cl.frames
  <2> HIDE DEF delta
  <2> QED
    BY <1>1, <1>4
<1>7. \A k : Held(k)' <=> Held(k)
  BY <1>1 DEF Held
<1>8. \A i \in 1..Len(toServer) : toServer[i].delta => Held(toServer[i].messageAcknowledge)
  BY Zenon DEF SnapshotsInv, DeltaInv
<1>9. delta > 0 => Held(delta)
  BY <1>3, <1>8
<1>10. DeltaInv'
  <2> HIDE DEF delta, move
  <2>2. cl'.deltaMessage > 0 => Held(cl'.deltaMessage)
    BY <1>6, <1>9
  <2>3. \A i \in 1..Len(toServer') : toServer'[i].delta => Held(toServer'[i].messageAcknowledge)
    BY <1>3, <1>8
  <2> QED
    BY <1>1, <2>2, <2>3 DEF DeltaInv, Held
<1>11. TypeOK'
  <2>1. Len(toServer') <= Capacity
    BY <1>2, <1>3, BoundsAssumption
  <2>2. cl' \in [deltaMessage : Nat \cup {-1}, frames : [Slots -> Frame]]
    BY <1>4, <1>5, <1>6
  <2> QED
    BY <1>1, <1>3, <2>1, <2>2 DEF SnapshotsInv, TypeOK
<1>12. toClient' \in Seq(Message) /\ PartOf(toClient', toClient)
  BY <1>1, <1>2, WholeIsPart
<1> QED
  BY <1>1, <1>6, <1>10, <1>11, <1>12, QueueStep

LEMMA WritePacketStep ==
  ASSUME SnapshotsInv, NEW cl_nodelta \in BOOLEAN, CL_WritePacket(cl_nodelta)
  PROVE  SnapshotsInv'
<1> DEFINE move == [messageAcknowledge |-> client.serverMessageSequence, delta |-> AsksForDelta /\ ~cl_nodelta]
<1>1. /\ Len(toServer) < Capacity /\ toServer' = Append(toServer, move)
      /\ UNCHANGED <<cl, svs, client, toClient, views, sent>>
  BY Zenon DEF CL_WritePacket
<1>2. toServer \in Seq(Move) /\ Len(toServer) \in Nat /\ toClient \in Seq(Message) /\ Capacity \in Nat
  BY BoundsAssumption DEF SnapshotsInv, TypeOK
<1>3. move \in Move /\ move.messageAcknowledge = client.serverMessageSequence
  <2>1. (AsksForDelta /\ ~cl_nodelta) \in BOOLEAN
    BY Zenon
  <2>2. client.serverMessageSequence \in Nat
    BY Types DEF SnapshotsInv
  <2> QED
    BY <2>1, <2>2 DEF Move
<1>4. move.delta => Held(move.messageAcknowledge)
  <2> SUFFICES ASSUME AsksForDelta PROVE Held(client.serverMessageSequence)
    BY <1>3
  <2>1. client.snap.valid /\ client.serverMessageSequence = client.snap.messageNum
    BY Zenon DEF AsksForDelta
  <2>2. client.snap.messageNum > 0 /\ client.snapshots[Slot(client.snap.messageNum)] = client.snap
    BY <2>1 DEF SnapshotsInv, ClientInv
  <2>3. client.snap.messageNum \in Nat
    BY Types DEF SnapshotsInv
  <2> QED
    BY <2>1, <2>2, <2>3 DEF Held
<1> HIDE DEF move
<1>5. /\ toServer' \in Seq(Move) /\ Len(toServer') = Len(toServer) + 1
      /\ toServer'[Len(toServer) + 1] = move
      /\ \A i \in 1..Len(toServer) : toServer'[i] = toServer[i]
  BY <1>1, <1>2, <1>3
<1>6. \A i \in 1..Len(toServer') : toServer'[i].delta => Held(toServer'[i].messageAcknowledge)
  <2>1. \A i \in 1..Len(toServer) : toServer[i].delta => Held(toServer[i].messageAcknowledge)
    BY Zenon DEF SnapshotsInv, DeltaInv
  <2> SUFFICES ASSUME NEW i \in 1..Len(toServer'), toServer'[i].delta
               PROVE  Held(toServer'[i].messageAcknowledge)
    OBVIOUS
  <2>2. CASE i \in 1..Len(toServer)
    BY <1>5, <2>1, <2>2
  <2>3. CASE i = Len(toServer) + 1
    BY <1>4, <1>5, <2>3
  <2> QED
    BY <1>2, <1>5, <2>2, <2>3
<1>7. cl.deltaMessage > 0 => Held(cl.deltaMessage)
  BY DEF SnapshotsInv, DeltaInv
<1>8. DeltaInv'
  BY <1>1, <1>6, <1>7 DEF DeltaInv, Held
<1>9. TypeOK'
  <2>1. Len(toServer') <= Capacity
    BY <1>1, <1>2, <1>5
  <2> QED
    BY <1>1, <1>5, <2>1 DEF SnapshotsInv, TypeOK
<1>10. toClient' \in Seq(Message) /\ PartOf(toClient', toClient)
  BY <1>1, <1>2, WholeIsPart
<1> QED
  BY <1>1, <1>8, <1>9, <1>10, QueueStep

LEMMA LoseStep ==
  ASSUME SnapshotsInv, Lose
  PROVE  SnapshotsInv'
<1>1. UNCHANGED <<cl, svs, client, views, sent>>
  BY DEF Lose
<1>2. /\ toServer \in Seq(Move) /\ Len(toServer) \in Nat /\ Len(toServer) <= Capacity
      /\ toClient \in Seq(Message) /\ Len(toClient) \in Nat /\ Len(toClient) <= Capacity
      /\ Capacity \in Nat
  BY BoundsAssumption DEF SnapshotsInv, TypeOK
<1>3. /\ toServer' \in Seq(Move) /\ PartOf(toServer', toServer)
      /\ toClient' \in Seq(Message) /\ PartOf(toClient', toClient)
  <2>1. CASE \E i \in DOMAIN toServer : toServer' = RemoveAt(toServer, i) /\ UNCHANGED toClient
    BY <1>2, <2>1, RemovedPart, WholeIsPart
  <2>2. CASE \E i \in DOMAIN toClient : toClient' = RemoveAt(toClient, i) /\ UNCHANGED toServer
    BY <1>2, <2>2, RemovedPart, WholeIsPart
  <2> QED
    BY <2>1, <2>2 DEF Lose
<1>4. Len(toServer') \in Nat /\ Len(toServer') <= Capacity /\ Len(toClient') \in Nat /\ Len(toClient') <= Capacity
  <2>1. Len(toServer') <= Len(toServer) /\ Len(toClient') <= Len(toClient)
    BY <1>3 DEF PartOf
  <2>2. Len(toServer') \in Nat /\ Len(toClient') \in Nat
    BY <1>3
  <2> QED
    BY <1>2, <2>1, <2>2
<1>5. TypeOK'
  BY <1>1, <1>3, <1>4 DEF SnapshotsInv, TypeOK
<1>6. PICK f \in [1..Len(toServer') -> 1..Len(toServer)] : \A i \in 1..Len(toServer') : toServer'[i] = toServer[f[i]]
  BY <1>3 DEF PartOf
<1>7. \A i \in 1..Len(toServer') : toServer'[i].delta => Held(toServer'[i].messageAcknowledge)
  <2>1. \A i \in 1..Len(toServer) : toServer[i].delta => Held(toServer[i].messageAcknowledge)
    BY Zenon DEF SnapshotsInv, DeltaInv
  <2>2. \A i \in 1..Len(toServer') : f[i] \in 1..Len(toServer)
    BY <1>6
  <2> QED
    BY <1>6, <2>1, <2>2
<1>8. DeltaInv'
  <2>1. cl.deltaMessage > 0 => Held(cl.deltaMessage)
    BY DEF SnapshotsInv, DeltaInv
  <2> QED
    BY <1>1, <1>7, <2>1 DEF DeltaInv, Held
<1> QED
  BY <1>1, <1>3, <1>5, <1>8, QueueStep

-----------------------------------------------------------------------------
(* The client gets a snapshot. *)

\* Message m may be read: from nothing, or from a snapshot the client has, whose
\* entities its ring still holds and keeps while it parses.
LEMMA Readable ==
  ASSUME SnapshotsInv, NEW m \in InFlight, m \in Message, NEW deltaNum, NEW old,
         deltaNum = m.messageNum - m.lastframe,
         old = IF m.lastframe = 0 THEN NoSnapshot ELSE client.snapshots[Slot(deltaNum)]
  PROVE  /\ m.messageNum \in client.snap.messageNum + 1..Len(sent)
         /\ m.lastframe = 0 \/ IsUsable(old, deltaNum)
         /\ Parsing(old, m, sent[m.messageNum])
<1>1. /\ client.snapshots \in [Slots -> Snapshot] /\ client.snap.messageNum \in Nat
      /\ client.parseEntities \in ParseT /\ client.parseEntitiesNum \in Nat
      /\ Len(sent) \in Nat /\ \A n \in 1..Len(sent) : sent[n] \in Seq(Entity)
      /\ m.messageNum \in Nat /\ m.lastframe \in Nat
  BY Types DEF SnapshotsInv, Message
<1>2. MessageFits(m)
  BY DEF SnapshotsInv, MessageInv
<1>3. /\ m.messageNum \in client.snap.messageNum + 1..Len(sent)
      /\ m.differences = Differences(BaseOf(m), sent[m.messageNum])
  BY <1>2, Zenon DEF MessageFits
<1>4. m.messageNum \in 1..Len(sent) /\ sent[m.messageNum] \in Seq(Entity) /\ Sorted(sent[m.messageNum])
  <2>1. m.messageNum \in 1..Len(sent)
    BY <1>1, <1>3
  <2> QED
    BY <1>1, <2>1 DEF SnapshotsInv, SentInv
<1>5. CASE m.lastframe = 0
  <2>1. old.numEntities = 0 /\ old.parseEntitiesNum = 0
    BY <1>5 DEF NoSnapshot
  <2>2. ParsedEntities(client.parseEntities, old) = <<>>
    BY <2>1 DEF ParsedEntities
  <2>3. BaseOf(m) = <<>>
    BY <1>5 DEF BaseOf
  <2> QED
    BY <1>1, <1>3, <1>4, <1>5, <2>1, <2>2, <2>3 DEF Parsing
<1>6. CASE m.lastframe # 0
  <2>1. m.lastframe < PACKET_BACKUP - 3 /\ Held(deltaNum)
    BY <1>2, <1>6 DEF MessageFits
  <2>2. /\ deltaNum \in 1..client.snap.messageNum /\ deltaNum + PACKET_BACKUP > client.snap.messageNum
        /\ client.snap.messageNum - deltaNum + 1 <= PACKET_BACKUP - 4
        /\ client.snap.messageNum - deltaNum + 1 \in Nat
    <3> DEFINE last == client.snap.messageNum
               n == m.messageNum
               l == m.lastframe
    <3>1. /\ last \in Nat /\ n \in Nat /\ l \in Nat /\ n > last /\ deltaNum = n - l
          /\ l < PACKET_BACKUP - 3 /\ PACKET_BACKUP \in Nat
      BY <1>1, <1>3, <2>1, Sizes
    <3>2. deltaNum \in 1..last
      BY <2>1 DEF Held
    <3> HIDE DEF last, n, l
    <3>3. /\ deltaNum + PACKET_BACKUP > last
          /\ last - deltaNum + 1 <= PACKET_BACKUP - 4 /\ last - deltaNum + 1 \in Nat
      BY <3>1, <3>2
    <3> QED
      BY <3>2, <3>3 DEF last
  <2>3. old = client.snapshots[Slot(deltaNum)]
    BY <1>6
  <2>4. old.valid /\ old.messageNum = deltaNum
    BY <2>1, <2>2, <2>3 DEF Held
  <2>5. Slot(deltaNum) \in Slots
    BY <2>2, SlotType
  <2>6. SnapshotHolds(Slot(deltaNum)) /\ old \in Snapshot
    BY <1>1, <2>3, <2>4, <2>5 DEF SnapshotsInv, ClientInv
  <2>7. /\ old.numEntities \in Nat /\ old.parseEntitiesNum \in Nat
        /\ old.parseEntitiesNum + old.numEntities <= client.parseEntitiesNum
        /\ client.parseEntitiesNum - old.parseEntitiesNum
             <= (client.snap.messageNum - deltaNum + 1) * MAX_SNAPSHOT_ENTITIES
        /\ client.parseEntitiesNum - old.parseEntitiesNum < MAX_PARSE_ENTITIES =>
             ParsedEntities(client.parseEntities, old) = sent[deltaNum]
    BY <2>3, <2>4, <2>6 DEF SnapshotHolds, Snapshot
  <2>8. client.parseEntitiesNum - old.parseEntitiesNum <= MAX_PARSE_ENTITIES - MAX_SNAPSHOT_ENTITIES
    <3> DEFINE h == MAX_SNAPSHOT_ENTITIES
               a == client.snap.messageNum - deltaNum + 1
               x == a * h
    <3>1. h \in Nat /\ PACKET_BACKUP \in Nat /\ a \in Nat /\ a <= PACKET_BACKUP - 4
      BY <2>2, Sizes
    <3> HIDE DEF a, h
    <3>2. x \in Nat /\ x <= PACKET_BACKUP * h - h
      <4>1. x \in Nat
        BY <3>1
      <4>2. PACKET_BACKUP * h - h - x = (PACKET_BACKUP - 1 - a) * h
        BY <3>1
      <4>3. PACKET_BACKUP - 1 - a \in Nat
        BY <3>1
      <4>4. (PACKET_BACKUP - 1 - a) * h >= 0 /\ PACKET_BACKUP * h \in Nat
        BY <3>1, <4>3
      <4> QED
        BY <3>1, <4>1, <4>2, <4>4
    <3>3. MAX_PARSE_ENTITIES = PACKET_BACKUP * h /\ PACKET_BACKUP * h \in Nat
      BY <3>1 DEF MAX_PARSE_ENTITIES, h
    <3>4. client.parseEntitiesNum - old.parseEntitiesNum <= x
      BY <2>7 DEF a, h
    <3>5. MAX_PARSE_ENTITIES \in Nat /\ x <= MAX_PARSE_ENTITIES - h
      BY <3>2, <3>3
    <3> HIDE DEF x
    <3>6. client.parseEntitiesNum - old.parseEntitiesNum <= MAX_PARSE_ENTITIES - h
      BY <1>1, <2>7, <3>1, <3>2, <3>4, <3>5
    <3> QED
      BY <3>6 DEF h
  <2>9. IsUsable(old, deltaNum)
    BY <2>4, <2>8 DEF IsUsable
  <2>10. client.parseEntitiesNum - old.parseEntitiesNum < MAX_PARSE_ENTITIES
    <3> DEFINE age == client.parseEntitiesNum - old.parseEntitiesNum
    <3>1. age \in Int
      BY <1>1, <2>7
    <3> HIDE DEF age
    <3>2. age <= MAX_PARSE_ENTITIES - MAX_SNAPSHOT_ENTITIES
      BY <2>8 DEF age
    <3>3. age < MAX_PARSE_ENTITIES
      BY <3>1, <3>2, Sizes
    <3> QED
      BY <3>3 DEF age
  <2>11. BaseOf(m) = sent[deltaNum]
    BY <1>6 DEF BaseOf
  <2> QED
    BY <1>1, <1>3, <1>4, <2>7, <2>8, <2>9, <2>10, <2>11 DEF Parsing
<1> QED
  BY <1>3, <1>5, <1>6

\* What the client has after it: the snapshots it kept, and the new one.
LEMMA ReadSnapshot ==
  ASSUME SnapshotsInv, CL_ParseSnapshot
  PROVE  /\ toClient # <<>> /\ toClient' = Tail(toClient) /\ UNCHANGED <<cl, svs, toServer, views, sent>>
         /\ \E m, old, parsing :
              /\ m \in InFlight \cap Message /\ m = toClient[1]
              /\ m.messageNum \in client.snap.messageNum + 1..Len(sent)
              /\ Parsing(old, m, sent[m.messageNum])
              /\ parsing = CL_ParsePacketEntities(old, m)
              /\ client'.snap = [valid |-> TRUE, messageNum |-> m.messageNum,
                                 parseEntitiesNum |-> client.parseEntitiesNum,
                                 numEntities |-> parsing.next - client.parseEntitiesNum]
              /\ client'.snapshots = [Cleared(m.messageNum) EXCEPT ![Slot(m.messageNum)] = client'.snap]
              /\ client'.parseEntities = parsing.ring
              /\ client'.parseEntitiesNum = parsing.next
              /\ client'.serverMessageSequence = m.messageNum
              /\ client'.dumped = client.dumped
              /\ client' = [snap |-> client'.snap, snapshots |-> client'.snapshots,
                            parseEntities |-> client'.parseEntities,
                            parseEntitiesNum |-> client'.parseEntitiesNum,
                            serverMessageSequence |-> client'.serverMessageSequence,
                            dumped |-> client'.dumped]
<1> DEFINE m == Head(toClient)
           deltaNum == m.messageNum - m.lastframe
           old == IF m.lastframe = 0 THEN NoSnapshot ELSE client.snapshots[Slot(deltaNum)]
           valid == m.lastframe = 0 \/ IsUsable(old, deltaNum)
           parsing == CL_ParsePacketEntities(old, m)
           snap == [valid |-> TRUE, messageNum |-> m.messageNum,
                    parseEntitiesNum |-> client.parseEntitiesNum,
                    numEntities |-> parsing.next - client.parseEntitiesNum]
           array == [Cleared(m.messageNum) EXCEPT ![Slot(m.messageNum)] = snap]
           read == [client EXCEPT !.serverMessageSequence = m.messageNum,
                                  !.parseEntities = parsing.ring,
                                  !.parseEntitiesNum = parsing.next]
<1>1. /\ toClient # <<>> /\ toClient' = Tail(toClient) /\ UNCHANGED <<cl, svs, toServer, views, sent>>
      /\ client' = IF valid THEN [read EXCEPT !.snap = snap, !.snapshots = array]
                   ELSE [read EXCEPT !.dumped = TRUE]
  BY Zenon DEF CL_ParseSnapshot
<1>2. toClient \in Seq(Message)
  BY DEF SnapshotsInv, TypeOK
<1>3. m = toClient[1] /\ m \in Message /\ m \in InFlight
  BY <1>1, <1>2, TailPart DEF InFlight
<1>4. DOMAIN client = {"snap", "snapshots", "parseEntities", "parseEntitiesNum", "serverMessageSequence", "dumped"}
      /\ client = [snap |-> client.snap, snapshots |-> client.snapshots, parseEntities |-> client.parseEntities,
                   parseEntitiesNum |-> client.parseEntitiesNum,
                   serverMessageSequence |-> client.serverMessageSequence, dumped |-> client.dumped]
  BY DEF SnapshotsInv, TypeOK
<1>5. /\ m.messageNum \in client.snap.messageNum + 1..Len(sent)
      /\ valid
      /\ Parsing(old, m, sent[m.messageNum])
  <2> DEFINE dn == deltaNum
             o == old
  <2>1. /\ dn = m.messageNum - m.lastframe
        /\ o = IF m.lastframe = 0 THEN NoSnapshot ELSE client.snapshots[Slot(dn)]
    OBVIOUS
  <2> HIDE DEF m, dn, o, deltaNum, old
  <2>2. /\ m.messageNum \in client.snap.messageNum + 1..Len(sent)
        /\ m.lastframe = 0 \/ IsUsable(o, dn)
        /\ Parsing(o, m, sent[m.messageNum])
    BY <1>3, <2>1, Readable
  <2> QED
    BY <2>2, Zenon DEF dn, o
<1>6. client' = [read EXCEPT !.snap = snap, !.snapshots = array]
  BY <1>1, <1>5, Zenon
<1>7. /\ client'.snap = snap /\ client'.snapshots = array
      /\ client'.parseEntities = parsing.ring /\ client'.parseEntitiesNum = parsing.next
      /\ client'.serverMessageSequence = m.messageNum /\ client'.dumped = client.dumped
      /\ client' = [snap |-> client'.snap, snapshots |-> client'.snapshots,
                    parseEntities |-> client'.parseEntities,
                    parseEntitiesNum |-> client'.parseEntitiesNum,
                    serverMessageSequence |-> client'.serverMessageSequence,
                    dumped |-> client'.dumped]
  <2> HIDE DEF m, snap, array, parsing
  <2> QED
    BY <1>4, <1>6
<1> QED
  <2>1. /\ m \in InFlight \cap Message /\ m = toClient[1]
        /\ m.messageNum \in client.snap.messageNum + 1..Len(sent)
        /\ Parsing(old, m, sent[m.messageNum])
        /\ parsing = CL_ParsePacketEntities(old, m)
        /\ client'.snap = [valid |-> TRUE, messageNum |-> m.messageNum,
                           parseEntitiesNum |-> client.parseEntitiesNum,
                           numEntities |-> parsing.next - client.parseEntitiesNum]
        /\ client'.snapshots = [Cleared(m.messageNum) EXCEPT ![Slot(m.messageNum)] = client'.snap]
    BY <1>3, <1>5, <1>7, Zenon
  <2> HIDE DEF m, parsing, old, valid, read, snap, array
  <2>2. UNCHANGED <<cl, svs, toServer, views, sent>> /\ toClient # <<>> /\ toClient' = Tail(toClient)
    BY <1>1
  <2> QED
    BY <1>7, <2>1, <2>2, Zenon

\* The snapshots kept are those within a ring of the new one.
LEMMA KeptSnapshot ==
  ASSUME SnapshotsInv, NEW n \in Nat, n > client.snap.messageNum, NEW i \in Slots, i # Slot(n),
         Cleared(n)[i].valid
  PROVE  /\ Cleared(n)[i] = client.snapshots[i] /\ client.snapshots[i].valid
         /\ SnapshotHolds(i) /\ client.snapshots[i].messageNum + PACKET_BACKUP > n
<1>1. client.snap.messageNum \in Nat /\ client.snapshots \in [Slots -> Snapshot]
  BY Types DEF SnapshotsInv
<1> DEFINE dropped == \E k \in client.snap.messageNum + 1..n - 1 : Slot(k) = i
<1>2. Cleared(n)[i] = IF dropped THEN [client.snapshots[i] EXCEPT !.valid = FALSE] ELSE client.snapshots[i]
  BY Zenon DEF Cleared
<1>3. ~dropped
  <2> SUFFICES ASSUME dropped PROVE FALSE
    OBVIOUS
  <2>1. Cleared(n)[i] = [client.snapshots[i] EXCEPT !.valid = FALSE]
    BY <1>2, Zenon
  <2>2. client.snapshots[i] \in Snapshot
    BY <1>1
  <2>3. Cleared(n)[i].valid = FALSE
    BY <2>1, <2>2 DEF Snapshot
  <2> QED
    BY <2>3
<1>4. Cleared(n)[i] = client.snapshots[i]
  BY <1>2, <1>3, Zenon
<1>5. SnapshotHolds(i)
  BY <1>4 DEF SnapshotsInv, ClientInv
<1>6. client.snapshots[i].messageNum + PACKET_BACKUP > n
  <2> DEFINE k == client.snapshots[i].messageNum
  <2>1. k \in 1..client.snap.messageNum /\ k + PACKET_BACKUP > client.snap.messageNum /\ Slot(k) = i
    BY <1>5, Zenon DEF SnapshotHolds
  <2> HIDE DEF k
  <2>2. Slot(k + PACKET_BACKUP) = i
    BY <2>1, SlotType
  <2> SUFFICES ASSUME k + PACKET_BACKUP <= n PROVE FALSE
    BY <1>1, <2>1, Sizes DEF k
  <2>3. k + PACKET_BACKUP \in client.snap.messageNum + 1..n - 1 \/ k + PACKET_BACKUP = n
    BY <1>1, <2>1, Sizes
  <2> QED
    BY <1>3, <2>2, <2>3
<1> QED
  BY <1>4, <1>5, <1>6

LEMMA ParseSnapshotStep ==
  ASSUME SnapshotsInv, CL_ParseSnapshot
  PROVE  SnapshotsInv'
<1> DEFINE last == client.snap.messageNum
           cur == client.parseEntitiesNum
           h == MAX_SNAPSHOT_ENTITIES
           M == MAX_PARSE_ENTITIES
<1>1. /\ last \in Nat /\ cur \in Nat /\ client.snapshots \in [Slots -> Snapshot]
      /\ client.parseEntities \in ParseT
      /\ Len(sent) \in Nat /\ \A n \in 1..Len(sent) : sent[n] \in Seq(Entity)
  BY Types DEF SnapshotsInv
<1>2. toClient # <<>> /\ toClient' = Tail(toClient) /\ UNCHANGED <<cl, svs, toServer, views, sent>>
  BY ReadSnapshot
<1>3. PICK m, old, parsing :
         /\ m \in InFlight \cap Message /\ m = toClient[1]
         /\ m.messageNum \in client.snap.messageNum + 1..Len(sent)
         /\ Parsing(old, m, sent[m.messageNum])
         /\ parsing = CL_ParsePacketEntities(old, m)
         /\ client'.snap = [valid |-> TRUE, messageNum |-> m.messageNum,
                            parseEntitiesNum |-> client.parseEntitiesNum,
                            numEntities |-> parsing.next - client.parseEntitiesNum]
         /\ client'.snapshots = [Cleared(m.messageNum) EXCEPT ![Slot(m.messageNum)] = client'.snap]
         /\ client'.parseEntities = parsing.ring
         /\ client'.parseEntitiesNum = parsing.next
         /\ client'.serverMessageSequence = m.messageNum
         /\ client'.dumped = client.dumped
         /\ client' = [snap |-> client'.snap, snapshots |-> client'.snapshots,
                       parseEntities |-> client'.parseEntities,
                       parseEntitiesNum |-> client'.parseEntitiesNum,
                       serverMessageSequence |-> client'.serverMessageSequence,
                       dumped |-> client'.dumped]
  BY ReadSnapshot, Zenon
<1> DEFINE n == m.messageNum
           new == sent[n]
           snap == client'.snap
<1>4. n \in Nat /\ n > last /\ n \in 1..Len(sent) /\ new \in Seq(Entity) /\ Len(new) \in Nat
      /\ Len(new) <= h /\ h \in Nat /\ M \in Nat /\ h < M /\ DOMAIN new = 1..Len(new)
      /\ PACKET_BACKUP \in Nat /\ PACKET_BACKUP > 3
  <2>1. n \in Nat /\ n > last /\ n \in 1..Len(sent)
    BY <1>1, <1>3
  <2>2. new \in Seq(Entity) /\ Sorted(new)
    BY <1>1, <2>1 DEF SnapshotsInv, SentInv
  <2> QED
    BY <2>1, <2>2, Sizes DEF Sorted
<1>5. ParsedTo(h, parsing, new)
  BY <1>3, ParsesAll
<1>6. /\ parsing \in [ring : ParseT, next : Nat]
      /\ parsing.next = cur + Len(new)
      /\ \A i \in 1..Len(new) : parsing.ring[(cur + i - 1) % M] = new[i]
      /\ \A q \in Nat : q < cur /\ q > parsing.next - M =>
           parsing.ring[q % M] = client.parseEntities[q % M]
  <2>1. PICK k \in 0..Len(new) :
          /\ parsing.next = cur + k
          /\ \A i \in 1..k : parsing.ring[(cur + i - 1) % M] = new[i]
          /\ \A i \in k + 1..Len(new) : new[i].number > h
    BY <1>5 DEF ParsedTo
  <2>2. k = Len(new)
    <3> SUFFICES ASSUME k # Len(new) PROVE FALSE
      OBVIOUS
    <3>1. k + 1 \in k + 1..Len(new) /\ k + 1 \in 1..Len(new)
      BY <1>4
    <3>2. new[k + 1].number \in Numbers
      BY <1>3, <3>1 DEF Parsing, Sorted
    <3> QED
      BY <1>4, <2>1, <3>1, <3>2 DEF Numbers
  <2> QED
    BY <1>5, <2>1, <2>2, Zenon DEF ParsedTo
<1>7. /\ snap = [valid |-> TRUE, messageNum |-> n, parseEntitiesNum |-> cur, numEntities |-> Len(new)]
      /\ snap.valid /\ snap.messageNum = n /\ snap.parseEntitiesNum = cur /\ snap.numEntities = Len(new)
      /\ snap \in Snapshot
  <2>1. parsing.next - cur = Len(new)
    BY <1>1, <1>4, <1>6
  <2>2. snap = [valid |-> TRUE, messageNum |-> n, parseEntitiesNum |-> cur, numEntities |-> Len(new)]
    BY <1>3, <2>1, Zenon
  <2> HIDE DEF snap
  <2> QED
    BY <1>1, <1>4, <2>2 DEF Snapshot
<1>8. Slot(n) \in Slots
  BY <1>4, SlotType
<1>9. Cleared(n) \in [Slots -> Snapshot]
  <2> SUFFICES ASSUME NEW i \in Slots PROVE Cleared(n)[i] \in Snapshot /\ Cleared(n) = [j \in Slots |-> Cleared(n)[j]]
    BY DEF Cleared
  <2>1. Cleared(n)[i] = client.snapshots[i] \/ Cleared(n)[i] = [client.snapshots[i] EXCEPT !.valid = FALSE]
    BY Zenon DEF Cleared
  <2>2. client.snapshots[i] \in Snapshot
    BY <1>1
  <2> QED
    BY <2>1, <2>2 DEF Cleared, Snapshot
<1>10. /\ client'.snapshots \in [Slots -> Snapshot]
       /\ client'.snapshots[Slot(n)] = snap
       /\ \A i \in Slots : i # Slot(n) => client'.snapshots[i] = Cleared(n)[i]
  <2> HIDE DEF n
  <2>1. client'.snapshots = [Cleared(n) EXCEPT ![Slot(n)] = snap]
    BY <1>3 DEF n
  <2> HIDE DEF snap
  <2> QED
    BY <1>7, <1>8, <1>9, <2>1
<1> HIDE DEF n, new, snap
<1>11. client'.snap.messageNum = n /\ client'.parseEntitiesNum = cur + Len(new)
       /\ client'.parseEntities = parsing.ring /\ client'.snap = snap /\ sent' = sent
  BY <1>2, <1>3, <1>6, <1>7 DEF snap
<1>12. ASSUME NEW k, Held(k) PROVE Held(k)'
  <2>1. k \in 1..last /\ (k + PACKET_BACKUP > last => client.snapshots[Slot(k)].valid /\ client.snapshots[Slot(k)].messageNum = k)
    BY <1>12 DEF Held
  <2>2. k \in 1..n
    BY <1>1, <1>4, <2>1
  <2>3. ASSUME k + PACKET_BACKUP > n
        PROVE  client'.snapshots[Slot(k)].valid /\ client'.snapshots[Slot(k)].messageNum = k
    <3>1. k \in Int /\ n \in Int /\ k < n /\ n < k + PACKET_BACKUP /\ k + PACKET_BACKUP > last
      BY <1>1, <1>4, <2>1, <2>3
    <3>2. Slot(k) \in Slots /\ Slot(k) # Slot(n)
      BY <3>1, SlotType, SlotOther
    <3>3. ~\E j \in last + 1..n - 1 : Slot(j) = Slot(k)
      <4> SUFFICES ASSUME NEW j \in last + 1..n - 1 PROVE Slot(j) # Slot(k)
        OBVIOUS
      <4>1. j \in Int /\ k < j /\ j < k + PACKET_BACKUP
        BY <1>1, <1>4, <2>1, <3>1
      <4> QED
        BY <3>1, <4>1, SlotOther
    <3>4. Cleared(n)[Slot(k)] = client.snapshots[Slot(k)]
      BY <3>2, <3>3, Zenon DEF Cleared
    <3> QED
      BY <1>10, <2>1, <3>1, <3>2, <3>4
  <2> QED
    BY <1>11, <2>2, <2>3 DEF Held
<1>13. ASSUME NEW i \in Slots, client'.snapshots[i].valid PROVE SnapshotHolds(i)'
  <2>1. CASE i = Slot(n)
    <3>1. ParsedEntities(parsing.ring, snap) = new
      <4>1. new = [j \in 1..Len(new) |-> new[j]]
        BY <1>4
      <4> QED
        BY <1>6, <1>7, <4>1, Zenon DEF ParsedEntities
    <3>2. /\ n \in 1..n /\ n + PACKET_BACKUP > n /\ cur + Len(new) <= cur + Len(new)
          /\ cur + Len(new) - cur <= (n - n + 1) * h
      BY <1>1, <1>4
    <3>3. client'.snapshots[i] = snap
      BY <1>10, <2>1
    <3>4. sent'[snap.messageNum] = new
      BY <1>7, <1>11 DEF new
    <3> DEFINE s1 == client'.snapshots[i]
    <3>5. /\ s1.messageNum = n /\ s1.numEntities = Len(new) /\ s1.parseEntitiesNum = cur
          /\ ParsedEntities(client'.parseEntities, s1) = new /\ sent'[s1.messageNum] = new
          /\ client'.snap.messageNum = n /\ client'.parseEntitiesNum = cur + Len(new)
      BY <1>7, <1>11, <3>1, <3>3, <3>4, Zenon
    <3>6. /\ s1.messageNum \in 1..client'.snap.messageNum
          /\ s1.messageNum + PACKET_BACKUP > client'.snap.messageNum
          /\ Slot(s1.messageNum) = i /\ s1.numEntities = Len(sent'[s1.messageNum])
      BY <2>1, <3>2, <3>5, Zenon
    <3>7. /\ s1.parseEntitiesNum + s1.numEntities <= client'.parseEntitiesNum
          /\ client'.parseEntitiesNum - s1.parseEntitiesNum
               <= (client'.snap.messageNum - s1.messageNum + 1) * MAX_SNAPSHOT_ENTITIES
      <4>1. client'.snap.messageNum - s1.messageNum + 1 = n - n + 1
        BY <3>5, Zenon
      <4> HIDE DEF s1
      <4>2. /\ client'.parseEntitiesNum - s1.parseEntitiesNum = cur + Len(new) - cur
            /\ s1.parseEntitiesNum + s1.numEntities = cur + Len(new)
            /\ client'.parseEntitiesNum = cur + Len(new)
        <5>1. /\ client'.parseEntitiesNum = cur + Len(new) /\ s1.parseEntitiesNum = cur
              /\ s1.numEntities = Len(new)
          BY <3>5
        <5> QED
          BY <1>1, <1>4, <5>1
      <4>3. ASSUME NEW a, NEW b, a = cur + Len(new) - cur, b = n - n + 1
            PROVE  a <= b * h
        BY <3>2, <4>3, Zenon
      <4>4. s1.parseEntitiesNum + s1.numEntities <= client'.parseEntitiesNum
        BY <1>1, <1>4, <4>2
      <4> QED
        BY <4>1, <4>2, <4>3, <4>4, Zenon
    <3>8. ParsedEntities(client'.parseEntities, s1) = sent'[s1.messageNum]
      BY <3>5, Zenon
    <3> QED
      BY <3>6, <3>7, <3>8, Zenon DEF SnapshotHolds
  <2>2. CASE i # Slot(n)
    <3> DEFINE s == client.snapshots[i]
               k == s.messageNum
    <3>1. client'.snapshots[i] = s /\ s.valid /\ SnapshotHolds(i) /\ k + PACKET_BACKUP > n
      BY <1>4, <1>10, <1>13, <2>2, KeptSnapshot
    <3>2. /\ k \in 1..last /\ Slot(k) = i /\ s.numEntities = Len(sent[k])
          /\ s.parseEntitiesNum + s.numEntities <= cur
          /\ cur - s.parseEntitiesNum <= (last - k + 1) * h
          /\ cur - s.parseEntitiesNum < M => ParsedEntities(client.parseEntities, s) = sent[k]
      BY <3>1, Zenon DEF SnapshotHolds
    <3>3. s.parseEntitiesNum \in Nat /\ s.numEntities \in Nat
      BY <1>1 DEF Snapshot
    <3> HIDE DEF k, s
    <3>4. k \in 1..n /\ s.parseEntitiesNum + s.numEntities <= cur + Len(new)
      BY <1>1, <1>4, <3>2, <3>3
    <3>5. cur + Len(new) - s.parseEntitiesNum <= (n - k + 1) * h
      <4> DEFINE x == (last - k + 1) * h
                 y == (n - k + 1) * h
      <4>1. k \in Nat /\ k <= last
        BY <1>1, <3>2
      <4>2. y = x + (n - last) * h
        BY <1>1, <1>4, <4>1
      <4>3. (n - last) * h >= h
        <5>1. n - last \in Nat /\ n - last >= 1
          BY <1>1, <1>4
        <5> DEFINE d == n - last
        <5> HIDE DEF d, h
        <5>2. d \in Nat /\ d >= 1 /\ h \in Nat
          BY <1>4, <5>1 DEF d
        <5>3. d * h >= h
          BY <5>2
        <5> QED
          BY <5>3 DEF d
      <4>4. x \in Int /\ (n - last) * h \in Int /\ y \in Int
        BY <1>1, <1>4, <4>1
      <4>5. cur - s.parseEntitiesNum <= x
        BY <3>2
      <4> DEFINE z == (n - last) * h
      <4>6. y = x + z /\ z >= h /\ x \in Int /\ z \in Int
        BY <4>2, <4>3, <4>4
      <4> HIDE DEF x, y, z
      <4>7. cur + Len(new) - s.parseEntitiesNum <= y
        BY <1>1, <1>4, <3>3, <4>5, <4>6
      <4> QED
        BY <4>7 DEF y
    <3>6. ASSUME cur + Len(new) - s.parseEntitiesNum < M
          PROVE  ParsedEntities(parsing.ring, s) = sent[k]
      <4>1. ASSUME NEW j \in 1..s.numEntities
            PROVE  parsing.ring[(s.parseEntitiesNum + j - 1) % M]
                     = client.parseEntities[(s.parseEntitiesNum + j - 1) % M]
        <5>0. /\ parsing.next = cur + Len(new) /\ s.parseEntitiesNum + s.numEntities <= cur
              /\ cur \in Nat /\ Len(new) \in Nat /\ M \in Nat
              /\ s.parseEntitiesNum \in Nat /\ s.numEntities \in Nat
          BY <1>1, <1>4, <1>6, <3>2, <3>3
        <5> HIDE DEF cur, M
        <5>1. /\ s.parseEntitiesNum + j - 1 \in Nat /\ s.parseEntitiesNum + j - 1 < cur
              /\ s.parseEntitiesNum + j - 1 > parsing.next - M
          BY <3>6, <5>0
        <5> QED
          BY <1>6, <5>1
      <4>2. ParsedEntities(parsing.ring, s) = ParsedEntities(client.parseEntities, s)
        BY <4>1, Zenon DEF ParsedEntities
      <4>3. cur - s.parseEntitiesNum < M
        BY <1>1, <1>4, <3>3, <3>6
      <4> QED
        BY <3>2, <4>2, <4>3
    <3>7. client'.snapshots[i].messageNum = k /\ sent' = sent
      BY <1>11, <3>1 DEF k
    <3> DEFINE s1 == client'.snapshots[i]
    <3>8. /\ s1.messageNum = k /\ s1.numEntities = s.numEntities
          /\ s1.parseEntitiesNum = s.parseEntitiesNum
          /\ ParsedEntities(client'.parseEntities, s1) = ParsedEntities(parsing.ring, s)
          /\ client'.snap.messageNum = n /\ client'.parseEntitiesNum = cur + Len(new) /\ sent' = sent
      BY <1>11, <3>1, <3>7, Zenon
    <3>9. /\ s1.messageNum \in 1..client'.snap.messageNum
          /\ s1.messageNum + PACKET_BACKUP > client'.snap.messageNum
          /\ Slot(s1.messageNum) = i /\ s1.numEntities = Len(sent'[s1.messageNum])
      BY <3>1, <3>2, <3>4, <3>8, Zenon
    <3>10. s1.parseEntitiesNum + s1.numEntities <= client'.parseEntitiesNum
      BY <3>4, <3>8, Zenon
    <3>11. client'.parseEntitiesNum - s1.parseEntitiesNum
             <= (client'.snap.messageNum - s1.messageNum + 1) * MAX_SNAPSHOT_ENTITIES
      <4> HIDE DEF s1
      <4>1. client'.snap.messageNum - s1.messageNum + 1 = n - k + 1
        BY <3>8, Zenon
      <4>2. client'.parseEntitiesNum - s1.parseEntitiesNum = cur + Len(new) - s.parseEntitiesNum
        <5>1. client'.parseEntitiesNum = cur + Len(new) /\ s1.parseEntitiesNum = s.parseEntitiesNum
          BY <3>8
        <5> QED
          BY <1>1, <1>4, <3>3, <5>1
      <4>3. ASSUME NEW a, NEW b, a = cur + Len(new) - s.parseEntitiesNum, b = n - k + 1
            PROVE  a <= b * h
        BY <3>5, <4>3, Zenon
      <4> QED
        BY <4>1, <4>2, <4>3, Zenon
    <3>12. client'.parseEntitiesNum - s1.parseEntitiesNum < MAX_PARSE_ENTITIES =>
             ParsedEntities(client'.parseEntities, s1) = sent'[s1.messageNum]
      <4> HIDE DEF s1
      <4>1. client'.parseEntitiesNum = cur + Len(new) /\ s1.parseEntitiesNum = s.parseEntitiesNum
        BY <3>8
      <4>2. client'.parseEntitiesNum - s1.parseEntitiesNum = cur + Len(new) - s.parseEntitiesNum
        BY <1>1, <1>4, <3>3, <4>1
      <4>3. ASSUME cur + Len(new) - s.parseEntitiesNum < M
            PROVE  ParsedEntities(client'.parseEntities, s1) = sent'[s1.messageNum]
        BY <3>6, <3>8, <4>3, Zenon
      <4> QED
        BY <4>2, <4>3
    <3> QED
      BY <3>9, <3>10, <3>11, <3>12, Zenon DEF SnapshotHolds
  <2> QED
    BY <2>1, <2>2
<1>14. ClientInv'
  <2>1. ~client'.dumped
    BY <1>3 DEF SnapshotsInv, ClientInv
  <2>2. client'.serverMessageSequence = n
    BY <1>3 DEF n
  <2>3. n > 0 /\ n <= Len(sent')
    BY <1>1, <1>4, <1>11
  <2> QED
    BY <1>10, <1>11, <1>13, <2>1, <2>2, <2>3 DEF ClientInv
<1>15. DeltaInv'
  <2>1. /\ cl.deltaMessage > 0 => Held(cl.deltaMessage)
        /\ \A i \in 1..Len(toServer) : toServer[i].delta => Held(toServer[i].messageAcknowledge)
    BY Zenon DEF SnapshotsInv, DeltaInv
  <2>2. cl' = cl /\ toServer' = toServer
    BY <1>2
  <2>3. \A k : Held(k) => Held(k)'
    BY <1>12
  <2>4. ASSUME NEW k, k = cl.deltaMessage, k > 0 PROVE Held(k)'
    BY <2>1, <2>3, <2>4
  <2>5. ASSUME NEW k, NEW i \in 1..Len(toServer), toServer[i].delta, k = toServer[i].messageAcknowledge
        PROVE  Held(k)'
    BY <2>1, <2>3, <2>5
  <2>6. cl'.deltaMessage > 0 => Held(cl.deltaMessage)'
    BY <2>2, <2>4 DEF Held
  <2>7. \A i \in 1..Len(toServer') : toServer'[i].delta => Held(toServer[i].messageAcknowledge)'
    BY <2>2, <2>5 DEF Held
  <2> QED
    BY <2>6, <2>7, Zenon DEF DeltaInv
<1>16. toClient \in Seq(Message)
  BY DEF SnapshotsInv, TypeOK
<1>17. /\ toClient' \in Seq(Message) /\ Len(toClient') = Len(toClient) - 1
       /\ \A i \in 1..Len(toClient') : toClient'[i] = toClient[i + 1] /\ i + 1 \in 1..Len(toClient)
       /\ 1 \in 1..Len(toClient)
  BY <1>2, <1>16, TailPart
<1>18. \A i, j \in 1..Len(toClient) : i < j => toClient[i].messageNum < toClient[j].messageNum
  BY DEF SnapshotsInv, MessageInv
<1>19. \A i \in 1..Len(toClient') : toClient[i + 1].messageNum > n
  <2> SUFFICES ASSUME NEW i \in 1..Len(toClient') PROVE toClient[i + 1].messageNum > n
    OBVIOUS
  <2>1. 1 < i + 1 /\ i + 1 \in 1..Len(toClient)
    BY <1>17
  <2>2. toClient[1].messageNum < toClient[i + 1].messageNum
    BY <1>17, <1>18, <2>1
  <2>3. toClient[1].messageNum = n
    BY <1>3 DEF n
  <2>4. toClient[i + 1].messageNum \in Nat
    <3>1. toClient[i + 1] \in Message
      BY <1>16, <2>1
    <3> QED
      BY <3>1 DEF Message
  <2> QED
    BY <1>4, <2>2, <2>3, <2>4
<1>20. ASSUME NEW x \in InFlight, x.messageNum > n PROVE MessageFits(x)'
  <2>1. MessageFits(x)
    BY DEF SnapshotsInv, MessageInv
  <2>2. x.messageNum \in n + 1..Len(sent)
    BY <1>1, <1>4, <1>20, <2>1 DEF MessageFits
  <2>3. x.lastframe # 0 => x.lastframe < PACKET_BACKUP - 3 /\ Held(x.messageNum - x.lastframe)'
    BY <1>12, <2>1 DEF MessageFits
  <2>4. BaseOf(x)' = BaseOf(x)
    BY <1>11 DEF BaseOf
  <2>5. x.differences = Differences(BaseOf(x), sent[x.messageNum])
    BY <2>1, Zenon DEF MessageFits
  <2> QED
    BY <1>11, <2>2, <2>3, <2>4, <2>5 DEF MessageFits
<1>21. MessageInv'
  <2>1. \A x \in InFlight' : x \in InFlight /\ x.messageNum > n
    BY <1>17, <1>19 DEF InFlight
  <2>2. ASSUME NEW i \in 1..Len(toClient'), NEW j \in 1..Len(toClient'), i < j
        PROVE  toClient'[i].messageNum < toClient'[j].messageNum
    BY <1>17, <1>18, <2>2
  <2> QED
    BY <1>20, <2>1, <2>2 DEF MessageInv
<1>22. FrameInv' /\ SentInv'
  BY <1>2 DEF SnapshotsInv, FrameInv, FrameHolds, SentInv
<1>23. TypeOK'
  <2>1. /\ cl \in [deltaMessage : Nat \cup {-1}, frames : [Slots -> Frame]]
        /\ svs \in [snapshotEntities : [0..numSnapshotEntities - 1 -> Entity],
                    nextSnapshotEntities : Nat, others : 0..MaxOthers]
        /\ Len(toClient) <= Capacity /\ Len(toClient) \in Nat /\ Capacity \in Nat
        /\ toServer \in Seq(Move) /\ Len(toServer) <= Capacity
        /\ views \in Views /\ sent \in Seq(Seq(Entity)) /\ client.dumped \in BOOLEAN
    BY BoundsAssumption DEF SnapshotsInv, TypeOK
  <2>2. /\ client'.parseEntities \in ParseT /\ client'.parseEntitiesNum \in Nat
        /\ client'.serverMessageSequence \in Nat /\ client'.snap \in Snapshot
        /\ client'.dumped \in BOOLEAN
    BY <1>1, <1>3, <1>4, <1>6, <1>7, <1>11, <2>1 DEF n
  <2>3. client' \in [snap : Snapshot, snapshots : [Slots -> Snapshot],
                     parseEntities : [0..MAX_PARSE_ENTITIES - 1 -> Entity],
                     parseEntitiesNum : Nat, serverMessageSequence : Nat, dumped : BOOLEAN]
    BY <1>3, <1>10, <2>2 DEF ParseT
  <2>4. Len(toClient') <= Capacity
    BY <1>17, <2>1
  <2> QED
    BY <1>2, <1>17, <2>1, <2>3, <2>4 DEF TypeOK
<1> QED
  BY <1>14, <1>15, <1>21, <1>22, <1>23 DEF SnapshotsInv

-----------------------------------------------------------------------------
(* The theorems. *)

LEMMA InitInv ==
  ASSUME Init
  PROVE  SnapshotsInv
<1>1. NoEntity \in Entity /\ NoFrame \in Frame /\ NoSnapshot \in Snapshot
  BY DEF NoEntity, Entity, NoFrame, Frame, NoSnapshot, Snapshot
<1>2. Len(toClient) = 0 /\ Len(toServer) = 0 /\ Len(sent) = 0
      /\ toClient \in Seq(Message) /\ toServer \in Seq(Move) /\ sent \in Seq(Seq(Entity))
  BY DEF Init
<1>3. TypeOK
  <2>1. /\ cl \in [deltaMessage : Nat \cup {-1}, frames : [Slots -> Frame]]
        /\ svs \in [snapshotEntities : [0..numSnapshotEntities - 1 -> Entity],
                    nextSnapshotEntities : Nat, others : 0..MaxOthers]
    BY <1>1, BoundsAssumption DEF Init
  <2>2. client \in [snap : Snapshot, snapshots : [Slots -> Snapshot],
                    parseEntities : [0..MAX_PARSE_ENTITIES - 1 -> Entity],
                    parseEntitiesNum : Nat, serverMessageSequence : Nat, dumped : BOOLEAN]
    BY <1>1 DEF Init
  <2>3. views \in Views /\ Len(toClient) <= Capacity /\ Len(toServer) <= Capacity
    BY <1>2, BoundsAssumption DEF Init
  <2> QED
    BY <1>2, <2>1, <2>2, <2>3 DEF TypeOK
<1>4. SentInv /\ FrameInv /\ MessageInv
  BY <1>2 DEF SentInv, FrameInv, MessageInv, InFlight
<1>5. DeltaInv
  BY <1>2 DEF DeltaInv, Init
<1>6. ClientInv
  <2>1. /\ ~client.dumped /\ ~client.snap.valid /\ client.snap.messageNum = 0
        /\ client.serverMessageSequence = 0
        /\ \A i \in Slots : ~client.snapshots[i].valid
    BY DEF Init, NoSnapshot
  <2> QED
    BY <1>2, <2>1 DEF ClientInv
<1> QED
  BY <1>3, <1>4, <1>5, <1>6 DEF SnapshotsInv

\* The invariant is inductive.
LEMMA SnapshotsStep ==
  ASSUME SnapshotsInv, [Next]_vars
  PROVE  SnapshotsInv'
<1>1. CASE Lose
  BY <1>1, LoseStep
<1>2. CASE SV_SendClientSnapshot
  BY <1>2, SendStep
<1>3. CASE \E n \in 1..MAX_SNAPSHOT_ENTITIES : OtherSnapshot(n)
  BY <1>3, OtherStep
<1>4. CASE SV_UserMove
  BY <1>4, UserMoveStep
<1>5. CASE \E cl_nodelta \in BOOLEAN : CL_WritePacket(cl_nodelta)
  BY <1>5, WritePacketStep
<1>6. CASE CL_ParseSnapshot
  BY <1>6, ParseSnapshotStep
<1>7. CASE UNCHANGED vars
  <2>1. UNCHANGED <<cl, svs, client, toClient, toServer, views, sent>>
    BY <1>7 DEF vars
  <2>2. TypeOK'
    BY <2>1 DEF SnapshotsInv, TypeOK
  <2>3. DeltaInv'
    BY <2>1 DEF SnapshotsInv, DeltaInv, Held
  <2>4. toClient \in Seq(Message)
    BY DEF SnapshotsInv, TypeOK
  <2>5. toClient' \in Seq(Message) /\ PartOf(toClient', toClient)
    BY <2>1, <2>4, WholeIsPart
  <2> QED
    BY <2>1, <2>2, <2>3, <2>5, QueueStep
<1> QED
  BY <1>1, <1>2, <1>3, <1>4, <1>5, <1>6, <1>7 DEF Next

\* The invariant implies what the client's game relies on.
LEMMA HeldIsExact ==
  ASSUME SnapshotsInv
  PROVE  Exact
<1> DEFINE last == client.snap.messageNum
<1>1. last \in Nat /\ client.snapshots \in [Slots -> Snapshot] /\ client.parseEntitiesNum \in Nat
  BY Types DEF SnapshotsInv
<1>2. Max({1, last - PACKET_BACKUP + 1}) \in Int /\ Max({1, last - PACKET_BACKUP + 1}) >= 1
      /\ Max({1, last - PACKET_BACKUP + 1}) >= last - PACKET_BACKUP + 1
  <2> DEFINE b == last - PACKET_BACKUP + 1
             T == {1, b}
  <2>1. b \in Int
    BY <1>1, Sizes
  <2>2. \E x \in T : \A y \in T : x >= y
    <3> HIDE DEF b
    <3> QED
      BY <2>1
  <2>3. Max(T) \in T /\ \A y \in T : Max(T) >= y
    <3> HIDE DEF T
    <3> QED
      BY <2>2 DEF Max
  <2> HIDE DEF b
  <2>4. Max(T) \in Int /\ Max(T) >= 1 /\ Max(T) >= b
    BY <2>1, <2>3
  <2> QED
    BY <2>4 DEF b
<1> SUFFICES ASSUME NEW n \in Max({1, last - PACKET_BACKUP + 1})..last, CL_GetSnapshot(n)
             PROVE  /\ client.snapshots[Slot(n)].messageNum = n
                    /\ ParsedEntities(client.parseEntities, client.snapshots[Slot(n)]) = sent[n]
  BY DEF Exact
<1>3. n \in Int /\ n <= last /\ n > last - PACKET_BACKUP
  BY <1>1, <1>2, Sizes
<1>4. /\ client.snapshots[Slot(n)].valid
      /\ client.parseEntitiesNum - client.snapshots[Slot(n)].parseEntitiesNum < MAX_PARSE_ENTITIES
  BY DEF CL_GetSnapshot
<1>5. SnapshotHolds(Slot(n))
  BY <1>3, <1>4, SlotType DEF SnapshotsInv, ClientInv
<1> DEFINE s == client.snapshots[Slot(n)]
           k == s.messageNum
<1>6. /\ k \in 1..last /\ k + PACKET_BACKUP > last /\ Slot(k) = Slot(n)
      /\ ParsedEntities(client.parseEntities, s) = sent[k]
  BY <1>4, <1>5 DEF SnapshotHolds
<1> HIDE DEF s, k
<1>7. k = n
  <2>1. ~(k < n)
    <3> SUFFICES ASSUME k < n PROVE FALSE
      OBVIOUS
    <3>1. k \in Int /\ n < k + PACKET_BACKUP
      BY <1>1, <1>3, <1>6, Sizes
    <3> QED
      BY <1>3, <1>6, <3>1, SlotOther
  <2>2. ~(n < k)
    <3> SUFFICES ASSUME n < k PROVE FALSE
      OBVIOUS
    <3>1. k \in Int /\ k < n + PACKET_BACKUP
      BY <1>1, <1>3, <1>6, Sizes
    <3> QED
      BY <1>3, <1>6, <3>1, SlotOther
  <2> QED
    BY <1>1, <1>3, <1>6, <2>1, <2>2
<1> QED
  BY <1>6, <1>7 DEF s, k

\* The rings, the frames, the messages in flight and the client's snapshots fit
\* together in every behaviour.
THEOREM SnapshotsInvariant == Spec => []SnapshotsInv
<1>1. Init => SnapshotsInv
  BY InitInv
<1>2. SnapshotsInv /\ [Next]_vars => SnapshotsInv'
  BY SnapshotsStep
<1> QED
  BY <1>1, <1>2, PTL DEF Spec

\* The state of the server, the client and the messages is of its type.
THEOREM SnapshotsTypeCorrect == Spec => []TypeOK
<1>1. SnapshotsInv => TypeOK
  BY DEF SnapshotsInv
<1> QED
  BY <1>1, SnapshotsInvariant, PTL

\* Every snapshot the client's game can ask for is, entity by entity, the one the
\* server built: SV_EmitPacketEntities, CL_ParsePacketEntities and the four rings
\* come to nothing but a copy.
THEOREM SnapshotsExact == Spec => []Exact
<1>1. SnapshotsInv => Exact
  BY HeldIsExact
<1> QED
  BY <1>1, SnapshotsInvariant, PTL

\* The server never writes a difference from a snapshot the client cannot use.
THEOREM SnapshotsUsable == Spec => []Usable
<1>1. SnapshotsInv => Usable
  BY DEF SnapshotsInv, ClientInv, Usable
<1> QED
  BY <1>1, SnapshotsInvariant, PTL

=============================================================================
