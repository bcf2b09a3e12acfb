----------------------------- MODULE Snapshots -----------------------------
(***************************************************************************)
(* The delta compression of snapshots within a level.  The server keeps    *)
(* the last PACKET_BACKUP frames of a client in a ring, and the entities   *)
(* of all frames of all clients in another; it writes a snapshot as the    *)
(* difference from a frame the client said it has.  The client keeps the   *)
(* snapshots it got, and their entities, in two rings of its own.          *)
(*                                                                         *)
(* Below is the netchan: messages may be lost, and are not overtaken.  An  *)
(* entity is its number and the version of its state; a difference names   *)
(* the version it starts from, which the message itself does not: applied  *)
(* to another version it gives a Garbled one.                              *)
(***************************************************************************)
EXTENDS Integers, Sequences, FiniteSets, FiniteSetsExt, SequencesExt

CONSTANTS
  PACKET_BACKUP,
  MAX_SNAPSHOT_ENTITIES,
  numSnapshotEntities,   \* size of the server's ring of entities
  Views,                 \* what may be in view, in turn: sequences of sets of entities
  Capacity,              \* bound: messages in flight in one direction
  MaxMessages,           \* bound: snapshots sent
  MaxOthers              \* bound: entities of other clients' snapshots

ASSUME BackupAssumption == PACKET_BACKUP \in Nat /\ PACKET_BACKUP > 3
ASSUME RingAssumption ==
  /\ MAX_SNAPSHOT_ENTITIES \in Nat \ {0} /\ numSnapshotEntities \in Nat \ {0}
  /\ numSnapshotEntities > MAX_SNAPSHOT_ENTITIES
ASSUME ViewsAssumption ==
  Views \subseteq Seq(SUBSET (1..MAX_SNAPSHOT_ENTITIES)) \ {<<>>}
ASSUME BoundsAssumption == {Capacity, MaxMessages, MaxOthers} \subseteq Nat

MAX_PARSE_ENTITIES == PACKET_BACKUP * MAX_SNAPSHOT_ENTITIES

VARIABLES
  cl,        \* the server's client_t
  svs,       \* the server's ring of entities
  client,    \* the client's clientActive_t
  toClient,  \* snapshots in flight, oldest first
  toServer,  \* moves in flight, oldest first
  views,     \* what comes into view in this behaviour, again and again
  sent       \* history: the entities of the snapshots sent, by message number

vars == <<cl, svs, client, toClient, toServer, views, sent>>

Numbers == 1..MAX_SNAPSHOT_ENTITIES
Garbled == -1
Entity == [number : Numbers \cup {0}, version : Nat \cup {Garbled}]
NoEntity == [number |-> 0, version |-> 0]
Frame == [first_entity : Nat, num_entities : Nat]
NoFrame == [first_entity |-> 0, num_entities |-> 0]
Difference == [number : Numbers, kind : {"delta", "baseline", "removed"},
               from : Nat \cup {Garbled}, to : Nat \cup {Garbled}]
Message == [messageNum : Nat, lastframe : Nat, differences : SUBSET Difference]
Move == [messageAcknowledge : Nat, delta : BOOLEAN]
Snapshot == [valid : BOOLEAN, messageNum : Nat, parseEntitiesNum : Nat, numEntities : Nat]
NoSnapshot == [valid |-> FALSE, messageNum |-> 0, parseEntitiesNum |-> 0, numEntities |-> 0]

Slots == 0..PACKET_BACKUP - 1
Slot(messageNum) == messageNum % PACKET_BACKUP
outgoingSequence == Len(sent) + 1

Init ==
  /\ cl = [deltaMessage |-> -1, frames |-> [i \in Slots |-> NoFrame]]
  /\ svs = [snapshotEntities |-> [i \in 0..numSnapshotEntities - 1 |-> NoEntity],
            nextSnapshotEntities |-> 0, others |-> 0]
  /\ client = [snap |-> NoSnapshot, snapshots |-> [i \in Slots |-> NoSnapshot],
               parseEntities |-> [i \in 0..MAX_PARSE_ENTITIES - 1 |-> NoEntity],
               parseEntitiesNum |-> 0, serverMessageSequence |-> 0, dumped |-> FALSE]
  /\ toClient = <<>>
  /\ toServer = <<>>
  /\ views \in Views
  /\ sent = <<>>

Lose ==
  /\ \/ \E i \in DOMAIN toServer : toServer' = RemoveAt(toServer, i) /\ UNCHANGED toClient
     \/ \E i \in DOMAIN toClient : toClient' = RemoveAt(toClient, i) /\ UNCHANGED toServer
  /\ UNCHANGED <<cl, svs, client, views, sent>>

-----------------------------------------------------------------------------
(* The server. *)

\* The state of an entity at a message: some change with it, some do not.
VersionAt(number, messageNum) == (messageNum + number) \div 2

\* The entities shown, by their numbers.
Shown(view) ==
  [i \in 1..Cardinality(view) |->
     LET number == CHOOSE e \in view : Cardinality({f \in view : f < e}) = i - 1
     IN [number |-> number, version |-> VersionAt(number, outgoingSequence)]]

\* The ring of the server with some more entities.
Entered(ring, entities) ==
  LET next == ring.nextSnapshotEntities IN
  [ring EXCEPT
     !.nextSnapshotEntities = next + Len(entities),
     !.snapshotEntities = [i \in DOMAIN @ |->
       LET new == {k \in DOMAIN entities : (next + k - 1) % numSnapshotEntities = i}
       IN IF new = {} THEN @[i] ELSE entities[Max(new)]]]

\* The entities of a frame, as the ring holds them.
EntitiesOf(ring, frame) ==
  [i \in 1..frame.num_entities |->
     ring.snapshotEntities[(frame.first_entity + i - 1) % numSnapshotEntities]]

\* Mutant: the frame is used although its entities may have left the ring.
HasBase_RolledOff(ring, deltaMessage) ==
  /\ deltaMessage > 0
  /\ outgoingSequence - deltaMessage < PACKET_BACKUP - 3

\* Mutant: the age of the frame is not looked at.
HasBase_AnyAge(ring, deltaMessage) ==
  /\ deltaMessage > 0
  /\ cl.frames[Slot(deltaMessage)].first_entity
       > ring.nextSnapshotEntities - numSnapshotEntities

\* The frame the client has is young enough, and its entities are in the ring.
HasBase(ring, deltaMessage) ==
  /\ deltaMessage > 0
  /\ outgoingSequence - deltaMessage < PACKET_BACKUP - 3
  /\ cl.frames[Slot(deltaMessage)].first_entity
       > ring.nextSnapshotEntities - numSnapshotEntities

Has(entities, number) == \E i \in DOMAIN entities : entities[i].number = number
VersionIn(entities, number) ==
  entities[CHOOSE i \in DOMAIN entities : entities[i].number = number].version

\* SV_EmitPacketEntities: what is not said stays as it was.
Differences(old, new) ==
  {[number |-> e, kind |-> "delta", from |-> VersionIn(old, e), to |-> VersionIn(new, e)] :
     e \in {n \in Numbers : Has(old, n) /\ Has(new, n) /\ VersionIn(old, n) # VersionIn(new, n)}}
  \cup
  {[number |-> e, kind |-> "baseline", from |-> 0, to |-> VersionIn(new, e)] :
     e \in {n \in Numbers : ~Has(old, n) /\ Has(new, n)}}
  \cup
  {[number |-> e, kind |-> "removed", from |-> 0, to |-> 0] :
     e \in {n \in Numbers : Has(old, n) /\ ~Has(new, n)}}

\* SV_BuildClientSnapshot and SV_WriteSnapshotToClient, with what is in view.
SV_SendClientSnapshot ==
  LET entities == Shown(views[(Len(sent) % Len(views)) + 1])
      ring == Entered(svs, entities)
      frame == [first_entity |-> svs.nextSnapshotEntities, num_entities |-> Len(entities)]
      base == HasBase(ring, cl.deltaMessage)
      old == IF base THEN EntitiesOf(ring, cl.frames[Slot(cl.deltaMessage)]) ELSE <<>>
  IN /\ Len(sent) < MaxMessages
     /\ Len(toClient) < Capacity
     /\ svs' = ring
     /\ cl' = [cl EXCEPT !.frames[Slot(outgoingSequence)] = frame]
     /\ toClient' = Append(toClient,
          [messageNum |-> outgoingSequence,
           lastframe |-> IF base THEN outgoingSequence - cl.deltaMessage ELSE 0,
           differences |-> Differences(old, EntitiesOf(ring, frame))])
     /\ sent' = Append(sent, entities)
     /\ UNCHANGED <<client, toServer, views>>

\* Snapshots of other clients use up the ring of entities.
OtherSnapshot(n) ==
  /\ svs.others + n <= MaxOthers
  /\ svs' = [Entered(svs, [i \in 1..n |-> NoEntity]) EXCEPT !.others = @ + n]
  /\ UNCHANGED <<cl, client, toClient, toServer, views, sent>>

\* SV_UserMove: what the client's next snapshot is written from.
SV_UserMove ==
  /\ toServer # <<>>
  /\ toServer' = Tail(toServer)
  /\ LET move == Head(toServer)
     IN cl' = [cl EXCEPT !.deltaMessage = IF move.delta THEN move.messageAcknowledge ELSE -1]
  /\ UNCHANGED <<svs, client, toClient, views, sent>>

-----------------------------------------------------------------------------
(* The client. *)

\* The last message was the last good snapshot.
AsksForDelta ==
  client.snap.valid /\ client.serverMessageSequence = client.snap.messageNum

\* CL_WritePacket, with moves; cl_nodelta is the client's wish.
CL_WritePacket(cl_nodelta) ==
  /\ Len(toServer) < Capacity
  /\ toServer' = Append(toServer,
       [messageAcknowledge |-> client.serverMessageSequence,
        delta |-> AsksForDelta /\ ~cl_nodelta])
  /\ UNCHANGED <<cl, svs, client, toClient, views, sent>>

\* The entities of a snapshot, as the client's ring holds them.
ParsedEntities(ring, snapshot) ==
  [i \in 1..snapshot.numEntities |->
     ring[(snapshot.parseEntitiesNum + i - 1) % MAX_PARSE_ENTITIES]]

\* CL_DeltaEntity: a removed entity is written to the ring as well, but not kept.
CL_DeltaEntity(parsing, entity) ==
  [parsing EXCEPT !.ring[parsing.next % MAX_PARSE_ENTITIES] = entity,
                  !.next = @ + (IF entity = NoEntity THEN 0 ELSE 1)]

\* What entity e becomes with the differences of a message that speak of it.
Parsed(old, message, e) ==
  LET said == {d \in message.differences : d.number = e}
      have == Has(old, e)
      base == IF have THEN VersionIn(old, e) ELSE 0
      d == CHOOSE x \in said : TRUE
      kept == [number |-> e, version |->
                 IF (d.kind = "delta") = have /\ d.from = base THEN d.to ELSE Garbled]
  IN CASE said = {} -> [number |-> e, version |-> base]
       [] said # {} -> IF d.kind = "removed" THEN NoEntity ELSE kept

\* Entity e: it is passed over if neither the old snapshot nor the message has it.
ParseEntity(parsing, old, message, e) ==
  LET before == ParsedEntities(parsing.ring, old)
  IN IF Has(before, e) \/ \E d \in message.differences : d.number = e
     THEN CL_DeltaEntity(parsing, Parsed(before, message, e)) ELSE parsing

\* CL_ParsePacketEntities: the entities of the old snapshot and those the
\* message speaks of, in the order of their numbers.
CL_ParsePacketEntities(old, message) ==
  LET upTo[e \in 0..MAX_SNAPSHOT_ENTITIES] ==
        IF e = 0 THEN [ring |-> client.parseEntities, next |-> client.parseEntitiesNum]
        ELSE ParseEntity(upTo[e - 1], old, message, e)
  IN upTo[MAX_SNAPSHOT_ENTITIES]

\* The snapshot a difference starts from is still there, and so are its entities.
IsUsable(old, deltaNum) ==
  /\ old.valid
  /\ old.messageNum = deltaNum
  /\ client.parseEntitiesNum - old.parseEntitiesNum
       <= MAX_PARSE_ENTITIES - MAX_SNAPSHOT_ENTITIES

\* The snapshots that were lost since the last are marked as invalid.
Cleared(messageNum) ==
  [i \in Slots |->
     IF \E n \in client.snap.messageNum + 1..messageNum - 1 : Slot(n) = i
     THEN [client.snapshots[i] EXCEPT !.valid = FALSE]
     ELSE client.snapshots[i]]

\* CL_ParseSnapshot: a snapshot that cannot be read is sucked up and dumped.
CL_ParseSnapshot ==
  /\ toClient # <<>>
  /\ toClient' = Tail(toClient)
  /\ LET message == Head(toClient)
         deltaNum == message.messageNum - message.lastframe
         old == IF message.lastframe = 0 THEN NoSnapshot ELSE client.snapshots[Slot(deltaNum)]
         valid == message.lastframe = 0 \/ IsUsable(old, deltaNum)
         parsing == CL_ParsePacketEntities(old, message)
         snap == [valid |-> TRUE, messageNum |-> message.messageNum,
                  parseEntitiesNum |-> client.parseEntitiesNum,
                  numEntities |-> parsing.next - client.parseEntitiesNum]
         read == [client EXCEPT !.serverMessageSequence = message.messageNum,
                                !.parseEntities = parsing.ring,
                                !.parseEntitiesNum = parsing.next]
     IN client' =
          IF valid
          THEN [read EXCEPT !.snap = snap,
                  !.snapshots = [Cleared(message.messageNum) EXCEPT
                                   ![Slot(message.messageNum)] = snap]]
          ELSE [read EXCEPT !.dumped = TRUE]
  /\ UNCHANGED <<cl, svs, toServer, views, sent>>

\* CL_GetSnapshot: the snapshots the game may ask for.
CL_GetSnapshot(n) ==
  /\ client.snap.messageNum - n < PACKET_BACKUP
  /\ client.snapshots[Slot(n)].valid
  /\ client.parseEntitiesNum - client.snapshots[Slot(n)].parseEntitiesNum
       < MAX_PARSE_ENTITIES

-----------------------------------------------------------------------------
Next ==
  \/ Lose
  \/ SV_SendClientSnapshot
  \/ \E n \in 1..MAX_SNAPSHOT_ENTITIES : OtherSnapshot(n)
  \/ SV_UserMove
  \/ \E cl_nodelta \in BOOLEAN : CL_WritePacket(cl_nodelta)
  \/ CL_ParseSnapshot

Spec == Init /\ [][Next]_vars

-----------------------------------------------------------------------------
TypeOK ==
  /\ cl \in [deltaMessage : Nat \cup {-1}, frames : [Slots -> Frame]]
  /\ svs \in [snapshotEntities : [0..numSnapshotEntities - 1 -> Entity],
              nextSnapshotEntities : Nat, others : 0..MaxOthers]
  /\ client \in [snap : Snapshot, snapshots : [Slots -> Snapshot],
                 parseEntities : [0..MAX_PARSE_ENTITIES - 1 -> Entity],
                 parseEntitiesNum : Nat, serverMessageSequence : Nat, dumped : BOOLEAN]
  /\ toClient \in Seq(Message) /\ Len(toClient) <= Capacity
  /\ toServer \in Seq(Move) /\ Len(toServer) <= Capacity
  /\ views \in Views /\ sent \in Seq(Seq(Entity))

\* Every snapshot the client's game can ask for is, entity by entity, the one
\* the server built, whatever was lost, and however the four rings turned.
Exact ==
  \A n \in Max({1, client.snap.messageNum - PACKET_BACKUP + 1})..client.snap.messageNum :
    CL_GetSnapshot(n) =>
      /\ client.snapshots[Slot(n)].messageNum = n
      /\ ParsedEntities(client.parseEntities, client.snapshots[Slot(n)]) = sent[n]

\* The server never writes a difference from a snapshot the client cannot use:
\* what cl_parse.c:252 calls "not supposed to happen" does not, and the client's
\* ring of entities is, as client.h:221 wants it, large enough.
Usable == ~client.dumped

=============================================================================
