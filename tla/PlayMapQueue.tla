---------------------------- MODULE PlayMapQueue ----------------------------
(***************************************************************************)
(* The queue of maps the players asked for: a ring in the game module,     *)
(* copied into the server when a level ends and built anew from there by   *)
(* the next.  Entries of players who left are removed when a level ends.   *)
(* Layouts and flags are left out.                                         *)
(***************************************************************************)
EXTENDS Integers, Sequences, SequencesExt

CONSTANTS
  Players,                    \* their guids
  Console,
  Pool,                       \* the maps that may be asked for
  MAX_PLAYMAP_QUEUE_ENTRIES

Owners == Players \cup {Console}

ASSUME QueueAssumption ==
  /\ Console \notin Players
  /\ MAX_PLAYMAP_QUEUE_ENTRIES \in Nat /\ MAX_PLAYMAP_QUEUE_ENTRIES > 1

VARIABLES
  queue,         \* playMapQueue
  there          \* the players G_FindClientByGUID finds

-----------------------------------------------------------------------------
(* The ring. *)

M == MAX_PLAYMAP_QUEUE_ENTRIES
Slots == 0..(M - 1)
Entry == [map : Pool, owner : Owners]
Empty == [map |-> "", owner |-> ""]

QueueTypeOK ==
  /\ queue \in [playMap : [Slots -> Entry \cup {Empty}], head : Slots, tail : {-1} \cup Slots]
  /\ there \subseteq Players

\* The remainder of C has the sign of the dividend.
Rem(n) == IF n >= 0 THEN n % M ELSE -((-n) % M)

PLAYMAP_QUEUE_ADD(x, y) == Rem(x + y)

G_GetPlayMapQueueLength(q) == Rem(q.tail - q.head + 1)

\* Entries are counted from 0, as in the code.
Slot(q, i) == PLAYMAP_QUEUE_ADD(q.head, i)
Nth(q, i) == q.playMap[Slot(q, i)]
Indices(q) == 0..(G_GetPlayMapQueueLength(q) - 1)
Queued(q) == [i \in 1..G_GetPlayMapQueueLength(q) |-> Nth(q, i - 1)]

G_InitPlayMapQueue == [playMap |-> [s \in Slots |-> Empty], head |-> 0, tail |-> -1]

\* The slot of the last is only cleared if it was not the last that was removed.
G_RemoveFromPlayMapQueue(q, index) ==
  LET last == G_GetPlayMapQueueLength(q) - 1
      moved == {Slot(q, i) : i \in index..(last - 1)}
      shifted == [s \in Slots |-> IF s \in moved THEN q.playMap[PLAYMAP_QUEUE_ADD(s, 1)] ELSE q.playMap[s]]
  IN [q EXCEPT !.playMap = IF index < last THEN [shifted EXCEPT ![q.tail] = Empty] ELSE @,
               !.tail = PLAYMAP_QUEUE_ADD(@, -1)]

Full(q) == G_GetPlayMapQueueLength(q) >= M - 1

\* G_PlayMapEnqueue refuses a map that is queued, and no map while the queue is
\* full; the saved queue has empty entries, which it refuses as well.
Refused(q, entry) ==
  \/ entry = Empty
  \/ Full(q)
  \/ \E i \in Indices(q) : Nth(q, i).map = entry.map

WithoutOwner(q, owner) ==
  LET his == {i \in Indices(q) : Nth(q, i).owner = owner}
  IN IF his = {} THEN q
     ELSE G_RemoveFromPlayMapQueue(q, CHOOSE i \in his : \A j \in his : i <= j)

G_PlayMapEnqueue(q, entry) ==
  LET room == WithoutOwner(q, entry.owner)
      end == PLAYMAP_QUEUE_ADD(room.tail, 1)
  IN IF Refused(q, entry) THEN q
     ELSE [room EXCEPT !.tail = end, !.playMap[end] = entry]

G_PopFromPlayMapQueue(q) ==
  [q EXCEPT !.playMap[q.head] = Empty, !.head = PLAYMAP_QUEUE_ADD(@, 1)]

\* Mutant: the entry that moved into the place of one removed is not looked at.
G_ValidatePlayMapQueue_Skips(q) ==
  LET Check(checked, n) ==
        [q |-> IF \/ checked.i >= G_GetPlayMapQueueLength(checked.q)
                  \/ Nth(checked.q, checked.i).owner \in there \cup {Console}
               THEN checked.q
               ELSE G_RemoveFromPlayMapQueue(checked.q, checked.i),
         i |-> checked.i + 1]
      entries == [n \in 1..G_GetPlayMapQueueLength(q) |-> n]
  IN FoldLeft(Check, [q |-> q, i |-> 0], entries).q

\* G_ValidatePlayMapQueue: one entry after the other, those of players who left
\* are removed.  Removing moves the next one into the place looked at.
G_ValidatePlayMapQueue(q) ==
  LET Check(checked, n) ==
        IF Nth(checked.q, checked.i).owner \in there \cup {Console}
        THEN [checked EXCEPT !.i = @ + 1]
        ELSE [checked EXCEPT !.q = G_RemoveFromPlayMapQueue(@, checked.i)]
      entries == [n \in 1..G_GetPlayMapQueueLength(q) |-> n]
  IN FoldLeft(Check, [q |-> q, i |-> 0], entries).q

\* G_SavePlayMapQueue: the server's copy starts at the head.
G_SavePlayMapQueue(q) ==
  LET valid == G_ValidatePlayMapQueue(q)
  IN [i \in 1..M |-> IF i - 1 \in Indices(valid) THEN Nth(valid, i - 1) ELSE Empty]

G_ReloadPlayMapQueue(saved) == FoldLeft(G_PlayMapEnqueue, G_InitPlayMapQueue, saved)

-----------------------------------------------------------------------------
(* The steps. *)

QueueInit ==
  /\ queue = G_InitPlayMapQueue
  /\ there = {}

ClientConnect(p) ==
  /\ p \notin there
  /\ there' = there \cup {p}
  /\ UNCHANGED queue

ClientDisconnect(p) ==
  /\ p \in there
  /\ there' = there \ {p}
  /\ UNCHANGED queue

\* The command playmap.
G_admin_playmap(map, owner) ==
  /\ owner \in there \cup {Console}
  /\ queue' = G_PlayMapEnqueue(queue, [map |-> map, owner |-> owner])
  /\ UNCHANGED there

\* G_PlayMapActive and G_NextPlayMap: what is left of the queue after a look at
\* it, and whether a map of it is next.
G_PlayMapActive(q) == G_GetPlayMapQueueLength(q) > 0

\* G_ShutdownGame and G_InitGame.
SaveAndReload ==
  /\ queue' = G_ReloadPlayMapQueue(G_SavePlayMapQueue(queue))
  /\ UNCHANGED there
=============================================================================
