---------------------------- MODULE VotesProofs ----------------------------
(***************************************************************************)
(* Proofs about Votes: types, that the counts of a vote are those of the   *)
(* players there, that a vote starts clean, that what passes is executed   *)
(* once, and that a vote ends early only if the rest could not change it.  *)
(* All for any number of players, teams and kinds of vote.                 *)
(***************************************************************************)
EXTENDS Votes, FiniteSetTheorems, TLAPS

-----------------------------------------------------------------------------
(* The inductive invariant. *)

SaidIn(cs, ballot, t) == {p \in VotingClients(cs, t) : cs[p].ballot[t] = ballot}

\* A player who is not in the game yet has voted for nothing and done nothing.
Newcomer(c) == c.active = 0 /\ \A t \in Teams : c.ballot[t] = "none"
ClientsInv(cs) == \A p \in Players : cs[p].connected # "CON_CONNECTED" => Newcomer(cs[p])

\* The counts of a vote, and the marks.
Counted(tl, cs, t) ==
  tl.running /\ tl.rejoined = 0 =>
    tl.voteYes = Cardinality(SaidIn(cs, "yes", t)) /\ tl.voteNo = Cardinality(SaidIn(cs, "no", t))

Fresh(tl, cs, t) ==
  ~tl.running => /\ tl.voteYes = 0 /\ tl.voteNo = 0
                 /\ \A p \in Players : cs[p].ballot[t] = "none"

Numbered(tl, cs, t) == tl.numVotingClients = Cardinality(VotingClients(cs, t))

\* What passed waits, with its kind, while no other vote runs.
Waits(tl) ==
  /\ tl.due = [k \in Kinds |-> IF tl.pending /\ k = tl.kind THEN 1 ELSE 0]
  /\ tl.pending => ~tl.running
  /\ tl.pending \/ tl.running => tl.kind \in Kinds

\* All but the number of voters, which CalculateRanks sets at the end of a step.
TeamInv(tl, cs, t, inter) ==
  /\ tl \in Tally /\ Waits(tl)
  /\ inter => ~tl.running
  /\ ~inter => Counted(tl, cs, t) /\ Fresh(tl, cs, t)

VotesInv ==
  /\ TypeOK /\ ClientsInv(clients)
  /\ \A t \in Teams : /\ TeamInv(tally[t], clients, t, intermission)
                      /\ ~intermission => Numbered(tally[t], clients, t)

-----------------------------------------------------------------------------
(* Sets of players. *)

LEMMA PlayersFinite ==
  ASSUME NEW S, S \subseteq Players
  PROVE  IsFiniteSet(S) /\ Cardinality(S) \in Nat
BY TeamAssumption, FS_Subset, FS_CardinalityType

LEMMA VotingFinite ==
  ASSUME NEW cs, NEW t
  PROVE  /\ VotingClients(cs, t) \subseteq Players
         /\ IsFiniteSet(VotingClients(cs, t)) /\ Cardinality(VotingClients(cs, t)) \in Nat
         /\ \A b : /\ SaidIn(cs, b, t) \subseteq VotingClients(cs, t)
                   /\ IsFiniteSet(SaidIn(cs, b, t)) /\ Cardinality(SaidIn(cs, b, t)) \in Nat
<1>1. VotingClients(cs, t) \subseteq Players
  BY DEF VotingClients
<1>2. ASSUME NEW b
      PROVE  SaidIn(cs, b, t) \subseteq VotingClients(cs, t) /\ SaidIn(cs, b, t) \subseteq Players
  BY <1>1 DEF SaidIn
<1> QED
  BY <1>1, <1>2, PlayersFinite

\* Nobody else's vote.
LEMMA SaidWithout ==
  ASSUME NEW cs, NEW t, NEW p, NEW b
  PROVE  Cardinality(SaidIn(cs, b, t) \ {p}) =
           IF p \in SaidIn(cs, b, t) THEN Cardinality(SaidIn(cs, b, t)) - 1
           ELSE Cardinality(SaidIn(cs, b, t))
BY VotingFinite, FS_RemoveElement

\* The yes and the no sayers are different players.
LEMMA SaidApart ==
  ASSUME NEW cs, NEW t,
         Cardinality(SaidIn(cs, "yes", t)) + Cardinality(SaidIn(cs, "no", t))
           = Cardinality(VotingClients(cs, t))
  PROVE  VotingClients(cs, t) = SaidIn(cs, "yes", t) \cup SaidIn(cs, "no", t)
<1> DEFINE V == VotingClients(cs, t)
           Y == SaidIn(cs, "yes", t)
           N == SaidIn(cs, "no", t)
<1>1. Y \subseteq V /\ N \subseteq V /\ IsFiniteSet(V) /\ IsFiniteSet(Y) /\ IsFiniteSet(N)
  BY VotingFinite
<1>2. Y \cap N = {}
  BY DEF SaidIn
<1>3. Cardinality(Y \cup N) = Cardinality(Y) + Cardinality(N)
  <2>1. Cardinality(Y \cup N) = Cardinality(Y) + Cardinality(N) - Cardinality(Y \cap N)
    BY <1>1, FS_Union
  <2>2. Cardinality(Y \cap N) = 0
    BY <1>2, FS_EmptySet
  <2>3. Cardinality(Y) \in Nat /\ Cardinality(N) \in Nat
    BY VotingFinite
  <2> QED
    BY <2>1, <2>2, <2>3
<1>4. Y \cup N \in SUBSET V
  BY <1>1
<1>5. Cardinality(Y \cup N) = Cardinality(V)
  BY <1>3
<1> HIDE DEF V, Y, N
<1>6. V = Y \cup N
  BY <1>1, <1>4, <1>5, FS_Subset
<1> QED
  BY <1>6 DEF V, Y, N

-----------------------------------------------------------------------------
(* What is done to a tally. *)

LEMMA TimeTypes == VOTE_TIME \in Nat /\ VOTE_TIME > 0 /\ MaxRejoins \in Nat
BY TimeAssumption

\* The number of voters is the last thing a step sets, and changes nothing else.
LEMMA RankedTally ==
  ASSUME NEW tl, NEW cs, NEW t, NEW inter \in BOOLEAN, TeamInv(tl, cs, t, inter),
         NEW n \in Nat
  PROVE  /\ TeamInv([tl EXCEPT !.numVotingClients = n], cs, t, inter)
         /\ [tl EXCEPT !.numVotingClients = n].numVotingClients = n
<1> DEFINE e == [tl EXCEPT !.numVotingClients = n]
<1>1. tl \in Tally
  BY DEF TeamInv
<1>2. e \in Tally
  BY <1>1, Zenon DEF Tally
<1>3. /\ e.running = tl.running /\ e.pending = tl.pending /\ e.kind = tl.kind
      /\ e.voteYes = tl.voteYes /\ e.voteNo = tl.voteNo /\ e.due = tl.due
      /\ e.rejoined = tl.rejoined /\ e.numVotingClients = n
  BY <1>1, Zenon DEF Tally
<1> HIDE DEF e
<1>4. TeamInv(e, cs, t, inter) <=> TeamInv(tl, cs, t, inter)
  BY <1>1, <1>2, <1>3, Zenon DEF TeamInv, Waits, Counted, Fresh
<1> QED
  BY <1>3, <1>4 DEF e

LEMMA AddTally ==
  ASSUME NEW tl \in Tally, NEW ballot, NEW n \in Int, NEW e, e = Add(tl, ballot, n)
  PROVE  /\ e \in Tally
         /\ e.running = tl.running /\ e.pending = tl.pending /\ e.kind = tl.kind
         /\ e.due = tl.due /\ e.rejoined = tl.rejoined
         /\ e.numVotingClients = tl.numVotingClients
         /\ e.voteYes = IF ballot = "yes" THEN tl.voteYes + n ELSE tl.voteYes
         /\ e.voteNo = IF ballot = "no" THEN tl.voteNo + n ELSE tl.voteNo
<1> DEFINE yes == [tl EXCEPT !.voteYes = @ + n]
           no == [tl EXCEPT !.voteNo = @ + n]
<1>1. tl.voteYes + n \in Int /\ tl.voteNo + n \in Int
  BY DEF Tally
<1>2. yes \in Tally /\ no \in Tally
  BY <1>1, Zenon DEF Tally
<1>3. /\ yes.running = tl.running /\ yes.pending = tl.pending /\ yes.kind = tl.kind
      /\ yes.due = tl.due /\ yes.rejoined = tl.rejoined
      /\ yes.numVotingClients = tl.numVotingClients
      /\ yes.voteYes = tl.voteYes + n /\ yes.voteNo = tl.voteNo
  BY Zenon DEF Tally
<1>4. /\ no.running = tl.running /\ no.pending = tl.pending /\ no.kind = tl.kind
      /\ no.due = tl.due /\ no.rejoined = tl.rejoined
      /\ no.numVotingClients = tl.numVotingClients
      /\ no.voteYes = tl.voteYes /\ no.voteNo = tl.voteNo + n
  BY Zenon DEF Tally
<1>5. Add(tl, ballot, n) = IF ballot = "yes" THEN yes ELSE IF ballot = "no" THEN no ELSE tl
  BY DEF Add
<1> HIDE DEF yes, no
<1>6. CASE ballot = "yes"
  <2>1. Add(tl, ballot, n) = yes /\ ballot # "no"
    BY <1>5, <1>6
  <2> QED
    BY <1>2, <1>3, <1>6, <2>1, Zenon
<1>7. CASE ballot = "no"
  <2>1. Add(tl, ballot, n) = no /\ ballot # "yes"
    BY <1>5, <1>7
  <2> QED
    BY <1>2, <1>4, <1>7, <2>1, Zenon
<1>8. CASE ballot # "yes" /\ ballot # "no"
  <2>1. Add(tl, ballot, n) = tl
    BY <1>5, <1>8
  <2> QED
    BY <1>8, <2>1, Zenon
<1> QED
  BY <1>6, <1>7, <1>8

\* Other players, the same votes.
LEMMA SameVotes ==
  ASSUME NEW tl, NEW cs, NEW ds, NEW t, NEW inter \in BOOLEAN, TeamInv(tl, cs, t, inter),
         SaidIn(ds, "yes", t) = SaidIn(cs, "yes", t),
         SaidIn(ds, "no", t) = SaidIn(cs, "no", t),
         NEW q \in Players,
         \A p \in Players : p # q => ds[p].ballot[t] = cs[p].ballot[t],
         ds[q].ballot[t] \in {cs[q].ballot[t], "none"}
  PROVE  TeamInv(tl, ds, t, inter)
<1>1. Fresh(tl, cs, t) => Fresh(tl, ds, t)
  BY DEF Fresh
<1> QED
  BY <1>1, Zenon DEF TeamInv, Counted

\* A player leaves those who vote, and his vote is taken back.
LEMMA UnvoteTally ==
  ASSUME NEW tl, NEW cs, NEW ds, NEW t, NEW inter \in BOOLEAN, TeamInv(tl, cs, t, inter),
         NEW q \in VotingClients(cs, t),
         VotingClients(ds, t) = VotingClients(cs, t) \ {q},
         \A p \in Players : p # q => ds[p].ballot[t] = cs[p].ballot[t],
         ds[q].ballot[t] \in {cs[q].ballot[t], "none"}
  PROVE  TeamInv(G_Unvote(tl, cs[q], t), ds, t, inter)
<1> DEFINE e == Add(tl, cs[q].ballot[t], -1)
<1>1. tl \in Tally /\ VotingClients(cs, t) \subseteq Players
  BY VotingFinite DEF TeamInv
<1>2. ASSUME NEW b
      PROVE  /\ SaidIn(ds, b, t) = SaidIn(cs, b, t) \ {q}
             /\ q \in SaidIn(cs, b, t) <=> cs[q].ballot[t] = b
  BY <1>1 DEF SaidIn
<1>3. ASSUME NEW b
      PROVE  Cardinality(SaidIn(ds, b, t)) =
               IF cs[q].ballot[t] = b THEN Cardinality(SaidIn(cs, b, t)) - 1
               ELSE Cardinality(SaidIn(cs, b, t))
  BY <1>2, SaidWithout
<1>4. CASE ~tl.running
  <2>1. G_Unvote(tl, cs[q], t) = tl
    BY <1>4, Zenon DEF G_Unvote
  <2>2. Fresh(tl, cs, t) => Fresh(tl, ds, t)
    BY <1>1 DEF Fresh
  <2> QED
    BY <1>4, <2>1, <2>2, Zenon DEF TeamInv, Counted
<1>5. CASE tl.running
  <2>1. G_Unvote(tl, cs[q], t) = e
    BY <1>5, Zenon DEF G_Unvote
  <2>2. -1 \in Int /\ e = Add(tl, cs[q].ballot[t], -1)
    OBVIOUS
  <2> HIDE DEF e
  <2>3. /\ e \in Tally
        /\ e.running = tl.running /\ e.pending = tl.pending /\ e.kind = tl.kind
        /\ e.due = tl.due /\ e.rejoined = tl.rejoined
        /\ e.voteYes = IF cs[q].ballot[t] = "yes" THEN tl.voteYes + (-1) ELSE tl.voteYes
        /\ e.voteNo = IF cs[q].ballot[t] = "no" THEN tl.voteNo + (-1) ELSE tl.voteNo
    BY <1>1, <2>2, AddTally
  <2>4. Waits(e)
    BY <2>3, Zenon DEF TeamInv, Waits
  <2>5. Counted(tl, cs, t) => Counted(e, ds, t)
    <3>1. ASSUME Counted(tl, cs, t), e.running, e.rejoined = 0
          PROVE  /\ e.voteYes = Cardinality(SaidIn(ds, "yes", t))
                 /\ e.voteNo = Cardinality(SaidIn(ds, "no", t))
      <4>1. /\ tl.voteYes = Cardinality(SaidIn(cs, "yes", t))
            /\ tl.voteNo = Cardinality(SaidIn(cs, "no", t))
        BY <1>5, <2>3, <3>1, Zenon DEF Counted
      <4>2. /\ e.voteYes = IF cs[q].ballot[t] = "yes" THEN tl.voteYes + (-1) ELSE tl.voteYes
            /\ e.voteNo = IF cs[q].ballot[t] = "no" THEN tl.voteNo + (-1) ELSE tl.voteNo
            /\ Cardinality(SaidIn(cs, "yes", t)) \in Nat /\ Cardinality(SaidIn(cs, "no", t)) \in Nat
        BY <2>3, VotingFinite, Zenon
      <4> QED
        BY <4>1, <4>2, <1>3
    <3> QED
      BY <3>1, Zenon DEF Counted
  <2>6. Fresh(e, ds, t)
    BY <1>5, <2>3, Zenon DEF Fresh
  <2> QED
    BY <2>1, <2>3, <2>4, <2>5, <2>6, Zenon DEF TeamInv
<1> QED
  BY <1>4, <1>5

\* A player votes.
LEMMA VoteTally ==
  ASSUME NEW tl, NEW cs, NEW ds, NEW t, TeamInv(tl, cs, t, FALSE),
         NEW q \in VotingClients(cs, t), cs[q].ballot[t] = "none",
         NEW b \in {"yes", "no"}, ds[q].ballot[t] = b,
         VotingClients(ds, t) = VotingClients(cs, t),
         \A p \in Players : p # q => ds[p].ballot[t] = cs[p].ballot[t]
  PROVE  tl.running => TeamInv(Add(tl, b, 1), ds, t, FALSE)
<1> DEFINE e == Add(tl, b, 1)
<1>1. tl \in Tally /\ VotingClients(cs, t) \subseteq Players /\ 1 \in Int
  BY VotingFinite DEF TeamInv
<1>2. ASSUME NEW x \in {"yes", "no"}
      PROVE  /\ SaidIn(ds, x, t) = IF x = b THEN SaidIn(cs, x, t) \cup {q} ELSE SaidIn(cs, x, t)
             /\ q \notin SaidIn(cs, x, t)
  BY <1>1 DEF SaidIn
<1>3. ASSUME NEW x \in {"yes", "no"}
      PROVE  Cardinality(SaidIn(ds, x, t)) =
               IF b = x THEN Cardinality(SaidIn(cs, x, t)) + 1 ELSE Cardinality(SaidIn(cs, x, t))
  BY <1>2, VotingFinite, FS_AddElement
<1>4. /\ e \in Tally
      /\ e.running = tl.running /\ e.pending = tl.pending /\ e.kind = tl.kind
      /\ e.due = tl.due /\ e.rejoined = tl.rejoined
      /\ e.voteYes = IF b = "yes" THEN tl.voteYes + 1 ELSE tl.voteYes
      /\ e.voteNo = IF b = "no" THEN tl.voteNo + 1 ELSE tl.voteNo
  <2>1. e = Add(tl, b, 1)
    OBVIOUS
  <2> HIDE DEF e
  <2> QED
    BY <1>1, <2>1, AddTally
<1> HIDE DEF e
<1> SUFFICES ASSUME tl.running PROVE TeamInv(e, ds, t, FALSE)
  BY DEF e
<1>5. Waits(e)
  BY <1>4, Zenon DEF TeamInv, Waits
<1>6. Counted(e, ds, t)
  <2>1. ASSUME e.running, e.rejoined = 0
        PROVE  /\ e.voteYes = Cardinality(SaidIn(ds, "yes", t))
               /\ e.voteNo = Cardinality(SaidIn(ds, "no", t))
    <3>1. /\ tl.voteYes = Cardinality(SaidIn(cs, "yes", t))
          /\ tl.voteNo = Cardinality(SaidIn(cs, "no", t))
      BY <1>4, <2>1, Zenon DEF Counted, TeamInv
    <3>2. /\ e.voteYes = IF b = "yes" THEN tl.voteYes + 1 ELSE tl.voteYes
          /\ e.voteNo = IF b = "no" THEN tl.voteNo + 1 ELSE tl.voteNo
      BY <1>4, Zenon
    <3> QED
      BY <1>3, <3>1, <3>2
  <2> QED
    BY <2>1, Zenon DEF Counted
<1>7. Fresh(e, ds, t)
  BY <1>4, Zenon DEF Fresh
<1> QED
  BY <1>4, <1>5, <1>6, <1>7, Zenon DEF TeamInv

\* Nothing waits, and nothing is owed.
LEMMA NothingDue ==
  ASSUME NEW tl, ~tl.pending
  PROVE  tl.due = [k \in Kinds |-> 0] <=>
           tl.due = [k \in Kinds |-> IF tl.pending /\ k = tl.kind THEN 1 ELSE 0]
<1>1. [k \in Kinds |-> 0] = [k \in Kinds |-> IF tl.pending /\ k = tl.kind THEN 1 ELSE 0]
  BY Zenon
<1> QED
  BY <1>1, Zenon

\* What waits is executed, and nothing else changes.
LEMMA ExecuteTally ==
  ASSUME NEW tl \in Tally, Waits(tl), NEW e, e = G_ExecuteVote(tl)
  PROVE  /\ e \in Tally /\ Waits(e) /\ ~e.pending
         /\ e.running = tl.running /\ e.rejoined = tl.rejoined /\ e.age = tl.age
         /\ e.voteYes = tl.voteYes /\ e.voteNo = tl.voteNo
         /\ e.numVotingClients = tl.numVotingClients
<1>1. CASE ~tl.pending
  <2>1. e = tl
    BY <1>1, Zenon DEF G_ExecuteVote
  <2> QED
    BY <1>1, <2>1, Zenon
<1>2. CASE tl.pending
  <2> DEFINE due == [tl.due EXCEPT ![tl.kind] = @ - 1]
  <2>1. e = [tl EXCEPT !.pending = FALSE, !.left = 0, !.kind = NoKind, !.due = due]
    <3>1. [tl EXCEPT !.pending = FALSE, !.left = 0, !.kind = NoKind, !.due[tl.kind] = @ - 1]
          = [tl EXCEPT !.pending = FALSE, !.left = 0, !.kind = NoKind, !.due = due]
      BY Zenon DEF Tally
    <3> QED
      BY <1>2, <3>1, Zenon DEF G_ExecuteVote
  <2>2. tl.kind \in Kinds /\ ~tl.running
    BY <1>2, Zenon DEF Waits
  <2>3. due = [k \in Kinds |-> 0]
    <3>1. tl.due = [k \in Kinds |-> IF k = tl.kind THEN 1 ELSE 0]
      BY <1>2, Zenon DEF Waits
    <3> QED
      BY <2>2, <3>1
  <2> HIDE DEF due
  <2>4. due \in [Kinds -> Int]
    BY <2>3
  <2>5. FALSE \in BOOLEAN /\ 0 \in Int /\ NoKind \in Kinds \cup {NoKind}
    OBVIOUS
  <2>6. e \in Tally
    BY <2>1, <2>4, <2>5, Zenon DEF Tally
  <2>7. /\ e.pending = FALSE /\ e.due = due
        /\ e.running = tl.running /\ e.rejoined = tl.rejoined /\ e.age = tl.age
        /\ e.voteYes = tl.voteYes /\ e.voteNo = tl.voteNo
        /\ e.numVotingClients = tl.numVotingClients
    BY <2>1, Zenon DEF Tally
  <2>8. Waits(e)
    BY <2>2, <2>3, <2>7, NothingDue, Zenon DEF Waits
  <2> QED
    BY <2>6, <2>7, <2>8, Zenon
<1> QED
  BY <1>1, <1>2

LEMMA ExecuteTeam ==
  ASSUME NEW tl, NEW cs, NEW t, NEW inter \in BOOLEAN, TeamInv(tl, cs, t, inter),
         NEW e, e \in {tl, G_ExecuteVote(tl)}
  PROVE  TeamInv(e, cs, t, inter)
<1>1. tl \in Tally /\ Waits(tl)
  BY Zenon DEF TeamInv
<1>2. /\ e \in Tally /\ Waits(e)
      /\ e.running = tl.running /\ e.rejoined = tl.rejoined
      /\ e.voteYes = tl.voteYes /\ e.voteNo = tl.voteNo
  BY <1>1, ExecuteTally
<1> QED
  BY <1>2, Zenon DEF TeamInv, Counted, Fresh

\* A vote passes, and waits.
LEMMA PassedTally ==
  ASSUME NEW tl \in Tally, Waits(tl), tl.running, NEW e, e = Passed(tl)
  PROVE  /\ e \in Tally
         /\ e.due = [k \in Kinds |-> IF e.pending /\ k = e.kind THEN 1 ELSE 0]
         /\ e.pending /\ e.kind \in Kinds
         /\ e.numVotingClients = tl.numVotingClients
<1>1. tl.kind \in Kinds /\ ~tl.pending
  BY Zenon DEF Waits
<1> DEFINE due == [tl.due EXCEPT ![tl.kind] = @ + 1]
<1>2. e = [tl EXCEPT !.pending = TRUE, !.left = voteDelay[tl.kind], !.due = due]
  <2>1. [tl EXCEPT !.pending = TRUE, !.left = voteDelay[tl.kind], !.due[tl.kind] = @ + 1]
        = [tl EXCEPT !.pending = TRUE, !.left = voteDelay[tl.kind], !.due = due]
    BY Zenon DEF Tally
  <2> QED
    BY <2>1, Zenon DEF Passed
<1>3. due = [k \in Kinds |-> IF k = tl.kind THEN 1 ELSE 0]
  <2>1. tl.due = [k \in Kinds |-> 0]
    BY <1>1, NothingDue, Zenon DEF Waits
  <2> QED
    BY <1>1, <2>1
<1> HIDE DEF due
<1>4. due \in [Kinds -> Int]
  BY <1>3
<1>5. voteDelay[tl.kind] \in Int /\ TRUE \in BOOLEAN
  BY <1>1, KindAssumption
<1>6. e \in Tally
  BY <1>2, <1>4, <1>5, Zenon DEF Tally
<1>7. /\ e.pending = TRUE /\ e.kind = tl.kind /\ e.due = due
      /\ e.numVotingClients = tl.numVotingClients
  BY <1>2, Zenon DEF Tally
<1>8. e.due = [k \in Kinds |-> IF e.pending /\ k = e.kind THEN 1 ELSE 0]
  BY <1>3, <1>7, Zenon
<1> QED
  BY <1>1, <1>6, <1>7, <1>8, Zenon

\* A vote fails.
LEMMA FailedTally ==
  ASSUME NEW tl \in Tally, Waits(tl), ~tl.pending, NEW e, e = Failed(tl)
  PROVE  /\ e \in Tally
         /\ e.due = [k \in Kinds |-> IF e.pending /\ k = e.kind THEN 1 ELSE 0]
         /\ ~e.pending
         /\ e.numVotingClients = tl.numVotingClients
<1>1. e = [tl EXCEPT !.kind = NoKind] /\ NoKind \in Kinds \cup {NoKind}
  BY DEF Failed
<1>2. e \in Tally
  BY <1>1, Zenon DEF Tally
<1>3. e.pending = tl.pending /\ e.due = tl.due /\ e.numVotingClients = tl.numVotingClients
  BY <1>1, Zenon DEF Tally
<1>4. e.due = [k \in Kinds |-> IF e.pending /\ k = e.kind THEN 1 ELSE 0]
  BY <1>3, NothingDue, Zenon DEF Waits
<1> QED
  BY <1>2, <1>3, <1>4, Zenon

\* G_CheckVote on a tally whose vote does not end, and on one whose vote does.
LEMMA CheckGoesOn ==
  ASSUME NEW tl, NEW cs, NEW t, ~EndsNow(tl, cs, t)
  PROVE  G_CheckVote(tl, cs, t) \in {tl, G_ExecuteVote(tl)}
BY DEF G_CheckVote, Executed

LEMMA CheckEnds ==
  ASSUME NEW tl \in Tally, NEW cs, NEW t, Waits(tl), EndsNow(tl, cs, t),
         NEW e, e = G_CheckVote(tl, cs, t)
  PROVE  /\ e \in Tally /\ Waits(e)
         /\ ~e.running /\ e.voteYes = 0 /\ e.voteNo = 0
         /\ e.numVotingClients = tl.numVotingClients
         /\ e.pending <=> Passes(tl, cs, t)
<1>1. tl.running /\ ~tl.pending
  BY Zenon DEF EndsNow, Waits, Tally
<1>2. Executed(tl) = tl
  BY <1>1, Zenon DEF Executed, Due
<1> DEFINE d == IF Passes(tl, cs, t) THEN Passed(tl) ELSE Failed(tl)
<1>3. e = [d EXCEPT !.running = FALSE, !.age = 0, !.voteCaller = NoPlayer, !.voteYes = 0,
                    !.voteNo = 0, !.rejoined = 0]
  BY <1>2, Zenon DEF G_CheckVote
<1>4. /\ d \in Tally
      /\ d.due = [k \in Kinds |-> IF d.pending /\ k = d.kind THEN 1 ELSE 0]
      /\ d.pending => d.kind \in Kinds
      /\ d.numVotingClients = tl.numVotingClients
      /\ d.pending <=> Passes(tl, cs, t)
  <2>1. CASE Passes(tl, cs, t)
    <3>1. d = Passed(tl)
      BY <2>1, Zenon
    <3> HIDE DEF d
    <3>2. /\ d \in Tally
          /\ d.due = [k \in Kinds |-> IF d.pending /\ k = d.kind THEN 1 ELSE 0]
          /\ d.pending /\ d.kind \in Kinds
          /\ d.numVotingClients = tl.numVotingClients
      BY <1>1, <3>1, PassedTally
    <3> QED
      BY <2>1, <3>2, Zenon
  <2>2. CASE ~Passes(tl, cs, t)
    <3>1. d = Failed(tl)
      BY <2>2, Zenon
    <3> HIDE DEF d
    <3>2. /\ d \in Tally
          /\ d.due = [k \in Kinds |-> IF d.pending /\ k = d.kind THEN 1 ELSE 0]
          /\ ~d.pending
          /\ d.numVotingClients = tl.numVotingClients
      BY <1>1, <3>1, FailedTally
    <3> QED
      BY <2>2, <3>2, Zenon
  <2> QED
    BY <2>1, <2>2
<1> HIDE DEF d
<1>5. FALSE \in BOOLEAN /\ 0 \in 0..VOTE_TIME /\ 0 \in Int /\ 0 \in 0..MaxRejoins
      /\ NoPlayer \in Players \cup {NoPlayer}
  BY TimeTypes
<1>6. e \in Tally
  BY <1>3, <1>4, <1>5, Zenon DEF Tally
<1>7. /\ e.running = FALSE /\ e.voteYes = 0 /\ e.voteNo = 0
      /\ e.numVotingClients = d.numVotingClients
      /\ e.due = d.due /\ e.pending = d.pending /\ e.kind = d.kind
  BY <1>3, <1>4, Zenon DEF Tally
<1>8. Waits(e)
  <2>1. e.due = [k \in Kinds |-> IF e.pending /\ k = e.kind THEN 1 ELSE 0]
    BY <1>4, <1>7, Zenon
  <2>2. e.pending \/ e.running => e.kind \in Kinds
    BY <1>4, <1>7, Zenon
  <2> QED
    BY <1>7, <2>1, <2>2, Zenon DEF Waits
<1> QED
  BY <1>4, <1>6, <1>7, <1>8, Zenon

\* A vote is looked at and ends, and its marks are wiped.
LEMMA EndedTeam ==
  ASSUME NEW tl, NEW cs, NEW ds, NEW t, NEW inter \in BOOLEAN, TeamInv(tl, cs, t, inter),
         EndsNow(tl, cs, t), \A p \in Players : ds[p].ballot[t] = "none"
  PROVE  /\ TeamInv(G_CheckVote(tl, cs, t), ds, t, inter)
         /\ G_CheckVote(tl, cs, t).numVotingClients = tl.numVotingClients
<1> DEFINE e == G_CheckVote(tl, cs, t)
<1>1. tl \in Tally /\ Waits(tl) /\ e = G_CheckVote(tl, cs, t)
  BY Zenon DEF TeamInv
<1> HIDE DEF e
<1>2. /\ e \in Tally /\ Waits(e)
      /\ ~e.running /\ e.voteYes = 0 /\ e.voteNo = 0
      /\ e.numVotingClients = tl.numVotingClients
  BY <1>1, CheckEnds
<1>3. TeamInv(e, ds, t, inter) /\ e.numVotingClients = tl.numVotingClients
  BY <1>2, Zenon DEF TeamInv, Counted, Fresh
<1> QED
  BY <1>3 DEF e

\* Least and greatest of two.
LEMMA OfTwo ==
  ASSUME NEW a \in Int, NEW b \in Int
  PROVE  /\ Min({a, b}) = IF a <= b THEN a ELSE b
         /\ Max({a, b}) = IF a >= b THEN a ELSE b
<1>1. \E x \in {a, b} : \A y \in {a, b} : x <= y
  OBVIOUS
<1>2. \E x \in {a, b} : \A y \in {a, b} : x >= y
  OBVIOUS
<1> QED
  BY <1>1, <1>2 DEF Min, Max

LEMMA AgedTally ==
  ASSUME NEW tl \in Tally, NEW e, e = Aged(tl)
  PROVE  /\ e \in Tally
         /\ e.running = tl.running /\ e.pending = tl.pending /\ e.kind = tl.kind
         /\ e.due = tl.due /\ e.rejoined = tl.rejoined
         /\ e.voteYes = tl.voteYes /\ e.voteNo = tl.voteNo
         /\ e.numVotingClients = tl.numVotingClients
         /\ tl.age < VOTE_TIME - 1 => e.age < VOTE_TIME
<1> DEFINE age == IF tl.running THEN Min({tl.age + 1, VOTE_TIME}) ELSE tl.age
           left == IF tl.pending THEN tl.left - 1 ELSE tl.left
<1>1. tl.age \in 0..VOTE_TIME /\ tl.left \in Int
  BY DEF Tally
<1>2. age \in 0..VOTE_TIME /\ (tl.age < VOTE_TIME - 1 => age < VOTE_TIME)
  <2>1. Min({tl.age + 1, VOTE_TIME}) = IF tl.age + 1 <= VOTE_TIME THEN tl.age + 1 ELSE VOTE_TIME
    BY <1>1, TimeTypes, OfTwo
  <2>2. Min({tl.age + 1, VOTE_TIME}) \in 0..VOTE_TIME
        /\ (tl.age < VOTE_TIME - 1 => Min({tl.age + 1, VOTE_TIME}) < VOTE_TIME)
    BY <1>1, <2>1, TimeTypes
  <2>3. tl.age < VOTE_TIME - 1 => tl.age < VOTE_TIME
    BY <1>1, TimeTypes
  <2> QED
    BY <1>1, <2>2, <2>3, Zenon
<1>3. left \in Int
  <2>1. tl.left - 1 \in Int
    BY <1>1
  <2> QED
    BY <1>1, <2>1, Zenon
<1>4. e = [tl EXCEPT !.age = age, !.left = left]
  BY Zenon DEF Aged, Tally
<1> HIDE DEF age, left
<1>5. e \in Tally
  BY <1>2, <1>3, <1>4, Zenon DEF Tally
<1>6. /\ e.running = tl.running /\ e.pending = tl.pending /\ e.kind = tl.kind
      /\ e.due = tl.due /\ e.rejoined = tl.rejoined
      /\ e.voteYes = tl.voteYes /\ e.voteNo = tl.voteNo
      /\ e.numVotingClients = tl.numVotingClients /\ e.age = age
  BY <1>4, Zenon DEF Tally
<1> QED
  BY <1>2, <1>5, <1>6, Zenon

-----------------------------------------------------------------------------
(* Players come, go and move. *)

\* What the invariant says of a step that sets the number of voters last.
LEMMA RankedStep ==
  ASSUME NEW tl, DOMAIN tl = Teams, NEW cs \in [Players -> Client], ClientsInv(cs),
         NEW inter \in BOOLEAN, \A t \in Teams : TeamInv(tl[t], cs, t, inter),
         tally' = CalculateRanks(tl, cs), clients' = cs,
         intermission' = inter, restarted' \in BOOLEAN
  PROVE  VotesInv'
<1>1. ASSUME NEW t \in Teams
      PROVE  /\ tally'[t] \in Tally
             /\ TeamInv(tally'[t], cs, t, inter) /\ Numbered(tally'[t], cs, t)
  <2> DEFINE n == Cardinality(VotingClients(cs, t))
  <2>1. n \in Nat
    BY VotingFinite
  <2>2. tally'[t] = [tl[t] EXCEPT !.numVotingClients = n]
    BY Zenon DEF CalculateRanks
  <2> HIDE DEF n
  <2>3. /\ TeamInv([tl[t] EXCEPT !.numVotingClients = n], cs, t, inter)
        /\ [tl[t] EXCEPT !.numVotingClients = n].numVotingClients = n
    BY <2>1, RankedTally
  <2>4. TeamInv(tally'[t], cs, t, inter) /\ tally'[t].numVotingClients = n
    BY <2>2, <2>3, Zenon
  <2> QED
    BY <2>4, Zenon DEF TeamInv, Numbered, n
<1>2. tally' \in [Teams -> Tally]
  BY <1>1, Zenon DEF CalculateRanks
<1> QED
  BY <1>1, <1>2, Zenon DEF VotesInv, TypeOK

\* Of one that does not.
LEMMA UnrankedStep ==
  ASSUME VotesInv, NEW tl \in [Teams -> Tally], NEW cs \in [Players -> Client], ClientsInv(cs),
         \A t \in Teams : /\ TeamInv(tl[t], cs, t, intermission)
                          /\ tl[t].numVotingClients = tally[t].numVotingClients
                          /\ VotingClients(cs, t) = VotingClients(clients, t),
         tally' = tl, clients' = cs, UNCHANGED intermission, restarted' \in BOOLEAN
  PROVE  VotesInv'
<1>1. ASSUME NEW t \in Teams, ~intermission PROVE Numbered(tl[t], cs, t)
  BY <1>1, Zenon DEF VotesInv, Numbered
<1> QED
  BY <1>1, Zenon DEF VotesInv, TypeOK

LEMMA NoClientType ==
  /\ NoClient \in Client /\ Newcomer(NoClient)
  /\ [NoClient EXCEPT !.connected = "CON_CONNECTING"] \in Client
  /\ Newcomer([NoClient EXCEPT !.connected = "CON_CONNECTING"])
  /\ \A t \in Teams :
       /\ [NoClient EXCEPT !.connected = "CON_CONNECTING", !.teamSelection = t] \in Client
       /\ Newcomer([NoClient EXCEPT !.connected = "CON_CONNECTING", !.teamSelection = t])
<1>1. NoClient \in Client /\ Newcomer(NoClient)
  BY TimeTypes DEF NoClient, Client, Newcomer, Teams
<1>2. /\ [NoClient EXCEPT !.connected = "CON_CONNECTING"] \in Client
      /\ Newcomer([NoClient EXCEPT !.connected = "CON_CONNECTING"])
  BY <1>1 DEF NoClient, Client, Newcomer
<1>3. ASSUME NEW t \in Teams
      PROVE  /\ [NoClient EXCEPT !.connected = "CON_CONNECTING", !.teamSelection = t] \in Client
             /\ Newcomer([NoClient EXCEPT !.connected = "CON_CONNECTING", !.teamSelection = t])
  BY <1>1 DEF NoClient, Client, Newcomer
<1> QED
  BY <1>1, <1>2, <1>3

LEMMA NewcomerVotes ==
  ASSUME NEW cs \in [Players -> Client], NEW ds \in [Players -> Client], NEW q \in Players,
         NEW t \in Teams, NEW b \in {"yes", "no"},
         cs[q].ballot[t] = "none", ds[q].ballot[t] = "none",
         \A p \in Players : p # q => ds[p] = cs[p]
  PROVE  SaidIn(ds, b, t) = SaidIn(cs, b, t)
BY DEF SaidIn, VotingClients

\* A newcomer changes nothing but the number of voters.
LEMMA NewcomerStep ==
  ASSUME VotesInv, NEW q \in Players, NEW c \in Client,
         Newcomer(clients[q]), Newcomer(c),
         clients' = [clients EXCEPT ![q] = c], tally' = CalculateRanks(tally, clients'),
         UNCHANGED <<intermission, restarted>>
  PROVE  VotesInv'
<1> DEFINE ds == [clients EXCEPT ![q] = c]
<1>1. clients \in [Players -> Client] /\ ds \in [Players -> Client]
  BY DEF VotesInv, TypeOK
<1>2. ds[q] = c /\ \A p \in Players : p # q => ds[p] = clients[p]
  BY <1>1
<1>3. clients' = ds
  OBVIOUS
<1> HIDE DEF ds
<1>4. ClientsInv(ds)
  BY <1>2, Zenon DEF VotesInv, ClientsInv
<1>5. ASSUME NEW t \in Teams PROVE TeamInv(tally[t], ds, t, intermission)
  <2>1. clients[q].ballot[t] = "none" /\ ds[q].ballot[t] = "none"
    BY <1>2, Zenon DEF Newcomer
  <2>2. /\ SaidIn(ds, "yes", t) = SaidIn(clients, "yes", t)
        /\ SaidIn(ds, "no", t) = SaidIn(clients, "no", t)
    BY <1>1, <1>2, <2>1, NewcomerVotes
  <2>3. \A p \in Players : ds[p].ballot[t] = clients[p].ballot[t]
    BY <1>2, <2>1, Zenon
  <2>4. TeamInv(tally[t], clients, t, intermission) /\ intermission \in BOOLEAN
    BY Zenon DEF VotesInv, TypeOK
  <2> QED
    BY <2>1, <2>2, <2>3, <2>4, SameVotes
<1>6. DOMAIN tally = Teams /\ intermission \in BOOLEAN /\ restarted \in BOOLEAN
  BY Zenon DEF VotesInv, TypeOK
<1> QED
  BY <1>1, <1>3, <1>4, <1>5, <1>6, RankedStep

LEMMA ConnectStep ==
  ASSUME VotesInv, NEW q \in Players, ClientConnect(q)
  PROVE  VotesInv'
<1>1. clients[q].connected # "CON_CONNECTED"
  BY DEF ClientConnect
<1>2. Newcomer(clients[q])
  BY <1>1, Zenon DEF VotesInv, ClientsInv
<1> QED
  BY <1>2, NoClientType, NewcomerStep DEF ClientConnect

LEMMA BeginStep ==
  ASSUME VotesInv, NEW q \in Players, ClientBegin(q)
  PROVE  VotesInv'
<1> DEFINE c == [clients[q] EXCEPT !.connected = "CON_CONNECTED"]
<1>1. clients[q].connected # "CON_CONNECTED"
  BY DEF ClientBegin
<1>2. Newcomer(clients[q]) /\ clients[q] \in Client /\ clients \in [Players -> Client]
  BY <1>1, Zenon DEF VotesInv, ClientsInv, TypeOK
<1>3. c \in Client /\ c.active = clients[q].active /\ c.ballot = clients[q].ballot
  BY <1>2 DEF Client
<1>4. clients' = [clients EXCEPT ![q] = c]
  BY <1>2 DEF ClientBegin
<1> HIDE DEF c
<1>5. Newcomer(c)
  BY <1>2, <1>3, Zenon DEF Newcomer
<1>6. tally' = CalculateRanks(tally, clients') /\ UNCHANGED <<intermission, restarted>>
  BY Zenon DEF ClientBegin
<1> QED
  BY <1>2, <1>3, <1>4, <1>5, <1>6, NewcomerStep

LEMMA DisconnectStep ==
  ASSUME VotesInv, NEW q \in Players, ClientDisconnect(q)
  PROVE  VotesInv'
<1> DEFINE ds == [clients EXCEPT ![q] = NoClient]
           tl == [G_LeaveTeam(q) EXCEPT ![TEAM_NONE] = G_Unvote(@, clients[q], TEAM_NONE)]
<1>1. clients \in [Players -> Client] /\ ds \in [Players -> Client]
  BY NoClientType DEF VotesInv, TypeOK
<1>2. ds[q] = NoClient /\ \A p \in Players : p # q => ds[p] = clients[p]
  BY <1>1
<1>3. clients' = ds /\ tally' = CalculateRanks(tl, clients')
  BY Zenon DEF ClientDisconnect
<1>4. TEAM_NONE \in Teams /\ DOMAIN tl = Teams
  BY DEF Teams, G_LeaveTeam
<1>5. /\ tl[TEAM_NONE] = G_Unvote(tally[TEAM_NONE], clients[q], TEAM_NONE)
      /\ \A t \in Teams \ {TEAM_NONE} :
           tl[t] = IF t = clients[q].teamSelection THEN G_Unvote(tally[t], clients[q], t) ELSE tally[t]
  BY <1>4 DEF G_LeaveTeam
<1> HIDE DEF ds, tl
<1>6. ClientsInv(ds)
  BY <1>2, NoClientType, Zenon DEF VotesInv, ClientsInv
<1>7. clients[q].connected # "CON_DISCONNECTED" /\ NoClient.connected = "CON_DISCONNECTED"
  BY DEF ClientDisconnect, NoClient
<1>8. ASSUME NEW t \in Teams PROVE TeamInv(tl[t], ds, t, intermission)
  <2>1. TeamInv(tally[t], clients, t, intermission) /\ intermission \in BOOLEAN
    BY Zenon DEF VotesInv, TypeOK
  <2>2. /\ \A p \in Players : p # q => ds[p].ballot[t] = clients[p].ballot[t]
        /\ ds[q].ballot[t] \in {clients[q].ballot[t], "none"}
    <3>1. ds[q].ballot[t] = "none"
      BY <1>2, NoClientType, Zenon DEF Newcomer
    <3> QED
      BY <1>2, <3>1
  <2>3. VotingClients(ds, t) = VotingClients(clients, t) \ {q}
    BY <1>2, <1>7 DEF VotingClients
  <2>4. CASE t = TEAM_NONE
    <3>1. q \in VotingClients(clients, t)
      BY <1>7, <2>4 DEF VotingClients
    <3>2. tl[t] = G_Unvote(tally[t], clients[q], t)
      BY <1>5, <2>4, Zenon
    <3> QED
      BY <2>1, <2>2, <2>3, <3>1, <3>2, UnvoteTally
  <2>5. CASE t # TEAM_NONE /\ t = clients[q].teamSelection
    <3>1. tl[t] = G_Unvote(tally[t], clients[q], t)
      BY <1>5, <2>5, Zenon
    <3>2. CASE clients[q].connected = "CON_CONNECTED"
      <4>1. q \in VotingClients(clients, t)
        BY <2>5, <3>2 DEF VotingClients
      <4> QED
        BY <2>1, <2>2, <2>3, <3>1, <4>1, UnvoteTally
    <3>3. CASE clients[q].connected # "CON_CONNECTED"
      <4>1. clients[q].ballot[t] = "none"
        BY <3>3, Zenon DEF VotesInv, ClientsInv, Newcomer
      <4>2. tl[t] = tally[t]
        BY <3>1, <4>1 DEF G_Unvote, Add
      <4>3. q \notin VotingClients(clients, t)
        BY <2>5, <3>3 DEF VotingClients
      <4>4. /\ SaidIn(ds, "yes", t) = SaidIn(clients, "yes", t)
            /\ SaidIn(ds, "no", t) = SaidIn(clients, "no", t)
        BY <1>2, <2>3, <4>3, VotingFinite DEF SaidIn
      <4> QED
        BY <2>1, <2>2, <4>2, <4>4, SameVotes
    <3> QED
      BY <3>2, <3>3
  <2>6. CASE t # TEAM_NONE /\ t # clients[q].teamSelection
    <3>1. tl[t] = tally[t]
      BY <1>5, <2>6
    <3>2. q \notin VotingClients(clients, t)
      BY <2>6 DEF VotingClients
    <3>3. /\ SaidIn(ds, "yes", t) = SaidIn(clients, "yes", t)
          /\ SaidIn(ds, "no", t) = SaidIn(clients, "no", t)
      BY <1>2, <2>3, <3>2, VotingFinite DEF SaidIn
    <3> QED
      BY <2>1, <2>2, <3>1, <3>3, SameVotes
  <2> QED
    BY <2>4, <2>5, <2>6
<1>9. UNCHANGED <<intermission, restarted>> /\ intermission \in BOOLEAN /\ restarted \in BOOLEAN
  BY Zenon DEF ClientDisconnect, VotesInv, TypeOK
<1> QED
  BY <1>1, <1>3, <1>4, <1>6, <1>8, <1>9, RankedStep

\* A player who voted comes back to his team.
LEMMA RejoinTally ==
  ASSUME NEW tl, NEW cs, NEW ds, NEW t, NEW inter \in BOOLEAN, TeamInv(tl, cs, t, inter),
         tl.running, tl.rejoined < MaxRejoins
  PROVE  TeamInv([tl EXCEPT !.rejoined = @ + 1], ds, t, inter)
<1> DEFINE e == [tl EXCEPT !.rejoined = @ + 1]
<1>1. tl \in Tally
  BY DEF TeamInv
<1>2. tl.rejoined + 1 \in 0..MaxRejoins /\ tl.rejoined + 1 # 0
  BY <1>1, TimeTypes DEF Tally
<1>3. e \in Tally
  BY <1>1, <1>2, Zenon DEF Tally
<1>4. /\ e.running = tl.running /\ e.pending = tl.pending /\ e.kind = tl.kind /\ e.due = tl.due
      /\ e.rejoined # 0
  BY <1>1, <1>2, Zenon DEF Tally
<1> HIDE DEF e
<1>5. TeamInv(e, ds, t, inter)
  BY <1>3, <1>4, Zenon DEF TeamInv, Waits, Counted, Fresh
<1> QED
  BY <1>5 DEF e

LEMMA ChangeTeamStep ==
  ASSUME VotesInv, NEW q \in Players, NEW n \in Teams, G_ChangeTeam(q, n)
  PROVE  VotesInv'
<1> DEFINE ds == [clients EXCEPT ![q].teamSelection = n]
           tl == [G_LeaveTeam(q) EXCEPT ![n].rejoined = IF Returns(q, n) THEN @ + 1 ELSE @]
           old == clients[q].teamSelection
<1>1. clients \in [Players -> Client] /\ ds \in [Players -> Client]
  BY DEF VotesInv, TypeOK, Client
<1>2. /\ ds[q].connected = clients[q].connected /\ ds[q].ballot = clients[q].ballot
      /\ ds[q].teamSelection = n
      /\ \A p \in Players : p # q => ds[p] = clients[p]
  BY <1>1 DEF Client
<1>3. clients' = ds /\ tally' = CalculateRanks(tl, clients')
  BY Zenon DEF G_ChangeTeam
<1>4. DOMAIN tl = Teams
  BY DEF G_LeaveTeam
<1>5. clients[q].connected = "CON_CONNECTED" /\ n # old
  BY DEF G_ChangeTeam, Connected
<1>6. /\ tl[n] = [tally[n] EXCEPT !.rejoined = IF Returns(q, n) THEN @ + 1 ELSE @]
      /\ \A t \in Teams \ {n} :
           tl[t] = IF t # TEAM_NONE /\ t = old THEN G_Unvote(tally[t], clients[q], t) ELSE tally[t]
  BY <1>5, Zenon DEF G_LeaveTeam
<1> HIDE DEF ds, tl
<1>7. ClientsInv(ds)
  BY <1>2, <1>5, Zenon DEF VotesInv, ClientsInv
<1>8. ASSUME NEW t \in Teams PROVE TeamInv(tl[t], ds, t, intermission)
  <2>1. TeamInv(tally[t], clients, t, intermission) /\ intermission \in BOOLEAN
    BY Zenon DEF VotesInv, TypeOK
  <2>2. /\ \A p \in Players : p # q => ds[p].ballot[t] = clients[p].ballot[t]
        /\ ds[q].ballot[t] = clients[q].ballot[t]
    BY <1>2, Zenon
  <2>3. ds[q].ballot[t] \in {clients[q].ballot[t], "none"}
    BY <2>2
  <2>4. CASE t # n /\ t # TEAM_NONE /\ t = old
    <3>1. q \in VotingClients(clients, t) /\ VotingClients(ds, t) = VotingClients(clients, t) \ {q}
      BY <1>2, <1>5, <2>4 DEF VotingClients
    <3>2. tl[t] = G_Unvote(tally[t], clients[q], t)
      BY <1>6, <2>4
    <3> QED
      BY <2>1, <2>2, <2>3, <3>1, <3>2, UnvoteTally
  <2>5. CASE t # n /\ ~(t # TEAM_NONE /\ t = old)
    <3>1. tl[t] = tally[t]
      BY <1>6, <2>5
    <3>2. VotingClients(ds, t) = VotingClients(clients, t)
      BY <1>2, <2>5 DEF VotingClients
    <3>3. /\ SaidIn(ds, "yes", t) = SaidIn(clients, "yes", t)
          /\ SaidIn(ds, "no", t) = SaidIn(clients, "no", t)
      BY <2>2, <3>2, VotingFinite DEF SaidIn
    <3> QED
      BY <2>1, <2>2, <2>3, <3>1, <3>3, SameVotes
  <2>6. CASE t = n /\ Returns(q, n)
    <3>1. tl[t] = [tally[t] EXCEPT !.rejoined = @ + 1]
      BY <1>6, <2>6, Zenon
    <3>2. tally[t].running /\ tally[t].rejoined < MaxRejoins
      BY <2>6, Zenon DEF G_ChangeTeam, Returns
    <3> QED
      BY <2>1, <3>1, <3>2, RejoinTally
  <2>7. CASE t = n /\ ~Returns(q, n)
    <3>1. tl[t] = tally[t]
      <4>1. tally[t] \in Tally
        BY <2>1 DEF TeamInv
      <4>2. [tally[t] EXCEPT !.rejoined = @] = tally[t]
        BY <4>1, Zenon DEF Tally
      <4> QED
        BY <1>6, <2>7, <4>2, Zenon
    <3>2. CASE ~tally[t].running
      <4>1. Fresh(tally[t], clients, t) => Fresh(tally[t], ds, t)
        BY <2>2, Zenon DEF Fresh
      <4> QED
        BY <2>1, <3>1, <3>2, <4>1, Zenon DEF TeamInv, Counted
    <3>3. CASE t = TEAM_NONE \/ clients[q].ballot[t] = "none"
      <4>1. /\ SaidIn(ds, "yes", t) = SaidIn(clients, "yes", t)
            /\ SaidIn(ds, "no", t) = SaidIn(clients, "no", t)
        BY <1>2, <2>2, <3>3 DEF SaidIn, VotingClients
      <4> QED
        BY <2>1, <2>2, <2>3, <3>1, <4>1, SameVotes
    <3> QED
      BY <2>7, <3>2, <3>3, Zenon DEF Returns
  <2> QED
    BY <2>4, <2>5, <2>6, <2>7
<1>9. UNCHANGED <<intermission, restarted>> /\ intermission \in BOOLEAN /\ restarted \in BOOLEAN
  BY Zenon DEF G_ChangeTeam, VotesInv, TypeOK
<1> QED
  BY <1>1, <1>3, <1>4, <1>7, <1>8, <1>9, RankedStep

\* The same players in the same seats.
SameSeats(cs, ds) ==
  \A p \in Players : ds[p].connected = cs[p].connected /\ ds[p].teamSelection = cs[p].teamSelection

\* Nobody who is not in the game yet does anything.
KeptAsleep(cs, ds) ==
  \A p \in Players : cs[p].connected # "CON_CONNECTED" /\ cs[p].active = 0 => ds[p].active = 0

LEMMA SeatsVoting ==
  ASSUME NEW cs, NEW ds, SameSeats(cs, ds), NEW t
  PROVE  VotingClients(ds, t) = VotingClients(cs, t)
BY DEF SameSeats, VotingClients

LEMMA SameBallots ==
  ASSUME NEW tl, NEW cs, NEW ds, NEW t, NEW inter \in BOOLEAN, TeamInv(tl, cs, t, inter),
         SameSeats(cs, ds), \A p \in Players : ds[p].ballot[t] = cs[p].ballot[t]
  PROVE  TeamInv(tl, ds, t, inter)
<1>1. VotingClients(ds, t) = VotingClients(cs, t)
  BY SeatsVoting
<1>2. /\ SaidIn(ds, "yes", t) = SaidIn(cs, "yes", t)
      /\ SaidIn(ds, "no", t) = SaidIn(cs, "no", t)
  BY <1>1, VotingFinite DEF SaidIn
<1>3. Fresh(tl, cs, t) => Fresh(tl, ds, t)
  BY Zenon DEF Fresh
<1> QED
  BY <1>2, <1>3, Zenon DEF TeamInv, Counted

\* A vote is looked at and goes on.
LEMMA GoesOnTeam ==
  ASSUME NEW tl, NEW cs, NEW ds, NEW t, NEW inter \in BOOLEAN, TeamInv(tl, cs, t, inter),
         ~EndsNow(tl, cs, t), SameSeats(cs, ds),
         \A p \in Players : ds[p].ballot[t] = cs[p].ballot[t]
  PROVE  /\ TeamInv(G_CheckVote(tl, cs, t), ds, t, inter)
         /\ G_CheckVote(tl, cs, t).numVotingClients = tl.numVotingClients
<1> DEFINE e == G_CheckVote(tl, cs, t)
<1>1. tl \in Tally /\ Waits(tl)
  BY Zenon DEF TeamInv
<1>2. e \in {tl, G_ExecuteVote(tl)}
  BY CheckGoesOn
<1> HIDE DEF e
<1>3. TeamInv(e, cs, t, inter)
  BY <1>2, ExecuteTeam
<1>4. e.numVotingClients = tl.numVotingClients
  BY <1>1, <1>2, ExecuteTally
<1>5. TeamInv(e, ds, t, inter)
  BY <1>3, SameBallots
<1> QED
  BY <1>4, <1>5 DEF e

LEMMA AwakeClients ==
  ASSUME clients \in [Players -> Client], NEW q, NEW ds, ds = Awake(q)
  PROVE  /\ ds \in [Players -> Client] /\ SameSeats(clients, ds)
         /\ \A p \in Players : ds[p].ballot = clients[p].ballot
         /\ q \in Players /\ Connected(q) => KeptAsleep(clients, ds)
<1>1. ASSUME NEW c \in Client
      PROVE  /\ [c EXCEPT !.active = VOTE_TIME] \in Client
             /\ [c EXCEPT !.active = VOTE_TIME].connected = c.connected
             /\ [c EXCEPT !.active = VOTE_TIME].teamSelection = c.teamSelection
             /\ [c EXCEPT !.active = VOTE_TIME].ballot = c.ballot
  BY TimeTypes DEF Client
<1>2. \A p \in Players : ds[p] \in {clients[p], [clients[p] EXCEPT !.active = VOTE_TIME]}
  BY DEF Awake
<1>3. DOMAIN ds = Players
  BY DEF Awake
<1>4. ASSUME NEW p \in Players
      PROVE  /\ ds[p] \in Client /\ ds[p].connected = clients[p].connected
             /\ ds[p].teamSelection = clients[p].teamSelection /\ ds[p].ballot = clients[p].ballot
  BY <1>1, <1>2
<1>5. ds = [p \in Players |-> ds[p]]
  BY <1>3 DEF Awake
<1>6. q \in Players /\ Connected(q) => KeptAsleep(clients, ds)
  <2>1. \A p \in Players : p # q => ds[p] = clients[p]
    BY DEF Awake
  <2> QED
    BY <2>1, Zenon DEF KeptAsleep, Connected
<1> QED
  BY <1>4, <1>5, <1>6, Zenon DEF SameSeats

LEMMA AwakeStep ==
  ASSUME VotesInv, NEW q \in Players, Connected(q), clients' = Awake(q),
         UNCHANGED <<tally, intermission>>, restarted' \in BOOLEAN
  PROVE  VotesInv'
<1> DEFINE ds == Awake(q)
<1>1. clients' = ds
  OBVIOUS
<1>2. clients \in [Players -> Client] /\ ds = Awake(q)
  BY DEF VotesInv, TypeOK
<1> HIDE DEF ds
<1>3. /\ ds \in [Players -> Client] /\ SameSeats(clients, ds) /\ KeptAsleep(clients, ds)
      /\ \A p \in Players : ds[p].ballot = clients[p].ballot
  BY <1>2, AwakeClients
<1>4. ClientsInv(ds)
  BY <1>3, Zenon DEF VotesInv, ClientsInv, SameSeats, KeptAsleep, Newcomer
<1>5. ASSUME NEW t \in Teams
      PROVE  /\ TeamInv(tally[t], ds, t, intermission)
             /\ VotingClients(ds, t) = VotingClients(clients, t)
  <2>1. TeamInv(tally[t], clients, t, intermission) /\ intermission \in BOOLEAN
    BY Zenon DEF VotesInv, TypeOK
  <2>2. \A p \in Players : ds[p].ballot[t] = clients[p].ballot[t]
    BY <1>3, Zenon
  <2> QED
    BY <1>3, <2>1, <2>2, SameBallots, SeatsVoting
<1>6. tally' = tally /\ UNCHANGED intermission /\ restarted' \in BOOLEAN /\ tally \in [Teams -> Tally]
  BY Zenon DEF VotesInv, TypeOK
<1> QED
  BY <1>1, <1>3, <1>4, <1>5, <1>6, UnrankedStep

LEMMA MoveStep ==
  ASSUME VotesInv, NEW q \in Players, Move(q)
  PROVE  VotesInv'
<1>1. clients' = Awake(q) /\ Connected(q) /\ UNCHANGED <<tally, intermission>> /\ restarted' \in BOOLEAN
  BY DEF Move, Awake, VotesInv, TypeOK
<1> QED
  BY <1>1, AwakeStep

-----------------------------------------------------------------------------
(* Votes are called, cast and ended. *)

LEMMA UnmarkedClient ==
  ASSUME NEW c \in Client, NEW ts, NEW e, e = Unmarked(c, ts)
  PROVE  /\ e \in Client /\ e.connected = c.connected /\ e.teamSelection = c.teamSelection
         /\ e.active = c.active
         /\ \A t \in Teams : e.ballot[t] = IF t \in ts THEN "none" ELSE c.ballot[t]
<1> DEFINE b == [t \in Teams |-> IF t \in ts THEN "none" ELSE c.ballot[t]]
<1>1. b \in [Teams -> {"none", "yes", "no"}]
  BY DEF Client
<1>2. e = [c EXCEPT !.ballot = b]
  BY DEF Unmarked, Client
<1> HIDE DEF b
<1>3. /\ e \in Client /\ e.connected = c.connected /\ e.teamSelection = c.teamSelection
      /\ e.active = c.active /\ e.ballot = b
  BY <1>1, <1>2 DEF Client
<1> QED
  BY <1>3 DEF b

LEMMA EveryoneClients ==
  ASSUME NEW cs \in [Players -> Client], NEW t \in Teams, NEW cancel \in BOOLEAN,
         NEW ds, ds = Everyone(cs, t, cancel)
  PROVE  /\ ds \in [Players -> Client] /\ SameSeats(cs, ds) /\ KeptAsleep(cs, ds)
         /\ \A p \in Players, u \in Teams \ {t} : ds[p].ballot[u] = cs[p].ballot[u]
<1> DEFINE b == IF cancel THEN "no" ELSE "yes"
<1>1. b \in {"none", "yes", "no"}
  OBVIOUS
<1>2. \A p \in Players : ds[p] \in {cs[p], [cs[p] EXCEPT !.ballot[t] = b]}
  BY DEF Everyone
<1>3. ds = [p \in Players |-> ds[p]]
  BY DEF Everyone
<1> HIDE DEF b
<1>4. ASSUME NEW c \in Client
      PROVE  /\ [c EXCEPT !.ballot[t] = b] \in Client
             /\ [c EXCEPT !.ballot[t] = b].connected = c.connected
             /\ [c EXCEPT !.ballot[t] = b].teamSelection = c.teamSelection
             /\ [c EXCEPT !.ballot[t] = b].active = c.active
             /\ \A u \in Teams \ {t} : [c EXCEPT !.ballot[t] = b].ballot[u] = c.ballot[u]
  BY <1>1 DEF Client
<1>5. ASSUME NEW p \in Players
      PROVE  /\ ds[p] \in Client /\ ds[p].connected = cs[p].connected
             /\ ds[p].teamSelection = cs[p].teamSelection /\ ds[p].active = cs[p].active
             /\ \A u \in Teams \ {t} : ds[p].ballot[u] = cs[p].ballot[u]
  <2>1. cs[p] \in Client
    OBVIOUS
  <2>2. CASE ds[p] = cs[p]
    BY <2>1, <2>2
  <2>3. CASE ds[p] = [cs[p] EXCEPT !.ballot[t] = b]
    BY <1>4, <2>1, <2>3, Zenon
  <2> QED
    BY <1>2, <2>2, <2>3
<1> QED
  BY <1>3, <1>5, Zenon DEF SameSeats, KeptAsleep

\* When everyone says the same the vote ends at once.
LEMMA EndVoteStep ==
  ASSUME VotesInv, NEW before \in [Players -> Client], SameSeats(clients, before),
         KeptAsleep(clients, before),
         \A p \in Players : before[p].ballot = clients[p].ballot,
         NEW t \in Teams, NEW cancel \in BOOLEAN, tally[t].running,
         G_EndVote(before, t, cancel), UNCHANGED <<intermission, restarted>>
  PROVE  VotesInv'
<1> DEFINE cs == Everyone(before, t, cancel)
           n == tally[t].numVotingClients
           yes == IF cancel THEN 0 ELSE n
           no == IF cancel THEN n ELSE 0
           tl == [tally[t] EXCEPT !.voteYes = yes, !.voteNo = no]
           e == G_CheckVote(tl, cs, t)
           ds == [p \in Players |-> IF EndsNow(tl, cs, t) THEN Unmarked(cs[p], {t}) ELSE cs[p]]
<1>1. tally' = [tally EXCEPT ![t] = e] /\ clients' = ds
  BY Zenon DEF G_EndVote
<1>2. cs = Everyone(before, t, cancel)
  OBVIOUS
<1>3. tally[t] \in Tally /\ Waits(tally[t]) /\ ~intermission /\ n \in Nat
  <2>1. tally[t] \in Tally /\ Waits(tally[t]) /\ ~intermission
    BY Zenon DEF VotesInv, TeamInv
  <2> QED
    BY <2>1 DEF Tally
<1>4. yes \in Int /\ no \in Int /\ yes + no = n
  <2> HIDE DEF n
  <2> QED
    BY <1>3
<1>5. e = G_CheckVote(tl, cs, t)
  OBVIOUS
<1>6. /\ tl \in Tally /\ tl.running = tally[t].running /\ tl.pending = tally[t].pending
      /\ tl.kind = tally[t].kind /\ tl.due = tally[t].due
      /\ tl.numVotingClients = n /\ tl.voteYes = yes /\ tl.voteNo = no
  <2> HIDE DEF yes, no
  <2> QED
    BY <1>3, <1>4, Zenon DEF Tally
<1> HIDE DEF cs, n, yes, no, tl, e
<1>7. EndsNow(tl, cs, t)
  <2>1. tl.voteYes + tl.voteNo = tl.numVotingClients
    BY <1>4, <1>6, Zenon
  <2> QED
    BY <1>6, <2>1, Zenon DEF EndsNow, Ends, Over
<1>8. Waits(tl)
  BY <1>3, <1>6, Zenon DEF Waits
<1>9. /\ e \in Tally /\ Waits(e) /\ ~e.running /\ e.voteYes = 0 /\ e.voteNo = 0
      /\ e.numVotingClients = tl.numVotingClients
  BY <1>5, <1>6, <1>7, <1>8, CheckEnds
<1>10. /\ cs \in [Players -> Client] /\ SameSeats(before, cs) /\ KeptAsleep(before, cs)
       /\ \A p \in Players, u \in Teams \ {t} : cs[p].ballot[u] = before[p].ballot[u]
  BY <1>2, EveryoneClients
<1>11. ASSUME NEW p \in Players PROVE ds[p] = Unmarked(cs[p], {t})
  BY <1>7
<1>12. ds = [p \in Players |-> ds[p]]
  OBVIOUS
<1> HIDE DEF ds
<1>13. ASSUME NEW p \in Players
       PROVE  /\ ds[p] \in Client /\ ds[p].connected = clients[p].connected
              /\ ds[p].teamSelection = clients[p].teamSelection /\ ds[p].active = cs[p].active
              /\ \A u \in Teams : ds[p].ballot[u] = IF u = t THEN "none" ELSE clients[p].ballot[u]
  <2>1. /\ ds[p] \in Client /\ ds[p].connected = cs[p].connected
        /\ ds[p].teamSelection = cs[p].teamSelection /\ ds[p].active = cs[p].active
        /\ \A u \in Teams : ds[p].ballot[u] = IF u \in {t} THEN "none" ELSE cs[p].ballot[u]
    BY <1>10, <1>11, UnmarkedClient
  <2>2. cs[p].connected = clients[p].connected /\ cs[p].teamSelection = clients[p].teamSelection
    BY <1>10, Zenon DEF SameSeats
  <2> QED
    BY <1>10, <2>1, <2>2
<1>14. ds \in [Players -> Client] /\ SameSeats(clients, ds)
  BY <1>12, <1>13, Zenon DEF SameSeats
<1>15. ClientsInv(ds)
  <2>1. ASSUME NEW p \in Players, ds[p].connected # "CON_CONNECTED" PROVE Newcomer(ds[p])
    <3>1. Newcomer(clients[p]) /\ clients[p].connected # "CON_CONNECTED"
      BY <1>13, <2>1, Zenon DEF VotesInv, ClientsInv
    <3>2. cs[p].active = 0
      BY <1>10, <3>1, Zenon DEF SameSeats, KeptAsleep, Newcomer
    <3> QED
      BY <1>13, <3>1, <3>2 DEF Newcomer
  <2> QED
    BY <2>1, Zenon DEF ClientsInv
<1>16. tally \in [Teams -> Tally] /\ intermission \in BOOLEAN /\ restarted \in BOOLEAN
  BY Zenon DEF VotesInv, TypeOK
<1>17. tally'[t] = e /\ (\A u \in Teams \ {t} : tally'[u] = tally[u]) /\ tally' \in [Teams -> Tally]
  BY <1>1, <1>9, <1>16
<1>18. ASSUME NEW u \in Teams
       PROVE  /\ TeamInv(tally'[u], ds, u, intermission)
              /\ tally'[u].numVotingClients = tally[u].numVotingClients
  <2>1. CASE u = t
    <3>1. \A p \in Players : ds[p].ballot[t] = "none"
      BY <1>13, Zenon
    <3>2. TeamInv(e, ds, t, intermission)
      BY <1>3, <1>9, <3>1, Zenon DEF TeamInv, Counted, Fresh
    <3> QED
      BY <1>6, <1>9, <1>17, <2>1, <3>2, Zenon DEF n
  <2>2. CASE u # t
    <3>1. tally'[u] = tally[u] /\ TeamInv(tally[u], clients, u, intermission)
      BY <1>17, <2>2, Zenon DEF VotesInv
    <3>2. \A p \in Players : ds[p].ballot[u] = clients[p].ballot[u]
      BY <1>13, <2>2, Zenon
    <3>3. TeamInv(tally[u], ds, u, intermission)
      BY <1>14, <1>16, <3>1, <3>2, SameBallots
    <3> QED
      BY <3>1, <3>3, Zenon
  <2> QED
    BY <2>1, <2>2
<1>19. ASSUME NEW u \in Teams PROVE VotingClients(ds, u) = VotingClients(clients, u)
  BY <1>14, SeatsVoting
<1> QED
  BY <1>1, <1>14, <1>15, <1>16, <1>17, <1>18, <1>19, UnrankedStep

LEMMA AdminEndVoteStep ==
  ASSUME VotesInv, NEW t \in Teams, NEW cancel \in BOOLEAN, G_admin_endvote(t, cancel)
  PROVE  VotesInv'
<1>1. clients \in [Players -> Client] /\ SameSeats(clients, clients) /\ KeptAsleep(clients, clients)
  BY DEF VotesInv, TypeOK, SameSeats, KeptAsleep
<1>2. CASE G_EndVote(clients, t, cancel)
  BY <1>1, <1>2, EndVoteStep DEF G_admin_endvote
<1>3. ASSUME NEW p \in Players, Connected(p), G_EndVote(Awake(p), t, cancel)
      PROVE  VotesInv'
  <2>1. /\ Awake(p) \in [Players -> Client] /\ SameSeats(clients, Awake(p))
        /\ KeptAsleep(clients, Awake(p))
        /\ \A q \in Players : Awake(p)[q].ballot = clients[q].ballot
    BY <1>1, <1>3, AwakeClients
  <2> QED
    BY <1>3, <2>1, EndVoteStep DEF G_admin_endvote
<1> QED
  BY <1>2, <1>3 DEF G_admin_endvote

LEMMA CancelVoteStep ==
  ASSUME VotesInv, NEW q \in Players, NEW t \in Teams, CancelVote(q, t)
  PROVE  VotesInv'
<1>1. clients \in [Players -> Client] /\ TRUE \in BOOLEAN
  BY DEF VotesInv, TypeOK
<1>2. /\ Awake(q) \in [Players -> Client] /\ SameSeats(clients, Awake(q))
      /\ KeptAsleep(clients, Awake(q))
      /\ \A p \in Players : Awake(q)[p].ballot = clients[p].ballot
  BY <1>1, AwakeClients DEF CancelVote, MayVote
<1> QED
  BY <1>1, <1>2, EndVoteStep DEF CancelVote

\* The marks of the player who votes.
Marked(q, t, b) == [Awake(q) EXCEPT ![q].ballot[t] = b]

LEMMA BallotClients ==
  ASSUME clients \in [Players -> Client], NEW q \in Players, NEW t \in Teams,
         NEW b \in {"yes", "no"}, NEW ds, ds = Marked(q, t, b)
  PROVE  /\ ds \in [Players -> Client] /\ SameSeats(clients, ds)
         /\ \A p \in Players : p # q => ds[p].ballot = clients[p].ballot
         /\ ds[q].ballot[t] = b
         /\ \A u \in Teams \ {t} : ds[q].ballot[u] = clients[q].ballot[u]
         /\ Connected(q) => KeptAsleep(clients, ds)
<1> DEFINE a == Awake(q)
<1>1. a = Awake(q) /\ ds = [a EXCEPT ![q].ballot[t] = b]
  BY DEF Marked
<1> HIDE DEF a
<1>2. /\ a \in [Players -> Client] /\ SameSeats(clients, a)
      /\ \A p \in Players : a[p].ballot = clients[p].ballot
      /\ Connected(q) => KeptAsleep(clients, a)
  BY <1>1, AwakeClients
<1>3. /\ ds[q] = [a[q] EXCEPT !.ballot[t] = b]
      /\ \A p \in Players : p # q => ds[p] = a[p]
      /\ ds = [p \in Players |-> ds[p]]
  BY <1>1, <1>2
<1>4. a[q] \in Client
  BY <1>2
<1>5. /\ ds[q] \in Client /\ ds[q].connected = a[q].connected
      /\ ds[q].teamSelection = a[q].teamSelection
      /\ ds[q].ballot[t] = b
      /\ \A u \in Teams \ {t} : ds[q].ballot[u] = a[q].ballot[u]
  <2> DEFINE marks == [a[q].ballot EXCEPT ![t] = b]
  <2>1. /\ marks \in [Teams -> {"none", "yes", "no"}] /\ marks[t] = b
        /\ \A u \in Teams \ {t} : marks[u] = a[q].ballot[u]
    BY <1>4 DEF Client
  <2>2. ds[q] = [a[q] EXCEPT !.ballot = marks]
    BY <1>3, <1>4, Zenon DEF Client
  <2> HIDE DEF marks
  <2>3. /\ ds[q] \in Client /\ ds[q].connected = a[q].connected
        /\ ds[q].teamSelection = a[q].teamSelection /\ ds[q].ballot = marks
    BY <1>4, <2>1, <2>2 DEF Client
  <2> QED
    BY <2>1, <2>3, Zenon
<1>6. ASSUME NEW p \in Players
      PROVE  /\ ds[p] \in Client /\ ds[p].connected = clients[p].connected
             /\ ds[p].teamSelection = clients[p].teamSelection
  <2>1. CASE p = q
    BY <1>2, <1>5, <2>1, Zenon DEF SameSeats
  <2>2. CASE p # q
    BY <1>2, <1>3, <2>2 DEF SameSeats
  <2> QED
    BY <2>1, <2>2
<1>7. Connected(q) => KeptAsleep(clients, ds)
  BY <1>2, <1>3, Zenon DEF KeptAsleep, Connected
<1> QED
  BY <1>2, <1>3, <1>5, <1>6, <1>7, Zenon DEF SameSeats

\* One team's tally and the marks of its vote change.
LEMMA OneTeamStep ==
  ASSUME VotesInv, NEW t \in Teams, NEW e, NEW ds \in [Players -> Client],
         SameSeats(clients, ds), ClientsInv(ds),
         \A p \in Players, u \in Teams \ {t} : ds[p].ballot[u] = clients[p].ballot[u],
         TeamInv(e, ds, t, intermission), e.numVotingClients = tally[t].numVotingClients,
         tally' = [tally EXCEPT ![t] = e], clients' = ds,
         UNCHANGED intermission, restarted' \in BOOLEAN
  PROVE  VotesInv'
<1>1. tally \in [Teams -> Tally] /\ intermission \in BOOLEAN /\ e \in Tally
  BY Zenon DEF VotesInv, TypeOK, TeamInv
<1>2. tally'[t] = e /\ (\A u \in Teams \ {t} : tally'[u] = tally[u]) /\ tally' \in [Teams -> Tally]
  BY <1>1
<1>3. ASSUME NEW u \in Teams
      PROVE  /\ TeamInv(tally'[u], ds, u, intermission)
             /\ tally'[u].numVotingClients = tally[u].numVotingClients
             /\ VotingClients(ds, u) = VotingClients(clients, u)
  <2>1. VotingClients(ds, u) = VotingClients(clients, u)
    BY SeatsVoting
  <2>2. CASE u = t
    BY <1>2, <2>1, <2>2, Zenon
  <2>3. CASE u # t
    <3>1. tally'[u] = tally[u] /\ TeamInv(tally[u], clients, u, intermission)
      BY <1>2, <2>3, Zenon DEF VotesInv
    <3>2. \A p \in Players : ds[p].ballot[u] = clients[p].ballot[u]
      BY <2>3
    <3>3. TeamInv(tally[u], ds, u, intermission)
      BY <1>1, <3>1, <3>2, SameBallots
    <3> QED
      BY <2>1, <3>1, <3>3, Zenon
  <2> QED
    BY <2>2, <2>3
<1> QED
  BY <1>2, <1>3, UnrankedStep

LEMMA BallotsInv ==
  ASSUME ClientsInv(clients), NEW ds, SameSeats(clients, ds), NEW q \in Players,
         Connected(q), KeptAsleep(clients, ds),
         \A p \in Players : p # q => ds[p].ballot = clients[p].ballot
  PROVE  ClientsInv(ds)
<1> SUFFICES ASSUME NEW p \in Players, ds[p].connected # "CON_CONNECTED"
             PROVE  Newcomer(ds[p])
  BY Zenon DEF ClientsInv
<1>1. p # q /\ Newcomer(clients[p]) /\ clients[p].connected # "CON_CONNECTED"
  BY Zenon DEF ClientsInv, SameSeats, Connected
<1> QED
  BY <1>1, Zenon DEF KeptAsleep, Newcomer

LEMMA VoterVotes ==
  ASSUME NEW q \in Players, NEW t \in Teams, MayVote(q, t)
  PROVE  q \in VotingClients(clients, t) /\ Connected(q) /\ ~intermission
<1>1. /\ Connected(q) /\ ~intermission
      /\ t = TEAM_NONE \/ t = clients[q].teamSelection
  BY DEF MayVote
<1>2. CASE t = TEAM_NONE
  BY <1>1, <1>2 DEF VotingClients, Connected
<1>3. CASE t # TEAM_NONE /\ t = clients[q].teamSelection
  BY <1>1, <1>3 DEF VotingClients, Connected
<1> QED
  BY <1>1, <1>2, <1>3

LEMMA CastStep ==
  ASSUME VotesInv, NEW q \in Players, NEW t \in Teams, NEW b \in {"yes", "no"},
         Cmd_Vote_f(q, t, b)
  PROVE  VotesInv'
<1> DEFINE ds == Marked(q, t, b)
           e == Add(tally[t], b, 1)
<1>1. MayVote(q, t) /\ tally[t].running /\ clients[q].ballot[t] = "none"
  BY DEF Cmd_Vote_f
<1>2. /\ tally \in [Teams -> Tally] /\ clients \in [Players -> Client]
      /\ intermission \in BOOLEAN /\ restarted \in BOOLEAN
  BY Zenon DEF VotesInv, TypeOK
<1>3. tally' = [tally EXCEPT ![t] = e] /\ clients' = ds /\ ds = Marked(q, t, b)
  BY <1>2 DEF Cmd_Vote_f, Marked
<1>4. e = Add(tally[t], b, 1) /\ 1 \in Int
  OBVIOUS
<1> HIDE DEF ds, e
<1>5. /\ ds \in [Players -> Client] /\ SameSeats(clients, ds)
      /\ \A p \in Players : p # q => ds[p].ballot = clients[p].ballot
      /\ ds[q].ballot[t] = b
      /\ \A u \in Teams \ {t} : ds[q].ballot[u] = clients[q].ballot[u]
      /\ Connected(q) => KeptAsleep(clients, ds)
  BY <1>2, <1>3, BallotClients
<1>6. q \in VotingClients(clients, t) /\ Connected(q) /\ ~intermission
  BY <1>1, VoterVotes
<1>7. ClientsInv(ds)
  BY <1>5, <1>6, BallotsInv DEF VotesInv
<1>8. TeamInv(tally[t], clients, t, FALSE)
  BY <1>6, Zenon DEF VotesInv, TeamInv
<1>9. VotingClients(ds, t) = VotingClients(clients, t)
  BY <1>5, SeatsVoting
<1>10. TeamInv(e, ds, t, FALSE)
  BY <1>1, <1>4, <1>5, <1>6, <1>8, <1>9, VoteTally, Zenon
<1>11. TeamInv(e, ds, t, intermission)
  BY <1>6, <1>10, Zenon DEF TeamInv
<1>12. e.numVotingClients = tally[t].numVotingClients
  BY <1>2, <1>4, AddTally
<1>13. \A p \in Players, u \in Teams \ {t} : ds[p].ballot[u] = clients[p].ballot[u]
  BY <1>5, Zenon
<1>14. UNCHANGED intermission /\ restarted' \in BOOLEAN
  BY <1>2, Zenon DEF Cmd_Vote_f
<1> QED
  BY <1>3, <1>5, <1>7, <1>11, <1>12, <1>13, <1>14, OneTeamStep

\* A vote that starts has no counts and no marks.
Started(tl, kind, q) ==
  [tl EXCEPT !.running = TRUE, !.age = 0, !.kind = kind, !.voteCaller = q]

LEMMA CalledTally ==
  ASSUME NEW tl, NEW cs, NEW t, NEW inter \in BOOLEAN, ~inter,
         TeamInv(tl, cs, t, inter), ~tl.running, ~tl.pending,
         NEW kind \in Kinds, NEW q \in Players,
         NEW e, e = Started(tl, kind, q)
  PROVE  /\ TeamInv(e, cs, t, inter) /\ e.running
         /\ e.numVotingClients = tl.numVotingClients
         /\ \A p \in Players : cs[p].ballot[t] = "none"
<1>1. tl \in Tally /\ Waits(tl) /\ Fresh(tl, cs, t)
  BY Zenon DEF TeamInv
<1>2. TRUE \in BOOLEAN /\ 0 \in 0..VOTE_TIME /\ kind \in Kinds \cup {NoKind}
      /\ q \in Players \cup {NoPlayer}
  BY TimeTypes
<1>3. e \in Tally
  BY <1>1, <1>2, Zenon DEF Tally, Started
<1>4. /\ e.running = TRUE /\ e.kind = kind /\ e.pending = tl.pending /\ e.due = tl.due
      /\ e.voteYes = tl.voteYes /\ e.voteNo = tl.voteNo
      /\ e.numVotingClients = tl.numVotingClients
  BY <1>1, Zenon DEF Tally, Started
<1>5. \A p \in Players : cs[p].ballot[t] = "none"
  BY <1>1, Zenon DEF Fresh
<1>6. e.voteYes = 0 /\ e.voteNo = 0
  BY <1>1, <1>4, Zenon DEF Fresh
<1>7. Waits(e)
  <2>1. e.due = [k \in Kinds |-> IF e.pending /\ k = e.kind THEN 1 ELSE 0]
    <3>1. e.due = [k \in Kinds |-> 0]
      BY <1>1, <1>4, NothingDue, Zenon DEF Waits
    <3>2. ~e.pending
      BY <1>4, Zenon
    <3> QED
      BY <3>1, <3>2, NothingDue, Zenon
  <2> QED
    BY <1>4, <2>1, Zenon DEF Waits
<1>8. SaidIn(cs, "yes", t) = {} /\ SaidIn(cs, "no", t) = {}
  BY <1>5, VotingFinite DEF SaidIn
<1>9. Cardinality({}) = 0
  BY FS_EmptySet
<1>10. Counted(e, cs, t) /\ Fresh(e, cs, t)
  BY <1>4, <1>6, <1>8, <1>9, Zenon DEF Counted, Fresh
<1> QED
  BY <1>3, <1>4, <1>5, <1>7, <1>10, Zenon DEF TeamInv

LEMMA CallVoteStep ==
  ASSUME VotesInv, NEW q \in Players, NEW t \in Teams, NEW kind \in Kinds,
         Cmd_CallVote_f(q, t, kind)
  PROVE  VotesInv'
<1> DEFINE done == G_ExecuteVote(tally[t])
           called == Started(done, kind, q)
           ds == Marked(q, t, "yes")
           a == Awake(q)
           voted == Add(called, "yes", 1)
<1>1. MayVote(q, t) /\ ~tally[t].running
  BY DEF Cmd_CallVote_f
<1>2. /\ tally \in [Teams -> Tally] /\ clients \in [Players -> Client]
      /\ intermission \in BOOLEAN /\ restarted \in BOOLEAN
  BY Zenon DEF VotesInv, TypeOK
<1>3. \/ tally' = [tally EXCEPT ![t] = done] /\ clients' = a
      \/ tally' = [tally EXCEPT ![t] = called] /\ clients' = a
      \/ tally' = [tally EXCEPT ![t] = voted] /\ clients' = ds
  BY Zenon DEF Cmd_CallVote_f, Marked, Started
<1>4. UNCHANGED intermission /\ restarted' \in BOOLEAN
  BY <1>2, Zenon DEF Cmd_CallVote_f
<1>5. done = G_ExecuteVote(tally[t]) /\ a = Awake(q)
  OBVIOUS
<1>6. called = Started(done, kind, q)
  OBVIOUS
<1>7. ds = Marked(q, t, "yes") /\ "yes" \in {"yes", "no"}
  OBVIOUS
<1>8. voted = Add(called, "yes", 1) /\ 1 \in Int
  OBVIOUS
<1> HIDE DEF done, called, ds, a, voted
<1>9. q \in VotingClients(clients, t) /\ Connected(q) /\ ~intermission
  BY <1>1, VoterVotes
<1>10. TeamInv(tally[t], clients, t, FALSE)
  BY <1>9, Zenon DEF VotesInv, TeamInv
<1>11. tally[t] \in Tally /\ Waits(tally[t])
  BY <1>10, Zenon DEF TeamInv
<1>12. ~done.running /\ ~done.pending /\ done.numVotingClients = tally[t].numVotingClients
  BY <1>1, <1>5, <1>11, ExecuteTally
<1>13. TeamInv(done, clients, t, FALSE)
  <2>1. done \in {tally[t], G_ExecuteVote(tally[t])} /\ FALSE \in BOOLEAN
    BY <1>5
  <2> QED
    BY <1>10, <2>1, ExecuteTeam, Zenon
<1>14. /\ TeamInv(called, clients, t, FALSE) /\ called.running
       /\ called.numVotingClients = done.numVotingClients
       /\ \A p \in Players : clients[p].ballot[t] = "none"
  <2>1. TeamInv(done, clients, t, intermission)
    BY <1>9, <1>13, Zenon DEF TeamInv
  <2>2. /\ TeamInv(called, clients, t, intermission) /\ called.running
        /\ called.numVotingClients = done.numVotingClients
        /\ \A p \in Players : clients[p].ballot[t] = "none"
    BY <1>2, <1>6, <1>9, <1>12, <2>1, CalledTally
  <2> QED
    BY <1>9, <2>2, Zenon DEF TeamInv
<1>15. /\ a \in [Players -> Client] /\ SameSeats(clients, a)
       /\ \A p \in Players : a[p].ballot = clients[p].ballot
       /\ Connected(q) => KeptAsleep(clients, a)
  BY <1>2, <1>5, AwakeClients
<1>16. ClientsInv(a) /\ \A p \in Players, u \in Teams : a[p].ballot[u] = clients[p].ballot[u]
  BY <1>9, <1>15, BallotsInv DEF VotesInv
<1>17. ASSUME NEW e \in {done, called}, tally' = [tally EXCEPT ![t] = e], clients' = a
       PROVE  VotesInv'
  <2>1. TeamInv(e, clients, t, FALSE) /\ e.numVotingClients = tally[t].numVotingClients
    BY <1>12, <1>13, <1>14, <1>17, Zenon
  <2>2. TeamInv(e, clients, t, intermission)
    BY <1>9, <2>1, Zenon DEF TeamInv
  <2>3. TeamInv(e, a, t, intermission)
    BY <1>2, <1>15, <1>16, <2>2, SameBallots
  <2> QED
    BY <1>4, <1>15, <1>16, <1>17, <2>1, <2>3, OneTeamStep
<1>18. CASE tally' = [tally EXCEPT ![t] = voted] /\ clients' = ds
  <2>1. /\ ds \in [Players -> Client] /\ SameSeats(clients, ds)
        /\ \A p \in Players : p # q => ds[p].ballot = clients[p].ballot
        /\ ds[q].ballot[t] = "yes"
        /\ \A u \in Teams \ {t} : ds[q].ballot[u] = clients[q].ballot[u]
        /\ Connected(q) => KeptAsleep(clients, ds)
    BY <1>2, <1>7, BallotClients
  <2>2. ClientsInv(ds)
    BY <1>9, <2>1, BallotsInv DEF VotesInv
  <2>3. VotingClients(ds, t) = VotingClients(clients, t)
    BY <2>1, SeatsVoting
  <2>4. clients[q].ballot[t] = "none"
    BY <1>14
  <2>5. TeamInv(voted, ds, t, FALSE)
    <3>1. TeamInv(Add(called, "yes", 1), ds, t, FALSE)
      BY <1>9, <1>14, <1>7, <2>1, <2>3, <2>4, VoteTally, Zenon
    <3> QED
      BY <1>8, <3>1, Zenon
  <2>6. TeamInv(voted, ds, t, intermission)
    BY <1>9, <2>5, Zenon DEF TeamInv
  <2>7. voted.numVotingClients = called.numVotingClients
    <3>1. called \in Tally
      BY <1>14, Zenon DEF TeamInv
    <3> QED
      BY <1>8, <3>1, AddTally
  <2>8. voted.numVotingClients = tally[t].numVotingClients
    BY <1>12, <1>14, <2>7, Zenon
  <2>9. \A p \in Players, u \in Teams \ {t} : ds[p].ballot[u] = clients[p].ballot[u]
    BY <2>1, Zenon
  <2> QED
    BY <1>4, <1>18, <2>1, <2>2, <2>6, <2>8, <2>9, OneTeamStep
<1> QED
  BY <1>3, <1>17, <1>18

-----------------------------------------------------------------------------
(* Frames and levels. *)

LEMMA DrowsierClient ==
  ASSUME NEW c \in Client, NEW e, e = Drowsier(c)
  PROVE  /\ e \in Client /\ e.connected = c.connected /\ e.teamSelection = c.teamSelection
         /\ e.ballot = c.ballot /\ (c.active = 0 => e.active = 0)
<1>1. c.active \in 0..VOTE_TIME
  BY DEF Client
<1>2. Max({c.active - 1, 0}) = IF c.active - 1 >= 0 THEN c.active - 1 ELSE 0
  <2>1. c.active - 1 \in Int /\ 0 \in Int
    BY <1>1, TimeTypes
  <2> QED
    BY <2>1, OfTwo, Zenon
<1> DEFINE a == Max({c.active - 1, 0})
<1>3. a \in 0..VOTE_TIME /\ (c.active = 0 => a = 0)
  BY <1>1, <1>2, TimeTypes
<1>4. e = [c EXCEPT !.active = a]
  BY DEF Drowsier
<1> HIDE DEF a
<1> QED
  BY <1>3, <1>4 DEF Client

\* The players after a frame in which the votes of ts ended.
AllDrowsier(cs) == [p \in Players |-> Drowsier(cs[p])]
AllUnmarked(cs, ts) == [p \in Players |-> Unmarked(cs[p], ts)]

LEMMA FrameClients ==
  ASSUME clients \in [Players -> Client], NEW ts,
         NEW cs, cs = AllDrowsier(clients), NEW ds, ds = AllUnmarked(cs, ts)
  PROVE  /\ cs \in [Players -> Client] /\ SameSeats(clients, cs)
         /\ \A p \in Players : cs[p].ballot = clients[p].ballot
         /\ ds \in [Players -> Client] /\ SameSeats(cs, ds) /\ SameSeats(clients, ds)
         /\ KeptAsleep(clients, cs) /\ KeptAsleep(clients, ds)
         /\ \A p \in Players, t \in Teams :
              ds[p].ballot[t] = IF t \in ts THEN "none" ELSE cs[p].ballot[t]
<1>1. ASSUME NEW p \in Players
      PROVE  /\ cs[p] \in Client /\ cs[p].connected = clients[p].connected
             /\ cs[p].teamSelection = clients[p].teamSelection /\ cs[p].ballot = clients[p].ballot
             /\ clients[p].active = 0 => cs[p].active = 0
  <2>1. cs[p] = Drowsier(clients[p]) /\ clients[p] \in Client
    BY DEF AllDrowsier
  <2> QED
    BY <2>1, DrowsierClient
<1>2. ASSUME NEW p \in Players
      PROVE  /\ ds[p] \in Client /\ ds[p].connected = cs[p].connected
             /\ ds[p].teamSelection = cs[p].teamSelection /\ ds[p].active = cs[p].active
             /\ \A t \in Teams : ds[p].ballot[t] = IF t \in ts THEN "none" ELSE cs[p].ballot[t]
  <2>1. ds[p] = Unmarked(cs[p], ts) /\ cs[p] \in Client
    BY <1>1 DEF AllUnmarked
  <2> QED
    BY <2>1, UnmarkedClient
<1>3. cs = [p \in Players |-> cs[p]] /\ ds = [p \in Players |-> ds[p]]
  BY DEF AllDrowsier, AllUnmarked
<1> QED
  BY <1>1, <1>2, <1>3, Zenon DEF SameSeats, KeptAsleep

\* The tally of a team after the clock went on.
LEMMA AgedTeam ==
  ASSUME VotesInv, NEW cs, SameSeats(clients, cs),
         \A p \in Players : cs[p].ballot = clients[p].ballot,
         NEW t \in Teams, NEW e, e = Aged(tally[t])
  PROVE  /\ TeamInv(e, cs, t, intermission)
         /\ e.numVotingClients = tally[t].numVotingClients
<1>1. TeamInv(tally[t], clients, t, intermission) /\ tally[t] \in Tally /\ intermission \in BOOLEAN
  BY Zenon DEF VotesInv, TypeOK
<1>2. /\ e \in Tally
      /\ e.running = tally[t].running /\ e.pending = tally[t].pending /\ e.kind = tally[t].kind
      /\ e.due = tally[t].due /\ e.rejoined = tally[t].rejoined
      /\ e.voteYes = tally[t].voteYes /\ e.voteNo = tally[t].voteNo
      /\ e.numVotingClients = tally[t].numVotingClients
  BY <1>1, AgedTally
<1>3. Waits(e)
  BY <1>1, <1>2, Zenon DEF TeamInv, Waits
<1>4. TeamInv(e, clients, t, intermission)
  BY <1>1, <1>2, <1>3, Zenon DEF TeamInv, Counted, Fresh
<1>5. \A p \in Players : cs[p].ballot[t] = clients[p].ballot[t]
  BY Zenon
<1> QED
  BY <1>1, <1>2, <1>4, <1>5, SameBallots

LEMMA FrameStep ==
  ASSUME VotesInv, Frame
  PROVE  VotesInv'
<1> DEFINE cs == AllDrowsier(clients)
           ended == {t \in Teams : EndsNow(Aged(tally[t]), cs, t)}
           ds == AllUnmarked(cs, ended)
           tl == [t \in Teams |-> G_CheckVote(Aged(tally[t]), cs, t)]
<1>1. /\ tally \in [Teams -> Tally] /\ clients \in [Players -> Client]
      /\ intermission \in BOOLEAN
  BY Zenon DEF VotesInv, TypeOK
<1>2. tally' = tl /\ clients' = ds /\ UNCHANGED intermission /\ restarted' \in BOOLEAN
  <2>1. tally' = tl /\ clients' = ds /\ UNCHANGED <<intermission, restarted>>
    BY DEF Frame, AllDrowsier, AllUnmarked
  <2>2. restarted \in BOOLEAN
    BY DEF VotesInv, TypeOK
  <2> QED
    BY <2>1, <2>2
<1>3. cs = AllDrowsier(clients) /\ ds = AllUnmarked(cs, ended)
  OBVIOUS
<1>4. /\ \A t \in Teams : t \in ended <=> EndsNow(Aged(tally[t]), cs, t)
      /\ \A t \in Teams : tl[t] = G_CheckVote(Aged(tally[t]), cs, t)
      /\ tl = [t \in Teams |-> tl[t]]
  OBVIOUS
<1> HIDE DEF cs, ended, ds, tl
<1>5. /\ cs \in [Players -> Client] /\ SameSeats(clients, cs)
      /\ \A p \in Players : cs[p].ballot = clients[p].ballot
      /\ ds \in [Players -> Client] /\ SameSeats(cs, ds) /\ SameSeats(clients, ds)
      /\ KeptAsleep(clients, ds)
      /\ \A p \in Players, t \in Teams :
           ds[p].ballot[t] = IF t \in ended THEN "none" ELSE cs[p].ballot[t]
  BY <1>1, <1>3, FrameClients
<1>6. ASSUME NEW t \in Teams
      PROVE  /\ TeamInv(tl[t], ds, t, intermission)
             /\ tl[t].numVotingClients = tally[t].numVotingClients
             /\ VotingClients(ds, t) = VotingClients(clients, t)
  <2>1. /\ TeamInv(Aged(tally[t]), cs, t, intermission)
        /\ Aged(tally[t]).numVotingClients = tally[t].numVotingClients
    BY <1>5, AgedTeam
  <2>2. VotingClients(ds, t) = VotingClients(cs, t) /\ VotingClients(ds, t) = VotingClients(clients, t)
    BY <1>5, SeatsVoting
  <2>3. \A p \in Players :
          ds[p].ballot[t] = IF EndsNow(Aged(tally[t]), cs, t) THEN "none" ELSE cs[p].ballot[t]
    BY <1>4, <1>5, Zenon
  <2>4. tl[t] = G_CheckVote(Aged(tally[t]), cs, t)
    BY <1>4, Zenon
  <2>5. /\ TeamInv(tl[t], ds, t, intermission)
        /\ tl[t].numVotingClients = Aged(tally[t]).numVotingClients
    <3>1. CASE EndsNow(Aged(tally[t]), cs, t)
      <4>1. \A p \in Players : ds[p].ballot[t] = "none"
        BY <2>3, <3>1, Zenon
      <4> QED
        BY <1>1, <2>1, <2>4, <3>1, <4>1, EndedTeam
    <3>2. CASE ~EndsNow(Aged(tally[t]), cs, t)
      <4>1. \A p \in Players : ds[p].ballot[t] = cs[p].ballot[t]
        BY <2>3, <3>2, Zenon
      <4>2. intermission \in BOOLEAN /\ SameSeats(cs, ds)
        BY <1>1, <1>5, Zenon
      <4>3. /\ TeamInv(G_CheckVote(Aged(tally[t]), cs, t), ds, t, intermission)
            /\ G_CheckVote(Aged(tally[t]), cs, t).numVotingClients
                 = Aged(tally[t]).numVotingClients
        BY <2>1, <3>2, <4>1, <4>2, GoesOnTeam
      <4> QED
        BY <2>4, <4>3, Zenon
    <3> QED
      BY <3>1, <3>2
  <2> QED
    BY <2>1, <2>2, <2>5, Zenon
<1>7. tl \in [Teams -> Tally]
  <2>1. \A t \in Teams : tl[t] \in Tally
    BY <1>6, Zenon DEF TeamInv
  <2> QED
    BY <1>4, <2>1, Zenon
<1>8. ClientsInv(ds)
  <2>1. ASSUME NEW p \in Players, ds[p].connected # "CON_CONNECTED" PROVE Newcomer(ds[p])
    <3>1. Newcomer(clients[p]) /\ clients[p].connected # "CON_CONNECTED"
      BY <1>5, <2>1, Zenon DEF VotesInv, ClientsInv, SameSeats
    <3>2. ds[p].active = 0
      BY <1>5, <3>1, Zenon DEF KeptAsleep, Newcomer
    <3>3. ASSUME NEW t \in Teams PROVE ds[p].ballot[t] = "none"
      <4>1. cs[p].ballot[t] = "none"
        BY <1>5, <3>1, Zenon DEF Newcomer
      <4> QED
        BY <1>5, <4>1
    <3> QED
      BY <3>2, <3>3, Zenon DEF Newcomer
  <2> QED
    BY <2>1, Zenon DEF ClientsInv
<1> QED
  BY <1>2, <1>5, <1>6, <1>7, <1>8, UnrankedStep

LEMMA IntermissionStep ==
  ASSUME VotesInv, BeginIntermission
  PROVE  VotesInv'
<1>1. /\ tally \in [Teams -> Tally] /\ restarted \in BOOLEAN
      /\ intermission' = TRUE /\ UNCHANGED <<clients, restarted>>
  BY Zenon DEF VotesInv, TypeOK, BeginIntermission
<1>2. ASSUME NEW t \in Teams
      PROVE  tally'[t] \in Tally /\ Waits(tally'[t]) /\ ~tally'[t].running
  <2> DEFINE kind == IF tally[t].pending THEN tally[t].kind ELSE NoKind
             e == [tally[t] EXCEPT !.running = FALSE, !.age = 0, !.voteCaller = NoPlayer,
                                   !.numVotingClients = 0, !.kind = kind]
  <2>1. tally[t] \in Tally /\ Waits(tally[t])
    BY <1>1, Zenon DEF VotesInv, TeamInv
  <2>2. tally'[t] = e
    BY <1>1, <2>1, Zenon DEF BeginIntermission, Tally
  <2>3. kind \in Kinds \cup {NoKind} /\ (tally[t].pending => kind = tally[t].kind)
    <3>1. tally[t].kind \in Kinds \cup {NoKind}
      BY <2>1, Zenon DEF Tally
    <3>2. NoKind \in Kinds \cup {NoKind}
      OBVIOUS
    <3> QED
      BY <3>1, <3>2, Zenon
  <2>4. FALSE \in BOOLEAN /\ 0 \in 0..VOTE_TIME /\ 0 \in Nat /\ NoPlayer \in Players \cup {NoPlayer}
    BY TimeTypes
  <2> HIDE DEF kind
  <2>5. e \in Tally
    BY <2>1, <2>3, <2>4, Zenon DEF Tally
  <2>6. e.running = FALSE /\ e.pending = tally[t].pending /\ e.kind = kind /\ e.due = tally[t].due
    BY <2>1, Zenon DEF Tally
  <2> HIDE DEF e
  <2>7. Waits(e)
    <3>1. CASE e.pending
      <4>1. e.kind = tally[t].kind
        BY <2>3, <2>6, <3>1, Zenon
      <4> QED
        BY <2>1, <2>6, <3>1, <4>1, Zenon DEF Waits
    <3>2. CASE ~e.pending
      <4>1. ~tally[t].pending
        BY <2>6, <3>2, Zenon
      <4>2. tally[t].due = [k \in Kinds |-> 0]
        BY <2>1, <4>1, NothingDue, Zenon DEF Waits
      <4>3. e.due = [k \in Kinds |-> IF e.pending /\ k = e.kind THEN 1 ELSE 0]
        BY <2>6, <3>2, <4>2, NothingDue, Zenon
      <4> QED
        BY <2>6, <3>2, <4>3, Zenon DEF Waits
    <3> QED
      BY <3>1, <3>2, Zenon
  <2> QED
    BY <2>2, <2>5, <2>6, <2>7, Zenon
<1>3. tally' = [t \in Teams |-> tally'[t]]
  BY DEF BeginIntermission
<1>4. tally' \in [Teams -> Tally]
  BY <1>2, <1>3, Zenon
<1> QED
  BY <1>1, <1>2, <1>4, Zenon DEF VotesInv, TypeOK, TeamInv

LEMMA NoVoteTeam ==
  ASSUME NEW cs, NEW t, NEW inter, \A p \in Players : cs[p].ballot[t] = "none"
  PROVE  TeamInv(NoVote, cs, t, inter)
<1>1. NoVote \in Tally
  BY TimeTypes DEF NoVote, Tally
<1>2. /\ NoVote.running = FALSE /\ NoVote.pending = FALSE
      /\ NoVote.voteYes = 0 /\ NoVote.voteNo = 0 /\ NoVote.due = [k \in Kinds |-> 0]
  BY Zenon DEF NoVote
<1>3. Waits(NoVote)
  BY <1>2, NothingDue, Zenon DEF Waits
<1> QED
  BY <1>1, <1>2, <1>3, Zenon DEF TeamInv, Counted, Fresh

LEMMA ChangeMapStep ==
  ASSUME VotesInv, G_admin_changemap
  PROVE  VotesInv'
<1>1. /\ UNCHANGED <<tally, intermission>> /\ restarted' \in BOOLEAN
      /\ clients \in [Players -> Client] /\ tally \in [Teams -> Tally]
  BY DEF G_admin_changemap, VotesInv, TypeOK
<1>2. CASE UNCHANGED clients
  BY <1>1, <1>2, Zenon DEF VotesInv, TypeOK
<1>3. ASSUME NEW p \in Players, Connected(p), clients' = Awake(p)
      PROVE  VotesInv'
  BY <1>1, <1>3, AwakeStep
<1> QED
  BY <1>2, <1>3 DEF G_admin_changemap

LEMMA NewLevelStep ==
  ASSUME VotesInv, NewLevel
  PROVE  VotesInv'
<1>0. PICK restartTeam \in [Players -> Teams] :
        clients' = [p \in Players |->
          IF clients[p].connected = "CON_DISCONNECTED" THEN NoClient
          ELSE [NoClient EXCEPT !.connected = "CON_CONNECTING", !.teamSelection = restartTeam[p]]]
  BY Zenon DEF NewLevel
<1> DEFINE cs == [p \in Players |->
             IF clients[p].connected = "CON_DISCONNECTED" THEN NoClient
             ELSE [NoClient EXCEPT !.connected = "CON_CONNECTING", !.teamSelection = restartTeam[p]]]
           tl == [t \in Teams |-> NoVote]
<1>1. /\ clients' = cs /\ tally' = CalculateRanks(tl, clients')
      /\ intermission' = FALSE /\ restarted' = FALSE
  BY <1>0, Zenon DEF NewLevel
<1>2. cs \in [Players -> Client] /\ \A p \in Players : Newcomer(cs[p])
  BY NoClientType
<1>3. DOMAIN tl = Teams /\ \A t \in Teams : tl[t] = NoVote
  OBVIOUS
<1> HIDE DEF cs, tl
<1>4. ClientsInv(cs)
  BY <1>2 DEF ClientsInv
<1>5. ASSUME NEW t \in Teams PROVE TeamInv(tl[t], cs, t, intermission')
  <2>1. \A p \in Players : cs[p].ballot[t] = "none"
    BY <1>2, Zenon DEF Newcomer
  <2>2. TeamInv(NoVote, cs, t, intermission')
    BY <2>1, NoVoteTeam, Zenon
  <2> QED
    BY <1>3, <2>2, Zenon
<1>6. intermission' \in BOOLEAN /\ restarted' \in BOOLEAN
  BY <1>1
<1> QED
  BY <1>1, <1>2, <1>3, <1>4, <1>5, <1>6, RankedStep

LEMMA InitInv == Init => VotesInv
<1> SUFFICES ASSUME Init PROVE VotesInv
  OBVIOUS
<1>1. clients \in [Players -> Client] /\ \A p \in Players : clients[p] = NoClient
  BY NoClientType DEF Init
<1>2. \A p \in Players : clients[p].connected = "CON_DISCONNECTED" /\ Newcomer(clients[p])
  <2>1. NoClient.connected = "CON_DISCONNECTED" /\ Newcomer(NoClient)
    BY NoClientType DEF NoClient
  <2> QED
    BY <1>1, <2>1
<1>3. tally = [t \in Teams |-> NoVote] /\ ~intermission /\ ~restarted
      /\ intermission \in BOOLEAN /\ restarted \in BOOLEAN
  BY DEF Init
<1>4. ASSUME NEW t \in Teams
      PROVE  /\ TeamInv(tally[t], clients, t, intermission)
             /\ tally[t] = NoVote /\ tally[t] \in Tally
             /\ Numbered(tally[t], clients, t)
  <2>1. tally[t] = NoVote
    BY <1>3, Zenon
  <2>2. \A p \in Players : clients[p].ballot[t] = "none"
    BY <1>2, Zenon DEF Newcomer
  <2>3. TeamInv(NoVote, clients, t, intermission)
    BY <2>2, NoVoteTeam, Zenon
  <2>4. VotingClients(clients, t) = {}
    BY <1>2 DEF VotingClients
  <2>5. Cardinality({}) = 0 /\ NoVote.numVotingClients = 0
    BY FS_EmptySet DEF NoVote
  <2> QED
    BY <2>1, <2>3, <2>4, <2>5, Zenon DEF Numbered, TeamInv
<1>5. tally \in [Teams -> Tally]
  BY <1>3, <1>4, Zenon
<1>6. ClientsInv(clients)
  BY <1>2, Zenon DEF ClientsInv
<1> QED
  BY <1>1, <1>3, <1>4, <1>5, <1>6, Zenon DEF VotesInv, TypeOK

LEMMA NextInv == VotesInv /\ [Next]_vars => VotesInv'
<1> SUFFICES ASSUME VotesInv, [Next]_vars PROVE VotesInv'
  OBVIOUS
<1>1. CASE UNCHANGED vars
  BY <1>1, Zenon DEF vars, VotesInv, TypeOK
<1>2. ASSUME NEW p \in Players,
             ClientConnect(p) \/ ClientBegin(p) \/ ClientDisconnect(p) \/ Move(p)
      PROVE  VotesInv'
  BY <1>2, ConnectStep, BeginStep, DisconnectStep, MoveStep
<1>3. ASSUME NEW p \in Players, NEW t \in Teams, G_ChangeTeam(p, t) \/ CancelVote(p, t)
      PROVE  VotesInv'
  BY <1>3, ChangeTeamStep, CancelVoteStep
<1>4. ASSUME NEW p \in Players, NEW t \in Teams, NEW kind \in Kinds, Cmd_CallVote_f(p, t, kind)
      PROVE  VotesInv'
  BY <1>4, CallVoteStep
<1>5. ASSUME NEW p \in Players, NEW t \in Teams, NEW b \in {"yes", "no"}, Cmd_Vote_f(p, t, b)
      PROVE  VotesInv'
  BY <1>5, CastStep
<1>6. ASSUME NEW t \in Teams, NEW cancel \in BOOLEAN, G_admin_endvote(t, cancel)
      PROVE  VotesInv'
  BY <1>6, AdminEndVoteStep
<1>7. CASE Frame \/ BeginIntermission \/ G_admin_changemap \/ NewLevel
  BY <1>7, FrameStep, IntermissionStep, ChangeMapStep, NewLevelStep
<1> QED
  BY <1>1, <1>2, <1>3, <1>4, <1>5, <1>6, <1>7 DEF Next

\* When everybody there has voted, they are the ones a vote is decided by.
LEMMA AllVoted ==
  ASSUME NEW cs, NEW t \in Teams, ClientsInv(cs),
         VotingClients(cs, t) = SaidIn(cs, "yes", t) \cup SaidIn(cs, "no", t)
  PROVE  ActiveClients(cs, t) = VotingClients(cs, t)
<1>1. ASSUME NEW p \in VotingClients(cs, t) PROVE p \in ActiveClients(cs, t)
  <2>1. p \in Players /\ cs[p].ballot[t] # "none"
    BY <1>1, VotingFinite DEF SaidIn
  <2>2. cs[p].connected # "CON_DISCONNECTED" /\ (t # TEAM_NONE => cs[p].teamSelection = t)
    BY <1>1 DEF VotingClients
  <2> QED
    BY <2>1, <2>2 DEF ActiveClients
<1>2. ASSUME NEW p \in ActiveClients(cs, t) PROVE p \in VotingClients(cs, t)
  <2>1. /\ p \in Players /\ cs[p].connected # "CON_DISCONNECTED"
        /\ t # TEAM_NONE => cs[p].teamSelection = t
    BY <1>2 DEF ActiveClients
  <2>2. cs[p].connected = "CON_CONNECTED"
    <3>1. cs[p].ballot[t] # "none" \/ cs[p].active > 0
      BY <1>2 DEF ActiveClients
    <3> QED
      BY <2>1, <3>1 DEF ClientsInv, Newcomer
  <2> QED
    BY <2>1, <2>2 DEF VotingClients
<1> QED
  BY <1>1, <1>2

\* What is left of a percentage.
LEMMA RestOf ==
  ASSUME NEW n \in Nat, NEW no \in Nat, NEW h \in 0..100, no * 100 > n * (100 - h)
  PROVE  (n - no) * 100 <= n * h
<1>1. n * (100 - h) = n * 100 - n * h /\ (n - no) * 100 = n * 100 - no * 100
  OBVIOUS
<1>2. n * h \in Int
  OBVIOUS
<1> QED
  BY <1>1, <1>2

\* A vote that ends before its time is decided by all who are there.
LEMMA EndsForAll ==
  ASSUME NEW tl \in Tally, NEW cs, NEW t \in Teams, ClientsInv(cs), EndsNow(tl, cs, t),
         tl.age < VOTE_TIME, tl.kind \in Kinds,
         tl.voteYes = Cardinality(SaidIn(cs, "yes", t)),
         tl.voteNo = Cardinality(SaidIn(cs, "no", t)),
         tl.numVotingClients = Cardinality(VotingClients(cs, t))
  PROVE  /\ Passes(tl, cs, t) =>
              tl.voteYes * 100 > tl.numVotingClients * voteThreshold[tl.kind]
         /\ ~Passes(tl, cs, t) =>
              (tl.numVotingClients - tl.voteNo) * 100 <= tl.numVotingClients * voteThreshold[tl.kind]
<1> DEFINE n == tl.numVotingClients
           yes == tl.voteYes
           no == tl.voteNo
           h == voteThreshold[tl.kind]
<1>1. n \in Nat /\ yes \in Nat /\ no \in Nat /\ h \in 0..100
  BY VotingFinite, KindAssumption
<1>2. tl.age \in 0..VOTE_TIME /\ VOTE_TIME \in Nat
  BY TimeTypes DEF Tally
<1>3. Over(tl) <=> yes + no = n
  BY <1>2 DEF Over
<1>4. yes + no = n => numCountedVotingClients(tl, cs, t) = n
  <2> SUFFICES ASSUME yes + no = n PROVE numCountedVotingClients(tl, cs, t) = n
    OBVIOUS
  <2>1. ActiveClients(cs, t) = VotingClients(cs, t)
    BY SaidApart, AllVoted
  <2> QED
    BY <2>1 DEF numCountedVotingClients
<1>5. CASE yes + no = n
  <2>1. Passes(tl, cs, t) <=> yes # 0 /\ n > 0 /\ yes * 100 > n * h
    BY <1>3, <1>4, <1>5 DEF Passes, Exceeds
  <2> HIDE DEF n, yes, no, h
  <2>2. n * h \in Int /\ n * h >= 0
    BY <1>1
  <2>3. n - no = yes /\ (n = 0 => yes = 0)
    BY <1>1, <1>5
  <2>4. (yes # 0 /\ n > 0) \/ yes = 0
    BY <1>1, <2>3
  <2>5. ~Passes(tl, cs, t) => yes * 100 <= n * h
    <3> DEFINE m == n * h
    <3>1. m \in Int /\ m >= 0
      BY <2>2
    <3> HIDE DEF m
    <3>2. yes = 0 \/ ~(yes * 100 > m) => yes * 100 <= m
      BY <1>1, <3>1
    <3> QED
      BY <2>1, <2>4, <3>2 DEF m
  <2> QED
    BY <2>1, <2>3, <2>5 DEF n, yes, no, h
<1>6. CASE yes + no # n
  <2>1. Passes(tl, cs, t) => yes * 100 > n * h
    BY <1>3, <1>6 DEF Passes, Exceeds
  <2>2. Passes(tl, cs, t) \/ no * 100 > n * (100 - h)
    BY <1>3, <1>6 DEF EndsNow, Ends
  <2> HIDE DEF n, yes, no, h
  <2>3. no * 100 > n * (100 - h) => (n - no) * 100 <= n * h
    BY <1>1, RestOf
  <2> QED
    BY <2>1, <2>2, <2>3 DEF n, yes, no, h
<1> QED
  BY <1>5, <1>6

-----------------------------------------------------------------------------
(* Theorems. *)

\* The inductive invariant: the counts, the marks, the number of voters and what
\* waits to be executed fit together, whatever the players do in the middle of a
\* vote.
THEOREM VotesInvariant == Spec => []VotesInv
<1>1. Init => VotesInv
  BY InitInv
<1>2. VotesInv /\ [Next]_vars => VotesInv'
  BY NextInv
<1> QED
  BY <1>1, <1>2, PTL DEF Spec

\* The types of level.vote... and of the players' marks.
THEOREM VotesTypeCorrect == Spec => []TypeOK
<1>1. VotesInv => TypeOK
  BY DEF VotesInv
<1> QED
  BY <1>1, VotesInvariant, PTL

\* The counts of a vote are those of the players who are there and voted, and
\* the number of voters is that of the players there, but for a player who came
\* back to his team (G_Vote, G_LeaveTeam, ClientDisconnect, CalculateRanks).
THEOREM VotesCountsRight == Spec => []CountsRight
<1>1. VotesInv => CountsRight
  <2> SUFFICES ASSUME VotesInv, NEW t \in Teams, tally[t].running, tally[t].rejoined = 0
               PROVE  /\ tally[t].voteYes = Cardinality(Said("yes", t))
                      /\ tally[t].voteNo = Cardinality(Said("no", t))
                      /\ tally[t].numVotingClients = Cardinality(VotingClients(clients, t))
    BY Zenon DEF CountsRight
  <2>1. ~intermission
    BY Zenon DEF VotesInv, TeamInv
  <2>2. Counted(tally[t], clients, t) /\ Numbered(tally[t], clients, t)
    BY <2>1, Zenon DEF VotesInv, TeamInv
  <2> QED
    BY <2>2, Zenon DEF Counted, Numbered, Said, SaidIn
<1> QED
  BY <1>1, VotesInvariant, PTL

\* A vote starts without counts and marks of the one before (G_CheckVote).
THEOREM VotesFreshStart == Spec => []FreshStart
<1>1. VotesInv => FreshStart
  BY Zenon DEF VotesInv, TeamInv, Fresh, FreshStart
<1> QED
  BY <1>1, VotesInvariant, PTL

\* What passed is executed once and as what it passed as (G_ExecuteVote).
THEOREM VotesExecutedAsPassed == Spec => []ExecutedAsPassed
<1>1. VotesInv => ExecutedAsPassed
  BY Zenon DEF VotesInv, TeamInv, Waits, ExecutedAsPassed
<1> QED
  BY <1>1, VotesInvariant, PTL

\* A vote that time does not end passes only if the rest could not stop it, and
\* fails only if the rest could not have made it pass (G_CheckVote, with the
\* clients it counts taken anew from the players).
THEOREM VotesDecidedForAll == Spec => DecidedForAll
<1> DEFINE Decided(t) ==
      LET n == Cardinality(VotingClients(clients, t))
          yes == Cardinality(Said("yes", t))
          no == Cardinality(Said("no", t))
      IN /\ tally[t].running /\ ~tally'[t].running /\ Frame
         /\ tally[t].age < VOTE_TIME - 1 /\ tally[t].rejoined = 0
         => IF tally'[t].pending
            THEN yes * 100 > n * voteThreshold[tally[t].kind]
            ELSE (n - no) * 100 <= n * voteThreshold[tally[t].kind]
<1>1. ASSUME VotesInv, NEW t \in Teams PROVE Decided(t)
  <2> SUFFICES ASSUME tally[t].running, ~tally'[t].running, Frame,
                      tally[t].age < VOTE_TIME - 1, tally[t].rejoined = 0
               PROVE  IF tally'[t].pending
                      THEN Cardinality(Said("yes", t)) * 100
                             > Cardinality(VotingClients(clients, t)) * voteThreshold[tally[t].kind]
                      ELSE (Cardinality(VotingClients(clients, t)) - Cardinality(Said("no", t))) * 100
                             <= Cardinality(VotingClients(clients, t)) * voteThreshold[tally[t].kind]
    BY Zenon
  <2> DEFINE a == Aged(tally[t])
             cs == AllDrowsier(clients)
             ds == AllUnmarked(cs, {})
  <2>1. tally'[t] = G_CheckVote(a, cs, t)
    BY DEF Frame, AllDrowsier
  <2>2. a = Aged(tally[t]) /\ cs = AllDrowsier(clients) /\ ds = AllUnmarked(cs, {})
    OBVIOUS
  <2> HIDE DEF a, cs, ds
  <2>3. /\ tally[t] \in Tally /\ Waits(tally[t]) /\ ~intermission
        /\ clients \in [Players -> Client]
    BY <1>1, Zenon DEF VotesInv, TeamInv, TypeOK
  <2>4. /\ a \in Tally /\ a.running /\ a.kind = tally[t].kind /\ a.kind \in Kinds
        /\ a.voteYes = tally[t].voteYes /\ a.voteNo = tally[t].voteNo
        /\ a.numVotingClients = tally[t].numVotingClients /\ a.age < VOTE_TIME
    <3>1. /\ a \in Tally /\ a.running = tally[t].running /\ a.kind = tally[t].kind
          /\ a.voteYes = tally[t].voteYes /\ a.voteNo = tally[t].voteNo
          /\ a.numVotingClients = tally[t].numVotingClients
          /\ tally[t].age < VOTE_TIME - 1 => a.age < VOTE_TIME
      BY <2>2, <2>3, AgedTally
    <3> QED
      BY <2>3, <3>1, Zenon DEF Waits
  <2>5. /\ cs \in [Players -> Client] /\ SameSeats(clients, cs) /\ KeptAsleep(clients, cs)
        /\ \A p \in Players : cs[p].ballot = clients[p].ballot
    BY <2>2, <2>3, FrameClients
  <2>6. TeamInv(a, cs, t, intermission)
    BY <1>1, <2>2, <2>5, AgedTeam
  <2>7. EndsNow(a, cs, t)
    <3> SUFFICES ASSUME ~EndsNow(a, cs, t) PROVE FALSE
      OBVIOUS
    <3>1. tally'[t] \in {a, G_ExecuteVote(a)}
      BY <2>1, CheckGoesOn
    <3>2. G_ExecuteVote(a).running = a.running
      BY <2>6, ExecuteTally DEF TeamInv
    <3> QED
      BY <2>4, <3>1, <3>2, Zenon
  <2>8. tally'[t].pending <=> Passes(a, cs, t)
    BY <2>1, <2>6, <2>7, CheckEnds DEF TeamInv
  <2>9. VotingClients(cs, t) = VotingClients(clients, t)
    BY <2>5, SeatsVoting
  <2>10. /\ SaidIn(cs, "yes", t) = Said("yes", t)
         /\ SaidIn(cs, "no", t) = Said("no", t)
    BY <2>5, <2>9, VotingFinite DEF SaidIn, Said
  <2>11. /\ a.voteYes = Cardinality(SaidIn(cs, "yes", t))
         /\ a.voteNo = Cardinality(SaidIn(cs, "no", t))
         /\ a.numVotingClients = Cardinality(VotingClients(cs, t))
    <3>1. Counted(tally[t], clients, t) /\ Numbered(tally[t], clients, t)
      BY <1>1, <2>3, Zenon DEF VotesInv, TeamInv
    <3>2. /\ SaidIn(clients, "yes", t) = Said("yes", t)
          /\ SaidIn(clients, "no", t) = Said("no", t)
      BY Zenon DEF SaidIn, Said
    <3> QED
      BY <2>4, <2>9, <2>10, <3>1, <3>2, Zenon DEF Counted, Numbered
  <2>12. ClientsInv(cs)
    BY <1>1, <2>5, Zenon DEF VotesInv, ClientsInv, SameSeats, KeptAsleep, Newcomer
  <2>13. /\ Passes(a, cs, t) =>
              a.voteYes * 100 > a.numVotingClients * voteThreshold[a.kind]
         /\ ~Passes(a, cs, t) =>
              (a.numVotingClients - a.voteNo) * 100 <= a.numVotingClients * voteThreshold[a.kind]
    BY <2>4, <2>7, <2>11, <2>12, EndsForAll
  <2> QED
    BY <2>4, <2>8, <2>9, <2>10, <2>11, <2>13, Zenon
<1>2. VotesInv => \A t \in Teams : Decided(t)
  BY <1>1
<1> QED
  BY <1>2, VotesInvariant, PTL DEF DecidedForAll
=============================================================================
