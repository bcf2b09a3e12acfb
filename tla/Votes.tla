-------------------------------- MODULE Votes --------------------------------
(***************************************************************************)
(* Votes: of all players (TEAM_NONE) and of each team.  Players connect,   *)
(* leave, change team and fall asleep while a vote runs, votes are ended   *)
(* by their caller, an admin or the end of the level, and what was voted   *)
(* is done some time after it passed.                                      *)
(*                                                                         *)
(* Time is counted in frames.  What a vote is about is its kind: that      *)
(* stands for voteString and for voteType, of which only POLL_VOTE is ever *)
(* tested.  Scrims are left out.                                           *)
(***************************************************************************)
EXTENDS Integers, Sequences, FiniteSets, FiniteSetsExt

CONSTANTS
  Players,          \* the slots for clients
  PlayingTeams,     \* TEAM_ALIENS and TEAM_HUMANS
  TEAM_NONE,
  NoPlayer,
  NoKind,
  Kinds,            \* the kinds of vote
  VotesOf,          \* the kinds a team may call
  Polls,            \* of these, the ones that only ask
  voteDelay,        \* for each, frames from passing to doing
  voteThreshold,    \* and the percentage it needs more than
  g_impliedVoting,  \* whether active players count who do not vote
  VOTE_TIME,        \* frames a vote runs, and frames until a player is inactive
  MaxRejoins        \* bound: players who come back to a team in a vote

Teams == PlayingTeams \cup {TEAM_NONE}

ASSUME TeamAssumption ==
  /\ IsFiniteSet(Players) /\ NoPlayer \notin Players /\ NoKind \notin Kinds
  /\ TEAM_NONE \notin PlayingTeams
ASSUME KindAssumption ==
  /\ VotesOf \in [Teams -> SUBSET Kinds]
  /\ Polls \subseteq Kinds
  /\ voteDelay \in [Kinds -> Nat]
  /\ voteThreshold \in [Kinds -> 0..100]
ASSUME TimeAssumption ==
  /\ g_impliedVoting \in BOOLEAN
  /\ VOTE_TIME \in Nat \ {0}
  /\ MaxRejoins \in Nat

VARIABLES
  tally,         \* level.vote..., for each team
  clients,       \* level.clients
  intermission,
  restarted      \* level.restarted: an admin gave the map command

vars == <<tally, clients, intermission, restarted>>

-----------------------------------------------------------------------------
(* Values. *)

\* age is the time since voteTime, left the time until voteExecuteTime; both
\* only count while running and pending say that these are set, and so do the
\* kind and the caller.  due and rejoined are histories: how often each kind
\* passed less how often it was executed, and how many players left the team
\* after voting and came back.
Tally ==
  [running : BOOLEAN, age : 0..VOTE_TIME, pending : BOOLEAN, left : Int,
   kind : Kinds \cup {NoKind}, voteCaller : Players \cup {NoPlayer},
   voteYes : Int, voteNo : Int, numVotingClients : Nat,
   due : [Kinds -> Int], rejoined : 0..MaxRejoins]

NoVote ==
  [running |-> FALSE, age |-> 0, pending |-> FALSE, left |-> 0,
   kind |-> NoKind, voteCaller |-> NoPlayer,
   voteYes |-> 0, voteNo |-> 0, numVotingClients |-> 0,
   due |-> [k \in Kinds |-> 0], rejoined |-> 0]

\* ballot is pers.voted and pers.vote: the latter is only read where the former
\* is set, and always set with it.  active is the time until voterInactivityTime.
Client ==
  [connected : {"CON_DISCONNECTED", "CON_CONNECTING", "CON_CONNECTED"},
   teamSelection : Teams, ballot : [Teams -> {"none", "yes", "no"}], active : 0..VOTE_TIME]

NoClient ==
  [connected |-> "CON_DISCONNECTED", teamSelection |-> TEAM_NONE,
   ballot |-> [t \in Teams |-> "none"], active |-> 0]

TypeOK ==
  /\ tally \in [Teams -> Tally]
  /\ clients \in [Players -> Client]
  /\ intermission \in BOOLEAN
  /\ restarted \in BOOLEAN

Init ==
  /\ tally = [t \in Teams |-> NoVote]
  /\ clients = [p \in Players |-> NoClient]
  /\ intermission = FALSE
  /\ restarted = FALSE

Connected(p) == clients[p].connected = "CON_CONNECTED"

\* CalculateRanks: who is there, and who is on each team.
VotingClients(cs, t) ==
  IF t = TEAM_NONE
  THEN {p \in Players : cs[p].connected # "CON_DISCONNECTED"}
  ELSE {p \in Players : cs[p].connected = "CON_CONNECTED" /\ cs[p].teamSelection = t}

CalculateRanks(tl, cs) ==
  [t \in Teams |-> [tl[t] EXCEPT !.numVotingClients = Cardinality(VotingClients(cs, t))]]

-----------------------------------------------------------------------------
(* Counting. *)

\* G_Vote: one more or one less, on the side of the player's vote.
Add(tl, ballot, n) ==
  CASE ballot = "yes" -> [tl EXCEPT !.voteYes = @ + n]
    [] ballot = "no" -> [tl EXCEPT !.voteNo = @ + n]
    [] OTHER -> tl

\* The player's vote of team t is taken back.  He stays marked as having voted.
G_Unvote(tl, c, t) == IF tl.running THEN Add(tl, c.ballot[t], -1) ELSE tl

\* Mutant: a vote is not taken back.
G_LeaveTeam_Keeps(p) == tally

\* G_LeaveTeam: the vote of the team he leaves, if it is one.
G_LeaveTeam(p) ==
  [t \in Teams |->
     IF t # TEAM_NONE /\ t = clients[p].teamSelection
     THEN G_Unvote(tally[t], clients[p], t) ELSE tally[t]]

\* On no team: the restartTeam of one who was not in the level before is
\* TEAM_NONE (G_InitSessionData).
ClientConnect(p) ==
  /\ clients[p].connected = "CON_DISCONNECTED"
  /\ clients' = [clients EXCEPT ![p] = [NoClient EXCEPT !.connected = "CON_CONNECTING"]]
  /\ tally' = CalculateRanks(tally, clients')
  /\ UNCHANGED <<intermission, restarted>>

ClientBegin(p) ==
  /\ clients[p].connected = "CON_CONNECTING"
  /\ clients' = [clients EXCEPT ![p].connected = "CON_CONNECTED"]
  /\ tally' = CalculateRanks(tally, clients')
  /\ UNCHANGED <<intermission, restarted>>

\* What is left of the player is wiped by the next ClientConnect; until then
\* nothing looks at it.
ClientDisconnect(p) ==
  /\ clients[p].connected # "CON_DISCONNECTED"
  /\ clients' = [clients EXCEPT ![p] = NoClient]
  /\ tally' = CalculateRanks(
       [G_LeaveTeam(p) EXCEPT ![TEAM_NONE] = G_Unvote(@, clients[p], TEAM_NONE)], clients')
  /\ UNCHANGED <<intermission, restarted>>

Returns(p, t) == tally[t].running /\ t # TEAM_NONE /\ clients[p].ballot[t] # "none"

G_ChangeTeam(p, t) ==
  /\ Connected(p)
  /\ t # clients[p].teamSelection
  /\ Returns(p, t) => tally[t].rejoined < MaxRejoins
  /\ clients' = [clients EXCEPT ![p].teamSelection = t]
  /\ tally' = CalculateRanks(
       [G_LeaveTeam(p) EXCEPT ![t].rejoined = IF Returns(p, t) THEN @ + 1 ELSE @], clients')
  /\ UNCHANGED <<intermission, restarted>>

\* VoterInactivityTimer: the player moves, or gives a command that is about no
\* vote (ClientCommand).
Move(p) ==
  /\ Connected(p)
  /\ clients' = [clients EXCEPT ![p].active = VOTE_TIME]
  /\ UNCHANGED <<tally, intermission, restarted>>

-----------------------------------------------------------------------------
(* Deciding. *)

\* The clients a vote is decided by when it ends: those who voted or were active.
ActiveClients(cs, t) ==
  {p \in Players :
     /\ cs[p].connected # "CON_DISCONNECTED"
     /\ t # TEAM_NONE => cs[p].teamSelection = t
     /\ cs[p].ballot[t] # "none" \/ cs[p].active > 0}

numCountedVotingClients(tl, cs, t) ==
  IF g_impliedVoting /\ tl.kind \notin Polls
  THEN Cardinality(ActiveClients(cs, t)) ELSE tl.voteYes + tl.voteNo

\* More than the threshold of n.
Exceeds(yes, n, kind) == yes * 100 > n * voteThreshold[kind]

\* Mutant: time does not end a vote.
Over_WhenAllVoted(tl) == tl.voteYes + tl.voteNo = tl.numVotingClients

Over(tl) == tl.age >= VOTE_TIME \/ tl.voteYes + tl.voteNo = tl.numVotingClients

\* Mutant: the ones asleep are not counted before the time is over either.
Passes_OfActive(tl, cs, t) ==
  /\ Over(tl) => tl.voteYes # 0
  /\ ~Over(tl) => tl.kind \notin Polls
  /\ Exceeds(tl.voteYes, numCountedVotingClients(tl, cs, t), tl.kind)

Passes(tl, cs, t) ==
  LET counted == numCountedVotingClients(tl, cs, t)
  IN IF Over(tl)
     THEN tl.voteYes # 0 /\ counted > 0 /\ Exceeds(tl.voteYes, counted, tl.kind)
     ELSE tl.kind \notin Polls /\ Exceeds(tl.voteYes, tl.numVotingClients, tl.kind)

Ends(tl, cs, t) ==
  \/ Over(tl)
  \/ Passes(tl, cs, t)
  \/ tl.voteNo * 100 > tl.numVotingClients * (100 - voteThreshold[tl.kind])

\* Mutant: voteExecuteTime is not reset.
G_ExecuteVote_Again(tl) ==
  IF tl.pending THEN [tl EXCEPT !.due[tl.kind] = @ - 1] ELSE tl

G_ExecuteVote(tl) ==
  IF tl.pending
  THEN [tl EXCEPT !.pending = FALSE, !.left = 0, !.kind = NoKind, !.due[tl.kind] = @ - 1]
  ELSE tl

Passed(tl) ==
  [tl EXCEPT !.pending = TRUE, !.left = voteDelay[tl.kind], !.due[tl.kind] = @ + 1]
Failed(tl) == [tl EXCEPT !.kind = NoKind]

\* G_CheckVote: what is due is done, and the vote that runs is ended if it is
\* decided.
Due(tl) == tl.pending /\ tl.left < 0
Executed(tl) == IF Due(tl) THEN G_ExecuteVote(tl) ELSE tl

EndsNow(tl, cs, t) == tl.running /\ Ends(tl, cs, t)

G_CheckVote(tl, cs, t) ==
  IF EndsNow(tl, cs, t)
  THEN [(IF Passes(tl, cs, t) THEN Passed(Executed(tl)) ELSE Failed(Executed(tl))) EXCEPT
          !.running = FALSE, !.age = 0, !.voteCaller = NoPlayer, !.voteYes = 0, !.voteNo = 0, !.rejoined = 0]
  ELSE Executed(tl)

\* Mutant: they are not.
Unmarked_Nobody(c, ts) == c

\* The marks of the vote of t are wiped.
Unmarked(c, ts) == [c EXCEPT !.ballot = [t \in Teams |-> IF t \in ts THEN "none" ELSE @[t]]]

\* G_EndVote: everyone is made to say yes, or no.
Everyone(cs, t, cancel) ==
  [p \in Players |->
     IF cs[p].connected # "CON_DISCONNECTED" /\ (t = TEAM_NONE \/ cs[p].teamSelection = t)
     THEN [cs[p] EXCEPT !.ballot[t] = IF cancel THEN "no" ELSE "yes"]
     ELSE cs[p]]

G_EndVote(before, t, cancel) ==
  LET cs == Everyone(before, t, cancel)
      n == tally[t].numVotingClients
      tl == [tally[t] EXCEPT !.voteYes = IF cancel THEN 0 ELSE n,
                             !.voteNo = IF cancel THEN n ELSE 0]
  IN /\ tally' = [tally EXCEPT ![t] = G_CheckVote(tl, cs, t)]
     /\ clients' = [p \in Players |->
                      IF EndsNow(tl, cs, t) THEN Unmarked(cs[p], {t}) ELSE cs[p]]

\* Any command of a player is a sign of life (ClientCommand).
Awake(p) == [clients EXCEPT ![p].active = VOTE_TIME]

\* The cancelvote and passvote of an admin, at any time, who may be a player.
G_admin_endvote(t, cancel) ==
  /\ tally[t].running
  /\ \/ G_EndVote(clients, t, cancel)
     \/ \E p \in Players : Connected(p) /\ G_EndVote(Awake(p), t, cancel)
  /\ UNCHANGED <<intermission, restarted>>

\* G_RunFrame, the votes of all teams one after the other.  None of them sets
\* restarted: a vote for a map starts with another command (g_nextMap).
Aged(tl) ==
  [tl EXCEPT !.age = IF tl.running THEN Min({@ + 1, VOTE_TIME}) ELSE @,
             !.left = IF tl.pending THEN @ - 1 ELSE @]

Drowsier(c) == [c EXCEPT !.active = Max({@ - 1, 0})]

Frame ==
  LET cs == [p \in Players |-> Drowsier(clients[p])]
      ended == {t \in Teams : EndsNow(Aged(tally[t]), cs, t)}
  IN /\ ~restarted
     /\ tally' = [t \in Teams |-> G_CheckVote(Aged(tally[t]), cs, t)]
     /\ clients' = [p \in Players |-> Unmarked(cs[p], ended)]
     /\ UNCHANGED <<intermission, restarted>>

-----------------------------------------------------------------------------
(* The commands of players. *)

\* The teams whose vote a player may call and take part in (CMD_TEAM).
MayVote(p, t) ==
  /\ Connected(p)
  /\ ~intermission
  /\ t \in {TEAM_NONE, clients[p].teamSelection}

\* What passed and waits is done before its string is needed for another.  A
\* call may still be refused after that, and counts for nothing.
Cmd_CallVote_f(p, t, kind) ==
  LET done == G_ExecuteVote(tally[t])
      called == [done EXCEPT !.running = TRUE, !.age = 0, !.kind = kind, !.voteCaller = p]
      abstains == kind \in Polls \/ clients[p].ballot[t] # "none"
  IN /\ MayVote(p, t)
     /\ kind \in VotesOf[t]
     /\ ~tally[t].running
     /\ \/ /\ tally' = [tally EXCEPT ![t] = done]
           /\ clients' = Awake(p)
        \/ /\ tally' = [tally EXCEPT ![t] = IF abstains THEN called ELSE Add(called, "yes", 1)]
           /\ clients' = IF abstains THEN Awake(p) ELSE [Awake(p) EXCEPT ![p].ballot[t] = "yes"]
     /\ UNCHANGED <<intermission, restarted>>

\* callvote cancel, by the one who called it.
CancelVote(p, t) ==
  /\ MayVote(p, t)
  /\ tally[t].running
  /\ tally[t].voteCaller = p
  /\ G_EndVote(Awake(p), t, TRUE)
  /\ UNCHANGED <<intermission, restarted>>

Cmd_Vote_f(p, t, ballot) ==
  /\ MayVote(p, t)
  /\ tally[t].running
  /\ clients[p].ballot[t] = "none"
  /\ clients' = [Awake(p) EXCEPT ![p].ballot[t] = ballot]
  /\ tally' = [tally EXCEPT ![t] = Add(@, ballot, 1)]
  /\ UNCHANGED <<intermission, restarted>>

-----------------------------------------------------------------------------
(* The level. *)

\* G_ClearVotes forgets the votes that run, and counts no voters any more; it
\* leaves what passed, and the counts and marks of what it forgot.
BeginIntermission ==
  /\ ~intermission
  /\ intermission' = TRUE
  /\ tally' = [t \in Teams |-> [tally[t] EXCEPT
       !.running = FALSE, !.age = 0, !.voteCaller = NoPlayer, !.numVotingClients = 0,
       !.kind = IF tally[t].pending THEN @ ELSE NoKind]]
  /\ UNCHANGED <<clients, restarted>>

\* changemap, of the console or of a player: the next level is about to start,
\* and until then no frame is run.  layoutload and a scrim's map do the same.
G_admin_changemap ==
  /\ restarted' = TRUE
  /\ \/ UNCHANGED clients
     \/ \E p \in Players : Connected(p) /\ clients' = Awake(p)
  /\ UNCHANGED <<tally, intermission>>

\* G_InitGame, after ExitLevel if there was an intermission; who was there
\* connects again, and on his restartTeam.
NewLevel ==
  /\ \E restartTeam \in [Players -> Teams] :
       clients' = [p \in Players |->
         IF clients[p].connected = "CON_DISCONNECTED" THEN NoClient
         ELSE [NoClient EXCEPT !.connected = "CON_CONNECTING", !.teamSelection = restartTeam[p]]]
  /\ tally' = CalculateRanks([t \in Teams |-> NoVote], clients')
  /\ intermission' = FALSE
  /\ restarted' = FALSE

Next ==
  \/ \E p \in Players :
       \/ ClientConnect(p) \/ ClientBegin(p) \/ ClientDisconnect(p) \/ Move(p)
       \/ \E t \in Teams :
            \/ G_ChangeTeam(p, t) \/ CancelVote(p, t)
            \/ \E kind \in Kinds : Cmd_CallVote_f(p, t, kind)
            \/ \E ballot \in {"yes", "no"} : Cmd_Vote_f(p, t, ballot)
  \/ \E t \in Teams, cancel \in BOOLEAN : G_admin_endvote(t, cancel)
  \/ Frame \/ BeginIntermission \/ G_admin_changemap \/ NewLevel

\* The server keeps running frames, and executes the map command it was given.
Fairness == WF_vars(Frame) /\ WF_vars(restarted /\ NewLevel)

Spec == Init /\ [][Next]_vars
FairSpec == Spec /\ Fairness

-----------------------------------------------------------------------------
(* Properties. *)

\* The players whose vote counts.
Said(ballot, t) == {p \in VotingClients(clients, t) : clients[p].ballot[t] = ballot}

\* The counts are those of the players who are there and voted (G_Vote and its
\* callers, which leave, change team and disconnect in the middle of a vote),
\* and the number they are compared with is that of the players there
\* (CalculateRanks).  Left out: a vote of a team that a player left after voting
\* and joined again, which takes his vote back once more when he leaves.
CountsRight ==
  \A t \in Teams :
    tally[t].running /\ tally[t].rejoined = 0 =>
      /\ tally[t].voteYes = Cardinality(Said("yes", t))
      /\ tally[t].voteNo = Cardinality(Said("no", t))
      /\ tally[t].numVotingClients = Cardinality(VotingClients(clients, t))

\* No vote starts with counts or marks of one before it (G_CheckVote resets
\* them, Cmd_CallVote_f does not).
FreshStart ==
  \A t \in Teams :
    ~tally[t].running /\ ~intermission =>
      /\ tally[t].voteYes = 0 /\ tally[t].voteNo = 0
      /\ \A p \in Players : clients[p].ballot[t] = "none"

\* What passed is executed, once and with its own string; at most the last
\* waits, and only while its string is not needed for another vote
\* (G_CheckVote, G_ExecuteVote, Cmd_CallVote_f).
ExecutedAsPassed ==
  \A t \in Teams :
    /\ tally[t].due = [k \in Kinds |-> IF tally[t].pending /\ k = tally[t].kind THEN 1 ELSE 0]
    /\ tally[t].pending => ~tally[t].running

\* A vote that time does not end is ended by the players who are there: it
\* passes only if it would with all others against it, and fails only if it
\* would with all others for it (G_CheckVote).
DecidedForAll ==
  [][\A t \in Teams :
       LET n == Cardinality(VotingClients(clients, t))
           yes == Cardinality(Said("yes", t))
           no == Cardinality(Said("no", t))
       IN /\ tally[t].running /\ ~tally'[t].running /\ Frame
          /\ tally[t].age < VOTE_TIME - 1 /\ tally[t].rejoined = 0
          => IF tally'[t].pending
             THEN yes * 100 > n * voteThreshold[tally[t].kind]
             ELSE (n - no) * 100 <= n * voteThreshold[tally[t].kind]]_vars

\* A vote ends, and what it passed is done, unless the level ends (the clock in
\* G_CheckVote).
EndsAndIsDone ==
  \A t \in Teams : []<>~tally[t].running /\ []<>~tally[t].pending
=============================================================================
