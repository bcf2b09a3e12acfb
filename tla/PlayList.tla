------------------------------ MODULE PlayList ------------------------------
(***************************************************************************)
(* What a queue of maps promises: everyone waits for one map at most, no   *)
(* map is waited for twice, and the maps are played in the order they were *)
(* asked for, whatever levels go by.  Only who is gone is forgotten.       *)
(***************************************************************************)
EXTENDS Integers, Sequences, SequencesExt

CONSTANTS Pool, Players, Console, Capacity

VARIABLES
  list,    \* who waits for which map
  there,   \* the players who are there
  next     \* the map that comes next, of the list or not

Waits == [map : Pool, owner : Players \cup {Console}]

\* The list some is what is left of the list when only the places kept are: it
\* comes from them, in their order.
IsLeft(some, kept) ==
  /\ some \in Seq(Waits)
  /\ \E from \in [DOMAIN some -> DOMAIN list] :
       /\ Range(from) = kept
       /\ \A i \in DOMAIN some : some[i] = list[from[i]]
       /\ \A i, j \in DOMAIN some : i < j => from[i] < from[j]

NotGone == {i \in DOMAIN list : list[i].owner \in there \cup {Console}}

Init == list = <<>> /\ there = {}

ComeAndGo ==
  /\ there' \in SUBSET Players
  /\ UNCHANGED list

\* A new map takes the place of the owner's old one, at the end.
Ask(map, owner) ==
  /\ Len(list) < Capacity
  /\ \A i \in DOMAIN list : list[i].map # map
  /\ list' # <<>> /\ Last(list') = [map |-> map, owner |-> owner]
  /\ IsLeft(Front(list'), {i \in DOMAIN list : list[i].owner # owner})
  /\ UNCHANGED there

ForgetTheGone ==
  /\ IsLeft(list', NotGone)
  /\ UNCHANGED there

\* The first of those who are not gone.
PlayFirst ==
  /\ \E first \in Waits : IsLeft(<<first>> \o list', NotGone) /\ next' = first.map
  /\ UNCHANGED there

Next ==
  \/ ComeAndGo \/ ForgetTheGone \/ PlayFirst
  \/ \E map \in Pool, owner \in Players \cup {Console} : Ask(map, owner)

Spec == Init /\ [][Next]_<<list, there>>
=============================================================================
