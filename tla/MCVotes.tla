------------------------------ MODULE MCVotes ------------------------------
(* Model-checking instances of Votes. *)
EXTENDS Votes

Called == [t \in Teams |-> IF t = TEAM_NONE THEN {"map", "poll"} ELSE {"denybuild"}]
Delays == [k \in Kinds |-> IF k = "map" THEN 1 ELSE 0]
Thresholds == [k \in Kinds |-> IF k = "map" THEN 60 ELSE 40]
=============================================================================
