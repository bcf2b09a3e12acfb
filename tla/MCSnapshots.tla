---------------------------- MODULE MCSnapshots ----------------------------
(* An instance of Snapshots. *)
EXTENDS Snapshots

\* Two entities that stay, and two that come and go at different times.
SomeViews == {<<{1, 2}>>, <<{2}, {1, 2}, {1}>>}
=============================================================================
