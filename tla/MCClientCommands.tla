-------------------------- MODULE MCClientCommands --------------------------
(* Model-checking instances of ClientCommands. *)
EXTENDS ClientCommands
=============================================================================
