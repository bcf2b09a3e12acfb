-------------------------- MODULE ReliableCommands --------------------------
(***************************************************************************)
(* What the reliable commands promise (SV_AddServerCommand, sv_main.c):    *)
(* the server issues commands, the client executes them, each once and in  *)
(* the order they were issued.  The promise ends when the server gives the *)
(* client up for having too many of them unacknowledged.                   *)
(***************************************************************************)
EXTENDS Integers, Sequences

VARIABLES
  issued,    \* the commands, in order; a command is known by its number
  executed,  \* the numbers of those the client executed, in order
  givenUp    \* the server numbered a command it had no room for

vars == <<issued, executed, givenUp>>

Init ==
  /\ issued = <<>>
  /\ executed = <<>>
  /\ givenUp = FALSE

\* The server adds commands after those it has issued, and may give up.
Issue ==
  /\ Len(issued') >= Len(issued)
  /\ \A n \in DOMAIN issued : issued'[n] = issued[n]
  /\ givenUp => givenUp'
  /\ UNCHANGED executed

\* The client executes the next few commands.
Execute ==
  /\ ~givenUp
  /\ Len(executed') \in Len(executed)..Len(issued)
  /\ \A n \in DOMAIN executed' : executed'[n] = n
  /\ UNCHANGED <<issued, givenUp>>

\* The client may execute anything before it hears that it was given up.
ExecuteGivenUp ==
  /\ givenUp
  /\ UNCHANGED <<issued, givenUp>>

Next == Issue \/ Execute \/ ExecuteGivenUp

Spec == Init /\ [][Next]_vars
=============================================================================
