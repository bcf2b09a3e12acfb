---------------------------- MODULE MCConnection ----------------------------
(* Model-checking instances of Connection: clients at addresses of their own, *)
(* and clients behind one router.                                             *)
EXTENDS Connection

CONSTANTS a, b, p, q

Apart == [c \in Clients |-> c]
Together == [c \in Clients |-> "router"]
OnePort == [c \in Clients |-> p]
TwoPorts == [c \in Clients |-> IF c = a THEN p ELSE q]
=============================================================================
