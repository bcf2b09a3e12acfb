---------------------------- MODULE MCSvNetChan ----------------------------
(***************************************************************************)
(* An instance of SvNetChan for TLC.  With two bytes to a fragment the     *)
(* messages are one that fits a datagram, one of exactly a fragment, which *)
(* needs an empty one after it, and one of three fragments.  The bytes     *)
(* differ, so that mixing shows.                                           *)
(***************************************************************************)
EXTENDS SvNetChan

MCByte == 1..8
MCMessages == {<<1>>, <<2, 3>>, <<4, 5, 6, 7, 8>>}
=============================================================================
