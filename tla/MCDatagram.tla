----------------------------- MODULE MCDatagram -----------------------------
(***************************************************************************)
(* Instances of Datagram for TLC: a receive buffer smaller than a run, and *)
(* one that holds all of it.                                               *)
(***************************************************************************)
EXTENDS Datagram

Two       == {2}
ZeroOrTwo == {0, 2}
=============================================================================
