---------------------------- MODULE MCKeyedMutex ----------------------------
(* An instance of KeyedMutex for TLC: a holder, a waiter and a newcomer.   *)
(* Their names are used again and again, and liveness is checked with the  *)
(* rest, so there is no symmetry.                                          *)
EXTENDS KeyedMutex

CONSTANTS c1, c2, c3

ThreeCalls == {c1, c2, c3}
=============================================================================
