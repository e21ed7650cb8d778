---------------------------- MODULE MCCourierGate ----------------------------
(* Small gates for TLC.  Message identifiers and connections are             *)
(* interchangeable; sessions, calls and rooms are walked in a fixed order    *)
(* and are not.                                                             *)
EXTENDS CourierGate, TLC

SameMessagesAndConns == Permutations(Messages) \cup Permutations(Conns)
=============================================================================
