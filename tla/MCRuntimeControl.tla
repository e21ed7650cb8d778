--------------------------- MODULE MCRuntimeControl ---------------------------
(* Two daemons one after the other, two mutations of one or two integrations. *)
EXTENDS RuntimeControl, TLC

SameNames == Permutations(Boots) \cup Permutations(Requests) \cup Permutations(Integrations)
===============================================================================
