----------------------------- MODULE MCSessionHub -----------------------------
(* A small session hub for TLC.  The sizes are chosen around the limits: a   *)
(* frame of 1 fits everywhere; a notice of 3 makes two frames exceed the     *)
(* byte budgets before the frame budgets; 5 is relayed live, alone in its    *)
(* queue, and not retained; 7 is too large to relay at all.                  *)
EXTENDS SessionHub, TLC

Symmetry == Permutations(Watchers)
=============================================================================
