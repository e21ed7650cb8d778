---------------------------- MODULE MCNativeClaims ----------------------------
(* Two generations, a session and two terminals, of which two begin.       *)
EXTENDS NativeClaims, TLC

SameNames ==
    Permutations(Terminals) \cup Permutations(Generations) \cup Permutations(Natives)
===============================================================================
