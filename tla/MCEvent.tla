------------------------------- MODULE MCEvent -------------------------------
(* Two events, a coroutine that waits for either, one that waits for both, *)
(* and two interchangeable threads that signal; with other constants,     *)
(* the two runs that show what goes wrong (no liveness is checked with the *)
(* symmetry).                                                              *)
EXTENDS Event

Symmetry == Permutations(Thread)
=============================================================================
