------------------------------ MODULE MCFuture ------------------------------
(* Two schedulers, two coroutines, one of them possibly awaited by the     *)
(* other, and one awaitable, which is awaited or started as a task.  The   *)
(* schedulers are interchangeable (no liveness is checked on this          *)
(* instance).                                                              *)
EXTENDS Future, TLC

Symmetry == Permutations(Sched)
=============================================================================
