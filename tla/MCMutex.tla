------------------------------- MODULE MCMutex -------------------------------
(* Two coroutine chains and a native thread contend for one mutex; three   *)
(* state objects let a timed-out waiter stay in the queue while its        *)
(* coroutine already waits again.                                          *)
EXTENDS Mutex
=============================================================================
