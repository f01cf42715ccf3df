---------------------------- MODULE ReentrantLock ----------------------------
(***************************************************************************)
(* What mutex_t promises its users, whoever they are (coroutine chains or  *)
(* native threads): a lock that one user at a time holds, any number of    *)
(* times, and that is free again once it was released as often.            *)
(* Mutex.tla is shown to implement this specification.                     *)
(***************************************************************************)
EXTENDS Integers

CONSTANT User

VARIABLE held       \* held[u]: how many times u holds the lock

Free == \A u \in User : held[u] = 0

Init == held = [u \in User |-> 0]

Acquire(u) ==
  /\ \A v \in User \ {u} : held[v] = 0
  /\ held' = [held EXCEPT ![u] = @ + 1]

Release(u) ==
  /\ held[u] > 0
  /\ held' = [held EXCEPT ![u] = @ - 1]

Next == \E u \in User : Acquire(u) \/ Release(u)

Spec == Init /\ [][Next]_held
=============================================================================
