----------------------------- MODULE MutexProofs -----------------------------
(***************************************************************************)
(* Proofs about Mutex.tla, for any number of coroutine chains, threads and *)
(* state objects.                                                          *)
(***************************************************************************)
EXTENDS Mutex, TLAPS

(* _lock is held exactly during unlock(), and _owner and _counter follow   *)
(* its loop: nobody while it looks for a waiter, then the popped one.      *)
PhaseInv ==
  /\ phase = "idle" <=> latch = NoUser
  /\ phase \in {"notify", "wake"} <=> hand # NoState
  /\ phase = "pop" => owner = NoUser
  /\ hand # NoState => rootOf[hand] \in Coro /\ owner = rootOf[hand] /\ counter = 1
  /\ owner = NoUser => counter = 0
  /\ owner # NoUser => counter > 0

(* Who waits: an armed state is the one its coroutine is suspended on, and *)
(* a coroutine is suspended on an armed state or on the one being woken.   *)
WaitInv ==
  /\ \A s \in State : timer[s] => rootOf[s] \in Coro
  /\ \A i \in 1..Len(waitq) : rootOf[waitq[i]] \in Coro
  /\ \A c \in Coro : at[c] = "run" <=> cur[c] = NoState
  /\ \A c \in Coro : cur[c] # NoState => rootOf[cur[c]] = c
  /\ \A s \in State : armed[s] =>
       /\ rootOf[s] \in Coro
       /\ cur[rootOf[s]] = s
       /\ at[rootOf[s]] = "suspended"
       /\ mtx[rootOf[s]]
  /\ phase = "wake" =>
       /\ ~armed[hand]
       /\ cur[rootOf[hand]] = hand
       /\ at[rootOf[hand]] = "suspended"
       /\ mtx[rootOf[hand]]

(* The owner claims what _counter counts, except while the ownership is    *)
(* lent to a popped waiter that is not notified yet; nobody else claims.   *)
ClaimInv ==
  \A u \in User : Claim(u) = IF u = owner /\ phase # "notify" THEN counter ELSE 0

Inv == TypeOK /\ PhaseInv /\ WaitInv /\ ClaimInv /\ NoneForgotten
-----------------------------------------------------------------------------
(* The initial states satisfy the invariant. *)
LEMMA InitInv == Init => Inv
  BY UsersAssumption DEF Init, Inv, TypeOK, PhaseInv, WaitInv, ClaimInv, NoneForgotten,
     Claim, Granted, User

(* Every step keeps the types. *)
LEMMA NextType == Inv /\ [Next]_vars => TypeOK'
<1> SUFFICES ASSUME Inv, [Next]_vars PROVE TypeOK'
  OBVIOUS
<1> USE UsersAssumption DEF Inv, TypeOK, User, mutexVars, stateVars, coroVars
<1>1. ASSUME NEW u \in User, TryLock(u) PROVE TypeOK'
  BY <1>1 DEF TryLock, TakeLock
<1>2. ASSUME NEW u \in User, Unlock(u) PROVE TypeOK'
  BY <1>2 DEF Unlock, PhaseInv
<1>3. ASSUME NEW c \in Coro, Resume(c) PROVE TypeOK'
  BY <1>3 DEF Resume
<1>4. ASSUME NEW c \in Coro, NEW timed \in BOOLEAN, LockSuspend(c, timed) PROVE TypeOK'
  BY <1>4 DEF LockSuspend
<1>5. ASSUME NEW s \in State, OnTimeout(s) PROVE TypeOK'
  <2>1. CASE armed[s]
    BY <1>5, <2>1 DEF OnTimeout
  <2>2. CASE ~armed[s]
    BY <1>5, <2>2 DEF OnTimeout
  <2> QED BY <2>1, <2>2
<1>6. CASE UnlockPop
  <2>1. Head(waitq) \in State /\ Tail(waitq) \in Seq(State)
    BY <1>6 DEF UnlockPop
  <2> QED BY <2>1, <1>6 DEF UnlockPop
<1>7. CASE UnlockEnd
  BY <1>7 DEF UnlockEnd
<1>8. CASE UnlockRollback
  BY <1>8 DEF UnlockRollback, PhaseInv
<1>9. CASE UnlockNotify
  BY <1>9 DEF UnlockNotify
<1>10. CASE UnlockWake
  BY <1>10 DEF UnlockWake, PhaseInv
<1>11. CASE UNCHANGED vars
  BY <1>11 DEF vars
<1> HIDE DEF Inv, TypeOK, User, mutexVars, stateVars, coroVars
<1> QED
  BY <1>1, <1>2, <1>3, <1>4, <1>5, <1>6, <1>7, <1>8, <1>9, <1>10, <1>11 DEF Next

(* Every step keeps _owner and _counter in phase with unlock(). *)
LEMMA NextPhase == Inv /\ [Next]_vars => PhaseInv'
<1> SUFFICES ASSUME Inv, [Next]_vars PROVE PhaseInv'
  OBVIOUS
<1>0. TypeOK'
  BY NextType
<1> USE UsersAssumption DEF Inv, TypeOK, PhaseInv, WaitInv, User, mutexVars, stateVars, coroVars
<1>1. ASSUME NEW u \in User, TryLock(u) PROVE PhaseInv'
  BY <1>0, <1>1 DEF TryLock, TakeLock, Lockable, MayCall
<1>2. ASSUME NEW u \in User, Unlock(u) PROVE PhaseInv'
  BY <1>0, <1>2 DEF Unlock, MayCall
<1>3. ASSUME NEW c \in Coro, Resume(c) PROVE PhaseInv'
  BY <1>0, <1>3 DEF Resume
<1>4. ASSUME NEW c \in Coro, NEW timed \in BOOLEAN, LockSuspend(c, timed) PROVE PhaseInv'
  BY <1>0, <1>4 DEF LockSuspend, Lockable, MayCall, Unused
<1>5. ASSUME NEW s \in State, OnTimeout(s) PROVE PhaseInv'
  BY <1>0, <1>5 DEF OnTimeout
<1>6. CASE UnlockPop
  BY <1>0, <1>6 DEF UnlockPop
<1>7. CASE UnlockEnd
  BY <1>0, <1>7 DEF UnlockEnd
<1>8. CASE UnlockRollback
  BY <1>0, <1>8 DEF UnlockRollback
<1>9. CASE UnlockNotify
  BY <1>0, <1>9 DEF UnlockNotify
<1>10. CASE UnlockWake
  BY <1>0, <1>10 DEF UnlockWake
<1>11. CASE UNCHANGED vars
  BY <1>0, <1>11 DEF vars
<1> HIDE DEF Inv, TypeOK, PhaseInv, WaitInv, User, mutexVars, stateVars, coroVars
<1> QED
  BY <1>1, <1>2, <1>3, <1>4, <1>5, <1>6, <1>7, <1>8, <1>9, <1>10, <1>11 DEF Next

(* Every step keeps waiters and their states in agreement. *)
LEMMA NextWait == Inv /\ [Next]_vars => WaitInv'
<1> SUFFICES ASSUME Inv, [Next]_vars PROVE WaitInv'
  OBVIOUS
<1>0. TypeOK'
  BY NextType
<1> USE UsersAssumption DEF Inv, TypeOK, PhaseInv, WaitInv, User, mutexVars, stateVars, coroVars
<1>1. ASSUME NEW u \in User, TryLock(u) PROVE WaitInv'
  BY <1>0, <1>1 DEF TryLock, TakeLock, Lockable, MayCall
<1>2. ASSUME NEW u \in User, Unlock(u) PROVE WaitInv'
  BY <1>0, <1>2 DEF Unlock, MayCall
<1>3. ASSUME NEW c \in Coro, Resume(c) PROVE WaitInv'
  BY <1>0, <1>3 DEF Resume
<1>4. ASSUME NEW c \in Coro, NEW timed \in BOOLEAN, LockSuspend(c, timed) PROVE WaitInv'
  BY <1>0, <1>4 DEF LockSuspend, Lockable, MayCall, Unused
<1>5. ASSUME NEW s \in State, OnTimeout(s) PROVE WaitInv'
  BY <1>0, <1>5 DEF OnTimeout
<1>6. CASE UnlockPop
  BY <1>0, <1>6 DEF UnlockPop
<1>7. CASE UnlockEnd
  BY <1>0, <1>7 DEF UnlockEnd
<1>8. CASE UnlockRollback
  BY <1>0, <1>8 DEF UnlockRollback
<1>9. CASE UnlockNotify
  BY <1>0, <1>9 DEF UnlockNotify
<1>10. CASE UnlockWake
  BY <1>0, <1>10 DEF UnlockWake
<1>11. CASE UNCHANGED vars
  BY <1>0, <1>11 DEF vars
<1> HIDE DEF Inv, TypeOK, PhaseInv, WaitInv, User, mutexVars, stateVars, coroVars
<1> QED
  BY <1>1, <1>2, <1>3, <1>4, <1>5, <1>6, <1>7, <1>8, <1>9, <1>10, <1>11 DEF Next

(* No step leaves the mutex free with somebody waiting. *)
LEMMA NextForgotten == Inv /\ [Next]_vars => NoneForgotten'
<1> SUFFICES ASSUME Inv, [Next]_vars PROVE NoneForgotten'
  OBVIOUS
<1>0. TypeOK'
  BY NextType
<1> USE UsersAssumption DEF Inv, TypeOK, PhaseInv, WaitInv, NoneForgotten, User, mutexVars, stateVars, coroVars
<1>1. ASSUME NEW u \in User, TryLock(u) PROVE NoneForgotten'
  BY <1>0, <1>1 DEF TryLock, TakeLock, Lockable, MayCall
<1>2. ASSUME NEW u \in User, Unlock(u) PROVE NoneForgotten'
  BY <1>0, <1>2 DEF Unlock, MayCall
<1>3. ASSUME NEW c \in Coro, Resume(c) PROVE NoneForgotten'
  BY <1>0, <1>3 DEF Resume
<1>4. ASSUME NEW c \in Coro, NEW timed \in BOOLEAN, LockSuspend(c, timed) PROVE NoneForgotten'
  BY <1>0, <1>4 DEF LockSuspend, Lockable, MayCall, Unused
<1>5. ASSUME NEW s \in State, OnTimeout(s) PROVE NoneForgotten'
  BY <1>0, <1>5 DEF OnTimeout
<1>6. CASE UnlockPop
  BY <1>0, <1>6 DEF UnlockPop
<1>7. CASE UnlockEnd
  BY <1>0, <1>7 DEF UnlockEnd
<1>8. CASE UnlockRollback
  BY <1>0, <1>8 DEF UnlockRollback
<1>9. CASE UnlockNotify
  BY <1>0, <1>9 DEF UnlockNotify
<1>10. CASE UnlockWake
  BY <1>0, <1>10 DEF UnlockWake
<1>11. CASE UNCHANGED vars
  BY <1>0, <1>11 DEF vars
<1> HIDE DEF Inv, TypeOK, PhaseInv, WaitInv, NoneForgotten, User, mutexVars, stateVars, coroVars
<1> QED
  BY <1>1, <1>2, <1>3, <1>4, <1>5, <1>6, <1>7, <1>8, <1>9, <1>10, <1>11 DEF Next

(* Every step keeps claims and _counter in agreement. *)
LEMMA NextClaim == Inv /\ [Next]_vars => ClaimInv'
<1> SUFFICES ASSUME Inv, [Next]_vars, NEW v \in User
             PROVE  (Claim(v) = IF v = owner /\ phase # "notify" THEN counter ELSE 0)'
  BY DEF ClaimInv
<1>0. TypeOK'
  BY NextType
<1>a. Claim(v) = IF v = owner /\ phase # "notify" THEN counter ELSE 0
  BY DEF Inv, ClaimInv
<1>b. v \in User /\ depth[v] \in Nat /\ Claim(v) \in Nat
  BY DEF Inv, TypeOK, Claim
<1> DEFINE Goal == (Claim(v) = IF v = owner /\ phase # "notify" THEN counter ELSE 0)'
<1> USE UsersAssumption DEF Inv, TypeOK, PhaseInv, WaitInv, User, mutexVars, stateVars, coroVars
<1>1. ASSUME NEW u \in User, TryLock(u) PROVE Goal
  BY <1>0, <1>1, <1>a, <1>b DEF TryLock, TakeLock, Lockable, MayCall, Claim, Granted
<1>2. ASSUME NEW u \in User, Unlock(u) PROVE Goal
  BY <1>0, <1>2, <1>a, <1>b DEF Unlock, MayCall, Claim, Granted
<1>3. ASSUME NEW c \in Coro, Resume(c) PROVE Goal
  BY <1>0, <1>3, <1>a, <1>b DEF Resume, Claim, Granted
<1>4. ASSUME NEW c \in Coro, NEW timed \in BOOLEAN, LockSuspend(c, timed) PROVE Goal
  BY <1>0, <1>4, <1>a, <1>b DEF LockSuspend, Lockable, MayCall, Unused, Claim, Granted
<1>5. ASSUME NEW s \in State, OnTimeout(s) PROVE Goal
  BY <1>0, <1>5, <1>a, <1>b DEF OnTimeout, Claim, Granted
<1>6. CASE UnlockPop
  BY <1>0, <1>6, <1>a, <1>b DEF UnlockPop, Claim, Granted
<1>7. CASE UnlockEnd
  BY <1>0, <1>7, <1>a, <1>b DEF UnlockEnd, Claim, Granted
<1>8. CASE UnlockRollback
  BY <1>0, <1>8, <1>a, <1>b DEF UnlockRollback, Claim, Granted
<1>9. CASE UnlockNotify
  BY <1>0, <1>9, <1>a, <1>b DEF UnlockNotify, Claim, Granted
<1>10. CASE UnlockWake
  BY <1>0, <1>10, <1>a, <1>b DEF UnlockWake, Claim, Granted
<1>11. CASE UNCHANGED vars
  BY <1>11, <1>a DEF vars, Claim, Granted
<1> HIDE DEF Inv, TypeOK, PhaseInv, WaitInv, User, mutexVars, stateVars, coroVars, Goal
<1> QED
  BY <1>1, <1>2, <1>3, <1>4, <1>5, <1>6, <1>7, <1>8, <1>9, <1>10, <1>11 DEF Next, Goal

(* The invariant is inductive. *)
THEOREM Invariance == Spec => []Inv
<1>1. Init => Inv
  BY InitInv
<1>2. Inv /\ [Next]_vars => Inv'
  BY NextType, NextPhase, NextWait, NextClaim, NextForgotten DEF Inv
<1> QED
  BY <1>1, <1>2, PTL DEF Spec
(* Types hold in every state. *)
THEOREM TypeCorrect == Spec => []TypeOK
  BY Invariance, PTL DEF Inv

(* _owner and _counter always tell who was told that it has the mutex, and *)
(* how often, although a timeout may fire at any point of unlock().        *)
THEOREM OwnerCorrect == Spec => []OwnerIsHolder
<1>1. Inv => OwnerIsHolder
  BY DEF Inv, PhaseInv, ClaimInv, OwnerIsHolder
<1> QED
  BY <1>1, Invariance, PTL

(* unlock() never leaves the mutex free with a live waiter in the queue. *)
THEOREM NoneForgottenCorrect == Spec => []NoneForgotten
  BY Invariance, PTL DEF Inv
-----------------------------------------------------------------------------
(* What the mapped state is. *)
Held == [u \in User |-> Claim(u)]

(* A step that keeps every claim is a stutter of the lock. *)
LEMMA Stutter == (\A u \in User : Claim(u)' = Claim(u)) => Held' = Held
  BY DEF Held

(* Every step of the mutex is a step of the lock or a stutter: the owner's *)
(* claim grows by one with a lock call or a won swap, shrinks by one with  *)
(* unlock(), and nothing else changes a claim.                             *)
LEMMA StepSimulates == Inv /\ Inv' /\ [Next]_vars => [Lock!Next]_Held
<1> SUFFICES ASSUME Inv, Inv', [Next]_vars PROVE [Lock!Next]_Held
  OBVIOUS
<1>a. \A u \in User : Claim(u) \in Nat /\ depth[u] \in Nat /\ Claim(u)' \in Nat
  <2> SUFFICES ASSUME NEW u \in User
               PROVE  Claim(u) \in Nat /\ depth[u] \in Nat /\ Claim(u)' \in Nat
    OBVIOUS
  <2>1. depth[u] \in Nat /\ depth'[u] \in Nat
    BY DEF Inv, TypeOK
  <2> QED BY <2>1 DEF Claim
<1> DEFINE Same == \A u \in User : Claim(u)' = Claim(u)
           Up(u) == /\ \A v \in User \ {u} : Claim(v) = 0 /\ Claim(v)' = 0
                    /\ Claim(u)' = Claim(u) + 1
           Down(u) == /\ Claim(u) > 0
                      /\ Claim(u)' = Claim(u) - 1
                      /\ \A v \in User \ {u} : Claim(v)' = Claim(v)
<1>up. ASSUME NEW u \in User, Up(u) PROVE Lock!Next
  <2>1. \A v \in User \ {u} : Held[v] = 0
    BY <1>up DEF Held
  <2>2. Held' = [Held EXCEPT ![u] = @ + 1]
    BY <1>up DEF Held
  <2> QED BY <2>1, <2>2 DEF Lock!Next, Lock!Acquire, Held
<1>down. ASSUME NEW u \in User, Down(u) PROVE Lock!Next
  <2>1. Held[u] > 0
    BY <1>down DEF Held
  <2>2. Held' = [Held EXCEPT ![u] = @ - 1]
    BY <1>down DEF Held
  <2> QED BY <2>1, <2>2 DEF Lock!Next, Lock!Release, Held
<1>same. Same => Held' = Held
  BY Stutter
<1> USE UsersAssumption DEF Inv, TypeOK, PhaseInv, WaitInv, User, mutexVars, stateVars, coroVars
<1>1. ASSUME NEW u \in User, TryLock(u) PROVE Up(u)
  <2>1. owner \in {NoUser, u} /\ owner' = u /\ phase = "idle" /\ phase' = "idle"
    BY <1>1 DEF TryLock, TakeLock, Lockable, MayCall
  <2>2. \A v \in User \ {u} : Claim(v) = 0 /\ Claim(v)' = 0
    BY <2>1 DEF ClaimInv
  <2>3. Claim(u)' = Claim(u) + 1
    BY <1>1, <1>a DEF TryLock, TakeLock, MayCall, Claim, Granted
  <2> QED BY <2>2, <2>3
<1>2. ASSUME NEW u \in User, Unlock(u) PROVE Down(u)
  BY <1>2, <1>a DEF Unlock, MayCall, Claim, Granted, ClaimInv
<1>3. ASSUME NEW c \in Coro, Resume(c) PROVE Same
  BY <1>3, <1>a DEF Resume, Claim, Granted
<1>4. ASSUME NEW c \in Coro, NEW timed \in BOOLEAN, LockSuspend(c, timed) PROVE Same
  BY <1>4 DEF LockSuspend, MayCall, Unused, Claim, Granted
<1>5. ASSUME NEW s \in State, OnTimeout(s) PROVE Same
  BY <1>5 DEF OnTimeout, Claim, Granted
<1>6. ASSUME UnlockPop PROVE Same
  BY <1>6 DEF UnlockPop, Claim, Granted
<1>7. ASSUME UnlockEnd PROVE Same
  BY <1>7 DEF UnlockEnd, Claim, Granted
<1>8. ASSUME UnlockRollback PROVE Same
  BY <1>8 DEF UnlockRollback, Claim, Granted
<1>9. ASSUME UnlockNotify PROVE owner \in User /\ Up(owner)
  <2>1. owner \in User /\ owner' = owner /\ counter = 1 /\ counter' = 1
    BY <1>9 DEF UnlockNotify
  <2>2. phase = "notify" /\ phase' = "wake"
    BY <1>9 DEF UnlockNotify
  <2>3. \A v \in User : Claim(v) = 0 /\ Claim(v)' = IF v = owner THEN 1 ELSE 0
    BY <2>1, <2>2 DEF ClaimInv
  <2> QED BY <2>1, <2>3
<1>10. ASSUME UnlockWake PROVE Same
  BY <1>10 DEF UnlockWake, Claim, Granted
<1>11. ASSUME UNCHANGED vars PROVE Same
  BY <1>11 DEF vars, Claim, Granted
<1> HIDE DEF Inv, TypeOK, PhaseInv, WaitInv, User, mutexVars, stateVars, coroVars,
             Same, Up, Down
<1> QED
  BY <1>up, <1>down, <1>same, <1>1, <1>2, <1>3, <1>4, <1>5, <1>6, <1>7, <1>8, <1>9,
     <1>10, <1>11 DEF Next

(* mutex_t implements the re-entrant lock: mutual exclusion among chains   *)
(* and threads, with every release matched, whatever times out when.       *)
THEOREM Refinement == Spec => ImplementsLock
<1>1. Init => Lock!Init
  BY UsersAssumption DEF Init, Lock!Init, Claim, Granted, User
<1>2. Inv /\ Inv' /\ [Next]_vars => [Lock!Next]_Held
  BY StepSimulates
<1> QED
  BY <1>1, <1>2, Invariance, PTL DEF Spec, ImplementsLock, Lock!Spec, Held
=============================================================================
