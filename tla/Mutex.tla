-------------------------------- MODULE Mutex --------------------------------
(***************************************************************************)
(* mutex_t: the recursive mutex of librf, owned by coroutine chains (the   *)
(* root state of an await chain, get_root()) and by native threads (a      *)
(* unique address), with waiters that may time out.                        *)
(*                                                                         *)
(* Everything runs under the spinlock mutex_v2_impl::_lock, with one       *)
(* exception: a waiter's timeout, which its own scheduler runs at any      *)
(* moment and which meets unlock() only in a compare-and-swap on the       *)
(* waiter's _value.  So lock and try_lock are one step each, and unlock is *)
(* one step per waiter it pops and one per outcome of the swap.            *)
(*                                                                         *)
(* Each coroutine chain runs on a scheduler, hence a thread, of its own:   *)
(* two chains that share one have fewer interleavings, not more.           *)
(***************************************************************************)
EXTENDS Integers, Sequences

CONSTANTS
  Coro,       \* coroutine chains
  Thread,     \* native threads that lock with a unique address
  State,      \* the state_mutex_t objects
  NoUser,     \* nullptr in _owner; also nobody in _lock
  NoState,
  MaxDepth    \* bound on recursive locks (_counter is an intptr_t)

User == Coro \union Thread

ASSUME UsersAssumption ==
  /\ Coro \intersect Thread = {}
  /\ NoUser \notin User
  /\ NoState \notin State

ASSUME DepthAssumption == MaxDepth \in Nat \ {0}

VARIABLES
  owner,      \* mutex_v2_impl::_owner
  counter,    \* mutex_v2_impl::_counter
  waitq,      \* mutex_v2_impl::_wait_awakes
  latch,      \* who is inside unlock() with mutex_v2_impl::_lock held
  phase,      \* where that unlock() is: "idle", "pop", "notify" or "wake"
  hand,       \* the state unlock() has popped
  rootOf,     \* state_mutex_t::_root
  armed,      \* state_mutex_t::_value is not null: neither notified nor timed out
  timer,      \* state_mutex_t::_thandler has a timer that will call on_timeout
  at,         \* a coroutine is in "run", is "suspended" or is "ready" in its scheduler
  cur,        \* lock_awaiter::_state of a suspended coroutine
  mtx,        \* lock_awaiter::_mutex is not null: what await_resume returns
  depth       \* how many locks a user was told it holds and has not released

mutexVars == <<owner, counter, waitq, latch, phase, hand>>
stateVars == <<rootOf, armed, timer>>
coroVars  == <<at, cur, mtx>>
vars      == <<mutexVars, stateVars, coroVars, depth>>

Init ==
  /\ owner = NoUser
  /\ counter = 0
  /\ waitq = <<>>
  /\ latch = NoUser
  /\ phase = "idle"
  /\ hand = NoState
  /\ rootOf = [s \in State |-> NoUser]
  /\ armed = [s \in State |-> FALSE]
  /\ timer = [s \in State |-> FALSE]
  /\ at = [c \in Coro |-> "run"]
  /\ cur = [c \in Coro |-> NoState]
  /\ mtx = [c \in Coro |-> FALSE]
  /\ depth = [u \in User |-> 0]
-----------------------------------------------------------------------------
(* A user that can call into the mutex now: it executes, and _lock is free. *)
MayCall(u) ==
  /\ latch = NoUser
  /\ u \in Coro => at[u] = "run"

(* A state_mutex_t object that nothing refers to any more. *)
Unused(s) ==
  /\ \A i \in 1..Len(waitq) : waitq[i] # s
  /\ s # hand
  /\ ~timer[s]
  /\ \A c \in Coro : cur[c] # s

(* try_lock_lockless: take a free mutex, or one more time one's own. *)
Lockable(u) == owner \in {NoUser, u}

TakeLock(u) ==
  /\ Lockable(u)
  /\ depth[u] < MaxDepth
  /\ owner' = u
  /\ counter' = counter + 1
  /\ depth' = [depth EXCEPT ![u] = @ + 1]
  /\ UNCHANGED <<waitq, latch, phase, hand, stateVars, coroVars>>

(* A try_lock that succeeds, of a coroutine or of a thread; lock of a      *)
(* thread and try_lock_until of a thread repeat it (a failed try changes   *)
(* nothing).  For a coroutine also a lock that need not suspend.           *)
TryLock(u) == MayCall(u) /\ TakeLock(u)

(* await_suspend2 when the mutex is taken: a new state, its timer for      *)
(* try_lock_for and try_lock_until, the end of the queue.                  *)
LockSuspend(c, timed) ==
  /\ MayCall(c)
  /\ ~Lockable(c)
  /\ \E s \in State :
       /\ Unused(s)
       /\ rootOf' = [rootOf EXCEPT ![s] = c]
       /\ armed' = [armed EXCEPT ![s] = TRUE]
       /\ timer' = [timer EXCEPT ![s] = timed]
       /\ waitq' = Append(waitq, s)
       /\ cur' = [cur EXCEPT ![c] = s]
  /\ mtx' = [mtx EXCEPT ![c] = TRUE]
  /\ at' = [at EXCEPT ![c] = "suspended"]
  /\ UNCHANGED <<owner, counter, latch, phase, hand, depth>>

(* Mutant: on_timeout without the compare-and-swap. *)
BugTimeoutUnswapped(s) ==
  /\ timer[s]
  /\ timer' = [timer EXCEPT ![s] = FALSE]
  /\ armed' = [armed EXCEPT ![s] = FALSE]
  /\ mtx' = [mtx EXCEPT ![rootOf[s]] = FALSE]
  /\ at' = [at EXCEPT ![rootOf[s]] = "ready"]
  /\ UNCHANGED <<mutexVars, rootOf, cur, depth>>

(* state_mutex_t::on_timeout, called by the timer of the waiter's own      *)
(* scheduler.  The timer may outlive the wait (see UnlockWake): then the   *)
(* swap fails and nothing happens.                                         *)
OnTimeout(s) ==
  /\ timer[s]
  /\ timer' = [timer EXCEPT ![s] = FALSE]
  /\ IF armed[s]
     THEN /\ armed' = [armed EXCEPT ![s] = FALSE]
          /\ mtx' = [mtx EXCEPT ![rootOf[s]] = FALSE]
          /\ at' = [at EXCEPT ![rootOf[s]] = "ready"]
     ELSE UNCHANGED <<armed, mtx, at>>
  /\ UNCHANGED <<mutexVars, rootOf, cur, depth>>

(* The scheduler resumes the coroutine, and await_resume tells it whether  *)
(* it has the lock.                                                        *)
Resume(c) ==
  /\ at[c] = "ready"
  /\ at' = [at EXCEPT ![c] = "run"]
  /\ cur' = [cur EXCEPT ![c] = NoState]
  /\ depth' = [depth EXCEPT ![c] = IF mtx[c] THEN @ + 1 ELSE @]
  /\ UNCHANGED <<mutexVars, stateVars, mtx>>

(* Mutant: unlock() frees the mutex however often it was locked. *)
BugUnlockFrees(u) ==
  /\ MayCall(u)
  /\ depth[u] > 0
  /\ depth' = [depth EXCEPT ![u] = @ - 1]
  /\ IF owner = u
     THEN counter' = 0 /\ owner' = NoUser /\ latch' = u /\ phase' = "pop"
     ELSE UNCHANGED <<owner, counter, latch, phase>>
  /\ UNCHANGED <<waitq, hand, stateVars, coroVars>>

(* unlock() by a user that was told it holds the mutex. *)
Unlock(u) ==
  /\ MayCall(u)
  /\ depth[u] > 0
  /\ depth' = [depth EXCEPT ![u] = @ - 1]
  /\ IF owner = u
     THEN /\ counter' = counter - 1
          /\ IF counter = 1
             THEN owner' = NoUser /\ latch' = u /\ phase' = "pop"
             ELSE UNCHANGED <<owner, latch, phase>>
     ELSE UNCHANGED <<owner, counter, latch, phase>>
  /\ UNCHANGED <<waitq, hand, stateVars, coroVars>>

(* Mutant: the popped waiter gets the ownership without its count. *)
BugPopUncounted ==
  /\ phase = "pop"
  /\ waitq # <<>>
  /\ hand' = Head(waitq)
  /\ waitq' = Tail(waitq)
  /\ owner' = rootOf[Head(waitq)]
  /\ phase' = "notify"
  /\ UNCHANGED <<counter, latch, stateVars, coroVars, depth>>

(* The loop of unlock(): the ownership moves to the popped state first. *)
UnlockPop ==
  /\ phase = "pop"
  /\ waitq # <<>>
  /\ hand' = Head(waitq)
  /\ waitq' = Tail(waitq)
  /\ owner' = rootOf[Head(waitq)]
  /\ counter' = counter + 1
  /\ phase' = "notify"
  /\ UNCHANGED <<latch, stateVars, coroVars, depth>>

UnlockEnd ==
  /\ phase = "pop"
  /\ waitq = <<>>
  /\ phase' = "idle"
  /\ latch' = NoUser
  /\ UNCHANGED <<owner, counter, waitq, hand, stateVars, coroVars, depth>>

(* Mutant: unlock() gives up at the first waiter that has timed out. *)
BugRollbackStops ==
  /\ phase = "notify"
  /\ ~armed[hand]
  /\ owner' = NoUser
  /\ counter' = counter - 1
  /\ hand' = NoState
  /\ phase' = "idle"
  /\ latch' = NoUser
  /\ UNCHANGED <<waitq, stateVars, coroVars, depth>>

(* on_notify fails: the waiter has timed out, and the ownership moves back. *)
UnlockRollback ==
  /\ phase = "notify"
  /\ ~armed[hand]
  /\ owner' = NoUser
  /\ counter' = counter - 1
  /\ hand' = NoState
  /\ phase' = "pop"
  /\ UNCHANGED <<waitq, latch, stateVars, coroVars, depth>>

(* on_notify wins the swap ... *)
UnlockNotify ==
  /\ phase = "notify"
  /\ armed[hand]
  /\ armed' = [armed EXCEPT ![hand] = FALSE]
  /\ phase' = "wake"
  /\ UNCHANGED <<owner, counter, waitq, latch, hand, rootOf, timer, coroVars, depth>>

(* Mutant: the notified waiter is not put into its scheduler. *)
BugWakeSilent ==
  /\ phase = "wake"
  /\ mtx' = [mtx EXCEPT ![rootOf[hand]] = TRUE]
  /\ timer' = [timer EXCEPT ![hand] = FALSE]
  /\ hand' = NoState
  /\ phase' = "idle"
  /\ latch' = NoUser
  /\ UNCHANGED <<owner, counter, waitq, rootOf, armed, at, cur, depth>>

(* ... and wakes the waiter; unlock() returns.  stop() runs in a thread    *)
(* that is not the timer's and takes no lock, so it may come too late.     *)
UnlockWake ==
  /\ phase = "wake"
  /\ mtx' = [mtx EXCEPT ![rootOf[hand]] = TRUE]
  /\ at' = [at EXCEPT ![rootOf[hand]] = "ready"]
  /\ \E late \in BOOLEAN : timer' = [timer EXCEPT ![hand] = late /\ @]
  /\ hand' = NoState
  /\ phase' = "idle"
  /\ latch' = NoUser
  /\ UNCHANGED <<owner, counter, waitq, rootOf, armed, cur, depth>>

Next ==
  \/ \E u \in User : TryLock(u) \/ Unlock(u)
  \/ \E c \in Coro : Resume(c) \/ \E timed \in BOOLEAN : LockSuspend(c, timed)
  \/ \E s \in State : OnTimeout(s)
  \/ UnlockPop \/ UnlockEnd \/ UnlockRollback \/ UnlockNotify \/ UnlockWake

Spec == Init /\ [][Next]_vars

(* A thread inside unlock() goes on, every scheduler keeps running what is *)
(* ready, and a holder releases in the end: it does not lock again for     *)
(* ever each time it is down to its last lock.                             *)
Fairness ==
  /\ WF_vars(UnlockPop \/ UnlockEnd \/ UnlockRollback \/ UnlockNotify \/ UnlockWake)
  /\ \A c \in Coro : WF_vars(Resume(c))
  /\ \A u \in User : WF_vars(Unlock(u)) /\ SF_vars(counter = 1 /\ Unlock(u))

FairSpec == Spec /\ Fairness
-----------------------------------------------------------------------------
TypeOK ==
  /\ owner \in User \union {NoUser}
  /\ counter \in Nat
  /\ waitq \in Seq(State)
  /\ latch \in User \union {NoUser}
  /\ phase \in {"idle", "pop", "notify", "wake"}
  /\ hand \in State \union {NoState}
  /\ rootOf \in [State -> Coro \union {NoUser}]
  /\ armed \in [State -> BOOLEAN]
  /\ timer \in [State -> BOOLEAN]
  /\ at \in [Coro -> {"run", "suspended", "ready"}]
  /\ cur \in [Coro -> State \union {NoState}]
  /\ mtx \in [Coro -> BOOLEAN]
  /\ depth \in [User -> Nat]

(* A waiter that unlock() has notified and that has not run yet: it owns   *)
(* the mutex without knowing it.                                           *)
Granted(u) == u \in Coro /\ cur[u] # NoState /\ ~armed[cur[u]] /\ mtx[u]

(* The locks a user has: those it knows of and the one it was granted. *)
Claim(u) == depth[u] + (IF Granted(u) THEN 1 ELSE 0)

(* Outside unlock(), _owner and _counter tell exactly who has the mutex    *)
(* and how often: no user believes it holds a mutex that another owns, no  *)
(* lock is owned by a waiter that was told it timed out, and no release    *)
(* is lost (mutex_v2.cpp, unlock and on_timeout racing on _value).         *)
OwnerIsHolder ==
  latch = NoUser =>
    \A u \in User : Claim(u) = IF u = owner THEN counter ELSE 0

(* A mutex left free by unlock() has nobody waiting for it: every waiter   *)
(* still in the queue has timed out.                                       *)
NoneForgotten ==
  latch = NoUser /\ owner = NoUser =>
    \A i \in 1..Len(waitq) : ~armed[waitq[i]]

Lock == INSTANCE ReentrantLock WITH held <- [u \in User |-> Claim(u)]

(* mutex_t implements a re-entrant lock, with a hand-over counted as the   *)
(* acquisition: the CAS in on_notify acquires, unlock()'s first step       *)
(* releases, and being resumed changes nothing.                            *)
ImplementsLock == Lock!Spec

(* A coroutine that waits in co_await lock() or try_lock_for() runs again, *)
(* with the mutex or with its timeout.                                     *)
WaiterRuns == \A c \in Coro : at[c] = "suspended" ~> at[c] = "run"
=============================================================================
