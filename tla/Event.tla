-------------------------------- MODULE Event --------------------------------
(***************************************************************************)
(* event_t: a counter of signals and a queue of waiters, under a spinlock. *)
(* Coroutines of One wait for one event (wait(), wait_for(), co_await),    *)
(* those of All for every event at once (wait_all(), wait_all_for()).      *)
(* Threads signal and reset.                                               *)
(*                                                                         *)
(* Two things do not take the spinlock: reset(), and the beginning of a    *)
(* timeout.  A waiter for one event settles signal against timeout by a    *)
(* compare-and-swap on _value; a waiter for all has a second spinlock.     *)
(*                                                                         *)
(* Each coroutine is on a scheduler of its own, whose thread runs its      *)
(* timeouts.  A wait without a timer is one whose timer does not fire, and *)
(* a timer that fires after the wait is over finds nothing to do, so       *)
(* timers need no variable.  Each wait has a state object of its own;      *)
(* since no queue keeps one past the end of its wait, it goes by the       *)
(* coroutine's name.                                                       *)
(***************************************************************************)
EXTENDS Integers, Sequences, FiniteSetsExt, SequencesExt

CONSTANTS
  N,              \* the number of events
  One, All,       \* the coroutines that wait for one and for all events
  Thread,
  NoOne,
  MaxCount,       \* bound on the signals nobody has used
  MaxResets       \* bound on the calls of reset()

Event == 1..N
Coro == One \union All

ASSUME CountsAssumption == N \in Nat \ {0} /\ MaxCount \in Nat \ {0} /\ MaxResets \in Nat
ASSUME ActorsAssumption ==
  One \intersect All = {} /\ Coro \intersect Thread = {} /\ NoOne \notin Coro \union Thread

VARIABLES
  counter,        \* event_v2_impl::_counter
  waitq,          \* event_v2_impl::_wait_awakes
  lock,           \* who holds event_v2_impl::_lock
  at,             \* where a coroutine is
  probe,          \* where it is in try_wait_one()
  ev,             \* the event it waits for, or the _Hard_lock of its batch lock
  armed,          \* state_event_t::_value is not null
  left,           \* state_event_all_t::_counter
  first,          \* the events with a proxy in state_event_all_t::_values
  slock,          \* state_event_all_t::_lock is held by on_timeout()
  result,         \* what the last wait came back with
  doing,          \* where a thread is: "idle", or in signal() or signal_all()
  target,         \* the event it signals
  hand,           \* the waiter for all that it has popped
  resets          \* how often reset() was called

eventVars == <<counter, waitq, lock>>
coroVars == <<at, probe, ev, result>>
stateVars == <<armed, left, first, slock>>
threadVars == <<doing, target, hand>>
vars == <<eventVars, coroVars, stateVars, threadVars, resets>>

(* "first", "second": in await_ready() or await_suspend(), with the lock;  *)
(* "between": in neither; "locking", "trying": in the batch lock of        *)
(* wait_all; "asleep": suspended; "expired": in on_timeout(); "ready": in  *)
(* the queue of its scheduler.                                             *)
Where == {"run", "first", "between", "second", "locking", "trying", "asleep",
          "expired", "ready"}

Init ==
  /\ counter \in [Event -> {0, 1}]
  /\ waitq = [e \in Event |-> <<>>]
  /\ lock = [e \in Event |-> NoOne]
  /\ at = [c \in Coro |-> "run"]
  /\ probe = [c \in Coro |-> "load"]
  /\ ev = [c \in Coro |-> 1]
  /\ armed = [c \in One |-> FALSE]
  /\ left = [d \in All |-> 0]
  /\ first = [d \in All |-> {}]
  /\ slock = [d \in All |-> FALSE]
  /\ result = [c \in Coro |-> FALSE]
  /\ doing = [t \in Thread |-> "idle"]
  /\ target = [t \in Thread |-> 1]
  /\ hand = [t \in Thread |-> NoOne]
  /\ resets = 0
-----------------------------------------------------------------------------
Goes(c, where) == at' = [at EXCEPT ![c] = where]

(* Mutant: the spinlock does not exclude. *)
BugAcquire(x, e) == lock' = [lock EXCEPT ![e] = x]

Acquire(x, e) == lock[e] = NoOne /\ lock' = [lock EXCEPT ![e] = x]
Release(E) == lock' = [e \in Event |-> IF e \in E THEN NoOne ELSE lock[e]]

(* c waits for e: await_ready() takes the lock for its try. *)
Wait(c, e) ==
  /\ at[c] = "run"
  /\ Acquire(c, e)
  /\ ev' = [ev EXCEPT ![c] = e]
  /\ Goes(c, "first")
  /\ UNCHANGED <<counter, waitq, probe, result, stateVars, threadVars, resets>>

(* Mutant: await_suspend() does not try again. *)
BugSecondTry(c) ==
  /\ at[c] = "between"
  /\ lock[ev[c]] = NoOne
  /\ waitq' = [waitq EXCEPT ![ev[c]] = Append(@, c)]
  /\ armed' = [armed EXCEPT ![c] = TRUE]
  /\ Goes(c, "asleep")
  /\ UNCHANGED <<counter, lock, probe, ev, result, left, first, slock, threadVars, resets>>

(* await_suspend() takes it again for a second one. *)
SecondTry(c) ==
  /\ at[c] = "between"
  /\ Acquire(c, ev[c])
  /\ Goes(c, "second")
  /\ UNCHANGED <<counter, waitq, probe, ev, result, stateVars, threadVars, resets>>

Trying(c, step) == at[c] \in {"first", "second"} /\ probe[c] = step

(* The try fails: in await_suspend(), the coroutine joins the queue. *)
Fail(c) ==
  /\ \/ /\ at[c] = "first"
        /\ Goes(c, "between")
        /\ UNCHANGED <<waitq, armed>>
     \/ /\ at[c] = "second"
        /\ waitq' = [waitq EXCEPT ![ev[c]] = Append(@, c)]
        /\ armed' = [armed EXCEPT ![c] = TRUE]
        /\ Goes(c, "asleep")
  /\ Release({ev[c]})

(* try_wait_one() reads the counter, ... *)
TryLoad(c) ==
  /\ Trying(c, "load")
  /\ \/ counter[ev[c]] > 0 /\ probe' = [probe EXCEPT ![c] = "take"]
        /\ UNCHANGED <<waitq, armed, at, lock>>
     \/ counter[ev[c]] <= 0 /\ Fail(c) /\ UNCHANGED probe
  /\ UNCHANGED <<counter, ev, result, left, first, slock, threadVars, resets>>

(* ... takes one from it, in which only a reset() can disappoint it, ... *)
TryTake(c) ==
  /\ Trying(c, "take")
  /\ counter' = [counter EXCEPT ![ev[c]] = @ - 1]
  /\ \/ /\ counter[ev[c]] > 0
        /\ result' = [result EXCEPT ![c] = TRUE]
        /\ probe' = [probe EXCEPT ![c] = "load"]
        /\ Goes(c, "run")
        /\ Release({ev[c]})
     \/ /\ counter[ev[c]] <= 0
        /\ probe' = [probe EXCEPT ![c] = "undo"]
        /\ UNCHANGED <<result, at, lock>>
  /\ UNCHANGED <<waitq, ev, stateVars, threadVars, resets>>

(* ... and then gives it back. *)
TryUndo(c) ==
  /\ Trying(c, "undo")
  /\ counter' = [counter EXCEPT ![ev[c]] = @ + 1]
  /\ probe' = [probe EXCEPT ![c] = "load"]
  /\ Fail(c)
  /\ UNCHANGED <<ev, result, left, first, slock, threadVars, resets>>
-----------------------------------------------------------------------------
(* wait_all() locks all the events: one for good, then the others by       *)
(* trying, and it backs out of all when one of them is taken.              *)
WaitAll(d) ==
  /\ at[d] = "run"
  /\ ev' = [ev EXCEPT ![d] = 1]
  /\ Goes(d, "locking")
  /\ UNCHANGED <<eventVars, probe, result, stateVars, threadVars, resets>>

LockHard(d) ==
  /\ at[d] = "locking"
  /\ Acquire(d, ev[d])
  /\ Goes(d, "trying")
  /\ UNCHANGED <<counter, waitq, probe, ev, result, stateVars, threadVars, resets>>

NotHeld(d) == {e \in Event : lock[e] # d}

TryLock(d) ==
  /\ at[d] = "trying" /\ NotHeld(d) # {}
  /\ LET e == Min(NotHeld(d))
     IN  \/ Acquire(d, e) /\ UNCHANGED <<at, ev>>
         \/ /\ lock[e] # NoOne
            /\ Release(Event \ NotHeld(d))
            /\ ev' = [ev EXCEPT ![d] = e]
            /\ Goes(d, "locking")
  /\ UNCHANGED <<counter, waitq, probe, result, stateVars, threadVars, resets>>

Missing == {e \in Event : counter[e] <= 0}

(* Under all the locks it takes a signal of each event that has one and    *)
(* leaves a proxy in the queue of each that has not.                       *)
AwaitAll(d) ==
  /\ at[d] = "trying" /\ NotHeld(d) = {}
  /\ counter' = [e \in Event |-> IF counter[e] > 0 THEN counter[e] - 1 ELSE counter[e]]
  /\ waitq' = [e \in Event |-> IF e \in Missing THEN Append(waitq[e], d) ELSE waitq[e]]
  /\ left' = [left EXCEPT ![d] = Cardinality(Missing)]
  /\ first' = [first EXCEPT ![d] = Missing]
  /\ result' = [result EXCEPT ![d] = (Missing = {})]
  /\ Goes(d, IF Missing = {} THEN "run" ELSE "asleep")
  /\ Release(Event)
  /\ UNCHANGED <<probe, ev, armed, slock, threadVars, resets>>
-----------------------------------------------------------------------------
(* A thread calls signal() or signal_all(). *)
SignalBegin(t, e, how) ==
  /\ doing[t] = "idle"
  /\ counter[e] < MaxCount
  /\ Acquire(t, e)
  /\ doing' = [doing EXCEPT ![t] = how]
  /\ target' = [target EXCEPT ![t] = e]
  /\ UNCHANGED <<counter, waitq, coroVars, stateVars, hand, resets>>

(* A waiter was notified: signal() returns, signal_all() goes on. *)
Notified(t) ==
  \/ /\ doing[t] = "signal"
     /\ doing' = [doing EXCEPT ![t] = "idle"]
     /\ Release({target[t]})
  \/ /\ doing[t] = "signal_all"
     /\ UNCHANGED <<doing, lock>>

Pop(t) ==
  /\ doing[t] # "idle" /\ hand[t] = NoOne
  /\ waitq[target[t]] # <<>>
  /\ waitq' = [waitq EXCEPT ![target[t]] = Tail(@)]

(* Mutant: the signal goes to a waiter whose timeout was first. *)
BugPopOne(t) ==
  LET c == Head(waitq[target[t]])
  IN  /\ Pop(t)
      /\ c \in One
      /\ armed' = [armed EXCEPT ![c] = FALSE]
      /\ result' = [result EXCEPT ![c] = armed[c]]
      /\ IF armed[c] THEN Goes(c, "ready") ELSE UNCHANGED at
      /\ Notified(t)
      /\ UNCHANGED <<counter, probe, ev, left, first, slock, target, hand, resets>>

(* It pops a waiter for one event, whose on_notify() swaps _value: if the  *)
(* timeout was first, the next waiter's turn comes.                        *)
PopOne(t) ==
  LET c == Head(waitq[target[t]])
  IN  /\ Pop(t)
      /\ c \in One
      /\ \/ /\ armed[c]
            /\ armed' = [armed EXCEPT ![c] = FALSE]
            /\ result' = [result EXCEPT ![c] = TRUE]
            /\ Goes(c, "ready")
            /\ Notified(t)
         \/ /\ ~armed[c]
            /\ UNCHANGED <<armed, result, at, doing, lock>>
      /\ UNCHANGED <<counter, probe, ev, left, first, slock, target, hand, resets>>

(* It pops the proxy of a waiter for all, ... *)
PopAll(t) ==
  LET d == Head(waitq[target[t]])
  IN  /\ Pop(t)
      /\ d \in All
      /\ hand' = [hand EXCEPT ![t] = d]
      /\ UNCHANGED <<counter, lock, coroVars, stateVars, doing, target, resets>>

(* Mutant: the event that is signalled is not counted off. *)
BugNotifyAll(t) ==
  LET d == hand[t]
  IN  /\ d # NoOne /\ ~slock[d]
      /\ hand' = [hand EXCEPT ![t] = NoOne]
      /\ first' = [first EXCEPT ![d] = @ \ {target[t]}]
      /\ Notified(t)
      /\ UNCHANGED <<counter, waitq, coroVars, armed, left, slock, target, resets>>

(* ... and its on_notify() takes the second lock: the last of the events   *)
(* wakes the waiter.                                                       *)
NotifyAll(t) ==
  LET d == hand[t]
  IN  /\ d # NoOne /\ ~slock[d]
      /\ hand' = [hand EXCEPT ![t] = NoOne]
      /\ \/ /\ left[d] > 0
            /\ left' = [left EXCEPT ![d] = @ - 1]
            /\ first' = [first EXCEPT ![d] = @ \ {target[t]}]
            /\ \/ left[d] > 1 /\ UNCHANGED <<result, at>>
               \/ /\ left[d] = 1
                  /\ result' = [result EXCEPT ![d] = TRUE]
                  /\ Goes(d, "ready")
            /\ Notified(t)
         \/ /\ left[d] = 0
            /\ UNCHANGED <<left, first, doing, lock, result, at>>
      /\ UNCHANGED <<counter, waitq, probe, ev, armed, slock, target, resets>>

(* The queue is empty: signal() counts, signal_all() does not. *)
SignalEnd(t) ==
  LET e == target[t]
  IN  /\ doing[t] # "idle" /\ hand[t] = NoOne
      /\ waitq[e] = <<>>
      /\ \/ doing[t] = "signal" /\ counter' = [counter EXCEPT ![e] = @ + 1]
         \/ doing[t] = "signal_all" /\ UNCHANGED counter
      /\ doing' = [doing EXCEPT ![t] = "idle"]
      /\ Release({e})
      /\ UNCHANGED <<waitq, coroVars, stateVars, target, hand, resets>>

(* reset() stores zero without the lock. *)
Reset(e) ==
  /\ resets < MaxResets
  /\ resets' = resets + 1
  /\ counter' = [counter EXCEPT ![e] = 0]
  /\ UNCHANGED <<waitq, lock, coroVars, stateVars, threadVars>>
-----------------------------------------------------------------------------
(* Mutant: the timeout of a waiter for one event does not swap _value. *)
BugExpire(c) ==
  /\ at[c] = "asleep"
  /\ Goes(c, "expired")
  /\ UNCHANGED <<eventVars, probe, ev, result, stateVars, threadVars, resets>>

(* on_timeout() of a waiter for one event: the swap, ... *)
Expire(c) ==
  /\ armed[c]
  /\ armed' = [armed EXCEPT ![c] = FALSE]
  /\ Goes(c, "expired")
  /\ UNCHANGED <<eventVars, probe, ev, result, left, first, slock, threadVars, resets>>

(* ... and then, with the event's lock, remove_wait_list(). *)
ExpireEnd(c) ==
  /\ at[c] = "expired"
  /\ lock[ev[c]] = NoOne
  /\ waitq' = [waitq EXCEPT ![ev[c]] = RemoveFirst(@, c)]
  /\ result' = [result EXCEPT ![c] = FALSE]
  /\ Goes(c, "ready")
  /\ UNCHANGED <<counter, lock, probe, ev, stateVars, threadVars, resets>>

(* on_timeout() of a waiter for all takes the second lock ... *)
ExpireAll(d) ==
  /\ left[d] > 0 /\ ~slock[d]
  /\ slock' = [slock EXCEPT ![d] = TRUE]
  /\ left' = [left EXCEPT ![d] = 0]
  /\ result' = [result EXCEPT ![d] = FALSE]
  /\ Goes(d, "expired")
  /\ UNCHANGED <<eventVars, probe, ev, armed, first, threadVars, resets>>

(* ... and keeps it while it takes the lock of each event it still has a   *)
(* proxy at.                                                               *)
ExpireAllRemove(d) ==
  /\ at[d] = "expired" /\ first[d] # {}
  /\ LET e == Min(first[d])
     IN  /\ lock[e] = NoOne
         /\ waitq' = [waitq EXCEPT ![e] = RemoveFirst(@, d)]
         /\ first' = [first EXCEPT ![d] = @ \ {e}]
  /\ UNCHANGED <<counter, lock, coroVars, armed, left, slock, threadVars, resets>>

ExpireAllEnd(d) ==
  /\ at[d] = "expired" /\ first[d] = {}
  /\ slock' = [slock EXCEPT ![d] = FALSE]
  /\ Goes(d, "ready")
  /\ UNCHANGED <<eventVars, probe, ev, result, armed, left, first, threadVars, resets>>

(* The scheduler resumes c.  ~awaiter of a notified waiter calls           *)
(* remove_wait_list() once more, which needs the lock and finds nothing.   *)
Resume(c) ==
  /\ at[c] = "ready"
  /\ c \in One /\ result[c] => lock[ev[c]] = NoOne
  /\ Goes(c, "run")
  /\ UNCHANGED <<eventVars, probe, ev, result, stateVars, threadVars, resets>>
-----------------------------------------------------------------------------
OneStep(c) ==
  \/ SecondTry(c) \/ TryLoad(c) \/ TryTake(c) \/ TryUndo(c)
  \/ ExpireEnd(c) \/ Resume(c)

AllStep(d) ==
  \/ LockHard(d) \/ TryLock(d) \/ AwaitAll(d)
  \/ ExpireAllRemove(d) \/ ExpireAllEnd(d) \/ Resume(d)

SignalStep(t) == PopOne(t) \/ PopAll(t) \/ NotifyAll(t) \/ SignalEnd(t)

Next ==
  \/ \E c \in One : OneStep(c) \/ Expire(c) \/ \E e \in Event : Wait(c, e)
  \/ \E d \in All : AllStep(d) \/ ExpireAll(d) \/ WaitAll(d)
  \/ \E t \in Thread :
       SignalStep(t) \/ \E e \in Event, how \in {"signal", "signal_all"} : SignalBegin(t, e, how)
  \/ \E e \in Event : Reset(e)

Spec == Init /\ [][Next]_vars

(* Who is inside a call gets on with it; a spinlock that is free again and *)
(* again is had in the end.  Nobody has to call.                           *)
Fairness ==
  /\ \A c \in One : SF_vars(OneStep(c))
  /\ \A d \in All : SF_vars(AllStep(d))
  /\ \A t \in Thread : SF_vars(SignalStep(t))

FairSpec == Spec /\ Fairness
-----------------------------------------------------------------------------
TypeOK ==
  /\ counter \in [Event -> -1..MaxCount]
  /\ waitq \in [Event -> Seq(Coro)]
  /\ lock \in [Event -> Coro \union Thread \union {NoOne}]
  /\ at \in [Coro -> Where]
  /\ probe \in [Coro -> {"load", "take", "undo"}]
  /\ ev \in [Coro -> Event]
  /\ armed \in [One -> BOOLEAN]
  /\ left \in [All -> 0..N]
  /\ first \in [All -> SUBSET Event]
  /\ slock \in [All -> BOOLEAN]
  /\ result \in [Coro -> BOOLEAN]
  /\ doing \in [Thread -> {"idle", "signal", "signal_all"}]
  /\ target \in [Thread -> Event]
  /\ hand \in [Thread -> All \union {NoOne}]
  /\ resets \in 0..MaxResets

(* The wait of c can still be answered, by a signal or by its timeout. *)
Live(c) == IF c \in One THEN armed[c] ELSE left[c] > 0

(* Whoever is suspended can still be woken, and nobody else can: a wait is *)
(* answered once, by the signal or by the timeout, whichever swaps _value  *)
(* or takes the second lock first (on_notify against on_timeout).          *)
AsleepIffLive == \A c \in Coro : at[c] = "asleep" <=> Live(c)

(* The proxies of e's queue, one of which may be in a thread's hand. *)
ProxyAt(d, e) ==
  \/ \E i \in 1..Len(waitq[e]) : waitq[e][i] = d
  \/ \E t \in Thread : hand[t] = d /\ target[t] = e

(* wait_all() counts right: what is left is the number of the events whose *)
(* signal has not come, and of those alone it has a proxy in a queue       *)
(* (state_event_all_t::_counter and _values).                              *)
ProxiesCounted ==
  \A d \in All :
    left[d] > 0 => /\ first[d] = {e \in Event : ProxyAt(d, e)}
                  /\ left[d] = Cardinality(first[d])

(* Nobody waits beside a signal: a wait that finds the event signalled     *)
(* comes back at once, and is suspended otherwise until the next signal    *)
(* (event_v2.h:69-70 says so of wait()).                                   *)
NobodyWaitsBesideASignal ==
  \A e \in Event : lock[e] = NoOne /\ counter[e] > 0 =>
    \A i \in 1..Len(waitq[e]) : ~Live(waitq[e][i])

(* The waiters of e that can still be answered: the proxies in a thread's  *)
(* hand, and behind them the queue.                                        *)
InHand(e) == {hand[t] : t \in {u \in Thread : target[u] = e}} \ {NoOne}
InQueue(e) == {c \in Coro : \E i \in 1..Len(waitq[e]) : waitq[e][i] = c}

Precedes(b, c, e) ==
  \/ b \in InHand(e) /\ c \in InQueue(e)
  \/ \E i, j \in 1..Len(waitq[e]) : i < j /\ waitq[e][i] = b /\ waitq[e][j] = c

Waiters(e) == {c \in InHand(e) \union InQueue(e) : Live(c)}

Answer(c) ==
  IF at[c] \in {"first", "between", "second", "locking", "trying"} THEN "asking"
  ELSE IF at[c] = "asleep" THEN "waiting"
  ELSE IF at[c] # "expired" /\ result[c] THEN "passed" ELSE "out"

Unused ==
  [e \in Event |->
     counter[e] + IF \E c \in One : ev[c] = e /\ probe[c] = "undo" THEN 1 ELSE 0]
Waiting == [e \in Event |-> Waiters(e)]
Ahead == [e \in Event |-> {p \in Waiters(e) \X Waiters(e) : Precedes(p[1], p[2], e)}]
Answers == [c \in Coro |-> Answer(c)]

Signals == INSTANCE CountingSignal WITH
  Object <- Event, Client <- Coro, Caller <- Thread,
  count <- Unused, waiting <- Waiting, ahead <- Ahead, answer <- Answers,
  call <- doing, about <- target

(* Every signal() lets the client pass that has waited longest of those    *)
(* whose timeout did not come first, or is counted, and is then had by one *)
(* client; no client passes without, and wait_all() passes with one of     *)
(* each event: through expired waiters in the queues, threads that signal  *)
(* at once, the batch lock, and one reset() in the middle of a try.        *)
ImplementsSignals == Signals!Spec

(* The thread of a coroutine gets through its timeout (tutorial            *)
(* test_async_event.cpp:10: whoever signals does not block the thread the  *)
(* coroutine is in).                                                       *)
TimeoutReturns == \A c \in Coro : at[c] = "expired" ~> at[c] = "ready"
=============================================================================
