# A verification development for librf

librf is a stackless-coroutine library for C++20: coroutines (`future_t`), objects that
a callback completes later (`awaitable_t`), a scheduler per thread (`scheduler_t`), and
what coroutines synchronise with: mutex, channel, event, timers, stop tokens, `when_all`
and `when_any`. The modules in this directory are TLA+ specifications translated from its
source, with TLC configurations, abstract specifications that the detailed ones are shown
to implement, and proofs checked by TLAPS.

    tlc -workers 2 -config MCFuture.cfg MCFuture      # a run
    tlapm MutexProofs.tla                             # a proof

`PROJECT.json` lists the runs, which source lines each definition stands for (`map`), the
hazards of the code with the properties that cover them, for each property a mutant of
the model that violates it, the findings and the theorems.

## 1. Inventory

Paths are relative to `src/include/librf/src/`, or to `src/source/` for `.cpp` files.

| Component (files) | State | Operations | Speaks to | Hard | Correct when |
|---|---|---|---|---|---|
| futures, awaitables, promises (`state.h`, `state.inl`, `state.cpp`, `future.h`, `awaitable.h`, `promise.h`, `promise.inl`) | `state_future_t`: `_scheduler`, `_coro`, `_parent`, `_is_initor`, `_has_value`, the value or exception, `_mtx` | `co_await` (await_transform, await_ready, future_await_suspend), set_value, set_exception, co_yield, co_return, final_suspend, resume | scheduler: add_generator, del_final | any thread completes an awaitable between any two of the three calls of `co_await`; the first two take no lock | a completion is never lost; a coroutine goes on once, after the result is there; it is destroyed after its end |
| scheduler and tasks (`scheduler.h/.cpp`, `rf_task.h/.cpp`) | `_runing_states`, `_cached_states`, `_ready_task`, two spinlocks, a timer manager | new_task (`go`), add_generator, run_one_batch, run_until_notask, del_final, del_switch, add_switch, request_stop_all_if_possible | every state | other threads queue states; queue and dictionary are read under different locks | what is queued is resumed; the loop ends when, and only when, all tasks are done |
| moving between schedulers, yield (`switch_scheduler.h`, `yield.h`) | none of their own | `co_await via(sched)`, `co_await yield()` | scheduler, state | in a nested call, all callers and the task of the root must move, between two threads | code after `via` runs on the other thread; the task is never lost |
| mutex (`mutex_v2.h/.inl/.cpp`, `mutex.h`) | `_owner`, `_counter`, `_wait_awakes`, `_lock`; per wait `_value`, `_thandler`, `_root` | lock, try_lock, try_lock_for/until of coroutines and of threads, unlock, on_notify, on_timeout | scheduler, timer | unlock() hands over while the waiter times out on another thread | mutual exclusion, counted; nobody is forgotten |
| lock of several mutexes (`without_deadlock_assemble.inl`, `batch_lock_t` in `spinlock.h`) | which are held | lock one, try the others, back off | mutex | backing off, starting again elsewhere | all or none are held at the end; nobody waits on everybody |
| channel (`channel_v2.h/.inl`, `channel.h`) | `_values`, `_read_awakes`, `_write_awakes` | read, write, of coroutines and of threads | scheduler, ring queue, link queue | suspending against a notifier on another thread; capacity 0 | no value lost, doubled or reordered; nobody waits beside what it waits for |
| ring queue (`ring_queue.h`) | buffer, two indices | try_push, try_pop, observers | channel | wrap-around, unsigned arithmetic | a bounded first-in first-out queue |
| intrusive link queue (`intrusive_link_queue.h`) | head, tail, count | push_back, push_front, try_pop, erase | channel, event, mutex | pointers | a sequence |
| event (`event_v2.h/.inl/.cpp`) | `_counter`, `_wait_awakes`, per wait `_value` | signal, signal_all, reset, wait, wait_for, wait_all, wait_any | scheduler, timer | two locks in two orders in wait_all; `reset` takes no lock | a signal wakes one waiter or stays; nobody is forgotten |
| timer and sleep (`timer.h/.cpp`, `sleep.h/.cpp`) | `_added_timers`, `_runing_timers`, `st` of a timer | add, stop, update, clear | scheduler, mutex, event | stop() takes no lock | a callback runs at most once; not after an effective stop |
| stop token (`stop_token.h`) | one word: two counts, two flags; a list of callbacks | request_stop, register, deregister | scheduler | deregistering during the call, from it or beside it | each callback runs at most once and not after its deregistration |
| `when_all`, `when_any` (`when_v2.h/.cpp`, `when.h`) | a counter or an index, `_value` | start children, count down, resume the parent | scheduler | children on another scheduler; children that throw | the parent goes on once, after all, or after the first |
| generator (`generator.h`), `_awaker.h` | the promise's value; a list of awakers | resume, iterate, cancel | state | one body, two ways of running it | values come in order |
| spinlock (`spinlock.h`) | a word | lock, try_lock, unlock | all | none but time | mutual exclusion |
| current scheduler, counted_ptr, exceptions, traits (`current_scheduler.h`, `counted_ptr.h`, `exception.inl`, ...) | a reference count | reads, conversions | all | lifetime | an object lives while it is referred to |

The tutorials, benchmarks, `modern_cb`, and the asio glue use the library. They are read
for what they say that the library does.

How the parts meet: everything that wakes a coroutine (set_value, an unlock, a written
value, a signal, a timer) ends in `scheduler_t::add_generator`, which appends a state to a
queue under a spinlock. Only the thread that runs the scheduler takes states from it and
resumes them. So every race in this library is between a waking thread and the coroutine
on its way to sleep, or between two waking threads (a notifier and a timeout).

## 2. Plan

Written (in this order of importance: what every other component relies on comes first):

1. `Future` (abstract: `Completion`): states, schedulers and what runs on them.
2. `Mutex` (abstract: `ReentrantLock`) and `MutexProofs`.
3. `Channel` (abstract: `MatchQueue`) over a bounded buffer.
4. `RingQueue` (abstract: `BoundedFifo`) and `RingQueueProofs`: that buffer.
5. `Event` (abstract: `CountingSignal`): waits for one event and for all, and the batch lock
   of several spinlocks.

6. `Timer` (abstract: `Alarms`): what every timeout and `sleep_for` rest on.
7. `StopState` (abstract: `StopSignal`): the word, the callbacks, `request_stop`.
8. `When` (abstract: `Join`): `when_all` and `when_any`.
9. `LockRange`: several mutexes, which are those of `Mutex` without timeouts.
10. `Generator` (abstract: `Turns`): in a loop, and as a task.
11. `LinkQueue` (abstract: `Deque`): the list in which everything waits.
12. `Tasks`, which composes 6 to 10 into programs of one scheduler.

To come, in order:

13. In `Future`: co_yield of a coroutine that is awaited.
14. In `Tasks`: request_stop_all_if_possible with its lock around the callbacks and with the
    dictionary of tasks.

Runs are kept few: a module of the plan gets one run that holds its properties, and one more
only where a disagreement with the documentation must be shown.

Proofs, all written (section 6): `MutexProofs`; `RingQueueProofs`, for the ring and the list;
`ChannelProofs`, `FutureProofs`, `EventProofs`, `TimerProofs`; `TasksProofs`, for 7 to 10 and 12;
`QueueLemmas`, what they share.

## 3. The modules

### Future

*Actors.* Each scheduler of `Sched` has a thread, which calls `run_until_notask()` again
and again; the coroutine it is in is `on[s]`. Any other thread completes an awaitable
(`SetBegin`, `SetEnd`) at any time.

*State.* `running`, `cached` and `ready` are `_runing_states`, `_cached_states` and the
keys of `_ready_task`. `scheduler`, `coro`, `parent`, `initor`, `hasValue`, `exception`
are the members of a state, and `setting` says that a thread is inside `set_value()` with
`_mtx` held. A coroutine and its state have one name. The state that `yield()` and
`via()` make up, which is born with a value and dies after it was resumed, is `Ticket(c)`.

*Actions.* The three calls of `co_await` are three steps, because only the third takes
`_mtx` and other threads run in between. `set_value()` is two, because it stores the value
and then looks at `_scheduler`, which await_transform writes without the lock: whoever
needs `_mtx` waits for the second step, whoever does not sees the state in between.
`new_task()` is two (set_scheduler, then emplace under the dictionary's lock), `via()` is
two (moving, then queueing), `return_value()` and `final_suspend` are two,
run_until_notask is `TakeBatch` or `NoBatch`, `Resume` for each state of the batch, and
`CheckTasks`.

| Action | Code |
|---|---|
| SetBegin, SetEnd | `state_t<_Ty>::set_value`, `set_exception` and their `state_t<void>` forms |
| Launch, Emplace | `scheduler_t::new_task` |
| AwaitTransform, AwaitReady, AwaitSuspend | `promise_impl_t::await_transform`, `future_t::await_ready`, `state_future_t::future_await_suspend` |
| Yield, CoYield | `yield()`, `promise_yield_value` |
| SwitchBegin, SwitchEnd | `switch_scheduler_awaitor`, `switch_scheduler_await_suspend`, `del_switch`, `add_switch` |
| Return, FinalSuspend | `promise_return_value`, `promise_final_suspend` |
| Start, TakeBatch, NoBatch, CheckTasks, Resume | `run_until_notask`, `run_one_batch`, `state_future_t::resume` |

*Left out or merged.* Timers (they wake nobody here). The two dictionary locks that
`via()` takes in turn are one step; what is in between (a task in no dictionary) is seen
by nobody, since the thread that could look is the one in `via()`, or finds its own task
absent either way. Each state is awaited at most once (a second await of a copied future is
in the hazards), or started as a task, and `go` is used on the scheduler's own
thread. co_yield is that of a coroutine nobody awaits. Since await_transform has set
`_scheduler` before `future_await_suspend` runs, the search for the scheduler through the
parents is never taken.

`Completion` is what `co_await` promises: no coroutine goes on before what it awaits has
finished.

### Mutex

*Actors.* Coroutine chains (`get_root()` of a chain is the owner) and native threads (which
lock with a unique address). *State.* `owner`, `counter` and `waitq` are `_owner`,
`_counter`, `_wait_awakes`; `rootOf`, `armed` and `timer` are the members of a
`state_mutex_t` (`armed`: `_value` is not null, so that neither a notification nor a timeout
has won yet); `depth` counts what a user was told it holds. *Actions.* `_lock` covers all
operations, so `TryLock` and `LockSuspend` are one step. The one thing that does not take it
is `OnTimeout`, which runs on the waiter's scheduler and meets `unlock()` in a
compare-and-swap; so `unlock()` is cut where that can show: `Unlock`, then per waiter
`UnlockPop`, `UnlockRollback` or `UnlockNotify`, then `UnlockWake`, or `UnlockEnd`. A timer is
stopped from a foreign thread without a lock, so it may still fire after the wait
(`late` in `UnlockWake`). *Bound.* `MaxDepth` caps recursive locks.

`ReentrantLock` is the promise: one user at a time, free after as many releases. A lock
counts as held from the moment `on_notify` wins the swap.

### Channel

*Actors.* Reading and writing coroutines, and native threads, which spin in the destructor
of the awaiter until a try succeeds. *State.* `values`, `readAwakes`, `writeAwakes` as in the
code, `readVal` and `writeVal` the values in the awaiters. *Actions.* A coroutine begins a
call, and then the try of `await_ready()` (compiled in with `_OptimizationThread`) or the try
and the queueing of `await_suspend()` runs under the lock: `ReadAtOnce`, `ReadSuspend` and the
same for writes. `TryRead` and `TryWrite` contain the wake-ups of the other side, which the
code makes under the same lock. `MatchQueue` is the promise, at every capacity: reads and
writes are matched in the order they are accepted. The read of a
native thread is a `Drop` of the oldest value there, so a channel that lost the oldest value of all
would pass for one that a thread has read; a value lost further behind, doubled or overtaken is
caught.

### Event

*Actors.* Coroutines of `One` wait for one event at a time (`wait()`, `wait_for()`), those of
`All` for every event at once (`wait_all()`, `wait_all_for()`); threads signal; anybody resets.
*State.* `counter`, `waitq`, `lock` are `_counter`, `_wait_awakes`, `_lock` of each event. A
wait for one has `armed` (`_value` is not null), a wait for all has `left` (`_counter` of
`state_event_all_t`), `first` (the events whose entry of `_values` has a proxy) and `slock` (its
`_lock`, in the hands of `on_timeout()`). `at` says where a coroutine is, `probe` where in
`try_wait_one()`, `doing`, `target` and `hand` where a thread is in `signal()`.

*Actions.* What runs under an event's lock is cut only where something that does not take that
lock can come in between, and there are three such things. `Reset` stores a zero, so
`try_wait_one()` is three steps (`TryLoad`, `TryTake`, `TryUndo`). `Expire` swaps `_value`, so
`signal()` is a step per waiter that it pops. `ExpireAll` holds a state's lock and wants the
event's, so `PopAll` and `NotifyAll` are two. Hence the spinlocks are variables, and whoever
finds one taken has to wait.

| Action | Code |
|---|---|
| Wait, SecondTry, TryLoad, TryTake, TryUndo | `awaiter::await_ready`, `await_suspend2`, `try_wait_one` |
| WaitAll, LockHard, TryLock, AwaitAll | `all_awaiter::await_suspend2`, `batch_lock_t`, `_Lock_attempt`, `_Try_lock_range` |
| SignalBegin, PopOne, PopAll, NotifyAll, SignalEnd | `signal`, `signal_all`, `state_event_t::on_notify`, `state_event_all_t::on_notify` |
| Reset | `reset` |
| Expire, ExpireEnd | `state_event_t::on_timeout`, `remove_wait_list` |
| ExpireAll, ExpireAllRemove, ExpireAllEnd | `state_event_all_t::on_timeout`, `remove_wait_list` |
| Resume | the scheduler, `await_resume`, `~awaiter` |

*Left out or merged.* Every coroutine has a scheduler, hence a thread for its timeouts, of its
own. A timer that fires after its wait is over does nothing, so timers are no state. The
`try_wait_one()` calls of `wait_all()`, under all locks, are one step, into which no reset
falls; so are the releases when the batch lock backs off. The state's own lock in that batch
is left out: nobody else knows the state yet. `wait_all()` of no events, which is ready at
once, and `wait_any`, which asserts that it is flawed, are left out. *Bounds.* `MaxCount`
caps the unused signals and `MaxResets` the resets.

`CountingSignal` is the promise. A call of `signal()` has one effect: the client that has waited
longest at that event has its signal, or, when none waits, the signal is counted; so it is not
swallowed, and nobody is overtaken. `signal_all()` lets all have theirs and counts nothing. A
client that asks takes one signal of each of its events that has one and waits for the others; it
passes when it waits nowhere any longer, and in no other way. It may give up instead, which is the
timeout, and then no signal is given to it. Only a reset takes signals away that nobody had. In the
mapping a client waits while its wait can still be answered (`Waiters`: it is in the queue or in a
thread's hand, and its timeout has not come first), it has passed when its wait came back with
"signalled" (`Answer`), and `ahead` is the order of the queue, behind what a thread has in its hand
(`Precedes`); a signal that a failed try has taken is still counted. A signal that goes to an
expired waiter, out of turn, or to nobody violates it, and so does a wait that comes back with
"signalled" by a timeout.

### RingQueue

*State and actions.* The members and methods of `ring_queue.h`, with every index taken modulo
the width of `size_type`. The header comment (`ring_queue.h:5-6`) speaks of threads, but the class
takes no lock; its user, the channel, holds one around every call, so a call is a step.
`BoundedFifo` is the promise. `Channel` relies on it: its buffer is a sequence.

### LinkQueue

*State and actions.* `header` and `tailer`, the `_next` and `_prev` of the nodes, and the four
methods of `intrusive_link_queue.h`; as with the ring, the owner holds a lock around each. A node
is pushed only when it is in no queue, which is so for the waiters of channel, mutex and event;
`erase` comes at any time, because `remove_wait_list()` does not ask whether a signal has popped
the waiter. *Left out.* The count that a macro adds. `Deque` is the promise, and the list keeps
it along the links of either direction: what is read backwards from `_tailer` is the same deque. A
node may be put at either end there, so `Deque` does not tell `push_front` from `push_back`.

### Timer

*Actors.* The scheduler's thread, which calls `update()`, `clear()` and the callbacks; any
thread, which adds timers and stops them. *State.* `added`, `running` are `_added_timers` and
`_runing_timers` (a sequence in the order of the multimap), `moving` what is left of the local
`_atimer`, `st` the state of a timer, `outcome` how its callback was called; `clock` is time.

| Action | Code |
|---|---|
| Add | `add_`, `add_handler` |
| StopHere, StopElsewhere | `timer_manager::stop`, by the scheduler's thread between updates, by another at any time |
| UpdateBegin, MoveLook, MoveAct, MoveEnd | `update`, the loop over the added timers |
| DueLook, DueAct, DueEnd | `update`, the loop over those that are due, and the erase |
| Clear | `clear` |

`stop()` takes no lock, so `update()` is cut between its look at a state and what it does: a
stop from another thread that falls in between has no effect, even if it returned true. One by
the scheduler's own thread always has; this is the difference between "set" and "halted" in
`Alarms`. A callback may stop at most one other timer. *Left out.* `clear()` from another thread or
from inside a callback, which changes the map that a loop is in. *Bound.* `MaxClock`.

### StopState

*Actors.* Threads that own sources, tokens and callbacks. *State.* `requested`, `tokens`,
`sources` are the fields of `state_`, and `Word` is its value without the lock flag, because it
is compared to thresholds; `head`, `signalling` are `head_`, `signalling_`; `job`, `anyMore`,
`removed` are locals of `request_stop()`, `stage` where it is; `finished`, `isRemoved` the
members of a callback; `leaving` the callback that a thread has found out of the list in
`remove_callback()`. `deleted`: the state has deleted itself.

*Actions.* Each critical section is one action, so the lock flag is no variable. `request_stop()`
is `Request`, then for each callback `Call`, its body (in which its thread may do anything that
`Free` allows, destroying the callback included), `Return` and `Relock`. `Register` is the
constructor of a callback from a copied or a moved token. `Deregister` is the part of
`remove_callback()` under the lock, `Leave` the rest of it: the note to `request_stop()` on the
same thread, or the wait for `finished_executing_` on another. `CopySource`, `DropSource`,
`GetToken` and `DropToken` are the references. The model ends where the state is deleted, early
or not (finding 5). *Bounds.* `MaxSources`, `MaxTokens`. *Left out.* `make_sure_possible()`,
which makes the state that `StopInit` begins with when a task's source is first asked for.

`StopSignal` is the promise about callbacks: at most once, only after a request, and never after
the destructor has come back, unless that runs inside the callback itself.

### When

*Actors.* A parent and, for each child, its connector: the coroutine that awaits the child,
stores its value and counts down. All are on the scheduler that the call is given, which is the
parent's, as `when_v2.h:267` asks, so a step is what one does between two suspensions. *State.*
`counter` and `winner` are `_counter` and the index of the result; `value` are the children whose
values are in it; `parent` and `child` say where everybody is. *Actions.* `Begin`, `Results` (its
child has a value or an exception), `Finish` (with `on_notify_one()`), `Throw` (the exception
leaves the connector, and nobody is notified), `Await`, `GoOn`. The parent may come to `Await`
after all children are over: `await_ready()` is true then. The assertion in `on_notify_one()`
(`AssertFails`) denies it, and `Asserts` says whether the build has assertions; if so, the last
child to notify puts the parent in "aborted", and nobody takes another step (finding 6). `Join` is
the promise, in either build; it says nothing of a parent that is never woken, which `ParentGoesOn`
does, for a parent that suspends on the state, and with the exception that the code has: a child
that throws.

### LockRange

*Actors.* Chains of coroutines, and native threads, which spin where a coroutine would queue.
*State.* `holder`, `waitq` of each mutex; of a locker the mutexes in the order in which it named
them, `hard` (`_Hard_lock`), `next`, and in `back` what it is about to unlock. *Actions.*
`LockHard` waits for one mutex; `TryGet` and `TryFail` try the others in order; after a failed
try `Unlock` lets go of each that it has, in the order of the code, and `Unlocked` begins again
with the mutex that failed. The version for two mutexes, which is written apart, does the same.
`RangeUnlock` is the guard's. *Left out.* The catch clauses (no lock throws), timeouts, and
recursive use.

### Generator

*State.* `frame` is where the coroutine is, `currentValue` which operand `_CurrentValue` points
to; `iter`, `got` the iterator of a loop and what the loop has read; `cached`, `batch`, `ready`
are the scheduler's two vectors and its dictionary. *Actions.* `LoopBegin`, `LoopNext`, `Drop`
are `begin()`, `operator++` and the destructor, at the end or in mid-loop. `Go` makes a task of
it, and `ResumeTask` is `state_generator_t::resume()`: it queues itself again behind the others,
or it ends the task. A value that `co_return` gives to a coroutine that yields nothing is dropped
by `begin()`; `Turns` says so. The model takes the value for `_CurrentValue`, also after a
`co_return` of a temporary, where the code has a pointer to something that is gone.

### Tasks

Five kinds of programs, each made of parts that share the scheduler's thread; a part that a
program does not use stays as it begins. "sleep" composes `When` and `Timer`: the connectors'
children are `sleep_for()`, an awaitable and a timer whose callback completes it, and a `Clear`
in between (what request_stop_all_if_possible does to the timers) makes them throw. "lock"
composes `When` and `LockRange`: each child locks several mutexes and unlocks them, beside a
native thread. `Resume` is a step of the scheduler's thread, so it does not fall into `update()`.
"timers", "stop" and "generators" run one part with all that other threads may do to it.

## 4. The runs

| Run | Instance | Shows |
|---|---|---|
| `future` | 2 schedulers (interchangeable), coroutines p and q, an awaitable; q has a void state | `OneHandle`, `NothingForgotten`, `OwnThread`, `TaskKept`, `ReturnsWhenDone`, the refinement of `Completion` |
| `future_live` | 1 scheduler, the same coroutines and awaitable | `DueRuns` and `EndsWhenAllDone` under fairness |
| `future_void` | the same, the awaitable is an `awaitable_t<void>` | finding 1 |
| `future_bare_task` | the same, the awaitable may be a task by itself | finding 2 |
| `mutex` | 2 coroutine chains, a thread, 3 states, depth 2 | `OwnerIsHolder`, `NoneForgotten`, the refinement of `ReentrantLock`, `WaiterRuns` under fairness |
| `channel` | 2 readers, 2 writers, threads, 2 values, capacities 0, 1 and 2; apart from it a ring of capacity 3 in words of 5 values, and a list of up to 4 nodes | `NobodyWaitsInVain`, `QueuesHoldTheSuspended`, the refinement of `MatchQueue`, `EveryoneIsServed` under fairness; `ObserversAgree`, the refinements of `BoundedFifo` and of `Deque` |
| `event` | 2 events, a waiter for either, one for both, 2 interchangeable threads, a reset | `AsleepIffLive`, `ProxiesCounted`, `NobodyWaitsBesideASignal`, the refinement of `CountingSignal` |
| `event_reset` | 1 event, a waiter, a thread, 2 resets | finding 3 |
| `event_all_timeout` | 2 events, both waiters, a thread, no reset, fairness | finding 4 |
| `tasks` | 3 children that sleep for 0, 1 and 1; 3 other timers; 2 chains and a thread that lock up to 3 mutexes; 2 threads, 2 callbacks, 3 sources, 4 tokens; generators of 0, 1 and 2 yields | `TouchesOnlyLive`, `CallbacksRun`, `NoTimerLost`, `EveryTimerCalled`, `AllOrNothing`, `RangeLocked`, `ParentGoesOn`, the refinements of `StopSignal`, `Alarms`, `Join`, `Turns` |
| `when_assert` | the instance of `tasks`, in a build with assertions | finding 6 |
| `stop_lifetime` | 2 threads, a callback, 2 sources, 2 tokens | finding 5 |

*Why the bounds are enough.* `future`: every race here is between one coroutine, one completer
and at most two schedulers. With p calling q and q awaiting the awaitable, a call has a caller, a
callee and an operation, `via()` moves a chain of two with a task at its root, and one coroutine
can stay behind on the old scheduler. `mutex`: two chains and a thread give an owner, a waiter
and an outsider that takes the mutex between a release and a wake-up; three states let a
timed-out waiter stay in the queue while its coroutine waits again; depth two tells a recursive
lock from a first one. `channel`: two of each kind give a queue with an order, on both sides;
capacities 0, 1 and 2 are no buffer, full-or-empty, and one that is neither. The state spaces are
finite without further constraints. The ring and the list are in the same run, being what a channel
is made of, but a behaviour uses only one of the three (`part` in `MCChannel`): in a word one value
wider than the buffer, both indices of the ring take every position; the theorems lift it to every
size. Four nodes give a list with a head, a tail, and a middle in which a node has neighbours that
are neither. `event`: two events let a wait for all find one signalled and
not the other, be counted down by two threads at once, and back off from a lock in either order;
the two waiters share a queue, in which one may expire while the other is behind it; a signal may
be left over (`MaxCount` 1). One reset is enough to disappoint a try in progress; with two the
properties do not hold, which is finding 3. `tasks`:
timers of three kinds (due at once, due together, due together but stopped) are in the vector and
in the map when another is stopped; two clock readings are "before" and "after". Two callbacks
are one that runs and one still in the list, two threads one that runs it and one that destroys
either; 3 sources and 4 tokens let a callback's reference be the last, the last but one, or
neither. Two of the three lockers lock in one behaviour (`MaxLockers`), with two or three mutexes
in opposite orders, so that a try fails before and behind the hard one. A counter of three is one
that more than one child leaves above zero. Word widths: `kSourceRefIncrement` is small, but as
in the code the tokens that may exist do not reach it (`CountsAssumption`).

*Deadlock.* It is checked wherever the system cannot stop: a thread can always call
`run_until_notask()` again, and users always can make a call. With events the system really
may stop, when every thread is caught in finding 4. The programs of `tasks` come to their end (all
timers called, all lockers done, the stop state deleted), and so do those of `stop_lifetime`; in
`when_assert` an assertion that fails ends the program.

*Fairness.* `Future`: the threads of the schedulers and the coroutines on them get on (weak
fairness of each, since nothing but a mutex held for two steps disables them), the loop is called
again (it is called in a loop by every program of the repository that has a thread for it), and a
begun `set_value()` ends. Nobody has to complete an awaitable. `Mutex`: a thread in `unlock()`
goes on, schedulers resume what is ready, and a holder releases in the end (strongly fair for the
last of its locks, for a user that takes and releases an inner lock for ever would keep the outer
one). Timers need not fire. A waiter may be overtaken by users that take the mutex before it, but
not for ever: `unlock()` hands over directly. `Channel`: schedulers resume, a call gets on, and
readers and writers keep calling; threads need not. `Event` (only in `event_all_timeout`):
whoever is inside a call or a timeout gets on, and gets a spinlock that is free again and again;
so that what the run shows is no matter of luck: neither thread can take a step. `Tasks`: the
scheduler's thread calls `update()` for ever, time passes, and what is queued is resumed
(strongly fair, since `update()` comes in between: a batch resumes all that the last one left).
Whoever is inside `request_stop()`, waits for a callback to end, or is about to lock, try or
unlock, gets on, and a locker lets go of what it got. Nobody has to stop, add or lock anything.
Two lockers whose orders clash may back off for ever under any fairness of single steps: only the
random number of turns in `_Yield()` ends it. So `RangeLocked` promises a locker its mutexes once
the others stay idle, and `ParentGoesOn` excepts behaviours that back off again and again.

## 5. Findings

1. **An exception given to an `awaitable_t<void>` before it is awaited is lost.**
   `state_t<void>::set_exception` (`state.cpp:221`) stores the exception and leaves `_has_value`
   as it was, unlike `state_t<_Ty>`. A coroutine that then awaits it finds `is_ready()` false
   and sleeps for ever. `awaitable.h:74` says that the coroutine goes on. Run `future_void`.
2. **An awaitable that is complete before it is a task keeps the scheduler running for ever.**
   `new_task` (`scheduler.cpp:104`) puts it into `_ready_task` and nothing takes it out again.
   `test_async_cb.cpp:90` says that the scheduler should handle this case. Run
   `future_bare_task`.

Both are why `future_live` has a non-void awaitable which is not a task: there everything holds.

3. **Two resets around a failed try leave a signal nobody gave.** `reset()` (`event_v2.cpp:206`)
   stores zero without the lock. When one comes before a waiter's `fetch_add(-1)` and another
   before the `fetch_add(1)` that makes up for it (`event_v2.inl:35-37`), the counter ends at one,
   with that waiter asleep in the queue. `event_v2.h:69-70` says that a wait returns at once when
   the event is signalled. Run `event_reset`.
4. **A timeout of `wait_all_for()` and a signal lock each other out.** `on_timeout()` has the
   state's lock and wants the event's (`event_v2.cpp:129`), `signal()` has the event's and wants
   the state's (`event_v2.cpp:81`): both threads spin for ever, and one is a scheduler's.
   `test_async_event.cpp:10` says that signalling does not block the thread the coroutine is in.
   Run `event_all_timeout`.
5. **A stop state deletes itself under its source.** A callback that leaves the list deletes the
   state when the word was below `kLockedAndZeroRef` (`stop_token.h:126`), which is twice `kZeroRef`
   and not `kZeroRef` with the lock flag: a source may be there still, and tokens. When the
   last source goes, the state is deleted only if there are no tokens; but the next token dropped
   then deletes it, however many tokens remain (141). The tutorial
   `test_async_stop_token.cpp:77` says that a copied source outlives its task. Run `stop_lifetime`.
   `CallbacksRun` and `TouchesOnlyLive` hold up to that point.
6. **An assertion denies what `await_ready()` provides for.** `on_notify_one()` asserts that the
   state has a scheduler (`when_v2.cpp:42`: `assert(this->_scheduler != nullptr)`), which only
   `on_await_suspend()` gives it (`when_v2.h:42`). A parent that awaits the state later, for it has
   awaited something else, may find all children over, and then `await_ready()` (`when_v2.h:71`) is
   true. In a build with assertions the last child has aborted the program by then. Without them
   nothing is wrong: `ImplementsJoin` holds. Run `when_assert`.

## 6. What is proved

All proofs are for every value of the constants, under the named assumptions of the modules.

**Mutex** (`MutexProofs`; `UsersAssumption`: coroutines, threads and the null values are
distinct; `DepthAssumption`: the bound is positive). `OwnerIsHolder` speaks of the moments
when `_lock` is free and is not inductive: what happens inside `unlock()` must be said too. The
invariant `Inv` has these parts: `TypeOK`; `PhaseInv`, which says what `_owner` and `_counter`
are at each point of unlock()'s loop (nobody while it looks for a waiter, the popped one with
a count of one after); `WaitInv`, which ties states to coroutines (an armed state is the one its
coroutine is suspended on, with a result of "locked"; a late timer finds its state disarmed);
`ClaimInv`, which extends `OwnerIsHolder` to all phases (during "notify" the ownership is lent
to a waiter that may have timed out, and claims nothing); and `NoneForgotten` itself. One
lemma per part shows that each step keeps it, with a case per action. Theorems: `TypeCorrect`,
`OwnerCorrect`, `NoneForgottenCorrect`, and `Refinement`: each step is an acquisition (TryLock,
UnlockNotify), a release (Unlock) or a stutter of `ReentrantLock`.

**RingQueue** (`RingQueueProofs`; `WordAssumption`, `SizeAssumption`: the requested size is
smaller than the greatest value of `size_type`, as the constructor asserts; `NoItemAssumption`).
`RingTypeOK` is inductive by itself (indices stay inside the buffer). That needs lemmas that say
that, under `SizeAssumption`, no arithmetic of the class overflows in effect: `Sizes`,
`NextIndex`, `Size`. Theorems: `TypeCorrect`, `ObserversCorrect`, and `Refinement`, by the
lemmas that a push appends to the contents and a pop takes their head.

**LinkQueue** (in `RingQueueProofs` too; `NodeAssumption`: the nodes are finite, and the null
pointer is none of them). The invariant `LinkInv` says that there is a sequence of distinct nodes
(`Listed`) which `_header` and the `_next` links spell forwards, `_tailer` and the `_prev` links
backwards, and that a node which is not in it points to nothing (`Free`: this is why erasing a node
that is out does no harm). One lemma per operation says what becomes of that sequence
(`PushBackFacts`, `PushFrontFacts`, `EraseFacts`, `PopFacts`; the last two have `UnlinkFacts` in
common). `Walk`, which reads the sequence off the links, is a recursive function: `WalkIs` gives a
function that satisfies its equation and shows, by the first place at which another would differ,
that no other does. Theorem: `LinkRefinement`.

**Queues** (`QueueLemmas`). What the proofs about everything that waits in a queue need of sequences:
whether an element stands in one, once or more than once (`Stands`, `Single`, `Double`), after an
append, after the head is taken, in the concatenation of two, and after one node is erased
(`ErasedAt`, `Erased`), and what stands before what (`Before`). The first place of a node and the first of a set of events are a `Min`, which
is there because the order of the naturals is well-founded (`Smallest`, from the library's theorem
about subset orderings, which needs no operator as a parameter).

**Channel** (`ChannelProofs`; `CapacityAssumption`: any capacity, 0 included). `NobodyWaitsInVain`
and `QueuesHoldTheSuspended` are inductive together with three facts: `QueuedOnce` (nobody stands
in a queue twice, so that a notifier that pops somebody leaves nothing of them behind),
`WritersHaveValues` (a writer in the queue still has the value that a reader will take from it)
and `ReadersRead` (nobody is at once in a read and in a write). The work is in `TryRead` and
`TryWrite`, which make the wake-ups of the other side: a lemma each. Theorems: `TypeCorrect`,
`WaitsCorrect`, `QueuesCorrect`, and `Refinement`: what `MatchQueue` calls its row is the buffer
followed by the values of the queued writers (`Row`); each step of the channel takes from its
front, puts at its end, does both, or leaves it.

**Future** (`FutureProofs`; `NamesAssumption`: coroutines, awaitables and the null value are
distinct). None of the properties is inductive, and they need each other. The invariant `Inv`:

- `Threads`: a thread is in one coroutine, and a coroutine in the code of one thread, that of its
  scheduler unless it is between the halves of `via()` (`OwnThread` is half of it).
- `Lives`: `_is_initor`, `_has_value`, `_scheduler` and `_parent` agree with where the coroutine
  is in its life, and `set_value()` is in progress only where the value is stored already.
- `OneHandle`, which a run checks.
- `Waits`: a state is awaited by one coroutine, which is its parent and in the same scheduler
  (the other half of `OwnThread`). It is what makes `resume()` safe: the handle in a state is that
  of its parent.
- `Launches`: while `new_task()` is between its steps, nobody else knows the state.
- `Rooted`: every set of unfinished coroutines has one whose parent is outside the set, that is:
  callers end in a root. It is said with sets since chains of any length are induction.
- `Queues` and `Served`: what stands in a queue is of use there, and whoever is due stands in one.
  A coroutine that is final stands there once more than its caller needs, to be destroyed after
  the caller has read its result: hence the counting in `QueueLemmas`.
- `Kept`: an unfinished coroutine has a task if and only if it has no caller (`TaskKept`).

One lemma per part has a step for each action; the effects of an action on the queues are a lemma
of their own (`PutFacts`, `TookFacts`, `StillFacts`), as are those of the actions with alternatives
(`DeliverFacts`, `ResumeFacts`, `ChainFacts`). Theorems: `TypeCorrect`, `HandleCorrect`,
`ThreadCorrect`, `TaskCorrect`; `NothingLost`, under the hypothesis that no awaitable has the void
state, for with one the property is false (finding 1); `ReturnCorrect`, where `Rooted` is needed:
the dictionary is empty, so no coroutine of the scheduler is a root, so none is unfinished
(`AllDone`); and `Refinement`: each step is a completion, the beginning or the end of a wait, or a
stutter of `Completion`. That `via()` moves all callers is `Chain`, a function over the coroutines
whose value is not computed but characterised in the proof (`ChainFacts`: what moves is closed
under callers), since computing it is induction.

**Event** (`EventProofs`; `CountsAssumption`: there is an event, and room for a signal;
`ActorsAssumption`: waiters, threads and the null value are distinct). The invariant `Inv` is
`TypeOK`, `AsleepIffLive` and:

- `Locks`: who holds an event's lock is inside a try, in `signal()` or in the batch lock.
- `Counts`: a counter is below zero only while a try that took too much is about to give it back,
  and at that event there is one such try, since it has the lock. (The type of `counter` already
  needs this.)
- `Queues`: a waiter stands in a queue once, where it waits, and no longer than it waits, expired
  or not; a proxy in a thread's hand is in no queue, and its event is still to be counted.
- `Proxies`: what is left of a wait for all is the number of its events, each of which has its
  proxy in the queue or in a hand; the state's lock is held by `on_timeout()` alone.
- `Unseen`, for at most one reset: a try is disappointed only after the reset, so it gives back
  what it took and no more, and whoever joins a queue has seen that there is no signal.

Theorems: `TypeCorrect`, `AnswersCorrect`, `ProxiesCorrect`, and `NobodyWaits`, under the hypothesis
of at most one reset, for with two it is false (finding 3). Under the same hypothesis `Refinement`:
a try that is settled is a question answered; a waiter for one that is popped alive, and a proxy
that is counted off, is a signal given (`OnePasses`, `AllPasses`); the swap of a timeout is a client
that gives up. The rest changes nothing of the promise: an expired waiter that is popped or erased
did not wait any longer, and a proxy in a thread's hand keeps its place in front of the queue
(`IntoTheHand`). Each of these says what becomes of the queues' order (`Before` in `QueueLemmas`:
what stands before what, which appending, popping and erasing keep). It needs one more invariant:
`Told`, that whoever is in its timeout has not passed. With two resets it is false: one in the
middle of a try makes a signal unused that nobody gave.

**Timer** (`TimerProofs`; `TimeAssumption`: due times lie between zero and the end of the clock;
`SleeperAssumption`). `NoTimerLost` is about the lists alone and is not inductive. The invariant
`TimerInv`: `Fields` and `Lists`, the types, and that nobody stands in a list twice; `Places`: the
timers that wait for their call are those in the vector, in the part of it that `update()` moves, in
its hand and behind its place in the map, and each is in one of these only; `Sorted`: the map is in
the order of the due times, so that `update()` may stop at the first that is not due; `Steps`: what
`update()` has between two of its steps; `States`: what the state of a timer says of its place, and
that one which the scheduler's own thread has stopped is not taken for one that may fire, also by
an `update()` that has looked at it before. Theorems: `TimerTypeCorrect`, `NoTimerIsLost`, and
`RefinesAlarms` (a timer is called at most once, not before its time, and not as fired after it
was stopped by that thread), for any number of timers.

**LockRange** (`TasksProofs`; `MtxAssumption`, `OrdersAssumption`: a locker names no mutex twice).
The invariant `RangeInv` is the type and, for each locker: `IndexOK` (its indices are inside its
range), `BackOK` (it unlocks no mutex twice), `SeatOK` (it stands in the queue of its hard mutex
while it sleeps, once, and in no other), and `ShareOK`: the mutexes it holds are exactly those it has
got by where it is in its loop (`Has`). From this `AllOrNothing` follows; `ShareOK` is the
strengthening that says what is held in the middle of a round of tries and of a round of unlocks.
Theorems: `RangeTypeCorrect`, `RangeCorrect`.

**When** (in `TasksProofs`; `ChildAssumption`: the children are finite, and nobody is none of them;
`Asserts` may be either). `WhenInv`: the type, which says that the counter is what is still to
come; `ValuesOK`: what is in the result is what is over, all of it for when_all and the first of it for when_any; `MembersOK`;
`GoneOK`: a parent that goes on, or is queued to, has nothing left to wait for. What a child sleeps
on is in another module, so the proof is one of `Tasks`: `Linked` says that a child whose timer is
set, or that is locking, is asleep in its connector, so that a callback or an unlock gives a result
only to one that has none. Theorems: `TasksCountChildren`, `TasksRefineJoin`.

**StopState** (in `TasksProofs`; `CountsAssumption`, `NobodyAssumption`; nothing is assumed of the
set of callbacks). `StopInv`: `WordOK` and `CallOK`, the types; `CountOK`: the callbacks that are
held are finitely many, and each has its reference in the word, which is what keeps the state alive
under them; `ListOK`: who is in the list is held and not called, and who is held and not called is
in the list or in the hands of `request_stop()`; `JobOK`: what `request_stop()` knows of the
callback it calls (that is gone if and only if the local `removed` says so, and points to that local
until then); `LeaveOK`: at most one thread is in the destructor of a callback. Theorems:
`StopTypeCorrect`, `StopTouches` (`TouchesOnlyLive`, by `ListOK` and `JobOK`) and `StopRefines`. Each
ends where the model does, at the deletion of the state (finding 5).

**Generator** (in `TasksProofs`; `YieldsAssumption`). `GenInv`: the types; `RowOK`: the dictionary
is the set of the generators in the two vectors, each of which stands there once; `FrameOK`: how
a coroutine, its iterator and the values that its loop has read agree. Theorems: `GenTypeCorrect`,
and `GenTakesTurns`, which is the safety of `Turns`: its initial states and its steps. That a task's
turn comes again and again is fairness, and stays with TLC.

**Tasks** (`TasksProofs`; `ChildrenAssumption`). A step of a program is for each of its parts a step
of that part or none (`TasksTimerStep`, `TasksRangeStep`, `TasksStop`, `TasksGen`), which lifts what
was proved of the parts to the programs; fairness is not needed. Theorems: `TasksTypeCorrect`,
`TasksLoseNoTimer`, `TasksRefineAlarms`, `TasksLockAllOrNothing`, `TasksRefineJoin`,
`TasksTouchOnlyLive`, `TasksRefineStop`, `TasksTakeTurns`.

**Only model-checked**: all that needs fairness (`DueRuns`, `EndsWhenAllDone`, `WaiterRuns`,
`EveryoneIsServed`, `CallbacksRun`, `EveryTimerCalled`, `RangeLocked`, `ParentGoesOn`, the liveness
in `Turns`), since liveness and ENABLED are beyond this prover, as is induction over data with the
library's theorems. No module declares a RECURSIVE operator.

## 7. What is not modelled

Parts of components that section 2 plans: co_yield of an awaited coroutine, the lock that
request_stop_all_if_possible holds around callbacks. Left out because the code or its
documentation gives no meaning to hold a model against: several coroutines that await one future,
`wait_any` of events (an assertion in the code calls it flawed), a scheduler for `when_all` other
than the parent's, `clear()` of timers from inside a callback or another thread, the
`mutex_t::unlock(mutexes...)` that returns no future (`mutex_v2.inl:548`), recursive use of
several mutexes at once. Left out because nothing in the repository reaches them: `_awaker.h`,
switching the scheduler of a generator. No state of their own: the current scheduler and
`get_root()`, the spinlock's turns while it waits, traits and concepts. `counted_ptr` counts
references; the models keep an object for as long as something refers to it. Never to be
modelled: values and their copies, memory and lifetimes, the formatting of errors, compile-time
traits, the asio glue and the examples. The weak memory order of a few unlocked reads
(`_has_value` in `await_ready`, `_scheduler`) is taken as sequentially consistent: an older value
that such a read could return is one that the same read one step earlier returns.
