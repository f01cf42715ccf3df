------------------------------- MODULE Future -------------------------------
(***************************************************************************)
(* Coroutines, awaitables and the schedulers that run them: future_t,      *)
(* awaitable_t, promise_t, the state_t they share, and scheduler_t.        *)
(*                                                                         *)
(* A scheduler is run by one thread, which calls run_until_notask() again  *)
(* and again.  A coroutine on that thread awaits other coroutines and      *)
(* awaitables, yields, starts tasks, moves to another scheduler, returns   *)
(* or throws.  Any other thread completes an awaitable, at any moment.     *)
(*                                                                         *)
(* A coroutine and its state_t have one name.  The state_t<void> that      *)
(* yield() and via() make up for a coroutine c, born with a value, is      *)
(* Ticket(c).  Timers are left out: they wake nobody here.                 *)
(***************************************************************************)
EXTENDS Integers, Sequences

CONSTANTS
  Sched,          \* the schedulers, each with its thread
  Coro,           \* the coroutines
  Awaitable,      \* the awaitable_t objects
  Void,           \* the states that are state_t<void>
  Bare,           \* the awaitables that may be started as tasks by themselves
  None            \* a null pointer or handle

State == Coro \union Awaitable
Ticket(c) == <<c>>
Entry == State \union {Ticket(c) : c \in Coro}

ASSUME KindsAssumption == Void \subseteq State /\ Bare \subseteq Awaitable
ASSUME NoneAssumption == None \notin State \union Sched
ASSUME NamesAssumption == Coro \cap Awaitable = {} /\ \A c \in Coro : Ticket(c) \notin State

VARIABLES
  stage,          \* where a scheduler's thread is in run_until_notask()
  on,             \* the coroutine a scheduler's thread is in
  launching,      \* the state that is between set_scheduler and emplace in new_task
  running,        \* scheduler_t::_runing_states
  cached,         \* scheduler_t::_cached_states, what is left of the batch
  ready,          \* the keys of scheduler_t::_ready_task
  scheduler,      \* state_base_t::_scheduler
  coro,           \* state_base_t::_coro, the coroutine to resume
  parent,         \* state_future_t::_parent
  initor,         \* state_future_t::_is_initor
  hasValue,       \* state_future_t::_has_value
  exception,      \* state_t<void>::_exception is set
  setting,        \* a thread is in set_value() or set_exception(), with _mtx
  at,             \* where a coroutine is
  target          \* what it awaits, or awaited last

threads == <<stage, on, launching>>
queues == <<running, cached, ready>>
states == <<scheduler, coro, parent, initor, hasValue, exception, setting>>
vars == <<threads, queues, states, at, target>>

(* "new": suspended on initial_suspend(); "awaits": after await_transform; *)
(* "suspends": await_ready() was false; "asleep": suspended in co_await or *)
(* co_yield; "switching": between the two halves of via(); "returned":     *)
(* after return_value(); "final": suspended on final_suspend(); "gone":    *)
(* destroyed.                                                              *)
Where == {"new", "run", "awaits", "suspends", "asleep", "switching", "returned",
          "final", "gone"}

Init ==
  /\ stage = [s \in Sched |-> "user"]
  /\ on = [s \in Sched |-> None]
  /\ launching = [s \in Sched |-> None]
  /\ running = [s \in Sched |-> <<>>]
  /\ cached = [s \in Sched |-> <<>>]
  /\ ready = [s \in Sched |-> {}]
  /\ scheduler = [x \in State |-> None]
  /\ coro = [x \in State |-> None]
  /\ parent = [x \in State |-> None]
  /\ initor = [x \in State |-> IF x \in Coro THEN "Initial" ELSE "None"]
  /\ hasValue = [x \in State |-> "None"]
  /\ exception = [x \in State |-> FALSE]
  /\ setting = [x \in State |-> FALSE]
  /\ at = [c \in Coro |-> "new"]
  /\ target = [c \in Coro |-> None]
-----------------------------------------------------------------------------
(* Mutant: only a coroutine at its start or end counts. *)
BugHasHandler(x) == initor[x] # "None"

HasHandler(x) == coro[x] # None \/ initor[x] # "None"

(* Mutants: _has_value is not looked at; it is confused with _is_future. *)
BugIsReady(x) == x \in Coro
BugAlwaysReady(x) == TRUE

(* is_ready(): the state of a coroutine always counts as ready. *)
IsReady(x) == hasValue[x] # "None" \/ x \in Coro

Completed(x) == hasValue[x] # "None" \/ exception[x]

AddGenerator(s, x) == running' = [running EXCEPT ![s] = Append(@, x)]

(* Mutant: the task is never removed. *)
BugDelFinal(s, x) == UNCHANGED ready

DelFinal(s, x) == ready' = [ready EXCEPT ![s] = @ \ {x}]

(* The end of set_value() and set_exception(): whoever waits is queued,    *)
(* and otherwise the task, if the state has one, is over.                  *)
Deliver(x) ==
  LET s == scheduler[x]
  IN  \/ s # None /\ HasHandler(x) /\ AddGenerator(s, x) /\ UNCHANGED ready
      \/ s # None /\ ~HasHandler(x) /\ DelFinal(s, x) /\ UNCHANGED running
      \/ s = None /\ UNCHANGED <<running, ready>>

(* Mutant: every kind of state keeps its exception beside _has_value. *)
BugStore(x, how) ==
  /\ hasValue' = [hasValue EXCEPT ![x] = how]
  /\ exception' = [exception EXCEPT ![x] = (how = "Exception")]

(* The beginning: set_value_internal(), set_exception_internal() and their *)
(* counterparts in state_t<void>, which keeps an exception beside          *)
(* _has_value.                                                             *)
Store(x, how) ==
  IF x \in Void /\ how = "Exception"
  THEN exception' = [exception EXCEPT ![x] = TRUE] /\ UNCHANGED hasValue
  ELSE hasValue' = [hasValue EXCEPT ![x] = how] /\ UNCHANGED exception

Goes(c, where) == at' = [at EXCEPT ![c] = where]

(* The thread of s is in the code of c. *)
In(s, c) == on[s] = c /\ launching[s] = None

(* The coroutine on the thread of s suspends. *)
Leave(s) == on' = [on EXCEPT ![s] = None] /\ UNCHANGED <<stage, launching>>
-----------------------------------------------------------------------------
(* A thread that is not a scheduler's calls set_value() or set_exception() *)
(* of an awaitable_t, once.                                                *)
SetBegin(a, how) ==
  /\ ~Completed(a)
  /\ Store(a, how)
  /\ setting' = [setting EXCEPT ![a] = TRUE]
  /\ UNCHANGED <<threads, queues, scheduler, coro, parent, initor, at, target>>

SetEnd(a) ==
  /\ setting[a]
  /\ Deliver(a)
  /\ setting' = [setting EXCEPT ![a] = FALSE]
  /\ UNCHANGED <<threads, cached, scheduler, coro, parent, initor, hasValue,
                 exception, at, target>>

(* "go": new_task() for a coroutine or for a bare awaitable, from the      *)
(* thread of s, in a coroutine or between two runs.                        *)
Launch(s, x) ==
  /\ launching[s] = None
  /\ stage[s] = "user" \/ \E c \in Coro : on[s] = c /\ at[c] = "run"
  /\ x \in Coro \union Bare
  /\ scheduler[x] = None
  /\ scheduler' = [scheduler EXCEPT ![x] = s]
  /\ launching' = [launching EXCEPT ![s] = x]
  /\ UNCHANGED <<stage, on, queues, coro, parent, initor, hasValue, exception,
                 setting, at, target>>

Emplace(s) ==
  LET x == launching[s]
  IN  /\ x # None
      /\ ~setting[x]
      /\ ready' = [ready EXCEPT ![s] = @ \union {x}]
      /\ \/ HasHandler(x) /\ AddGenerator(s, x)
         \/ ~HasHandler(x) /\ UNCHANGED running
      /\ launching' = [launching EXCEPT ![s] = None]
      /\ UNCHANGED <<stage, on, cached, states, at, target>>
-----------------------------------------------------------------------------
(* co_await x, in its three calls: await_transform() gives x the scheduler *)
(* of c without a lock, ...                                                *)
AwaitTransform(s, c, x) ==
  /\ In(s, c) /\ at[c] = "run"
  /\ scheduler[x] = None
  /\ scheduler' = [scheduler EXCEPT ![x] = scheduler[c]]
  /\ target' = [target EXCEPT ![c] = x]
  /\ Goes(c, "awaits")
  /\ UNCHANGED <<threads, queues, coro, parent, initor, hasValue, exception, setting>>

(* ... await_ready() reads _has_value, without a lock either (with a value *)
(* it goes on to await_resume(), which takes _mtx), ...                    *)
AwaitReady(s, c) ==
  LET x == target[c]
  IN  /\ In(s, c) /\ at[c] = "awaits"
      /\ \/ hasValue[x] # "None" /\ ~setting[x] /\ Goes(c, "run")
         \/ hasValue[x] = "None" /\ Goes(c, "suspends")
      /\ UNCHANGED <<threads, queues, states, target>>

(* ... and future_await_suspend(), under _mtx, leaves the handle and, if   *)
(* there is something to do already, queues the state.                     *)
AwaitSuspend(s, c) ==
  LET x == target[c]
  IN  /\ In(s, c) /\ at[c] = "suspends"
      /\ ~setting[x]
      /\ parent' = [parent EXCEPT ![x] = c]
      /\ scheduler' = [scheduler EXCEPT ![x] = scheduler[c]]
      /\ coro' = [coro EXCEPT ![x] = IF @ = None THEN c ELSE @]
      /\ \/ IsReady(x) /\ AddGenerator(scheduler[c], x)
         \/ ~IsReady(x) /\ UNCHANGED running
      /\ Goes(c, "asleep")
      /\ Leave(s)
      /\ UNCHANGED <<cached, ready, initor, hasValue, exception, setting, target>>

(* co_await yield(). *)
Yield(s, c) ==
  /\ In(s, c) /\ at[c] = "run"
  /\ AddGenerator(scheduler[c], Ticket(c))
  /\ target' = [target EXCEPT ![c] = Ticket(c)]
  /\ Goes(c, "asleep")
  /\ Leave(s)
  /\ UNCHANGED <<cached, ready, states>>

(* co_yield in a coroutine that nobody awaits (one that is awaited has the *)
(* handle of its caller in _coro).                                         *)
CoYield(s, c) ==
  /\ In(s, c) /\ at[c] = "run"
  /\ parent[c] = None
  /\ coro' = [coro EXCEPT ![c] = IF @ = None THEN c ELSE @]
  /\ hasValue' = [hasValue EXCEPT ![c] = "Value"]
  /\ AddGenerator(scheduler[c], c)
  /\ target' = [target EXCEPT ![c] = c]
  /\ Goes(c, "asleep")
  /\ Leave(s)
  /\ UNCHANGED <<cached, ready, scheduler, parent, initor, exception, setting>>
-----------------------------------------------------------------------------
(* Mutant: the callers stay behind. *)
BugMovers(c, t) == {c}

(* c and its callers, from c upwards to the first that is in the scheduler *)
(* t already: the smallest set closed under the steps of the loop.         *)
Chain(c, t) ==
  {y \in Coro : \A S \in SUBSET Coro :
     c \in S /\ (\A z \in S : scheduler[z] # t /\ parent[z] # None => parent[z] \in S)
       => y \in S}

(* switch_scheduler_await_suspend() moves those that are not in t yet. *)
Movers(c, t) == {y \in Chain(c, t) : scheduler[y] # t}

(* Mutant: the tasks stay with the old scheduler as well. *)
BugMoveTasks(M, t) ==
  ready' = [ready EXCEPT ![t] = @ \union {y \in M : y \in ready[scheduler[y]]}]

(* del_switch() and add_switch() of those that are tasks. *)
MoveTasks(M, t) ==
  ready' = [r \in Sched |->
            IF r = t THEN ready[t] \union {y \in M : y \in ready[scheduler[y]]}
                     ELSE ready[r] \ {y \in M : scheduler[y] = r}]

(* co_await via(t) moves the coroutine, its callers and their task first   *)
(* and puts it into the queue of t afterwards.                             *)
SwitchBegin(s, c, t) ==
  LET M == Movers(c, t)
  IN  /\ In(s, c) /\ at[c] = "run"
      /\ scheduler[c] # t
      /\ scheduler' = [x \in State |-> IF x \in M THEN t ELSE scheduler[x]]
      /\ MoveTasks(M, t)
      /\ Goes(c, "switching")
      /\ UNCHANGED <<threads, running, cached, coro, parent, initor, hasValue,
                     exception, setting, target>>

SwitchEnd(s, c) ==
  /\ In(s, c) /\ at[c] = "switching"
  /\ AddGenerator(scheduler[c], Ticket(c))
  /\ target' = [target EXCEPT ![c] = Ticket(c)]
  /\ Goes(c, "asleep")
  /\ Leave(s)
  /\ UNCHANGED <<cached, ready, states>>

(* co_return, or an exception that leaves the coroutine, ... *)
Return(s, c, how) ==
  /\ In(s, c) /\ at[c] = "run"
  /\ Store(c, how)
  /\ Deliver(c)
  /\ Goes(c, "returned")
  /\ UNCHANGED <<threads, cached, scheduler, coro, parent, initor, setting, target>>

(* ... and then promise_final_suspend(). *)
FinalSuspend(s, c) ==
  /\ In(s, c) /\ at[c] = "returned"
  /\ initor' = [initor EXCEPT ![c] = "Final"]
  /\ AddGenerator(scheduler[c], c)
  /\ DelFinal(scheduler[c], c)
  /\ Goes(c, "final")
  /\ Leave(s)
  /\ UNCHANGED <<cached, scheduler, coro, parent, hasValue, exception, setting, target>>
-----------------------------------------------------------------------------
(* The thread of s calls run_until_notask(). *)
Start(s) ==
  /\ stage[s] = "user"
  /\ launching[s] = None
  /\ stage' = [stage EXCEPT ![s] = "loop"]
  /\ UNCHANGED <<on, launching, queues, states, at, target>>

AtLoop(s) == stage[s] = "loop" /\ on[s] = None

(* run_one_batch() takes what is queued, ... *)
TakeBatch(s) ==
  /\ AtLoop(s) /\ cached[s] = <<>>
  /\ running[s] # <<>>
  /\ cached' = [cached EXCEPT ![s] = running[s]]
  /\ running' = [running EXCEPT ![s] = <<>>]
  /\ UNCHANGED <<threads, ready, states, at, target>>

(* ... or finds nothing and returns false. *)
NoBatch(s) ==
  /\ AtLoop(s) /\ cached[s] = <<>>
  /\ running[s] = <<>>
  /\ stage' = [stage EXCEPT ![s] = "check"]
  /\ UNCHANGED <<on, launching, queues, states, at, target>>

(* Mutant: the tasks are not looked at. *)
BugCheckTasks(s) ==
  /\ stage[s] = "check"
  /\ stage' = [stage EXCEPT ![s] = "user"]
  /\ UNCHANGED <<on, launching, queues, states, at, target>>

(* The tasks are looked at then, and the loop ends when there are none. *)
CheckTasks(s) ==
  /\ stage[s] = "check"
  /\ stage' = [stage EXCEPT ![s] = IF ready[s] = {} THEN "user" ELSE "loop"]
  /\ UNCHANGED <<on, launching, queues, states, at, target>>

(* Coroutine c goes on, on the thread of s. *)
Enter(s, c) ==
  /\ on' = [on EXCEPT ![s] = c]
  /\ Goes(c, "run")
  /\ UNCHANGED <<stage, launching>>

(* Mutant: _coro keeps the handle. *)
BugContinue(s, x) == Enter(s, coro[x]) /\ UNCHANGED coro

Continue(s, x) == Enter(s, coro[x]) /\ coro' = [coro EXCEPT ![x] = None]

(* state_future_t::resume() of the next state of the batch: it starts the  *)
(* coroutine, or goes on with the one that waits, or destroys the one that *)
(* is through.                                                             *)
Resume(s) ==
  LET x == Head(cached[s])
  IN  /\ AtLoop(s) /\ cached[s] # <<>>
      /\ cached' = [cached EXCEPT ![s] = Tail(@)]
      /\ \/ \E c \in Coro : x = Ticket(c) /\ Enter(s, c) /\ UNCHANGED <<coro, initor>>
         \/ /\ x \in State /\ ~setting[x]
            /\ \/ /\ initor[x] = "Initial"
                  /\ initor' = [initor EXCEPT ![x] = "None"]
                  /\ Enter(s, x)
                  /\ UNCHANGED coro
               \/ /\ initor[x] # "Initial" /\ coro[x] # None
                  /\ Continue(s, x)
                  /\ UNCHANGED initor
               \/ /\ initor[x] = "Final" /\ coro[x] = None
                  /\ initor' = [initor EXCEPT ![x] = "None"]
                  /\ Goes(x, "gone")
                  /\ UNCHANGED <<threads, coro>>
               \/ /\ initor[x] = "None" /\ coro[x] = None
                  /\ UNCHANGED <<threads, coro, initor, at>>
      /\ UNCHANGED <<running, ready, scheduler, parent, hasValue, exception,
                     setting, target>>
-----------------------------------------------------------------------------
Result == {"Value", "Exception"}

CoroStep(s, c) ==
  \/ \E x \in State : AwaitTransform(s, c, x)
  \/ AwaitReady(s, c) \/ AwaitSuspend(s, c)
  \/ Yield(s, c) \/ CoYield(s, c)
  \/ \E t \in Sched : SwitchBegin(s, c, t)
  \/ SwitchEnd(s, c)
  \/ \E how \in Result : Return(s, c, how)
  \/ FinalSuspend(s, c)

SchedStep(s) ==
  Emplace(s) \/ Start(s) \/ TakeBatch(s) \/ NoBatch(s) \/ CheckTasks(s) \/ Resume(s)

Next ==
  \/ \E a \in Awaitable : (\E how \in Result : SetBegin(a, how)) \/ SetEnd(a)
  \/ \E s \in Sched :
       \/ \E x \in State : Launch(s, x)
       \/ \E c \in Coro : CoroStep(s, c)
       \/ SchedStep(s)

Spec == Init /\ [][Next]_vars

(* The threads of the schedulers and the coroutines on them get on, the    *)
(* threads call run_until_notask() again, and a set_value() that began     *)
(* comes to its end.  Nobody has to complete an awaitable.                 *)
Fairness ==
  /\ \A s \in Sched : WF_vars(SchedStep(s))
  /\ \A s \in Sched : \A c \in Coro : WF_vars(CoroStep(s, c))
  /\ \A a \in Awaitable : WF_vars(SetEnd(a))

FairSpec == Spec /\ Fairness
-----------------------------------------------------------------------------
TypeOK ==
  /\ stage \in [Sched -> {"user", "loop", "check"}]
  /\ on \in [Sched -> Coro \union {None}]
  /\ launching \in [Sched -> State \union {None}]
  /\ running \in [Sched -> Seq(Entry)]
  /\ cached \in [Sched -> Seq(Entry)]
  /\ ready \in [Sched -> SUBSET State]
  /\ scheduler \in [State -> Sched \union {None}]
  /\ coro \in [State -> Coro \union {None}]
  /\ parent \in [State -> Coro \union {None}]
  /\ initor \in [State -> {"None", "Initial", "Final"}]
  /\ hasValue \in [State -> {"None", "Value", "Exception"}]
  /\ exception \in [State -> BOOLEAN] /\ \A x \in State : exception[x] => x \in Void
  /\ setting \in [State -> BOOLEAN]
  /\ at \in [Coro -> Where]
  /\ target \in [Coro -> Entry \union {None}]

Queued(x, s) ==
  \/ \E i \in 1..Len(running[s]) : running[s][i] = x
  \/ \E i \in 1..Len(cached[s]) : cached[s][i] = x

(* The handle of a coroutine that waits is in the state it waits for and   *)
(* nowhere else: it goes on at most once for each co_await, and no state   *)
(* keeps the handle of a coroutine that runs or is destroyed               *)
(* (state_future_t::resume, future_await_suspend).                         *)
OneHandle ==
  /\ \A c \in Coro : at[c] = "asleep" /\ target[c] \in State => coro[target[c]] = c
  /\ \A x \in State : coro[x] # None => at[coro[x]] = "asleep" /\ target[coro[x]] = x

(* The coroutine is due: what it waits for is complete, or it only         *)
(* yielded.                                                                *)
Due(c) ==
  /\ at[c] = "asleep"
  /\ target[c] \in State => Completed(target[c]) /\ ~setting[target[c]]

(* A completion is never lost, whatever step of co_await it falls into: a  *)
(* coroutine that is due stands in the queue of its scheduler, and so does *)
(* one that is to be destroyed (set_value against future_await_suspend).   *)
NothingForgotten ==
  /\ \A c \in Coro : Due(c) => Queued(target[c], scheduler[c])
  /\ \A c \in Coro : at[c] = "final" => \E s \in Sched : Queued(c, s)

(* After via(t) the code of the coroutine runs on the thread of t, however *)
(* deep the call that switched and whatever waited before; a state that is *)
(* waited for belongs to the scheduler of the coroutine that waits         *)
(* (state_future_t::switch_scheduler_await_suspend).                       *)
OwnThread ==
  /\ \A s \in Sched, c \in Coro : on[s] = c => scheduler[c] = s \/ at[c] = "switching"
  /\ \A c \in Coro :
       at[c] = "asleep" /\ target[c] \in State => scheduler[target[c]] = scheduler[c]

Unfinished(c) == at[c] \in {"run", "awaits", "suspends", "asleep", "switching"}

(* The task of a coroutine nobody awaits is kept until it returns, by the  *)
(* scheduler it is in and by no other, wherever its callees have moved it  *)
(* (_ready_task, del_switch and del_final).                                *)
TaskKept ==
  \A c \in Coro :
    Unfinished(c) => \A s \in Sched : c \in ready[s] <=> parent[c] = None /\ scheduler[c] = s

(* run_until_notask() does not return while a coroutine of the scheduler   *)
(* is unfinished, asleep or between two schedulers included                *)
(* (scheduler_t::run_until_notask).                                        *)
ReturnsWhenDone ==
  [][\A s \in Sched : stage[s] = "check" /\ stage'[s] = "user"
       => \A c \in Coro : scheduler[c] = s => at[c] = "gone"]_vars

(* The state of the promise: what is complete, and what is awaited.        *)
Complete == {x \in State : Completed(x)}
Awaits == [c \in Coro |-> IF at[c] \in {"awaits", "suspends", "asleep"} /\ target[c] \in State \ {c}
                         THEN target[c] ELSE None]

Abstract == INSTANCE Completion WITH
  Coroutine <- Coro, Operation <- State, Nothing <- None, finished <- Complete, awaited <- Awaits

(* No co_await comes back before the operation has its result, in whatever *)
(* order it completes, is looked at and is queued: await_resume() never    *)
(* throws error_code::not_ready.                                           *)
ImplementsCompletion == Abstract!Spec

(* A coroutine whose operation is complete, with a value or an exception,  *)
(* runs again (awaitable.h:74 says so of set_value() and set_exception()). *)
DueRuns == \A c \in Coro : Due(c) ~> at[c] = "run"

Finished(x) == IF x \in Coro THEN at[x] = "gone" ELSE Completed(x)

(* When everything started in a scheduler has finished, run_until_notask() *)
(* returns (scheduler.h:47), for tasks that are bare awaitables too        *)
(* (tutorial/test_async_cb.cpp:88-90).                                     *)
EndsWhenAllDone ==
  \A s \in Sched :
    <>[](\A x \in State : scheduler[x] = s => Finished(x)) => []<>(stage[s] = "user")
=============================================================================
