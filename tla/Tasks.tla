-------------------------------- MODULE Tasks --------------------------------
(***************************************************************************)
(* Programs made of the components around a scheduler's tasks.             *)
(*   "timers": threads and callbacks add and stop timers, the scheduler    *)
(*     calls or cancels them;                                              *)
(*   "sleep": the children of a when_all or a when_any sleep, and their    *)
(*     timers may be cancelled, as request_stop_all_if_possible() does;    *)
(*   "lock": the children of a when_all each lock several mutexes and      *)
(*     unlock them, and so does a native thread;                           *)
(*   "stop": threads share a stop state;                                   *)
(*   "generators": loops run some, the scheduler runs others as tasks.     *)
(* The parent, its children and update() share the scheduler's thread.     *)
(***************************************************************************)
EXTENDS StopState, Timer, When, LockRange, Generator

CONSTANT MaxLockers   \* a bound on who locks in one behaviour

ASSUME ChildrenAssumption ==
  /\ Child = Sleeper /\ MaxLockers \in Nat
  /\ NativeThread = Locker \ Child

VARIABLE program

tasksVars == <<program, stopVars, timerVars, whenVars, rangeVars, genVars>>

(* The parts a program does not use stay as they begin. *)
TasksInit ==
  /\ program \in {"timers", "sleep", "lock", "stop", "generators"}
  /\ StopInit /\ TimerInit /\ WhenInit /\ RangeInit /\ GenInit
  /\ program # "sleep" => kind = "all"
  /\ program \notin {"sleep", "lock"} => group = {}
  /\ program = "lock" => group \subseteq Locker /\ Cardinality(group) <= MaxLockers
  /\ program # "lock" => order = [w \in Locker |-> CHOOSE o \in Orders[w] : TRUE]
-----------------------------------------------------------------------------
(* sleep_for(): an awaitable, a timer whose callback gives it its result,  *)
(* and the await of its future.                                            *)
Sleep(c) == Begin(c) /\ Add(c) /\ UNCHANGED rangeVars

(* The callbacks of sleep_for() that this step calls: a timer that fires   *)
(* gives a value, one that is cancelled throws timer_canceled.             *)
JustCalled == {c \in Child : outcome[c] = "pending" /\ outcome'[c] # "pending"}
Woken == [c \in JustCalled |-> IF outcome'[c] = "fired" THEN "ready" ELSE "broken"]

TimerStep == (Tick \/ Update \/ Clear) /\ Results(Woken) /\ UNCHANGED rangeVars

LockStep(w) ==
  /\ Attempt(w) \/ RangeUnlock(w) \/ Unlock(w) \/ (rangeAt[w] = "backing" /\ Unlocked(w))
  /\ UNCHANGED whenVars

ThreadLock(w) ==
  /\ w \in NativeThread
  /\ Cardinality(group) < MaxLockers
  /\ RangeLock(w)
  /\ UNCHANGED whenVars

(* Who has unlocked all is done, and a child is over. *)
LockEnd(w) ==
  /\ rangeAt[w] = "leaving"
  /\ Unlocked(w)
  /\ IF w \in Child THEN Results([c \in {w} |-> "ready"]) ELSE UNCHANGED whenVars

(* What the scheduler's thread resumes; update() is not running then. *)
Resume ==
  /\ upd = "out"
  /\ \/ /\ \/ Await \/ GoOn \/ \E c \in Child : Connector(c)
        /\ UNCHANGED <<timerVars, rangeVars>>
     \/ /\ program = "sleep"
        /\ \E c \in Child : Sleep(c)
     \/ /\ program = "lock"
        /\ \E c \in Locker \ NativeThread : RangeLock(c) /\ Begin(c)
        /\ UNCHANGED timerVars

TimersNext ==
  /\ program = "timers"
  /\ \/ Tick \/ Update \/ Clear
     \/ \E a \in Timer \ Sleeper : Add(a) \/ StopHere(a) \/ StopElsewhere(a)
  /\ UNCHANGED <<stopVars, whenVars, rangeVars, genVars>>

SleepNext == program = "sleep" /\ (TimerStep \/ Resume) /\ UNCHANGED <<stopVars, genVars>>

LockNext ==
  /\ program = "lock"
  /\ \/ Resume
     \/ /\ \E w \in Locker : LockStep(w) \/ ThreadLock(w) \/ LockEnd(w)
        /\ UNCHANGED timerVars
  /\ UNCHANGED <<stopVars, genVars>>

StopsNext == program = "stop" /\ StopNext /\ UNCHANGED <<timerVars, whenVars, rangeVars, genVars>>

GeneratorsNext ==
  program = "generators" /\ GenNext /\ UNCHANGED <<stopVars, timerVars, whenVars, rangeVars>>

(* A failed assertion ends the program. *)
TasksNext ==
  /\ parent # "aborted"
  /\ TimersNext \/ SleepNext \/ LockNext \/ StopsNext \/ GeneratorsNext
  /\ UNCHANGED program

TimersRun == program \in {"timers", "sleep"}

(* Time passes, the scheduler's thread calls update() for ever and resumes *)
(* what is queued in between, and the threads of the other programs do not  *)
(* stop in the middle.                                                     *)
TasksFair ==
  /\ WF_timerVars(TimersRun /\ Update) /\ WF_timerVars(TimersRun /\ Tick)
  /\ SF_whenVars(program \in {"sleep", "lock"} /\ Resume)
  /\ RangeFair
  /\ StopFair /\ GenFair

TasksSpec == TasksInit /\ [][TasksNext]_tasksVars /\ TasksFair
-----------------------------------------------------------------------------
(* The variables of every part have their types; what that says beyond     *)
(* types is with the parts.                                                *)
TasksTypeOK == StopTypeOK /\ TimerTypeOK /\ WhenTypeOK /\ RangeTypeOK /\ GenTypeOK

(* A parent that is suspended in its wait for sleeping or locking children *)
(* goes on, in whichever order they and it get there: unless children      *)
(* threw, which is what a cancelled timer makes them do, or lockers back   *)
(* off for ever.  (One that comes when all are over is not suspended; a    *)
(* build with assertions does not let it come, see AssertionHolds.)        *)
ParentGoesOn ==
  \/ []<>(\E w \in Locker : rangeAt[w] = "backing")
  \/ (parent = "asleep") ~> (parent = "after" \/ Lost)
=============================================================================
