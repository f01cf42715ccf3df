-------------------------------- MODULE Timer --------------------------------
(***************************************************************************)
(* timer_manager: the timers of a scheduler.  Any thread adds a timer, to  *)
(* a vector under a spinlock; update(), which the scheduler's thread calls *)
(* before each batch, moves them to a map ordered by time and calls those  *)
(* that are due.  stop() takes no lock: it only writes the timer's state,  *)
(* and update() calls the timer as cancelled when it comes to it.          *)
(*                                                                         *)
(* A timer is in the program's hands once: it is added once, its callback  *)
(* is moved out before it is called.  stop() from the scheduler's thread   *)
(* comes between updates or in a callback.  From another thread it may     *)
(* come between update()'s look at a state and what update() does, and     *)
(* then has no effect, whatever it returns.                                *)
(***************************************************************************)
EXTENDS Integers, Sequences, FiniteSetsExt, SequencesExt

CONSTANTS
  Timer,
  tp,             \* timer_target::tp
  NoTimer,
  Sleeper,        \* the timers of sleep_for(): nobody keeps a handle to stop them
  MaxClock        \* the last reading of the clock

ASSUME TimeAssumption == MaxClock \in Nat /\ tp \in [Timer -> 0..MaxClock]
ASSUME SleeperAssumption == NoTimer \notin Timer /\ Sleeper \subseteq Timer

VARIABLES
  clock,          \* clock_type::now()
  st,             \* timer_target::st
  outcome,        \* how the callback was called
  added,          \* _added_timers
  moving,         \* the local _atimer of update(), from where its loop is
  running,        \* _runing_timers, in the order of the map
  upd,            \* where update() is
  hand,           \* the timer whose state it has looked at
  seen,           \* and that state
  ix,             \* how many of _runing_timers it has called
  now_,           \* its local now_
  halted          \* the timers that the scheduler's thread has stopped

lists == <<added, moving, running>>
update == <<upd, hand, seen, ix, now_>>
timerVars == <<clock, st, outcome, lists, update, halted>>

TimerState == {"Invalid", "Added", "Runing"}
Outcome == {"unset", "pending", "fired", "cancelled"}

TimerInit ==
  /\ clock = 0
  /\ st = [a \in Timer |-> "Invalid"]
  /\ outcome = [a \in Timer |-> "unset"]
  /\ added = <<>> /\ moving = <<>> /\ running = <<>>
  /\ upd = "out" /\ hand = NoTimer /\ seen = "Invalid" /\ ix = 0 /\ now_ = 0
  /\ halted = {}
-----------------------------------------------------------------------------
Tick ==
  /\ clock < MaxClock
  /\ clock' = clock + 1
  /\ UNCHANGED <<st, outcome, lists, update, halted>>

Add(a) ==
  /\ outcome[a] = "unset"
  /\ outcome' = [outcome EXCEPT ![a] = "pending"]
  /\ st' = [st EXCEPT ![a] = "Added"]
  /\ added' = Append(added, a)
  /\ UNCHANGED <<clock, moving, running, update, halted>>

Stoppable == {a \in Timer \ Sleeper : st[a] # "Invalid"}

(* stop() by the scheduler's thread, outside update(). *)
StopHere(a) ==
  /\ upd = "out"
  /\ a \in Stoppable
  /\ st' = [st EXCEPT ![a] = "Invalid"]
  /\ halted' = halted \union {a}
  /\ UNCHANGED <<clock, outcome, lists, update>>

(* stop() by another thread. *)
StopElsewhere(a) ==
  /\ a \in Stoppable
  /\ st' = [st EXCEPT ![a] = "Invalid"]
  /\ UNCHANGED <<clock, outcome, lists, update, halted>>

(* Mutant: the state of a called timer is left as it was. *)
BugCalled(a, how, H) ==
  /\ outcome' = [outcome EXCEPT ![a] = how]
  /\ st' = [b \in Timer |-> IF b \in H THEN "Invalid" ELSE st[b]]
  /\ halted' = halted \union H

(* call_target_(): a is called, and its callback stops the timers of H.    *)
Called(a, how, H) ==
  /\ outcome' = [outcome EXCEPT ![a] = how]
  /\ st' = [b \in Timer |-> IF b \in H \union {a} THEN "Invalid" ELSE st[b]]
  /\ halted' = halted \union H

(* What a callback stops: at most one other timer; that of sleep_for()     *)
(* gives the awaitable its result.                                         *)
Stops(a) == {{}} \union {{b} : b \in IF a \in Sleeper THEN {} ELSE Stoppable \ {a}}
-----------------------------------------------------------------------------
(* Where update() goes when there is nothing more to move. *)
ToDue ==
  /\ upd' = IF running = <<>> THEN "out" ELSE "due"
  /\ now_' = IF running = <<>> THEN now_ ELSE clock
  /\ ix' = 0

UpdateBegin ==
  /\ upd = "out"
  /\ \/ /\ added # <<>>
        /\ moving' = added
        /\ added' = <<>>
        /\ upd' = "move"
        /\ UNCHANGED <<ix, now_>>
     \/ /\ added = <<>>
        /\ ToDue
        /\ UNCHANGED <<added, moving>>
  /\ UNCHANGED <<clock, st, outcome, running, hand, seen, halted>>

MoveLook ==
  /\ upd = "move"
  /\ moving # <<>>
  /\ hand' = Head(moving)
  /\ moving' = Tail(moving)
  /\ seen' = st[Head(moving)]
  /\ upd' = "moveHas"
  /\ UNCHANGED <<clock, st, outcome, added, running, ix, now_, halted>>

(* multimap::insert puts a after those of the same time. *)
Place(a) == 1 + Cardinality({i \in DOMAIN running : tp[running[i]] <= tp[a]})

(* Mutant: a timer that was stopped before it was moved is dropped. *)
BugMoveAct ==
  /\ upd = "moveHas"
  /\ \/ /\ seen = "Added"
        /\ st' = [st EXCEPT ![hand] = "Runing"]
        /\ running' = InsertAt(running, Place(hand), hand)
     \/ /\ seen # "Added"
        /\ UNCHANGED <<st, running>>
  /\ upd' = "move" /\ hand' = NoTimer
  /\ UNCHANGED <<clock, outcome, added, moving, seen, ix, now_, halted>>

MoveAct ==
  /\ upd = "moveHas"
  /\ \/ /\ seen = "Added"
        /\ st' = [st EXCEPT ![hand] = "Runing"]
        /\ running' = InsertAt(running, Place(hand), hand)
        /\ UNCHANGED <<outcome, halted>>
     \/ /\ seen # "Added"
        /\ \E H \in Stops(hand) : Called(hand, "cancelled", H)
        /\ UNCHANGED running
  /\ upd' = "move" /\ hand' = NoTimer
  /\ UNCHANGED <<clock, added, moving, seen, ix, now_>>

MoveEnd ==
  /\ upd = "move"
  /\ moving = <<>>
  /\ ToDue
  /\ UNCHANGED <<clock, st, outcome, lists, hand, seen, halted>>

IsDue == ix < Len(running) /\ tp[running[ix + 1]] <= now_

DueLook ==
  /\ upd = "due"
  /\ IsDue
  /\ hand' = running[ix + 1]
  /\ seen' = st[running[ix + 1]]
  /\ upd' = "dueHas"
  /\ UNCHANGED <<clock, st, outcome, lists, ix, now_, halted>>

(* Mutant: a timer in the map that was stopped fires. *)
BugDueAct ==
  /\ upd = "dueHas"
  /\ \E H \in Stops(hand) : Called(hand, "fired", H)
  /\ ix' = ix + 1
  /\ upd' = "due" /\ hand' = NoTimer
  /\ UNCHANGED <<clock, lists, seen, now_>>

DueAct ==
  /\ upd = "dueHas"
  /\ \E H \in Stops(hand) :
       Called(hand, IF seen = "Invalid" THEN "cancelled" ELSE "fired", H)
  /\ ix' = ix + 1
  /\ upd' = "due" /\ hand' = NoTimer
  /\ UNCHANGED <<clock, lists, seen, now_>>

(* Mutant: the timer the loop stopped at is erased, too. *)
BugDueEnd ==
  /\ upd = "due"
  /\ ~IsDue
  /\ running' = SubSeq(running, ix + 2, Len(running))
  /\ ix' = 0
  /\ upd' = "out"
  /\ UNCHANGED <<clock, st, outcome, added, moving, hand, seen, now_, halted>>

DueEnd ==
  /\ upd = "due"
  /\ ~IsDue
  /\ running' = SubSeq(running, ix + 1, Len(running))
  /\ ix' = 0
  /\ upd' = "out"
  /\ UNCHANGED <<clock, st, outcome, added, moving, hand, seen, now_, halted>>

(* clear(), by the scheduler's thread outside update(). *)
Clear ==
  /\ upd = "out"
  /\ LET all == ToSet(added) \union ToSet(running) IN
     /\ outcome' = [a \in Timer |-> IF a \in all THEN "cancelled" ELSE outcome[a]]
     /\ st' = [a \in Timer |-> IF a \in all THEN "Invalid" ELSE st[a]]
  /\ added' = <<>> /\ running' = <<>>
  /\ UNCHANGED <<clock, moving, update, halted>>

Update == UpdateBegin \/ MoveLook \/ MoveAct \/ MoveEnd \/ DueLook \/ DueAct \/ DueEnd

TimerNext ==
  \/ Tick \/ Update \/ Clear
  \/ \E a \in Timer : Add(a) \/ StopHere(a) \/ StopElsewhere(a)

(* The scheduler's thread calls update() for ever, and time passes. *)
TimerFair == WF_timerVars(Update) /\ WF_timerVars(Tick)

TimerSpec == TimerInit /\ [][TimerNext]_timerVars /\ TimerFair
-----------------------------------------------------------------------------
(* The variables have their types, nothing is left over between updates,   *)
(* and the state of a timer says where it is: one that was called has none *)
(* that stop() would take for a running timer's (call_target_, 18).        *)
TimerTypeOK ==
  /\ clock \in 0..MaxClock /\ now_ \in 0..clock
  /\ st \in [Timer -> TimerState] /\ outcome \in [Timer -> Outcome]
  /\ {added, moving, running} \subseteq Seq(Timer)
  /\ upd \in {"out", "move", "moveHas", "due", "dueHas"}
  /\ hand \in Timer \union {NoTimer} /\ seen \in TimerState
  /\ ix \in 0..Len(running)
  /\ halted \subseteq Timer
  /\ upd = "out" => moving = <<>> /\ ix = 0 /\ hand = NoTimer
  /\ \A a \in Timer :
       /\ st[a] = "Added" => a \in ToSet(added \o moving) \union {hand}
       /\ st[a] = "Runing" => a \in ToSet(SubSeq(running, ix + 1, Len(running)))

(* The timers still to be called: in the vector, in the part of it that    *)
(* update() has not come to, in its hand, or in the part of the map behind *)
(* the calls of this update.                                               *)
Waiting ==
  ToSet(added) \union ToSet(moving) \union ({hand} \ {NoTimer})
    \union ToSet(SubSeq(running, ix + 1, Len(running)))

(* No timer is lost between the two lists and none is called twice: those  *)
(* to be called are those that were added and not called, each is in one   *)
(* place, and the map is in the order of time (update(), 75-122).          *)
NoTimerLost ==
  /\ Waiting = {a \in Timer : outcome[a] = "pending"}
  /\ IsInjective(added \o moving \o running)
  /\ \A i, j \in DOMAIN running : i < j => tp[running[i]] <= tp[running[j]]

Mood(a) ==
  CASE outcome[a] = "unset" -> "idle"
    [] outcome[a] = "pending" -> IF a \in halted THEN "halted" ELSE "set"
    [] OTHER -> outcome[a]

A == INSTANCE Alarms
       WITH Alarm <- Timer, Due <- tp, hour <- clock, mood <- [a \in Timer |-> Mood(a)]

(* Every timer is called at most once, as fired or as cancelled, not       *)
(* before its time, and one that the scheduler's thread has stopped does   *)
(* not fire, whatever other threads stop meanwhile.                        *)
ImplementsAlarms == A!Spec

(* Every timer that is added is called.                                    *)
EveryTimerCalled ==
  \A a \in Timer : (outcome[a] = "pending") ~> (outcome[a] \in {"fired", "cancelled"})
=============================================================================
