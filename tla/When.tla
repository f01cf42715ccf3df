-------------------------------- MODULE When --------------------------------
(***************************************************************************)
(* when_all and when_any: a parent makes a state with a counter, starts a  *)
(* coroutine for each child -- a connector, which awaits the child, stores *)
(* its value and counts down -- and waits for the counter to reach 0.  The *)
(* counter of when_any is 1, and the connector that swaps its index into   *)
(* the result first counts it down.                                        *)
(*                                                                         *)
(* The scheduler that when_all is given is that of the parent, as the      *)
(* documentation asks: parent and connectors are on one thread, and a step *)
(* is what one does between two suspensions.  The parent need not await    *)
(* the state at once; the children may be over by then, which a build with *)
(* assertions takes for an error.                                          *)
(***************************************************************************)
EXTENDS Integers, FiniteSets

CONSTANTS
  Child, Nobody,
  Asserts         \* the build has assertions: NDEBUG is not defined

ASSUME ChildAssumption == IsFiniteSet(Child) /\ Nobody \notin Child
ASSUME AssertsAssumption == Asserts \in BOOLEAN

VARIABLES
  kind,           \* "all" or "any"
  group,          \* the children of the call
  counter,        \* state_when_t::_counter
  winner,         \* when_any_pair::first
  value,          \* the children whose value is in the result
  parent,         \* where the parent is
  child           \* where a connector is

whenVars == <<kind, group, counter, winner, value, parent, child>>

ChildPlace == {"new", "asleep", "ready", "broken", "done", "threw"}

(* The counter that when_all() or when_any() makes the state with. *)
Count(k, g) == IF k = "all" THEN Cardinality(g) ELSE IF g = {} THEN 0 ELSE 1

WhenInit ==
  /\ kind \in {"all", "any"}
  /\ group \in SUBSET Child
  /\ counter = Count(kind, group)
  /\ winner = Nobody
  /\ value = {}
  /\ parent = "before"
  /\ child = [c \in Child |-> "new"]
-----------------------------------------------------------------------------
(* A connector begins to await its child. *)
Begin(c) ==
  /\ c \in group
  /\ child[c] = "new"
  /\ child' = [child EXCEPT ![c] = "asleep"]
  /\ UNCHANGED <<kind, group, counter, winner, value, parent>>

(* The children that `how` names have their result: "ready" with a value,  *)
(* "broken" with an exception.                                             *)
Results(how) ==
  /\ child' = [c \in Child |-> IF c \in DOMAIN how THEN how[c] ELSE child[c]]
  /\ UNCHANGED <<kind, group, counter, winner, value, parent>>

(* on_notify_one() asserts, when nothing is left to wait for, that the     *)
(* state has a scheduler, which only the await gives it.                   *)
AssertFails == Asserts /\ parent = "before"

Notify ==
  /\ counter' = counter - 1
  /\ parent' = IF counter > 1 THEN parent
               ELSE IF AssertFails THEN "aborted"
               ELSE IF parent = "asleep" THEN "queued" ELSE parent

(* Mutant: each connector of when_any stores its value. *)
BugFinish(c) ==
  /\ child[c] = "ready"
  /\ child' = [child EXCEPT ![c] = "done"]
  /\ value' = value \union {c}
  /\ \/ /\ kind = "all" \/ winner = Nobody
        /\ winner' = IF kind = "any" THEN c ELSE winner
        /\ Notify
     \/ /\ kind = "any" /\ winner # Nobody
        /\ UNCHANGED <<winner, counter, parent>>
  /\ UNCHANGED <<kind, group>>

(* A connector goes on with the value of its child. *)
Finish(c) ==
  /\ child[c] = "ready"
  /\ child' = [child EXCEPT ![c] = "done"]
  /\ \/ /\ kind = "all" \/ winner = Nobody
        /\ value' = value \union {c}
        /\ winner' = IF kind = "any" THEN c ELSE winner
        /\ Notify
     \/ /\ kind = "any" /\ winner # Nobody
        /\ UNCHANGED <<value, winner, counter, parent>>
  /\ UNCHANGED <<kind, group>>

(* Or the exception of its child ends it, and it notifies nobody. *)
Throw(c) ==
  /\ child[c] = "broken"
  /\ child' = [child EXCEPT ![c] = "threw"]
  /\ UNCHANGED <<kind, group, counter, winner, value, parent>>

(* Mutant: the parent suspends without a look at the counter. *)
BugAwait ==
  /\ parent = "before"
  /\ parent' = "asleep"
  /\ UNCHANGED <<kind, group, counter, winner, value, child>>

(* The parent awaits the state: await_ready(), await_suspend(). *)
Await ==
  /\ parent = "before"
  /\ parent' = IF counter = 0 THEN "after" ELSE "asleep"
  /\ UNCHANGED <<kind, group, counter, winner, value, child>>

(* state_when_t::resume() *)
GoOn ==
  /\ parent = "queued"
  /\ parent' = "after"
  /\ UNCHANGED <<kind, group, counter, winner, value, child>>

Connector(c) == Finish(c) \/ Throw(c)
-----------------------------------------------------------------------------
(* The variables have their types, and the counter counts what the parent  *)
(* still waits for.                                                        *)
WhenTypeOK ==
  /\ kind \in {"all", "any"} /\ group \subseteq Child /\ value \subseteq group
  /\ winner \in Child \union {Nobody}
  /\ parent \in {"before", "asleep", "queued", "after", "aborted"}
  /\ child \in [Child -> ChildPlace]
  /\ counter = Count(kind, group) - Cardinality(value)

Over == {c \in Child : child[c] = "done"}

J == INSTANCE Join WITH
       mode <- kind, members <- group, over <- Over,
       result <- value \union ({winner} \ {Nobody}), gone <- (parent = "after")

(* when_all comes back when every child is done, with every value,         *)
(* when_any with the index and the value of the first child that was done, *)
(* which no later child changes, and neither before that: not because      *)
(* children threw, and not because the state was awaited late.             *)
ImplementsJoin == J!Spec

(* assert(this->_scheduler != nullptr) (when_v2.cpp:42): whoever is the    *)
(* last to notify finds a state that its parent awaits.                    *)
AssertionHolds == parent # "aborted"

(* A child of when_all that throws, or every child of when_any that        *)
(* throws, leaves the parent asleep for ever.                              *)
Lost ==
  IF kind = "all" THEN \E c \in group : child[c] = "threw"
  ELSE group # {} /\ \A c \in group : child[c] = "threw"
=============================================================================
