------------------------------ MODULE Generator ------------------------------
(***************************************************************************)
(* generator_t: a coroutine that co_yields values and co_returns the last. *)
(* A loop over it resumes it in its caller's hands; started with `go` it   *)
(* is a task, which its scheduler resumes once in each batch and whose     *)
(* values nobody reads.                                                    *)
(*                                                                         *)
(* _CurrentValue points to the operand of the last co_yield or co_return.  *)
(* The model takes the value for it, also for that of a co_return, which   *)
(* is gone by then if it was a temporary or a local of the coroutine.      *)
(***************************************************************************)
EXTENDS Naturals, Sequences

CONSTANTS
  Gen,
  Yields          \* how many values a generator co_yields

ASSUME YieldsAssumption == Yields \in [Gen -> Nat]

VARIABLES
  frame,          \* where its coroutine is
  currentValue,   \* promise_type::_CurrentValue: which value, 0 before the first
  iter,           \* the iterator of a loop over it
  got,            \* the values the loop has read
  cached,         \* _runing_states, what runs in the next batch
  batch,          \* _cached_states, from where run_one_batch() is
  ready           \* _ready_task

genTasks == <<cached, batch, ready>>
genVars == <<frame, currentValue, iter, got, genTasks>>

GenInit ==
  /\ frame = [g \in Gen |-> "new"]
  /\ currentValue = [g \in Gen |-> 0]
  /\ iter = [g \in Gen |-> "none"]
  /\ got = [g \in Gen |-> <<>>]
  /\ cached = <<>> /\ batch = <<>> /\ ready = {}
-----------------------------------------------------------------------------
(* The coroutine runs to its next co_yield or to the co_return. *)
Ends(g) == currentValue[g] = Yields[g]
Advance(g) == currentValue' = [currentValue EXCEPT ![g] = @ + 1]
Suspended(g) == frame[g] \in {"new", "suspended"}

IsTask(g) == frame[g] = "gone" \/ g \in ready

(* begin(): a coroutine that ends at once gives the loop nothing. *)
LoopBegin(g) ==
  /\ frame[g] = "new" /\ ~IsTask(g)
  /\ Advance(g)
  /\ \/ /\ Ends(g)
        /\ frame' = [frame EXCEPT ![g] = "done"]
        /\ iter' = [iter EXCEPT ![g] = "end"]
        /\ UNCHANGED got
     \/ /\ ~Ends(g)
        /\ frame' = [frame EXCEPT ![g] = "suspended"]
        /\ iter' = [iter EXCEPT ![g] = "value"]
        /\ got' = [got EXCEPT ![g] = Append(@, currentValue'[g])]
  /\ UNCHANGED genTasks

(* Mutant: the iterator is at the end as soon as the coroutine is. *)
BugLoopNext(g) ==
  /\ iter[g] = "value"
  /\ Advance(g)
  /\ \/ /\ Ends(g)
        /\ frame' = [frame EXCEPT ![g] = "done"]
        /\ iter' = [iter EXCEPT ![g] = "end"]
        /\ UNCHANGED got
     \/ /\ ~Ends(g)
        /\ got' = [got EXCEPT ![g] = Append(@, currentValue'[g])]
        /\ UNCHANGED <<frame, iter>>
  /\ UNCHANGED genTasks

(* operator++, and the loop reads what the iterator is at. *)
LoopNext(g) ==
  /\ iter[g] = "value"
  /\ \/ /\ frame[g] = "done"
        /\ iter' = [iter EXCEPT ![g] = "end"]
        /\ UNCHANGED <<frame, currentValue, got>>
     \/ /\ frame[g] = "suspended"
        /\ Advance(g)
        /\ frame' = [frame EXCEPT ![g] = IF Ends(g) THEN "done" ELSE "suspended"]
        /\ got' = [got EXCEPT ![g] = Append(@, currentValue'[g])]
        /\ UNCHANGED iter
  /\ UNCHANGED genTasks

(* ~generator_t(), after the loop or in the middle of it. *)
Drop(g) ==
  /\ ~IsTask(g)
  /\ frame' = [frame EXCEPT ![g] = "gone"]
  /\ iter' = [iter EXCEPT ![g] = IF @ = "end" THEN "end" ELSE "left"]
  /\ UNCHANGED <<currentValue, got, genTasks>>

(* go: the task takes the state, and the coroutine from its generator_t. *)
Go(g) ==
  /\ frame[g] = "new" /\ ~IsTask(g)
  /\ ready' = ready \union {g}
  /\ cached' = Append(cached, g)
  /\ UNCHANGED <<frame, currentValue, iter, got, batch>>

SwapBatch ==
  /\ batch = <<>> /\ cached # <<>>
  /\ batch' = cached
  /\ cached' = <<>>
  /\ UNCHANGED <<frame, currentValue, iter, got, ready>>

(* state_generator_t::resume() *)
ResumeTask ==
  LET g == Head(batch) IN
  /\ batch # <<>>
  /\ Suspended(g)
  /\ batch' = Tail(batch)
  /\ Advance(g)
  /\ \/ /\ ~Ends(g)
        /\ frame' = [frame EXCEPT ![g] = "suspended"]
        /\ cached' = Append(cached, g)
        /\ UNCHANGED ready
     \/ /\ Ends(g)
        /\ frame' = [frame EXCEPT ![g] = "gone"]
        /\ ready' = ready \ {g}
        /\ UNCHANGED cached
  /\ UNCHANGED <<iter, got>>

RunBatch == SwapBatch \/ ResumeTask

GenNext == RunBatch \/ \E g \in Gen : LoopBegin(g) \/ LoopNext(g) \/ Drop(g) \/ Go(g)

(* The scheduler's thread runs its batches. *)
GenFair == WF_genVars(RunBatch)

GenSpec == GenInit /\ [][GenNext]_genVars /\ GenFair
-----------------------------------------------------------------------------
(* The variables have their types, and the dictionary holds the tasks that *)
(* are queued.                                                             *)
GenTypeOK ==
  /\ frame \in [Gen -> {"new", "suspended", "done", "gone"}]
  /\ \A g \in Gen : currentValue[g] \in 0..(Yields[g] + 1)
  /\ iter \in [Gen -> {"none", "value", "end", "left"}]
  /\ got \in [Gen -> Seq(Nat)]
  /\ {cached, batch} \subseteq Seq(Gen)
  /\ ready = {g \in Gen : \E i \in DOMAIN (batch \o cached) : (batch \o cached)[i] = g}

GenFate(g) ==
  CASE g \in ready -> "task"
    [] iter[g] = "left" -> "left"
    [] iter[g] = "value" -> "loop"
    [] iter[g] = "none" /\ frame[g] = "new" /\ g \notin ready -> "fresh"
    [] OTHER -> "over"

(* The values a loop has read; one out of order counts for nothing. *)
InOrder(g) == IF got[g] = [i \in 1..Len(got[g]) |-> i] THEN Len(got[g]) ELSE Yields[g] + 2

T == INSTANCE Turns WITH
       Player <- Gen, long <- Yields, turn <- batch \o cached,
       values <- [g \in Gen |-> IF iter[g] = "none" THEN currentValue[g] ELSE InOrder(g)],
       fate <- [g \in Gen |-> GenFate(g)]

(* The two vectors of a scheduler, swapped between batches, make one queue *)
(* in which generators take turns and come to their end; a loop over a     *)
(* generator gets each of its values once and in order, up to that of      *)
(* co_return.                                                              *)
ImplementsTurns == T!Spec
=============================================================================
