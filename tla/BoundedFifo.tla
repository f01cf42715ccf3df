----------------------------- MODULE BoundedFifo -----------------------------
(***************************************************************************)
(* A first-in first-out buffer of at most Cap values: what ring_queue      *)
(* promises its callers.                                                   *)
(***************************************************************************)
EXTENDS Integers, Sequences

CONSTANTS Cap, Value, NoVal

VARIABLES
  q,      \* the buffered values, oldest first
  ret     \* the result of the last call: <<succeeded, the value>>

Init == q = <<>> /\ ret = <<FALSE, NoVal>>

TryPush(v) ==
  \/ Len(q) < Cap /\ q' = Append(q, v) /\ ret' = <<TRUE, v>>
  \/ Len(q) = Cap /\ q' = q /\ ret' = <<FALSE, v>>

TryPop ==
  \/ q # <<>> /\ q' = Tail(q) /\ ret' = <<TRUE, Head(q)>>
  \/ q = <<>> /\ q' = q /\ ret' = <<FALSE, NoVal>>

Next == TryPop \/ \E v \in Value : TryPush(v)

Spec == Init /\ [][Next]_<<q, ret>>
=============================================================================
