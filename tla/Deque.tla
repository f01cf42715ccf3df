-------------------------------- MODULE Deque --------------------------------
(***************************************************************************)
(* A queue of distinct nodes with two ends, from which any node can be     *)
(* taken: what intrusive_link_queue promises its callers.                  *)
(***************************************************************************)
EXTENDS Sequences, SequencesExt
CONSTANTS Node, Null
VARIABLES items, popped

Init == items = <<>> /\ popped = Null

Put(e) == ~Contains(items, e) /\ items' \in {Append(items, e), <<e>> \o items} /\ UNCHANGED popped

(* Taking out a node that is not in the queue is no error. *)
Erase(e) == items' = RemoveFirst(items, e) /\ UNCHANGED popped

Pop ==
  \/ items # <<>> /\ popped' = Head(items) /\ items' = Tail(items)
  \/ items = <<>> /\ popped' = Null /\ UNCHANGED items

Next == Pop \/ \E e \in Node : Put(e) \/ Erase(e)

Spec == Init /\ [][Next]_<<items, popped>>
=============================================================================
