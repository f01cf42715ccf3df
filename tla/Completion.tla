----------------------------- MODULE Completion -----------------------------
(***************************************************************************)
(* What co_await promises: a coroutine that awaits an operation goes on    *)
(* after the operation has finished, and only once for each co_await.      *)
(***************************************************************************)
CONSTANTS Coroutine, Operation, Nothing

VARIABLES
  finished,       \* the operations that have a value or an exception
  awaited         \* what a coroutine awaits

Init ==
  /\ finished = {}
  /\ awaited = [c \in Coroutine |-> Nothing]

Finish(x) ==
  /\ finished' = finished \union {x}
  /\ UNCHANGED awaited

Await(c, x) ==
  /\ awaited[c] = Nothing
  /\ awaited' = [awaited EXCEPT ![c] = x]
  /\ UNCHANGED finished

GoOn(c) ==
  /\ awaited[c] \in finished
  /\ awaited' = [awaited EXCEPT ![c] = Nothing]
  /\ UNCHANGED finished

Next ==
  \/ \E x \in Operation : Finish(x)
  \/ \E c \in Coroutine, x \in Operation : Await(c, x)
  \/ \E c \in Coroutine : GoOn(c)

Spec == Init /\ [][Next]_<<finished, awaited>>
=============================================================================
