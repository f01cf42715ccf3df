------------------------------ MODULE LinkQueue ------------------------------
(***************************************************************************)
(* intrusive_link_queue: the list in which channel_t, mutex_t and event_t  *)
(* keep their waiters.  The links are in the nodes, and the queue has a    *)
(* pointer to either end.                                                  *)
(*                                                                         *)
(* The class takes no lock: its owners call it under theirs.  A node is    *)
(* pushed only when it is in no queue.  event_t erases a waiter without    *)
(* asking whether it is still in.  The count that a macro adds, and which  *)
(* erase() then gets wrong, is left out.                                   *)
(***************************************************************************)
EXTENDS Integers, Sequences, FiniteSets, SequencesExt

CONSTANTS Node, Null

ASSUME NodeAssumption == IsFiniteSet(Node) /\ Null \notin Node

VARIABLES
  nodeNext, nodePrev,   \* _next and _prev of the nodes
  header, tailer,       \* _header and _tailer
  popped                \* what try_pop() returned last

linkVars == <<nodeNext, nodePrev, header, tailer, popped>>

LinkInit ==
  /\ nodeNext = [e \in Node |-> Null]
  /\ nodePrev = [e \in Node |-> Null]
  /\ header = Null /\ tailer = Null /\ popped = Null
-----------------------------------------------------------------------------
(* The n-th pointer on the way from `from` along `link`, up to the null. *)
Walk(from, link) ==
  LET at[n \in 1..Cardinality(Node) + 1] ==
        IF n = 1 THEN from
        ELSE IF at[n - 1] = Null THEN Null ELSE link[at[n - 1]]
  IN  Restrict(at, {n \in DOMAIN at : at[n] # Null})

Items == Walk(header, nodeNext)

(* p->field = e, where p may be null. *)
Set(field, p, e) == IF p = Null THEN field ELSE [field EXCEPT ![p] = e]

push_back(e) ==
  /\ nodePrev' = [nodePrev EXCEPT ![e] = tailer]
  /\ nodeNext' = Set([nodeNext EXCEPT ![e] = Null], tailer, e)
  /\ header' = IF header = Null THEN e ELSE header
  /\ tailer' = e
  /\ UNCHANGED popped

push_front(e) ==
  /\ nodeNext' = [nodeNext EXCEPT ![e] = header]
  /\ nodePrev' = Set([nodePrev EXCEPT ![e] = Null], header, e)
  /\ tailer' = IF tailer = Null THEN e ELSE tailer
  /\ header' = e
  /\ UNCHANGED popped

(* Mutant: _tailer stays at the node that is erased. *)
BugErase(e) ==
  /\ header' = IF header = e THEN nodeNext[e] ELSE header
  /\ nodePrev' = [Set(nodePrev, nodeNext[e], nodePrev[e]) EXCEPT ![e] = Null]
  /\ nodeNext' = [Set(nodeNext, nodePrev[e], nodeNext[e]) EXCEPT ![e] = Null]
  /\ UNCHANGED <<tailer, popped>>

erase(e) ==
  /\ header' = IF header = e THEN nodeNext[e] ELSE header
  /\ tailer' = IF tailer = e THEN nodePrev[e] ELSE tailer
  /\ nodePrev' = [Set(nodePrev, nodeNext[e], nodePrev[e]) EXCEPT ![e] = Null]
  /\ nodeNext' = [Set(nodeNext, nodePrev[e], nodeNext[e]) EXCEPT ![e] = Null]
  /\ UNCHANGED popped

(* try_pop() of the list, which has the name of the ring's. *)
pop ==
  \/ /\ header = Null
     /\ popped' = Null
     /\ UNCHANGED <<nodeNext, nodePrev, header, tailer>>
  \/ /\ header # Null
     /\ popped' = header
     /\ header' = nodeNext[header]
     /\ tailer' = IF tailer = header THEN Null ELSE tailer
     /\ nodePrev' = [Set(nodePrev, nodeNext[header], Null) EXCEPT ![header] = Null]
     /\ nodeNext' = [nodeNext EXCEPT ![header] = Null]

LinkNext ==
  \/ pop
  \/ \E e \in Node :
       \/ ~Contains(Items, e) /\ (push_back(e) \/ push_front(e))
       \/ erase(e)

LinkSpec == LinkInit /\ [][LinkNext]_linkVars
-----------------------------------------------------------------------------
Forwards == INSTANCE Deque WITH items <- Items
Backwards == INSTANCE Deque WITH items <- Reverse(Walk(tailer, nodePrev))

(* The list is a queue with two ends, along either link: whatever is       *)
(* pushed at either end, popped, erased in the middle or erased when it is *)
(* no longer in, no node is lost or comes twice, and the order stays.      *)
ImplementsDeque == Forwards!Spec /\ Backwards!Spec
=============================================================================
