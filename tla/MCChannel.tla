------------------------------ MODULE MCChannel ------------------------------
(* Two readers and two writers, threads, and a channel with no buffer, of  *)
(* one value and of two.  A channel is built of a ring of values and of    *)
(* linked lists of waiters; these meet nowhere, so a behaviour uses the    *)
(* channel or one of them.                                                 *)
(* Three values fit in the ring; Word = Sz + 2 is the smallest index type  *)
(* that the constructor's assertion allows.  Four nodes give the list a    *)
(* middle of more than one.                                                *)
EXTENDS Channel, RingQueue, LinkQueue

VARIABLE part

allVars == <<part, vars, ringVars, linkVars>>

PartsInit == part \in {"channel", "ring", "list"} /\ Init /\ RingInit /\ LinkInit

PartsNext ==
  /\ \/ part = "channel" /\ Next /\ UNCHANGED <<ringVars, linkVars>>
     \/ part = "ring" /\ RingNext /\ UNCHANGED <<vars, linkVars>>
     \/ part = "list" /\ LinkNext /\ UNCHANGED <<vars, ringVars>>
  /\ UNCHANGED part

(* Fairness is about the channel, and there is none without it. *)
PartsSpec == PartsInit /\ [][PartsNext]_allVars /\ (part = "channel" => Fairness)
=============================================================================
