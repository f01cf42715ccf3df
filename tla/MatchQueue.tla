------------------------------ MODULE MatchQueue ------------------------------
(***************************************************************************)
(* What a channel promises, whatever its capacity: writes and reads are    *)
(* matched in the order in which they are accepted.  Values that no read   *)
(* has matched yet and reads that no write has matched yet wait, oldest    *)
(* first.  The capacity only decides how long a writer waits, which is     *)
(* not visible here.  Channel.tla is shown to implement this module.       *)
(***************************************************************************)
EXTENDS Sequences

CONSTANTS Client, Value, NoVal

VARIABLES
  sent,       \* values not read yet
  asking,     \* clients whose read has no value yet
  got         \* got[c]: the value of c's last matched read

Init == sent = <<>> /\ asking = <<>> /\ got = [c \in Client |-> NoVal]

Write(v) ==
  \/ /\ asking = <<>>
     /\ sent' = Append(sent, v)
     /\ UNCHANGED <<asking, got>>
  \/ /\ asking # <<>>
     /\ got' = [got EXCEPT ![Head(asking)] = v]
     /\ asking' = Tail(asking)
     /\ UNCHANGED sent

Read(c) ==
  \/ /\ sent # <<>>
     /\ got' = [got EXCEPT ![c] = Head(sent)]
     /\ sent' = Tail(sent)
     /\ UNCHANGED asking
  \/ /\ sent = <<>>
     /\ asking' = Append(asking, c)
     /\ UNCHANGED <<sent, got>>

(* A read whose value nobody looks at. *)
Drop == sent # <<>> /\ sent' = Tail(sent) /\ UNCHANGED <<asking, got>>

Next == Drop \/ (\E v \in Value : Write(v)) \/ (\E c \in Client : Read(c))

Spec == Init /\ [][Next]_<<sent, asking, got>>
=============================================================================
