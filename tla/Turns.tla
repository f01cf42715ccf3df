-------------------------------- MODULE Turns --------------------------------
(***************************************************************************)
(* What generators promise.  Those that run as tasks take turns, one value *)
(* at a time, and each comes to its end.  A loop over one gets its values  *)
(* in order and the value of co_return last -- but nothing from a          *)
(* generator that yields nothing.                                          *)
(***************************************************************************)
EXTENDS Naturals, Sequences
CONSTANTS
  Player,
  long            \* how many values one yields
VARIABLES
  turn,           \* the tasks, the next one first
  values,         \* how many values it has given
  fate

Fate == {"fresh", "task", "loop", "left", "over"}

Init ==
  /\ turn = <<>>
  /\ values = [p \in Player |-> 0]
  /\ fate = [p \in Player |-> "fresh"]

Becomes(p, from, to) == fate[p] \in from /\ fate' = [fate EXCEPT ![p] = to]

Gives(p) ==
  /\ values[p] <= long[p]
  /\ values' = [values EXCEPT ![p] = @ + 1]

Enter(p) ==
  /\ Becomes(p, {"fresh"}, "task")
  /\ turn' = Append(turn, p)
  /\ UNCHANGED values

Step ==
  /\ turn # <<>>
  /\ LET p == Head(turn) IN
     /\ Gives(p)
     /\ \/ values[p] < long[p] /\ turn' = Append(Tail(turn), p) /\ UNCHANGED fate
        \/ values[p] = long[p] /\ turn' = Tail(turn) /\ Becomes(p, {"task"}, "over")

Read(p) == long[p] > 0 /\ Gives(p) /\ Becomes(p, {"fresh", "loop"}, "loop") /\ UNCHANGED turn

End(p) ==
  /\ values[p] = IF long[p] = 0 THEN 0 ELSE long[p] + 1
  /\ Becomes(p, {"fresh", "loop"}, "over")
  /\ UNCHANGED <<turn, values>>

Leave(p) == Becomes(p, {"fresh", "loop"}, "left") /\ UNCHANGED <<turn, values>>

Next == Step \/ \E p \in Player : Enter(p) \/ Read(p) \/ End(p) \/ Leave(p)

Spec == Init /\ [][Next]_<<turn, values, fate>> /\ WF_<<turn, values, fate>>(Step)
=============================================================================
