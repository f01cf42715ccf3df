-------------------------------- MODULE Join --------------------------------
(***************************************************************************)
(* What when_all and when_any promise: the parent goes on when all of its  *)
(* children are over, with the values of all, or when one is, with the     *)
(* value of the first and no other; with no children, at once.             *)
(***************************************************************************)
CONSTANT Child
VARIABLES mode, members, over, result, gone

Init ==
  /\ mode \in {"all", "any"}
  /\ members \in SUBSET Child
  /\ over = {} /\ result = {}
  /\ gone = FALSE

End(c) ==
  /\ c \in members \ over
  /\ over' = over \union {c}
  /\ result' = IF mode = "all" \/ over = {} THEN result \union {c} ELSE result
  /\ UNCHANGED <<mode, members, gone>>

GoOn ==
  /\ ~gone
  /\ over = members \/ (mode = "any" /\ over # {})
  /\ gone' = TRUE
  /\ UNCHANGED <<mode, members, over, result>>

Next == GoOn \/ \E c \in Child : End(c)

Spec == Init /\ [][Next]_<<mode, members, over, result, gone>>
=============================================================================
