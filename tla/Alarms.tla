------------------------------- MODULE Alarms -------------------------------
(***************************************************************************)
(* What a timer promises.  It is called once, as fired, not before its     *)
(* time, or as cancelled; one that its own thread has halted does not      *)
(* fire.  Calling a timer may halt others.                                 *)
(***************************************************************************)
EXTENDS Naturals
CONSTANTS Alarm, Due
VARIABLES hour, mood

Mood == {"idle", "set", "halted", "fired", "cancelled"}

Init == hour = 0 /\ mood = [a \in Alarm |-> "idle"]

Pass == hour' > hour /\ UNCHANGED mood

Turn(a, from, to) ==
  /\ mood[a] = from
  /\ mood' = [mood EXCEPT ![a] = to]
  /\ UNCHANGED hour

Call(a, how) ==
  /\ mood[a] \in IF how = "fired" THEN {"set"} ELSE {"set", "halted"}
  /\ how = "fired" => hour >= Due[a]
  /\ mood'[a] = how
  /\ \A b \in Alarm \ {a} :
       mood'[b] = mood[b] \/ (mood[b] = "set" /\ mood'[b] = "halted")
  /\ UNCHANGED hour

CancelAll ==
  /\ \A a \in Alarm :
       mood'[a] = mood[a] \/ (mood[a] \in {"set", "halted"} /\ mood'[a] = "cancelled")
  /\ UNCHANGED hour

Next ==
  \/ Pass \/ CancelAll
  \/ \E a \in Alarm :
       \/ Turn(a, "idle", "set") \/ Turn(a, "set", "halted")
       \/ Call(a, "fired") \/ Call(a, "cancelled")

Spec == Init /\ [][Next]_<<hour, mood>>
=============================================================================
