----------------------------- MODULE StopSignal -----------------------------
(***************************************************************************)
(* What a stop token promises about callbacks.  A callback runs at most    *)
(* once and only after a stop was asked for; once it has left -- its       *)
(* destructor is over -- it does not run and is not touched.  It leaves    *)
(* while it runs only if it leaves from inside its own body.               *)
(***************************************************************************)
CONSTANT Callback
VARIABLES asked, phase

Phase == {"out", "in", "running", "quitting", "ran", "never", "left"}

Init == asked = FALSE /\ phase = [c \in Callback |-> "out"]

Turns(c, from, to) ==
  /\ phase[c] \in from
  /\ phase' = [phase EXCEPT ![c] = to]
  /\ UNCHANGED asked

Ask == ~asked /\ asked' = TRUE /\ UNCHANGED phase

(* A callback that comes too late runs at once. *)
Join(c) ==
  \/ ~asked /\ Turns(c, {"out"}, "in")
  \/ ~asked /\ Turns(c, {"out"}, "never")
  \/ asked /\ Turns(c, {"out"}, "ran")

Begin(c) == asked /\ Turns(c, {"in"}, "running")
Quit(c) == Turns(c, {"running"}, "quitting")
End(c) == Turns(c, {"running"}, "ran") \/ Turns(c, {"quitting"}, "left")
Leave(c) == Turns(c, {"in", "ran", "never"}, "left")

Next == Ask \/ \E c \in Callback : Join(c) \/ Begin(c) \/ Quit(c) \/ End(c) \/ Leave(c)

Spec == Init /\ [][Next]_<<asked, phase>>
=============================================================================
