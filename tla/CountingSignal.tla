---------------------------- MODULE CountingSignal ----------------------------
(***************************************************************************)
(* What events promise.  A call of signal() lets the client pass that      *)
(* waits longest, or is counted and lets one pass later; signal_all() lets *)
(* all pass who wait.  A client may want a signal of each of several       *)
(* events: it takes those that are there and waits for the others, and     *)
(* passes when it waits nowhere.  It passes in no other way; it may give   *)
(* up instead, and then waits nowhere either.  Only reset() takes signals  *)
(* away that nobody used.                                                  *)
(***************************************************************************)
EXTENDS Integers

CONSTANTS Object, Client, Caller

VARIABLES
  count,      \* the signals of an event that nobody has used
  waiting,    \* the clients that wait for one
  ahead,      \* the pairs of them of whom the first came first
  answer,     \* a client is "out", "asking", "waiting" or has "passed"
  call,       \* a caller is "idle", or what it calls
  about,      \* the event it calls that of
  resets      \* how often reset() was called

Init ==
  /\ count \in [Object -> {0, 1}]
  /\ waiting = [e \in Object |-> {}]
  /\ ahead = [e \in Object |-> {}]
  /\ answer = [c \in Client |-> "out"]
  /\ call = [t \in Caller |-> "idle"]
  /\ about \in [Caller -> Object]
  /\ resets = 0

(* c has a question, and has it answered when the events E are as they are *)
(* in this step.                                                           *)
Ask(c) ==
  /\ answer[c] \in {"out", "passed"}
  /\ answer' = [answer EXCEPT ![c] = "asking"]
  /\ UNCHANGED <<count, waiting, ahead, call, about, resets>>

Wait(c, E) ==
  LET missing == {e \in E : count[e] = 0}
  IN  /\ answer[c] = "asking"
      /\ count' = [e \in Object |-> IF e \in E \ missing THEN count[e] - 1 ELSE count[e]]
      /\ waiting' = [e \in Object |->
                       IF e \in missing THEN waiting[e] \union {c} ELSE waiting[e]]
      /\ ahead' = [e \in Object |->
                     IF e \in missing THEN ahead[e] \union (waiting[e] \X {c}) ELSE ahead[e]]
      /\ answer' = [answer EXCEPT ![c] = IF missing = {} THEN "passed" ELSE "waiting"]
      /\ UNCHANGED <<call, about, resets>>

(* c waits no longer at the events E. *)
Without(c, E) ==
  /\ waiting' = [e \in Object |-> IF e \in E THEN waiting[e] \ {c} ELSE waiting[e]]
  /\ ahead' = [e \in Object |->
                 IF e \in E THEN {p \in ahead[e] : c # p[1] /\ c # p[2]} ELSE ahead[e]]

GiveUp(c) ==
  /\ answer[c] = "waiting"
  /\ answer' = [answer EXCEPT ![c] = "out"]
  /\ Without(c, Object)
  /\ UNCHANGED <<count, call, about, resets>>

Call(t, e, how) ==
  /\ call[t] = "idle"
  /\ call' = [call EXCEPT ![t] = how]
  /\ about' = [about EXCEPT ![t] = e]
  /\ UNCHANGED <<count, waiting, ahead, answer, resets>>

(* The one who waits longest has its signal.  That is all that signal()    *)
(* does, and signal_all() goes on.                                         *)
Give(t) ==
  LET e == about[t]
  IN  /\ call[t] # "idle"
      /\ \E c \in waiting[e] :
           /\ \A b \in waiting[e] : <<b, c>> \notin ahead[e]
           /\ Without(c, {e})
           /\ answer' = [answer EXCEPT ![c] =
                           IF \A r \in Object \ {e} : c \notin waiting[r] THEN "passed" ELSE @]
      /\ call' = [call EXCEPT ![t] = IF @ = "signal" THEN "idle" ELSE @]
      /\ UNCHANGED <<count, about, resets>>

(* Nobody waits (any longer). *)
Return(t) ==
  LET e == about[t]
  IN  /\ call[t] # "idle"
      /\ waiting[e] = {}
      /\ count' = [count EXCEPT ![e] = IF call[t] = "signal" THEN @ + 1 ELSE @]
      /\ call' = [call EXCEPT ![t] = "idle"]
      /\ UNCHANGED <<waiting, ahead, answer, about, resets>>

Reset(e) ==
  /\ count' = [count EXCEPT ![e] = 0]
  /\ resets' = resets + 1
  /\ UNCHANGED <<waiting, ahead, answer, call, about>>

Next ==
  \/ \E c \in Client : Ask(c) \/ GiveUp(c) \/ \E E \in (SUBSET Object) \ {{}} : Wait(c, E)
  \/ \E t \in Caller : Give(t) \/ Return(t)
  \/ \E t \in Caller, e \in Object, how \in {"signal", "signal_all"} : Call(t, e, how)
  \/ \E e \in Object : Reset(e)

Spec == Init /\ [][Next]_<<count, waiting, ahead, answer, call, about, resets>>
=============================================================================
