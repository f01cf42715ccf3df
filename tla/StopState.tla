----------------------------- MODULE StopState ------------------------------
(***************************************************************************)
(* The state that stop_sources, stop_tokens and stop_callbacks share: two  *)
(* reference counts and two flags in one word, and the list of callbacks.  *)
(* The lock flag is held for one step only, so each critical section is an *)
(* action and the flag is no variable.  What is not under the lock is: the *)
(* body of a callback, the report that it is over, the wait for that       *)
(* report, and the last reference of a callback.                           *)
(*                                                                         *)
(* The state deletes itself.  When it does so too early, what follows is   *)
(* undefined: the model ends there.                                        *)
(***************************************************************************)
EXTENDS Integers, Sequences, FiniteSetsExt, SequencesExt

CONSTANTS
  Thread, Callback, NoThread, NoCallback,
  kSourceRefIncrement,      \* 2^33 in the code
  MaxSources, MaxTokens     \* bounds on the references

kTokenRefIncrement == 4
kZeroRef == kTokenRefIncrement + kSourceRefIncrement
kLockedAndZeroRef == kZeroRef + kZeroRef

(* The counts do not run into each other. *)
ASSUME CountsAssumption ==
  /\ MaxSources \in Nat \ {0} /\ MaxTokens \in Nat
  /\ kSourceRefIncrement \in Nat
  /\ kSourceRefIncrement > kTokenRefIncrement * (MaxTokens + 1)
ASSUME NobodyAssumption == NoThread \notin Thread /\ NoCallback \notin Callback

VARIABLES
  requested,      \* kStopRequestedFlag
  tokens,         \* the reference counts in state_
  sources,
  deleted,
  head,           \* the callbacks in the list, from head_ on
  signalling,     \* signalling_
  stage,          \* where request_stop() is
  job,            \* its local cb
  anyMore,        \* its local any_more
  removed,        \* its local removed
  cb,             \* what became of a callback
  finished,       \* finished_executing
  isRemoved,      \* is_removed points to the local of request_stop()
  leaving         \* the callback a thread has found out of the list in remove_callback()

stopWord == <<requested, tokens, sources, deleted>>
stopCall == <<signalling, stage, job, anyMore, removed>>
stopBack == <<cb, finished, isRemoved>>
stopVars == <<stopWord, stopCall, stopBack, head, leaving>>

(* "held": it keeps a reference; "spent": it ran when it was registered;   *)
(* "never": it was registered when nobody could ask any more.              *)
Fate == {"unborn", "held", "spent", "never", "dead"}
Stage == {"none", "popped", "calling", "relock", "done"}

StopInit ==
  /\ requested = FALSE /\ tokens = 0 /\ sources = 1 /\ deleted = FALSE
  /\ head = <<>>
  /\ signalling = NoThread /\ stage = "none" /\ job = NoCallback
  /\ anyMore = FALSE /\ removed = FALSE
  /\ cb = [c \in Callback |-> "unborn"]
  /\ finished = [c \in Callback |-> FALSE]
  /\ isRemoved = [c \in Callback |-> FALSE]
  /\ leaving = [t \in Thread |-> NoCallback]
-----------------------------------------------------------------------------
Word == kSourceRefIncrement * sources + kTokenRefIncrement * tokens

(* The tokens that are not the reference of a callback. *)
Plain == tokens - Cardinality({c \in Callback : cb[c] = "held"})

InRequest == stage \in {"popped", "calling", "relock"}

(* t is in no call, or in the body of a callback. *)
Free(t) ==
  /\ ~deleted
  /\ leaving[t] = NoCallback
  /\ t = signalling => stage \notin {"popped", "relock"}

(* request_stop() takes the first callback out and unlocks; with the list  *)
(* empty it is over.                                                       *)
Pop ==
  IF head = <<>>
  THEN /\ stage' = "done"
       /\ UNCHANGED <<head, job, anyMore>>
  ELSE /\ stage' = "popped"
       /\ job' = Head(head)
       /\ head' = Tail(head)
       /\ anyMore' = (Tail(head) # <<>>)

Request(t) ==
  /\ Free(t)
  /\ sources > 0
  /\ ~requested
  /\ requested' = TRUE
  /\ signalling' = t
  /\ Pop
  /\ UNCHANGED <<tokens, sources, deleted, removed, stopBack, leaving>>

Call ==
  /\ stage = "popped"
  /\ ~deleted
  /\ stage' = "calling"
  /\ removed' = FALSE
  /\ isRemoved' = [isRemoved EXCEPT ![job] = TRUE]
  /\ UNCHANGED <<stopWord, signalling, job, anyMore, cb, finished, head, leaving>>

(* Mutant: the report is made for a callback that is gone, too. *)
BugReturn ==
  /\ stage = "calling"
  /\ Free(signalling)
  /\ isRemoved' = [isRemoved EXCEPT ![job] = FALSE]
  /\ finished' = [finished EXCEPT ![job] = TRUE]
  /\ stage' = IF anyMore THEN "relock" ELSE "done"
  /\ UNCHANGED <<stopWord, signalling, job, anyMore, removed, cb, head, leaving>>

(* Mutant: nobody is told that the callback is over. *)
BugNoReport ==
  /\ stage = "calling"
  /\ Free(signalling)
  /\ isRemoved' = [isRemoved EXCEPT ![job] = @ /\ removed]
  /\ stage' = IF anyMore THEN "relock" ELSE "done"
  /\ UNCHANGED <<stopWord, signalling, job, anyMore, removed, cb, finished, head, leaving>>

Return ==
  /\ stage = "calling"
  /\ Free(signalling)
  /\ IF removed
     THEN UNCHANGED <<isRemoved, finished>>
     ELSE /\ isRemoved' = [isRemoved EXCEPT ![job] = FALSE]
          /\ finished' = [finished EXCEPT ![job] = TRUE]
  /\ stage' = IF anyMore THEN "relock" ELSE "done"
  /\ UNCHANGED <<stopWord, signalling, job, anyMore, removed, cb, head, leaving>>

Relock ==
  /\ stage = "relock"
  /\ ~deleted
  /\ Pop
  /\ UNCHANGED <<stopWord, signalling, removed, stopBack, leaving>>
-----------------------------------------------------------------------------
(* A stop_callback is made from a token: a copy stays with the caller, a   *)
(* moved one becomes the callback's reference.                             *)
Register(t, c, moved) ==
  /\ Free(t)
  /\ cb[c] = "unborn"
  /\ Plain > 0
  /\ moved \/ tokens < MaxTokens
  /\ \/ /\ requested
        /\ cb' = [cb EXCEPT ![c] = "spent"]
        /\ UNCHANGED <<head, tokens>>
     \/ /\ ~requested /\ sources = 0
        /\ cb' = [cb EXCEPT ![c] = "never"]
        /\ UNCHANGED <<head, tokens>>
     \/ /\ ~requested /\ sources > 0
        /\ cb' = [cb EXCEPT ![c] = "held"]
        /\ head' = <<c>> \o head
        /\ tokens' = IF moved THEN tokens ELSE tokens + 1
  /\ UNCHANGED <<requested, sources, deleted, stopCall, finished, isRemoved, leaving>>

(* Mutant: no return after the unlock: the reference goes twice. *)
BugDeregister(t, c) ==
  /\ Free(t)
  /\ cb[c] = "held"
  /\ Contains(head, c)
  /\ head' = RemoveFirst(head, c)
  /\ cb' = [cb EXCEPT ![c] = "dead"]
  /\ tokens' = tokens - 2
  /\ deleted' = (Word < kLockedAndZeroRef)
  /\ UNCHANGED <<leaving, requested, sources, stopCall, finished, isRemoved>>

(* unlock_and_decrement_token_ref_count() *)
UnlockAndRemoveToken == tokens' = tokens - 1 /\ deleted' = (Word < kLockedAndZeroRef)

(* remove_callback(): a callback still in the list is taken out, and its   *)
(* reference goes with the unlock.                                         *)
Deregister(t, c) ==
  /\ Free(t)
  /\ cb[c] = "held"
  /\ \A u \in Thread : leaving[u] # c
  /\ IF Contains(head, c)
     THEN /\ head' = RemoveFirst(head, c)
          /\ cb' = [cb EXCEPT ![c] = "dead"]
          /\ UnlockAndRemoveToken
          /\ UNCHANGED leaving
     ELSE /\ leaving' = [leaving EXCEPT ![t] = c]
          /\ UNCHANGED <<head, cb, tokens, deleted>>
  /\ UNCHANGED <<requested, sources, stopCall, finished, isRemoved>>

(* remove_token_reference() *)
RemoveToken == tokens' = tokens - 1 /\ deleted' = (Word < kZeroRef)

(* Mutant: a thread does not wait for another's callback. *)
BugLeave(t) ==
  LET c == leaving[t] IN
  /\ ~deleted
  /\ c # NoCallback
  /\ removed' = (removed \/ (signalling = t /\ isRemoved[c]))
  /\ cb' = [cb EXCEPT ![c] = "dead"]
  /\ RemoveToken
  /\ leaving' = [leaving EXCEPT ![t] = NoCallback]
  /\ UNCHANGED <<requested, sources, signalling, stage, job, anyMore, finished, isRemoved, head>>

(* A callback out of the list has run or runs.  The thread that runs it    *)
(* tells request_stop() to forget it, any other waits until it is over.    *)
Leave(t) ==
  LET c == leaving[t] IN
  /\ ~deleted
  /\ c # NoCallback
  /\ \/ /\ signalling = t
        /\ removed' = (removed \/ isRemoved[c])
     \/ /\ signalling # t
        /\ finished[c]
        /\ UNCHANGED removed
  /\ cb' = [cb EXCEPT ![c] = "dead"]
  /\ RemoveToken
  /\ leaving' = [leaving EXCEPT ![t] = NoCallback]
  /\ UNCHANGED <<requested, sources, signalling, stage, job, anyMore, finished, isRemoved, head>>

(* The destructor of a callback that was not taken. *)
Discard(t, c) ==
  /\ Free(t)
  /\ cb[c] \in {"spent", "never"}
  /\ cb' = [cb EXCEPT ![c] = "dead"]
  /\ UNCHANGED <<stopWord, stopCall, finished, isRemoved, head, leaving>>
-----------------------------------------------------------------------------
onlyWord == <<requested, stopCall, stopBack, head, leaving>>

CopySource(t) ==
  /\ Free(t)
  /\ sources \in 1..(MaxSources - 1)
  /\ sources' = sources + 1
  /\ UNCHANGED <<tokens, deleted, onlyWord>>

(* The source a running request_stop() was called on stays. *)
DropSource(t) ==
  /\ Free(t)
  /\ sources > IF InRequest THEN 1 ELSE 0
  /\ sources' = sources - 1
  /\ deleted' = (Word < kZeroRef)
  /\ UNCHANGED <<tokens, onlyWord>>

(* get_token() of a source, or the copy of a token. *)
GetToken(t) ==
  /\ Free(t)
  /\ sources > 0 \/ Plain > 0
  /\ tokens < MaxTokens
  /\ tokens' = tokens + 1
  /\ UNCHANGED <<sources, deleted, onlyWord>>

DropToken(t) ==
  /\ Free(t)
  /\ Plain > 0
  /\ RemoveToken
  /\ UNCHANGED <<sources, onlyWord>>

Refers(t) == CopySource(t) \/ DropSource(t) \/ GetToken(t) \/ DropToken(t)

Comes(t) == \E c \in Callback : \E moved \in BOOLEAN : Register(t, c, moved)
Goes(t) == \E c \in Callback : Deregister(t, c) \/ Discard(t, c)
Signals == (\E t \in Thread : Request(t)) \/ Call \/ Return \/ Relock

StopNext == Signals \/ \E t \in Thread : Comes(t) \/ Goes(t) \/ Leave(t) \/ Refers(t)

(* request_stop() goes on and the body of a callback ends; a thread that   *)
(* waits for a callback sees that it is over.                              *)
StopFair ==
  /\ WF_stopVars(Call) /\ WF_stopVars(Return) /\ WF_stopVars(Relock)
  /\ \A t \in Thread : WF_stopVars(Leave(t))

StopSpec == StopInit /\ [][StopNext]_stopVars /\ StopFair
-----------------------------------------------------------------------------
(* The variables have their types, and the counts count. *)
StopTypeOK ==
  /\ requested \in BOOLEAN /\ deleted \in BOOLEAN
  /\ tokens \in 0..MaxTokens /\ sources \in 0..MaxSources
  /\ Plain >= 0
  /\ head \in Seq(Callback)
  /\ signalling \in Thread \union {NoThread} /\ stage \in Stage
  /\ job \in Callback \union {NoCallback}
  /\ anyMore \in BOOLEAN /\ removed \in BOOLEAN
  /\ cb \in [Callback -> Fate]
  /\ finished \in [Callback -> BOOLEAN] /\ isRemoved \in [Callback -> BOOLEAN]
  /\ leaving \in [Thread -> Callback \union {NoCallback}]

(* What is in the list, or out of it and not yet called, is alive; one     *)
(* that went away in its own body has told request_stop() so; a callback   *)
(* points to the local `removed` only while that call is under way.        *)
WhoIsLive ==
  /\ \A c \in ToSet(head) : cb[c] = "held" /\ ~finished[c]
  /\ stage = "popped" => cb[job] = "held"
  /\ stage = "calling" => (cb[job] = "dead" <=> removed)
  /\ \A c \in Callback : isRemoved[c] /\ cb[c] # "dead" => c = job /\ stage = "calling"
  /\ \A t \in Thread : leaving[t] # NoCallback => cb[leaving[t]] = "held"

(* request_stop() calls no callback that is destroyed and writes to none   *)
(* (178-187), whichever thread destroys it, its own body included.         *)
TouchesOnlyLive ==
  /\ []WhoIsLive
  /\ [][\A c \in Callback : cb[c] = "dead" =>
          isRemoved'[c] = isRemoved[c] /\ finished'[c] = finished[c]]_stopVars

(* The state is not deleted while a source or a token refers to it.        *)
LivesWhileReferenced == deleted => tokens + sources = 0

Running(c) == stage = "calling" /\ job = c
Phase(c) ==
  CASE cb[c] = "unborn" -> "out"
    [] cb[c] = "never" -> "never"
    [] cb[c] = "spent" -> "ran"
    [] cb[c] = "dead" -> IF Running(c) THEN "quitting" ELSE "left"
    [] cb[c] = "held" -> IF Running(c) THEN "running"
                         ELSE IF finished[c] THEN "ran" ELSE "in"

Signal == INSTANCE StopSignal WITH asked <- requested, phase <- [c \in Callback |-> Phase(c)]

(* A callback runs at most once, after a stop was asked for, and never     *)
(* after its destructor returned, whichever threads register it, run it    *)
(* and destroy it.                                                         *)
ImplementsStop == Signal!Spec

(* Every callback in the list when a stop is asked for is run or taken     *)
(* away, and a destructor that waits for a callback comes back, unless the *)
(* state is deleted under them.                                            *)
CallbacksRun ==
  /\ \A c \in Callback :
       (requested /\ cb[c] = "held") ~> (finished[c] \/ cb[c] = "dead" \/ deleted)
  /\ \A t \in Thread : (leaving[t] # NoCallback) ~> (leaving[t] = NoCallback \/ deleted)
=============================================================================
