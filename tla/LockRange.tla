------------------------------ MODULE LockRange ------------------------------
(***************************************************************************)
(* Locking several mutexes: a chain of coroutines waits for one of them,   *)
(* the "hard" one, tries the others, and when a try fails lets go of all   *)
(* it has, yields, and begins again with the mutex that failed.  Locking   *)
(* two mutexes is written apart in the code and does the same.  A native   *)
(* thread does it, too, but spins where a coroutine would queue.           *)
(*                                                                         *)
(* The mutexes are those of module Mutex, without timeouts: unlock() hands *)
(* the mutex to the first that waits.  A locker holds no mutex before, and *)
(* none of its mutexes is named twice.                                     *)
(***************************************************************************)
EXTENDS Integers, Sequences, FiniteSetsExt, SequencesExt

CONSTANTS
  Locker, NoLocker,
  NativeThread,   \* the lockers that are threads, not coroutines
  M,              \* the number of mutexes
  Orders          \* the orders in which a locker may name its mutexes

Mtx == 1..M

ASSUME MtxAssumption == M \in Nat \ {0} /\ NoLocker \notin Locker /\ NativeThread \subseteq Locker
ASSUME OrdersAssumption ==
  \A w \in Locker : \A o \in Orders[w] : o \in Seq(Mtx) /\ IsInjective(o)

VARIABLES
  order,          \* the mutexes of a locker, as it named them
  holder,         \* mutex_v2_impl::_owner
  waitq,          \* mutex_v2_impl::_wait_awakes
  rangeAt,        \* where a locker is
  hard,           \* _Hard_lock
  next,           \* _Next
  back            \* the mutexes it is unlocking, from where it is

rangeVars == <<order, holder, waitq, rangeAt, hard, next, back>>

(* "hard": about to lock the hard one; "asleep": in its queue; "trying":   *)
(* in _Try_lock_range(); "backing": unlocks after a failed try; "held":    *)
(* _Lock_range() is over; "leaving": unlocks all.                          *)
Where == {"idle", "hard", "asleep", "trying", "backing", "held", "leaving"}

RangeInit ==
  /\ order \in [Locker -> UNION {Orders[w] : w \in Locker}]
  /\ \A w \in Locker : order[w] \in Orders[w]
  /\ holder = [m \in Mtx |-> NoLocker]
  /\ waitq = [m \in Mtx |-> <<>>]
  /\ rangeAt = [w \in Locker |-> "idle"]
  /\ hard = [w \in Locker |-> 1]
  /\ next = [w \in Locker |-> 1]
  /\ back = [w \in Locker |-> <<>>]
-----------------------------------------------------------------------------
(* The first index to try from i on. *)
From(w, i) == IF i = hard[w] THEN i + 1 ELSE i

(* With no mutex to lock, _Lock_range() is over at once. *)
RangeLock(w) ==
  /\ rangeAt[w] = "idle"
  /\ hard' = [hard EXCEPT ![w] = 1]
  /\ rangeAt' = [rangeAt EXCEPT ![w] = IF order[w] = <<>> THEN "held" ELSE "hard"]
  /\ UNCHANGED <<order, holder, waitq, next, back>>

(* _Lock_ref() of a thread, lock_until_succeed(). *)
Spins(w) == w \in NativeThread

(* _Lock_ref() of the hard one. *)
LockHard(w) ==
  LET m == order[w][hard[w]] IN
  /\ rangeAt[w] = "hard"
  /\ next' = [next EXCEPT ![w] = From(w, 1)]
  /\ \/ /\ holder[m] = NoLocker
        /\ holder' = [holder EXCEPT ![m] = w]
        /\ rangeAt' = [rangeAt EXCEPT ![w] = "trying"]
        /\ UNCHANGED waitq
     \/ /\ holder[m] # NoLocker /\ ~Spins(w)
        /\ waitq' = [waitq EXCEPT ![m] = Append(@, w)]
        /\ rangeAt' = [rangeAt EXCEPT ![w] = "asleep"]
        /\ UNCHANGED holder
  /\ UNCHANGED <<order, hard, back>>

Trying(w) == rangeAt[w] = "trying" /\ next[w] <= Len(order[w])

TryGet(w) ==
  /\ Trying(w)
  /\ holder[order[w][next[w]]] = NoLocker
  /\ holder' = [holder EXCEPT ![order[w][next[w]]] = w]
  /\ next' = [next EXCEPT ![w] = From(w, @ + 1)]
  /\ UNCHANGED <<order, waitq, rangeAt, hard, back>>

(* What is unlocked when the try of i fails: _Try_lock_range() unlocks     *)
(* what it got of its part of the range, _Lock_attempt() the hard one, and *)
(* all before it when the first part was got.                              *)
Backout(o, h, i) ==
  IF i < h THEN SubSeq(o, 1, i - 1) \o <<o[h]>>
           ELSE SubSeq(o, h + 1, i - 1) \o SubSeq(o, 1, h)

(* Mutant: the first part stays locked when a try in the second fails. *)
BugTryFail(w) ==
  /\ Trying(w)
  /\ holder[order[w][next[w]]] # NoLocker
  /\ back' = [back EXCEPT ![w] = SubSeq(order[w], hard[w] + 1, next[w] - 1) \o <<order[w][hard[w]]>>]
  /\ hard' = [hard EXCEPT ![w] = next[w]]
  /\ rangeAt' = [rangeAt EXCEPT ![w] = "backing"]
  /\ UNCHANGED <<order, holder, waitq, next>>

TryFail(w) ==
  /\ Trying(w)
  /\ holder[order[w][next[w]]] # NoLocker
  /\ back' = [back EXCEPT ![w] = Backout(order[w], hard[w], next[w])]
  /\ hard' = [hard EXCEPT ![w] = next[w]]
  /\ rangeAt' = [rangeAt EXCEPT ![w] = "backing"]
  /\ UNCHANGED <<order, holder, waitq, next>>

GotAll(w) ==
  /\ rangeAt[w] = "trying"
  /\ next[w] > Len(order[w])
  /\ rangeAt' = [rangeAt EXCEPT ![w] = "held"]
  /\ UNCHANGED <<order, holder, waitq, hard, next, back>>

(* batch_unlock_t::unlock() or its destructor begins. *)
RangeUnlock(w) ==
  /\ rangeAt[w] = "held"
  /\ rangeAt' = [rangeAt EXCEPT ![w] = "leaving"]
  /\ back' = [back EXCEPT ![w] = order[w]]
  /\ UNCHANGED <<order, holder, waitq, hard, next>>

(* One mutex is unlocked, and given to the first that waits for it. *)
Unlock(w) ==
  LET m == Head(back[w]) IN
  /\ back[w] # <<>>
  /\ back' = [back EXCEPT ![w] = Tail(@)]
  /\ \/ /\ waitq[m] = <<>>
        /\ holder' = [holder EXCEPT ![m] = NoLocker]
        /\ UNCHANGED <<waitq, rangeAt>>
     \/ /\ waitq[m] # <<>>
        /\ holder' = [holder EXCEPT ![m] = Head(waitq[m])]
        /\ waitq' = [waitq EXCEPT ![m] = Tail(@)]
        /\ rangeAt' = [rangeAt EXCEPT ![Head(waitq[m])] = "trying"]
  /\ UNCHANGED <<order, hard, next>>

(* After _Yield() the next attempt begins; after the last unlock the       *)
(* locker is done.                                                         *)
Unlocked(w) ==
  /\ back[w] = <<>>
  /\ \/ /\ rangeAt[w] = "backing"
        /\ rangeAt' = [rangeAt EXCEPT ![w] = "hard"]
     \/ /\ rangeAt[w] = "leaving"
        /\ rangeAt' = [rangeAt EXCEPT ![w] = "idle"]
  /\ UNCHANGED <<order, holder, waitq, hard, next, back>>

Attempt(w) == LockHard(w) \/ TryGet(w) \/ TryFail(w) \/ GotAll(w)

RangeNext ==
  \E w \in Locker : RangeLock(w) \/ Attempt(w) \/ RangeUnlock(w) \/ Unlock(w) \/ Unlocked(w)

(* A locker goes on and lets go of what it has got. *)
RangeFair ==
  \A w \in Locker :
    WF_rangeVars(Attempt(w)) /\ WF_rangeVars(RangeUnlock(w) \/ Unlock(w) \/ Unlocked(w))

RangeSpec == RangeInit /\ [][RangeNext]_rangeVars /\ RangeFair
-----------------------------------------------------------------------------
RangeTypeOK ==
  /\ \A w \in Locker : order[w] \in Orders[w]
  /\ holder \in [Mtx -> Locker \union {NoLocker}]
  /\ waitq \in [Mtx -> Seq(Locker)]
  /\ rangeAt \in [Locker -> Where]
  /\ hard \in [Locker -> Mtx] /\ next \in [Locker -> 1..(M + 2)]
  /\ back \in [Locker -> Seq(Mtx)]

Holds(w) == {m \in Mtx : holder[m] = w}

(* A locker that waits for a mutex holds none, so that nobody waits for    *)
(* one who waits; it comes back with all of its mutexes, and leaves none   *)
(* locked when it is done.  In between it holds what it has to unlock.     *)
AllOrNothing ==
  \A w \in Locker :
    /\ rangeAt[w] \in {"idle", "hard", "asleep"} => Holds(w) = {}
    /\ rangeAt[w] = "held" => Holds(w) = ToSet(order[w])
    /\ rangeAt[w] \in {"backing", "leaving"} => Holds(w) = ToSet(back[w])
    /\ rangeAt[w] = "asleep" <=> \E m \in Mtx : Contains(waitq[m], w)

(* A locker gets all of its mutexes once the others leave it alone, and    *)
(* they leave nothing locked behind.  Two lockers that keep meeting may    *)
(* back off for ever; only the random wait in _Yield() ends that.          *)
RangeLocked ==
  \A w \in Locker :
    <>[](\A u \in Locker \ {w} : rangeAt[u] = "idle") =>
      ((rangeAt[w] = "hard") ~> (rangeAt[w] = "held"))
=============================================================================
