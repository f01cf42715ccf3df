------------------------------ MODULE EventProofs ------------------------------
(***************************************************************************)
(* Proofs about Event.tla, for any number of events, waiters and threads.  *)
(***************************************************************************)
EXTENDS Event, QueueLemmas

(* The waiters in the queue of an event.                                   *)
Queued == [e \in Event |-> {c \in Coro : Stands(waitq[e], c)}]
Inside == {"first", "second"}

(* What the lock of an event says: who is inside try_wait_one(), signal()  *)
(* or the batch lock, and no two of them.                                  *)
Locks ==
  /\ \A c \in One : at[c] \notin {"locking", "trying"}
  /\ \A d \in All : at[d] \notin Inside \union {"between"}
  /\ \A e \in Event, c \in One : lock[e] = c <=> at[c] \in Inside /\ ev[c] = e
  /\ \A e \in Event, d \in All : lock[e] = d => at[d] = "trying"
  /\ \A e \in Event, t \in Thread : lock[e] = t <=> doing[t] # "idle" /\ target[t] = e
  /\ \A t \in Thread : hand[t] # NoOne => doing[t] # "idle"
  /\ \A c \in One : probe[c] # "load" => at[c] \in Inside

(* A counter falls below zero only in a try, and by one; a signal that is  *)
(* going to be counted finds room.                                         *)
Counts ==
  /\ \A c \in One : probe[c] = "undo" => counter[ev[c]] \in {-1, 0}
  /\ \A e \in Event : counter[e] < 0 => \E c \in One : probe[c] = "undo" /\ ev[c] = e
  /\ \A t \in Thread : doing[t] = "signal" => counter[target[t]] < MaxCount

Once == \A e \in Event, c \in Coro : Single(waitq[e], c)

(* A waiter stands in a queue once, and no longer than it waits; what a    *)
(* thread has in its hand it has taken out.                                *)
OnesQueued ==
  \A e \in Event, c \in One : c \in Queued[e] => ev[c] = e /\ at[c] \in {"asleep", "expired"}

AllsQueued ==
  \A e \in Event, d \in All : d \in Queued[e] => at[d] \in {"asleep", "expired"} /\ e \in first[d]

InHands ==
  \A t \in Thread : hand[t] # NoOne =>
    /\ at[hand[t]] \in {"asleep", "expired"}
    /\ target[t] \in first[hand[t]]
    /\ hand[t] \notin Queued[target[t]]

Queues ==
  /\ Once
  /\ OnesQueued
  /\ AllsQueued
  /\ InHands

(* state_event_all_t::_lock is held by on_timeout() alone, and until then  *)
(* its proxies are those that are left.                                    *)
Proxies ==
  \A d \in All :
    /\ slock[d] <=> at[d] = "expired"
    /\ at[d] = "asleep" =>
         /\ left[d] = Cardinality(first[d])
         /\ \A e \in first[d] : d \in Queued[e] \/ \E t \in Thread : hand[t] = d /\ target[t] = e

(* With one reset, a try that fails gives back what it took, no more; so   *)
(* no signal is there that a waiter has not seen.                          *)
Tries ==
  \A c \in One : /\ probe[c] = "take" /\ counter[ev[c]] <= 0 => resets = 1
                 /\ probe[c] = "undo" => resets = 1 /\ counter[ev[c]] = -1

Seen == \A e \in Event, c \in Coro : counter[e] > 0 /\ c \in Queued[e] => ~Live(c)

Unseen == MaxResets < 2 => Tries /\ Seen

Inv ==
  /\ TypeOK
  /\ Locks
  /\ Counts
  /\ AsleepIffLive
  /\ Queues
  /\ Proxies
  /\ Unseen
-----------------------------------------------------------------------------
(* The types without that of the queues. *)
Fields ==
  /\ counter \in [Event -> -1..MaxCount]
  /\ lock \in [Event -> Coro \union Thread \union {NoOne}]
  /\ at \in [Coro -> Where]
  /\ probe \in [Coro -> {"load", "take", "undo"}]
  /\ ev \in [Coro -> Event]
  /\ armed \in [One -> BOOLEAN]
  /\ left \in [All -> 0..N]
  /\ first \in [All -> SUBSET Event]
  /\ slock \in [All -> BOOLEAN]
  /\ result \in [Coro -> BOOLEAN]
  /\ doing \in [Thread -> {"idle", "signal", "signal_all"}]
  /\ target \in [Thread -> Event]
  /\ hand \in [Thread -> All \union {NoOne}]
  /\ resets \in 0..MaxResets

LEMMA FieldTypes == TypeOK <=> Fields /\ waitq \in [Event -> Seq(Coro)]
  BY DEF TypeOK, Fields

(* What a step does to the queues: c goes into those of E, or out of them. *)
Puts(c, E) ==
  \A e \in Event, x \in Coro : x \in Queued'[e] <=> x \in Queued[e] \/ (x = c /\ e \in E)

Takes(c, E) ==
  \A e \in Event, x \in Coro : x \in Queued'[e] <=> x \in Queued[e] /\ ~(x = c /\ e \in E)

LEMMA Joins ==
  ASSUME TypeOK, Once, NEW c \in Coro, NEW E \in SUBSET Event,
         \A e \in E : c \notin Queued[e],
         waitq' = [e \in Event |-> IF e \in E THEN Append(waitq[e], c) ELSE waitq[e]]
  PROVE  waitq' \in [Event -> Seq(Coro)] /\ Once' /\ Puts(c, E)
<1>1. \A e \in Event : waitq[e] \in Seq(Coro)
  BY DEF TypeOK
<1>2. \A e \in Event : Append(waitq[e], c) \in Seq(Coro)
  BY <1>1, AppendProperties
<1>3. waitq' \in [Event -> Seq(Coro)]
  BY <1>1, <1>2
<1>4. ASSUME NEW e \in Event, NEW x \in Coro
      PROVE  /\ Stands(waitq'[e], x) <=> Stands(waitq[e], x) \/ (x = c /\ e \in E)
             /\ Single(waitq'[e], x)
  <2>1. Single(waitq[e], x)
    BY DEF Once
  <2>2. CASE e \in E
    <3>1. waitq'[e] = Append(waitq[e], c) /\ ~Stands(waitq[e], c)
      BY <2>2 DEF Queued
    <3>2. /\ Stands(Append(waitq[e], c), x) <=> Stands(waitq[e], x) \/ x = c
          /\ Single(waitq[e], x) /\ ~(x = c /\ Stands(waitq[e], x)) => Single(Append(waitq[e], c), x)
      BY <1>1, AtTheEnd
    <3> QED BY <2>1, <2>2, <3>1, <3>2
  <2>3. CASE e \notin E
    BY <2>1, <2>3
  <2> QED BY <2>2, <2>3
<1>5. Once'
  BY <1>4 DEF Once
<1>6. Puts(c, E)
  BY <1>4 DEF Puts, Queued
<1> QED BY <1>3, <1>5, <1>6

LEMMA Pops ==
  ASSUME TypeOK, Once, NEW e \in Event, waitq[e] # <<>>,
         waitq' = [waitq EXCEPT ![e] = Tail(@)]
  PROVE  /\ waitq' \in [Event -> Seq(Coro)] /\ Once'
         /\ Head(waitq[e]) \in Coro /\ Head(waitq[e]) \in Queued[e]
         /\ Takes(Head(waitq[e]), {e})
<1>1. \A r \in Event : waitq[r] \in Seq(Coro)
  BY DEF TypeOK
<1> DEFINE c == Head(waitq[e])
<1>2. c \in Coro /\ Tail(waitq[e]) \in Seq(Coro)
  BY <1>1, HeadTailProperties
<1>3. waitq' \in [Event -> Seq(Coro)]
  BY <1>2 DEF TypeOK
<1>4. Stands(waitq[e], c)
  BY <1>1, <1>2, AtTheFront
<1>5. ASSUME NEW r \in Event, NEW x \in Coro
      PROVE  /\ Stands(waitq'[r], x) <=> Stands(waitq[r], x) /\ ~(x = c /\ r = e)
             /\ Single(waitq'[r], x)
  <2>1. Single(waitq[r], x)
    BY DEF Once
  <2>2. CASE r = e
    <3>1. waitq'[r] = Tail(waitq[e])
      BY <2>2 DEF TypeOK
    <3>2. /\ Stands(Tail(waitq[e]), x) => Stands(waitq[e], x)
          /\ Stands(waitq[e], x) /\ x # c => Stands(Tail(waitq[e]), x)
          /\ Single(waitq[e], x) => Single(Tail(waitq[e]), x)
          /\ Single(waitq[e], c) => ~Stands(Tail(waitq[e]), c)
      BY <1>1, <1>2, AtTheFront
    <3> QED BY <2>1, <2>2, <3>1, <3>2
  <2>3. CASE r # e
    BY <2>1, <2>3 DEF TypeOK
  <2> QED BY <2>2, <2>3
<1>6. Once'
  BY <1>5 DEF Once
<1>7. Takes(c, {e})
  BY <1>5 DEF Takes, Queued
<1> QED BY <1>2, <1>3, <1>4, <1>6, <1>7 DEF Queued

LEMMA Erases ==
  ASSUME TypeOK, Once, NEW e \in Event, NEW c \in Coro,
         waitq' = [waitq EXCEPT ![e] = RemoveFirst(@, c)]
  PROVE  waitq' \in [Event -> Seq(Coro)] /\ Once' /\ Takes(c, {e})
<1>1. waitq[e] \in Seq(Coro) /\ \A x \in Coro : Single(waitq[e], x)
  BY DEF TypeOK, Once
<1>2. ASSUME NEW x \in Coro
      PROVE  /\ RemoveFirst(waitq[e], c) \in Seq(Coro)
             /\ Stands(RemoveFirst(waitq[e], c), x) <=> Stands(waitq[e], x) /\ x # c
             /\ Single(RemoveFirst(waitq[e], c), x)
  BY <1>1, Erased
<1>3. waitq' \in [Event -> Seq(Coro)]
  BY <1>2 DEF TypeOK
<1>4. \A r \in Event : waitq'[r] = IF r = e THEN RemoveFirst(waitq[e], c) ELSE waitq[r]
  BY DEF TypeOK
<1>5. Once'
  BY <1>2, <1>4 DEF Once
<1>6. Takes(c, {e})
  BY <1>2, <1>4 DEF Takes, Queued
<1> QED BY <1>3, <1>5, <1>6

LEMMA Unmoved ==
  ASSUME TypeOK, Once, UNCHANGED waitq
  PROVE  waitq' \in [Event -> Seq(Coro)] /\ Once' /\ Queued' = Queued
  BY DEF TypeOK, Once, Queued
-----------------------------------------------------------------------------
(* What the longer steps do. *)
LEMMA Smallests ==
  ASSUME CountsAssumption, NEW E \in SUBSET Event, E # {}
  PROVE  Min(E) \in E /\ Min(E) \in Event
<1>1. E \in SUBSET Nat
  BY DEF Event, CountsAssumption
<1> QED BY <1>1, MinIsSmallest

LEMMA Sizes ==
  ASSUME NEW E \in SUBSET Event
  PROVE  /\ IsFiniteSet(E) /\ Cardinality(E) \in 0..N
         /\ Cardinality(E) = 0 <=> E = {}
         /\ \A e \in E : Cardinality(E \ {e}) = Cardinality(E) - 1
<1>1. IsFiniteSet(Event) /\ Cardinality(Event) = N
  BY CountsAssumption, FS_Interval DEF Event
<1>2. IsFiniteSet(E) /\ Cardinality(E) <= N
  BY <1>1, FS_Subset
<1>3. Cardinality(E) \in Nat /\ (Cardinality(E) = 0 <=> E = {})
  BY <1>2, FS_CardinalityType, FS_EmptySet
<1>4. \A e \in E : Cardinality(E \ {e}) = Cardinality(E) - 1
  BY <1>2, FS_RemoveElement
<1> QED BY <1>2, <1>3, <1>4, CountsAssumption

(* A try that fails leaves c between its two tries, or suspended in the    *)
(* queue.                                                                  *)
Failed(c) ==
  /\ waitq' \in [Event -> Seq(Coro)] /\ Once'
  /\ \/ at[c] = "first" /\ Goes(c, "between") /\ Queued' = Queued /\ UNCHANGED armed
     \/ at[c] = "second" /\ Goes(c, "asleep") /\ Puts(c, {ev[c]})
        /\ armed' = [armed EXCEPT ![c] = TRUE]

LEMMA FailFacts ==
  ASSUME Inv, NEW c \in One, at[c] \in Inside, Fail(c)
  PROVE  Failed(c)
<1>0. TypeOK /\ Fields /\ Queues /\ Once
  BY FieldTypes DEF Inv, Queues
<1>1. CASE at[c] = "first" /\ Goes(c, "between") /\ UNCHANGED <<waitq, armed>>
  BY <1>0, <1>1, Unmoved DEF Failed
<1>2. CASE /\ at[c] = "second" /\ Goes(c, "asleep")
           /\ waitq' = [waitq EXCEPT ![ev[c]] = Append(@, c)]
           /\ armed' = [armed EXCEPT ![c] = TRUE]
  <2>1. c \in Coro /\ {ev[c]} \in SUBSET Event
    BY <1>0 DEF Fields, Coro
  <2>2. waitq' = [e \in Event |-> IF e \in {ev[c]} THEN Append(waitq[e], c) ELSE waitq[e]]
    BY <1>0, <1>2 DEF TypeOK
  <2>3. \A e \in {ev[c]} : c \notin Queued[e]
    BY <1>0, <1>2, <2>1 DEF Queues, OnesQueued
  <2> QED BY <1>0, <1>2, <2>1, <2>2, <2>3, Joins DEF Failed
<1> QED BY <1>1, <1>2 DEF Fail

LEMMA AwaitAllFacts ==
  ASSUME Inv, NEW d \in All, AwaitAll(d)
  PROVE  waitq' \in [Event -> Seq(Coro)] /\ Once' /\ Puts(d, Missing) /\ Missing \in SUBSET Event
<1>0. TypeOK /\ Fields /\ Queues /\ Once
  BY FieldTypes DEF Inv, Queues
<1>1. d \in Coro /\ Missing \in SUBSET Event
  BY DEF Missing, Coro
<1>2. \A e \in Missing : d \notin Queued[e]
  BY <1>0, <1>1 DEF AwaitAll, Queues, AllsQueued
<1> QED BY <1>0, <1>1, <1>2, Joins DEF AwaitAll

(* A thread pops the first of the queue whose lock it holds. *)
LEMMA PopFacts ==
  ASSUME Inv, NEW t \in Thread, Pop(t)
  PROVE  /\ waitq' \in [Event -> Seq(Coro)] /\ Once'
         /\ Head(waitq[target[t]]) \in Coro
         /\ Head(waitq[target[t]]) \in Queued[target[t]]
         /\ Takes(Head(waitq[target[t]]), {target[t]})
<1>0. TypeOK /\ Fields /\ Once
  BY FieldTypes DEF Inv, Queues
<1>1. target[t] \in Event
  BY <1>0 DEF Fields
<1> QED BY <1>0, <1>1, Pops DEF Pop

LEMMA ExpireEndFacts ==
  ASSUME Inv, NEW c \in One, ExpireEnd(c)
  PROVE  waitq' \in [Event -> Seq(Coro)] /\ Once' /\ Takes(c, {ev[c]})
<1>0. TypeOK /\ Fields /\ Once
  BY FieldTypes DEF Inv, Queues
<1>1. c \in Coro /\ ev[c] \in Event
  BY <1>0 DEF Fields, Coro
<1> QED BY <1>0, <1>1, Erases DEF ExpireEnd

(* Which of the events on_timeout() comes to does not matter. *)
Removes(d, e) ==
  /\ e \in first[d] /\ lock[e] = NoOne
  /\ first' = [first EXCEPT ![d] = @ \ {e}]
  /\ waitq' \in [Event -> Seq(Coro)] /\ Once' /\ Takes(d, {e})

LEMMA RemoveFacts ==
  ASSUME Inv, NEW d \in All, ExpireAllRemove(d)
  PROVE  \E e \in Event : Removes(d, e)
<1>0. TypeOK /\ Fields /\ Once
  BY FieldTypes DEF Inv, Queues
<1> DEFINE e == Min(first[d])
<1>1. d \in Coro /\ e \in first[d] /\ e \in Event
  BY <1>0, Smallests, CountsAssumption DEF Fields, Coro, ExpireAllRemove
<1>2. waitq' = [waitq EXCEPT ![e] = RemoveFirst(@, d)]
  BY DEF ExpireAllRemove
<1>3. lock[e] = NoOne /\ first' = [first EXCEPT ![d] = @ \ {e}]
  BY DEF ExpireAllRemove
<1> HIDE DEF e
<1>4. waitq' \in [Event -> Seq(Coro)] /\ Once' /\ Takes(d, {e})
  BY <1>0, <1>1, <1>2, Erases
<1> QED BY <1>1, <1>3, <1>4 DEF Removes

LEMMA FailedPlaces ==
  ASSUME Fields, NEW c \in One, Failed(c)
  PROVE  /\ c \in Coro /\ ev[c] \in Event /\ at[c] \in Inside
         /\ at' = [at EXCEPT ![c] = at'[c]] /\ at'[c] \in {"between", "asleep"}
         /\ \A e \in Event, x \in Coro : x \in Queued[e] => x \in Queued'[e]
         /\ \A e \in Event, x \in Coro :
              x \in Queued'[e] => x \in Queued[e] \/ (x = c /\ e = ev[c] /\ at'[c] = "asleep")
<1>1. c \in Coro /\ ev[c] \in Event
  BY DEF Fields, Coro
<1>2. CASE at[c] = "first" /\ Goes(c, "between") /\ Queued' = Queued /\ UNCHANGED armed
  BY <1>1, <1>2 DEF Goes, Fields, Inside
<1>3. CASE /\ at[c] = "second" /\ Goes(c, "asleep") /\ Puts(c, {ev[c]})
           /\ armed' = [armed EXCEPT ![c] = TRUE]
  BY <1>1, <1>3 DEF Goes, Fields, Inside, Puts
<1> QED BY <1>1, <1>2, <1>3 DEF Failed
-----------------------------------------------------------------------------
(* The wait of a coroutine for one event is none for all, and no coroutine *)
(* has the name of a thread.                                               *)
LEMMA Names ==
  /\ One \subseteq Coro /\ All \subseteq Coro /\ \A c \in Coro : (c \in One <=> c \notin All)
  /\ NoOne \notin Coro /\ NoOne \notin Thread
  /\ \A c \in Coro, t \in Thread : c # t
  BY ActorsAssumption DEF Coro

(* Every step keeps what the locks say. *)
LEMMA NextLocks == Inv /\ Next => Locks'
<1> SUFFICES ASSUME Inv, Next PROVE Locks'
  OBVIOUS
<1>0. /\ TypeOK /\ Fields /\ Locks /\ Counts /\ AsleepIffLive /\ Queues /\ Once /\ Proxies /\ Unseen
      /\ One \subseteq Coro /\ All \subseteq Coro /\ \A c \in Coro : c \in One <=> c \notin All
      /\ NoOne \notin Coro /\ NoOne \notin Thread /\ \A c \in Coro, t \in Thread : c # t
  BY FieldTypes, Names DEF Inv, Queues, Unseen
<1> USE DEF Locks, Goes, Release, Acquire, Trying, coroVars, stateVars, threadVars, eventVars, Fields, Inside, Where
<1>1. ASSUME NEW c \in One, NEW e \in Event, Wait(c, e) PROVE Locks'
  BY <1>1, <1>0 DEF Wait
<1>2. ASSUME NEW c \in One, SecondTry(c) PROVE Locks'
  BY <1>2, <1>0 DEF SecondTry
<1>3. ASSUME NEW c \in One, TryLoad(c) PROVE Locks'
  <2>1. /\ at[c] \in Inside /\ UNCHANGED <<ev, doing, target, hand>>
        /\ \/ at' = at /\ lock' = lock
           \/ \E w \in {"between", "asleep", "run"} :
                at' = [at EXCEPT ![c] = w] /\ Release({ev[c]}) /\ probe'[c] = "load"
        /\ \A x \in Coro : x # c => probe'[x] = probe[x]
    BY <1>3, <1>0 DEF TryLoad, Fail
  <2>2. CASE at' = at /\ lock' = lock
    BY <1>0, <2>1, <2>2
  <2>3. ASSUME NEW w \in {"between", "asleep", "run"}, probe'[c] = "load",
               at' = [at EXCEPT ![c] = w], Release({ev[c]})
        PROVE  Locks'
    <3>1. \A e \in Event : lock'[e] = IF e = ev[c] THEN NoOne ELSE lock[e]
      BY <2>3
    <3>2. at'[c] = w /\ \A x \in Coro : x # c => at'[x] = at[x]
      BY <1>0, <2>3
    <3>3. lock[ev[c]] = c /\ ev[c] \in Event
      BY <1>0, <2>1
    <3>4. \A e \in Event, x \in One : lock'[e] = x <=> at'[x] \in Inside /\ ev'[x] = e
      BY <1>0, <2>1, <2>3, <3>1, <3>2, <3>3
    <3>5. \A e \in Event, d \in All : lock'[e] = d => at'[d] = "trying"
      BY <1>0, <3>1, <3>2, <3>3
    <3>6. \A e \in Event, t \in Thread : lock'[e] = t <=> doing'[t] # "idle" /\ target'[t] = e
      BY <1>0, <2>1, <3>1, <3>3
    <3> QED BY <1>0, <2>1, <2>3, <3>2, <3>4, <3>5, <3>6
  <2> QED BY <2>1, <2>2, <2>3
<1>4. ASSUME NEW c \in One, TryTake(c) PROVE Locks'
  <2>1. /\ at[c] \in Inside /\ UNCHANGED <<ev, doing, target, hand>>
        /\ \/ at' = at /\ lock' = lock
           \/ \E w \in {"between", "asleep", "run"} :
                at' = [at EXCEPT ![c] = w] /\ Release({ev[c]}) /\ probe'[c] = "load"
        /\ \A x \in Coro : x # c => probe'[x] = probe[x]
    BY <1>4, <1>0 DEF TryTake
  <2>2. CASE at' = at /\ lock' = lock
    BY <1>0, <2>1, <2>2
  <2>3. ASSUME NEW w \in {"between", "asleep", "run"}, probe'[c] = "load",
               at' = [at EXCEPT ![c] = w], Release({ev[c]})
        PROVE  Locks'
    <3>1. \A e \in Event : lock'[e] = IF e = ev[c] THEN NoOne ELSE lock[e]
      BY <2>3
    <3>2. at'[c] = w /\ \A x \in Coro : x # c => at'[x] = at[x]
      BY <1>0, <2>3
    <3>3. lock[ev[c]] = c /\ ev[c] \in Event
      BY <1>0, <2>1
    <3>4. \A e \in Event, x \in One : lock'[e] = x <=> at'[x] \in Inside /\ ev'[x] = e
      BY <1>0, <2>1, <2>3, <3>1, <3>2, <3>3
    <3>5. \A e \in Event, d \in All : lock'[e] = d => at'[d] = "trying"
      BY <1>0, <3>1, <3>2, <3>3
    <3>6. \A e \in Event, t \in Thread : lock'[e] = t <=> doing'[t] # "idle" /\ target'[t] = e
      BY <1>0, <2>1, <3>1, <3>3
    <3> QED BY <1>0, <2>1, <2>3, <3>2, <3>4, <3>5, <3>6
  <2> QED BY <2>1, <2>2, <2>3
<1>5. ASSUME NEW c \in One, TryUndo(c) PROVE Locks'
  <2>1. /\ at[c] \in Inside /\ UNCHANGED <<ev, doing, target, hand>>
        /\ \/ at' = at /\ lock' = lock
           \/ \E w \in {"between", "asleep", "run"} :
                at' = [at EXCEPT ![c] = w] /\ Release({ev[c]}) /\ probe'[c] = "load"
        /\ \A x \in Coro : x # c => probe'[x] = probe[x]
    BY <1>5, <1>0 DEF TryUndo, Fail
  <2>2. CASE at' = at /\ lock' = lock
    BY <1>0, <2>1, <2>2
  <2>3. ASSUME NEW w \in {"between", "asleep", "run"}, probe'[c] = "load",
               at' = [at EXCEPT ![c] = w], Release({ev[c]})
        PROVE  Locks'
    <3>1. \A e \in Event : lock'[e] = IF e = ev[c] THEN NoOne ELSE lock[e]
      BY <2>3
    <3>2. at'[c] = w /\ \A x \in Coro : x # c => at'[x] = at[x]
      BY <1>0, <2>3
    <3>3. lock[ev[c]] = c /\ ev[c] \in Event
      BY <1>0, <2>1
    <3>4. \A e \in Event, x \in One : lock'[e] = x <=> at'[x] \in Inside /\ ev'[x] = e
      BY <1>0, <2>1, <2>3, <3>1, <3>2, <3>3
    <3>5. \A e \in Event, d \in All : lock'[e] = d => at'[d] = "trying"
      BY <1>0, <3>1, <3>2, <3>3
    <3>6. \A e \in Event, t \in Thread : lock'[e] = t <=> doing'[t] # "idle" /\ target'[t] = e
      BY <1>0, <2>1, <3>1, <3>3
    <3> QED BY <1>0, <2>1, <2>3, <3>2, <3>4, <3>5, <3>6
  <2> QED BY <2>1, <2>2, <2>3
<1>6. ASSUME NEW c \in One, ExpireEnd(c) \/ Expire(c) PROVE Locks'
  BY <1>6, <1>0 DEF ExpireEnd, Expire, AsleepIffLive, Live
<1>7. ASSUME NEW c \in Coro, Resume(c) PROVE Locks'
  BY <1>7, <1>0 DEF Resume
<1>8. ASSUME NEW d \in All, WaitAll(d) PROVE Locks'
  BY <1>8, <1>0 DEF WaitAll
<1>9. ASSUME NEW d \in All, ExpireAllEnd(d) PROVE Locks'
  BY <1>9, <1>0 DEF ExpireAllEnd
<1>10. ASSUME NEW d \in All, LockHard(d) PROVE Locks'
  BY <1>10, <1>0 DEF LockHard
<1>11. ASSUME NEW d \in All, TryLock(d) PROVE Locks'
  <2>1. /\ at[d] = "trying" /\ UNCHANGED <<probe, doing, target, hand>>
        /\ at'[d] \in {"trying", "run", "asleep", "locking"}
        /\ \A x \in Coro : x # d => at'[x] = at[x] /\ ev'[x] = ev[x]
        /\ \/ \A e \in Event : lock'[e] = IF lock[e] = d THEN NoOne ELSE lock[e]
           \/ /\ at'[d] = "trying"
              /\ \A e \in Event : lock'[e] = lock[e] \/ (lock[e] = NoOne /\ lock'[e] = d)
    <3>1. NotHeld(d) \in SUBSET Event /\ NotHeld(d) # {} /\ at[d] = "trying"
      BY <1>11 DEF TryLock, NotHeld
    <3>2. Min(NotHeld(d)) \in Event
      BY <3>1, Smallests, CountsAssumption
    <3>3. CASE Acquire(d, Min(NotHeld(d))) /\ UNCHANGED <<at, ev>>
      BY <1>11, <1>0, <3>1, <3>2, <3>3 DEF TryLock
    <3>4. CASE /\ Release(Event \ NotHeld(d))
               /\ ev' = [ev EXCEPT ![d] = Min(NotHeld(d))] /\ Goes(d, "locking")
      <4>1. \A e \in Event : lock'[e] = IF lock[e] = d THEN NoOne ELSE lock[e]
        BY <3>4 DEF NotHeld
      <4> QED BY <1>11, <1>0, <3>1, <3>2, <3>4, <4>1 DEF TryLock
    <3> QED BY <1>11, <3>3, <3>4 DEF TryLock
  <2>2. ASSUME NEW e \in Event, NEW x, x # d, x # NoOne PROVE lock'[e] = x <=> lock[e] = x
    BY <2>1, <2>2
  <2>3. ASSUME NEW e \in Event, NEW x \in One
        PROVE  lock'[e] = x <=> at'[x] \in Inside /\ ev'[x] = e
    <3>1. x \in Coro /\ x # d /\ x # NoOne
      BY <1>0
    <3>2. lock[e] = x <=> at[x] \in Inside /\ ev[x] = e
      BY <1>0
    <3>3. at'[x] = at[x] /\ ev'[x] = ev[x]
      BY <2>1, <3>1
    <3> HIDE DEF Inside
    <3> QED BY <2>2, <3>1, <3>2, <3>3
  <2>4. ASSUME NEW e \in Event, NEW x \in Thread
        PROVE  lock'[e] = x <=> doing'[x] # "idle" /\ target'[x] = e
    <3>1. x # d /\ x # NoOne
      BY <1>0
    <3>2. lock[e] = x <=> doing[x] # "idle" /\ target[x] = e
      BY <1>0
    <3> QED BY <2>1, <2>2, <3>1, <3>2
  <2>5. ASSUME NEW e \in Event, NEW x \in All PROVE lock'[e] = x => at'[x] = "trying"
    <3>1. x \in Coro /\ x # NoOne /\ (lock[e] = x => at[x] = "trying") /\ d # NoOne
      BY <1>0
    <3> QED BY <2>1, <3>1
  <2>6. /\ \A c \in One : at'[c] = at[c] /\ probe'[c] = probe[c]
        /\ \A x \in All : at'[x] \notin Inside \union {"between"}
    BY <1>0, <2>1
  <2>7. /\ \A c \in One : at'[c] \notin {"locking", "trying"}
        /\ \A c \in One : probe'[c] # "load" => at'[c] \in Inside
        /\ \A t \in Thread : hand'[t] # NoOne => doing'[t] # "idle"
    BY <1>0, <2>1, <2>6
  <2> HIDE DEF Inside
  <2> QED BY <2>3, <2>4, <2>5, <2>6, <2>7
<1>12. ASSUME NEW d \in All, AwaitAll(d) PROVE Locks'
  <2>1. /\ at[d] = "trying" /\ UNCHANGED <<probe, doing, target, hand>>
        /\ at'[d] \in {"trying", "run", "asleep", "locking"}
        /\ \A x \in Coro : x # d => at'[x] = at[x] /\ ev'[x] = ev[x]
        /\ \/ \A e \in Event : lock'[e] = IF lock[e] = d THEN NoOne ELSE lock[e]
           \/ /\ at'[d] = "trying"
              /\ \A e \in Event : lock'[e] = lock[e] \/ (lock[e] = NoOne /\ lock'[e] = d)
    <3>1. \A e \in Event : lock[e] = d
      BY <1>12 DEF AwaitAll, NotHeld
    <3> QED BY <1>12, <1>0, <3>1 DEF AwaitAll
  <2>2. ASSUME NEW e \in Event, NEW x, x # d, x # NoOne PROVE lock'[e] = x <=> lock[e] = x
    BY <2>1, <2>2
  <2>3. ASSUME NEW e \in Event, NEW x \in One
        PROVE  lock'[e] = x <=> at'[x] \in Inside /\ ev'[x] = e
    <3>1. x \in Coro /\ x # d /\ x # NoOne
      BY <1>0
    <3>2. lock[e] = x <=> at[x] \in Inside /\ ev[x] = e
      BY <1>0
    <3>3. at'[x] = at[x] /\ ev'[x] = ev[x]
      BY <2>1, <3>1
    <3> HIDE DEF Inside
    <3> QED BY <2>2, <3>1, <3>2, <3>3
  <2>4. ASSUME NEW e \in Event, NEW x \in Thread
        PROVE  lock'[e] = x <=> doing'[x] # "idle" /\ target'[x] = e
    <3>1. x # d /\ x # NoOne
      BY <1>0
    <3>2. lock[e] = x <=> doing[x] # "idle" /\ target[x] = e
      BY <1>0
    <3> QED BY <2>1, <2>2, <3>1, <3>2
  <2>5. ASSUME NEW e \in Event, NEW x \in All PROVE lock'[e] = x => at'[x] = "trying"
    <3>1. x \in Coro /\ x # NoOne /\ (lock[e] = x => at[x] = "trying") /\ d # NoOne
      BY <1>0
    <3> QED BY <2>1, <3>1
  <2>6. /\ \A c \in One : at'[c] = at[c] /\ probe'[c] = probe[c]
        /\ \A x \in All : at'[x] \notin Inside \union {"between"}
    BY <1>0, <2>1
  <2>7. /\ \A c \in One : at'[c] \notin {"locking", "trying"}
        /\ \A c \in One : probe'[c] # "load" => at'[c] \in Inside
        /\ \A t \in Thread : hand'[t] # NoOne => doing'[t] # "idle"
    BY <1>0, <2>1, <2>6
  <2> HIDE DEF Inside
  <2> QED BY <2>3, <2>4, <2>5, <2>6, <2>7
<1>13. ASSUME NEW d \in All, ExpireAllRemove(d) PROVE Locks'
  BY <1>13, <1>0 DEF ExpireAllRemove
<1>14. ASSUME NEW d \in All, ExpireAll(d) PROVE Locks'
  BY <1>14, <1>0 DEF ExpireAll, AsleepIffLive, Live
<1>15. ASSUME NEW t \in Thread, NEW e \in Event, NEW how \in {"signal", "signal_all"},
   SignalBegin(t, e, how) PROVE Locks'
  <2>1. /\ doing' = [doing EXCEPT ![t] = how] /\ target' = [target EXCEPT ![t] = e]
        /\ doing[t] = "idle" /\ how # "idle" /\ lock[e] = NoOne /\ lock' = [lock EXCEPT ![e] = t]
        /\ UNCHANGED <<at, ev, probe, hand>>
    BY <1>15 DEF SignalBegin
  <2>2. \A r \in Event, x \in Coro : lock'[r] = x <=> lock[r] = x
    BY <1>0, <2>1
  <2>3. ASSUME NEW r \in Event, NEW x \in Thread
        PROVE  lock'[r] = x <=> doing'[x] # "idle" /\ target'[x] = r
    BY <1>0, <2>1
  <2>4. \A x \in Thread : hand'[x] # NoOne => doing'[x] # "idle"
    BY <1>0, <2>1
  <2> QED BY <1>0, <2>1, <2>2, <2>3, <2>4
<1>16. ASSUME NEW t \in Thread, PopOne(t) PROVE Locks'
  <2>1. /\ doing[t] # "idle" /\ UNCHANGED <<ev, probe, target>>
        /\ \A x \in Thread : x # t => doing'[x] = doing[x] /\ hand'[x] = hand[x]
        /\ hand'[t] = NoOne
        /\ \A x \in Coro : at'[x] = at[x] \/ (at[x] = "asleep" /\ at'[x] = "ready")
        /\ \/ doing'[t] = doing[t] /\ lock' = lock
           \/ doing'[t] = "idle" /\ Release({target[t]})
    BY <1>16, <1>0 DEF PopOne, Pop, Notified, AsleepIffLive, Live
  <2>2. target[t] \in Event /\ lock[target[t]] = t
    BY <1>0, <2>1
  <2>3. \/ doing'[t] = doing[t] /\ \A e \in Event : lock'[e] = lock[e]
        \/ doing'[t] = "idle" /\ \A e \in Event : lock'[e] = IF e = target[t] THEN NoOne ELSE lock[e]
    BY <2>1
  <2>4. ASSUME NEW e \in Event, NEW x \in Thread
        PROVE  lock'[e] = x <=> doing'[x] # "idle" /\ target'[x] = e
    <3>1. lock[e] = x <=> doing[x] # "idle" /\ target[x] = e
      BY <1>0
    <3>2. x # NoOne
      BY <1>0
    <3>3. CASE x = t
      BY <2>1, <2>2, <2>3, <3>1, <3>2, <3>3
    <3>4. CASE x # t
      BY <2>1, <2>2, <2>3, <3>1, <3>2, <3>4
    <3> QED BY <3>3, <3>4
  <2>5. ASSUME NEW e \in Event, NEW c \in Coro
        PROVE  lock'[e] = c <=> lock[e] = c
    BY <1>0, <2>2, <2>3
  <2>6. \A c \in Coro : (at'[c] \in Inside <=> at[c] \in Inside)
                        /\ (at'[c] = "between" <=> at[c] = "between")
                        /\ (at'[c] = "locking" <=> at[c] = "locking")
                        /\ (at'[c] = "trying" <=> at[c] = "trying")
    BY <2>1
  <2>7. \A x \in Thread : hand'[x] # NoOne => doing'[x] # "idle"
    BY <1>0, <2>1
  <2> HIDE DEF Inside, Release, Fields, Where
  <2> QED BY <1>0, <2>1, <2>4, <2>5, <2>6, <2>7
<1>17. ASSUME NEW t \in Thread, PopAll(t) PROVE Locks'
  BY <1>17, <1>0 DEF PopAll, Pop
<1>18. ASSUME NEW t \in Thread, NotifyAll(t) PROVE Locks'
  <2>1. /\ doing[t] # "idle" /\ UNCHANGED <<ev, probe, target>>
        /\ \A x \in Thread : x # t => doing'[x] = doing[x] /\ hand'[x] = hand[x]
        /\ hand'[t] = NoOne
        /\ \A x \in Coro : at'[x] = at[x] \/ (at[x] = "asleep" /\ at'[x] = "ready")
        /\ \/ doing'[t] = doing[t] /\ lock' = lock
           \/ doing'[t] = "idle" /\ Release({target[t]})
    BY <1>18, <1>0 DEF NotifyAll, Notified, AsleepIffLive, Live
  <2>2. target[t] \in Event /\ lock[target[t]] = t
    BY <1>0, <2>1
  <2>3. \/ doing'[t] = doing[t] /\ \A e \in Event : lock'[e] = lock[e]
        \/ doing'[t] = "idle" /\ \A e \in Event : lock'[e] = IF e = target[t] THEN NoOne ELSE lock[e]
    BY <2>1
  <2>4. ASSUME NEW e \in Event, NEW x \in Thread
        PROVE  lock'[e] = x <=> doing'[x] # "idle" /\ target'[x] = e
    <3>1. lock[e] = x <=> doing[x] # "idle" /\ target[x] = e
      BY <1>0
    <3>2. x # NoOne
      BY <1>0
    <3>3. CASE x = t
      BY <2>1, <2>2, <2>3, <3>1, <3>2, <3>3
    <3>4. CASE x # t
      BY <2>1, <2>2, <2>3, <3>1, <3>2, <3>4
    <3> QED BY <3>3, <3>4
  <2>5. ASSUME NEW e \in Event, NEW c \in Coro
        PROVE  lock'[e] = c <=> lock[e] = c
    BY <1>0, <2>2, <2>3
  <2>6. \A c \in Coro : (at'[c] \in Inside <=> at[c] \in Inside)
                        /\ (at'[c] = "between" <=> at[c] = "between")
                        /\ (at'[c] = "locking" <=> at[c] = "locking")
                        /\ (at'[c] = "trying" <=> at[c] = "trying")
    BY <2>1
  <2>7. \A x \in Thread : hand'[x] # NoOne => doing'[x] # "idle"
    BY <1>0, <2>1
  <2> HIDE DEF Inside, Release, Fields, Where
  <2> QED BY <1>0, <2>1, <2>4, <2>5, <2>6, <2>7
<1>19. ASSUME NEW t \in Thread, SignalEnd(t) PROVE Locks'
  <2>1. /\ doing[t] # "idle" /\ UNCHANGED <<ev, probe, target>>
        /\ \A x \in Thread : x # t => doing'[x] = doing[x] /\ hand'[x] = hand[x]
        /\ hand'[t] = NoOne
        /\ \A x \in Coro : at'[x] = at[x] \/ (at[x] = "asleep" /\ at'[x] = "ready")
        /\ \/ doing'[t] = doing[t] /\ lock' = lock
           \/ doing'[t] = "idle" /\ Release({target[t]})
    BY <1>19, <1>0 DEF SignalEnd
  <2>2. target[t] \in Event /\ lock[target[t]] = t
    BY <1>0, <2>1
  <2>3. \/ doing'[t] = doing[t] /\ \A e \in Event : lock'[e] = lock[e]
        \/ doing'[t] = "idle" /\ \A e \in Event : lock'[e] = IF e = target[t] THEN NoOne ELSE lock[e]
    BY <2>1
  <2>4. ASSUME NEW e \in Event, NEW x \in Thread
        PROVE  lock'[e] = x <=> doing'[x] # "idle" /\ target'[x] = e
    <3>1. lock[e] = x <=> doing[x] # "idle" /\ target[x] = e
      BY <1>0
    <3>2. x # NoOne
      BY <1>0
    <3>3. CASE x = t
      BY <2>1, <2>2, <2>3, <3>1, <3>2, <3>3
    <3>4. CASE x # t
      BY <2>1, <2>2, <2>3, <3>1, <3>2, <3>4
    <3> QED BY <3>3, <3>4
  <2>5. ASSUME NEW e \in Event, NEW c \in Coro
        PROVE  lock'[e] = c <=> lock[e] = c
    BY <1>0, <2>2, <2>3
  <2>6. \A c \in Coro : (at'[c] \in Inside <=> at[c] \in Inside)
                        /\ (at'[c] = "between" <=> at[c] = "between")
                        /\ (at'[c] = "locking" <=> at[c] = "locking")
                        /\ (at'[c] = "trying" <=> at[c] = "trying")
    BY <2>1
  <2>7. \A x \in Thread : hand'[x] # NoOne => doing'[x] # "idle"
    BY <1>0, <2>1
  <2> HIDE DEF Inside, Release, Fields, Where
  <2> QED BY <1>0, <2>1, <2>4, <2>5, <2>6, <2>7
<1>20. ASSUME NEW e \in Event, Reset(e) PROVE Locks'
  BY <1>20, <1>0 DEF Reset
<1> QED
  BY <1>1, <1>2, <1>3, <1>4, <1>5, <1>6, <1>7, <1>8, <1>9, <1>10, <1>11, <1>12, <1>13, <1>14,
     <1>15, <1>16, <1>17, <1>18, <1>19, <1>20 DEF Next, OneStep, AllStep, SignalStep, Coro

(* Every step leaves a waiter in a queue once. *)
LEMMA NextQueued == Inv /\ Next => waitq' \in [Event -> Seq(Coro)] /\ Once'
<1> SUFFICES ASSUME Inv, Next PROVE waitq' \in [Event -> Seq(Coro)] /\ Once'
  OBVIOUS
<1>0. /\ TypeOK /\ Once
      /\ One \subseteq Coro /\ All \subseteq Coro /\ \A c \in Coro : c \in One <=> c \notin All
      /\ NoOne \notin Coro /\ NoOne \notin Thread /\ \A c \in Coro, t \in Thread : c # t
  BY FieldTypes, Names DEF Inv, Queues, Unseen
<1> USE DEF Trying, Inside, coroVars, stateVars, threadVars, eventVars
<1>1. ASSUME NEW c \in One, NEW e \in Event, Wait(c, e) PROVE waitq' \in [Event -> Seq(Coro)] /\
   Once'
  BY <1>1, <1>0, Unmoved DEF Wait
<1>2. ASSUME NEW c \in One, SecondTry(c) PROVE waitq' \in [Event -> Seq(Coro)] /\ Once'
  BY <1>2, <1>0, Unmoved DEF SecondTry
<1>3. ASSUME NEW c \in One, TryLoad(c) PROVE waitq' \in [Event -> Seq(Coro)] /\ Once'
  <2>1. CASE Fail(c)
    BY <1>3, <1>0, <2>1, FailFacts DEF TryLoad, Failed
  <2>2. CASE ~Fail(c)
    BY <1>3, <1>0, <2>2, Unmoved DEF TryLoad
  <2> QED BY <2>1, <2>2
<1>4. ASSUME NEW c \in One, TryTake(c) PROVE waitq' \in [Event -> Seq(Coro)] /\ Once'
  BY <1>4, <1>0, Unmoved DEF TryTake
<1>5. ASSUME NEW c \in One, TryUndo(c) PROVE waitq' \in [Event -> Seq(Coro)] /\ Once'
  BY <1>5, <1>0, FailFacts  DEF TryUndo, Failed
<1>6. ASSUME NEW c \in One, ExpireEnd(c) PROVE waitq' \in [Event -> Seq(Coro)] /\ Once'
  BY <1>6, <1>0, ExpireEndFacts DEF ExpireEnd
<1>7. ASSUME NEW c \in One, Expire(c) PROVE waitq' \in [Event -> Seq(Coro)] /\ Once'
  BY <1>7, <1>0, Unmoved DEF Expire
<1>8. ASSUME NEW c \in Coro, Resume(c) PROVE waitq' \in [Event -> Seq(Coro)] /\ Once'
  BY <1>8, <1>0, Unmoved DEF Resume
<1>9. ASSUME NEW d \in All, WaitAll(d) \/ ExpireAllEnd(d) PROVE waitq' \in [Event -> Seq(Coro)]
   /\ Once'
  BY <1>9, <1>0, Unmoved DEF WaitAll, ExpireAllEnd
<1>10. ASSUME NEW d \in All, LockHard(d) \/ TryLock(d) PROVE waitq' \in [Event -> Seq(Coro)] /\
   Once'
  BY <1>10, <1>0, Unmoved DEF LockHard, TryLock
<1>11. ASSUME NEW d \in All, AwaitAll(d) PROVE waitq' \in [Event -> Seq(Coro)] /\ Once'
  BY <1>11, <1>0, AwaitAllFacts DEF AwaitAll
<1>12. ASSUME NEW d \in All, ExpireAllRemove(d) PROVE waitq' \in [Event -> Seq(Coro)] /\ Once'
  BY <1>12, <1>0, RemoveFacts  DEF ExpireAllRemove, Removes
<1>13. ASSUME NEW d \in All, ExpireAll(d) PROVE waitq' \in [Event -> Seq(Coro)] /\ Once'
  BY <1>13, <1>0, Unmoved DEF ExpireAll
<1>14. ASSUME NEW t \in Thread, NEW e \in Event, NEW how \in {"signal", "signal_all"},
   SignalBegin(t, e, how) PROVE waitq' \in [Event -> Seq(Coro)] /\ Once'
  BY <1>14, <1>0, Unmoved DEF SignalBegin
<1>15. ASSUME NEW t \in Thread, PopOne(t) PROVE waitq' \in [Event -> Seq(Coro)] /\ Once'
  BY <1>15, <1>0, PopFacts DEF PopOne
<1>16. ASSUME NEW t \in Thread, PopAll(t) PROVE waitq' \in [Event -> Seq(Coro)] /\ Once'
  BY <1>16, <1>0, PopFacts DEF PopAll
<1>17. ASSUME NEW t \in Thread, NotifyAll(t) PROVE waitq' \in [Event -> Seq(Coro)] /\ Once'
  BY <1>17, <1>0, Unmoved DEF NotifyAll
<1>18. ASSUME NEW t \in Thread, SignalEnd(t) PROVE waitq' \in [Event -> Seq(Coro)] /\ Once'
  BY <1>18, <1>0, Unmoved DEF SignalEnd
<1>19. ASSUME NEW e \in Event, Reset(e) PROVE waitq' \in [Event -> Seq(Coro)] /\ Once'
  BY <1>19, <1>0, Unmoved DEF Reset
<1> QED
  BY <1>1, <1>2, <1>3, <1>4, <1>5, <1>6, <1>7, <1>8, <1>9, <1>10, <1>11, <1>12, <1>13, <1>14,
     <1>15, <1>16, <1>17, <1>18, <1>19 DEF Next, OneStep, AllStep, SignalStep, Coro

(* Every step keeps the types. *)
LEMMA NextFields == Inv /\ Next => Fields'
<1> SUFFICES ASSUME Inv, Next PROVE Fields'
  OBVIOUS
<1>0. /\ Fields /\ Locks /\ Counts
      /\ One \subseteq Coro /\ All \subseteq Coro /\ \A c \in Coro : c \in One <=> c \notin All
      /\ NoOne \notin Coro /\ NoOne \notin Thread /\ \A c \in Coro, t \in Thread : c # t
  BY FieldTypes, Names DEF Inv, Queues, Unseen
<1> USE DEF Goes, Release, Acquire, Trying, coroVars, stateVars, threadVars, eventVars, Fields, Inside, Where
<1>1. ASSUME NEW c \in One, NEW e \in Event, Wait(c, e) PROVE Fields'
  BY <1>1, <1>0 DEF Wait
<1>2. ASSUME NEW c \in One, SecondTry(c) PROVE Fields'
  BY <1>2, <1>0 DEF SecondTry
<1>3. ASSUME NEW c \in One, TryLoad(c) PROVE Fields'
  <2>1. c \in Coro /\ ev[c] \in Event
    BY <1>0
  <2>2. CASE Fail(c)
    BY <1>3, <1>0, <2>1, <2>2 DEF TryLoad, Fail
  <2>3. CASE ~Fail(c)
    BY <1>3, <1>0, <2>1, <2>3 DEF TryLoad
  <2> QED BY <2>2, <2>3
<1>4. ASSUME NEW c \in One, TryTake(c) PROVE Fields'
  <2>1. c \in Coro /\ ev[c] \in Event /\ at[c] \in Inside /\ probe[c] = "take"
    BY <1>4, <1>0 DEF TryTake
  <2>2. ASSUME counter[ev[c]] < 0 PROVE FALSE
    <3>1. PICK x \in One : probe[x] = "undo" /\ ev[x] = ev[c]
      BY <1>0, <2>1, <2>2 DEF Counts
    <3>2. lock[ev[c]] = c /\ lock[ev[c]] = x
      BY <1>0, <2>1, <3>1 DEF Locks
    <3> QED BY <2>1, <3>1, <3>2
  <2>3. counter[ev[c]] - 1 \in -1..MaxCount /\ counter' = [counter EXCEPT ![ev[c]] = @ - 1]
    BY <1>4, <1>0, <2>1, <2>2, CountsAssumption DEF TryTake
  <2>4. counter' \in [Event -> -1..MaxCount]
    BY <1>0, <2>1, <2>3
  <2>5. /\ probe' \in [Coro -> {"load", "take", "undo"}]
        /\ UNCHANGED <<waitq, ev, armed, left, first, slock, doing, target, hand, resets>>
    BY <1>4, <1>0, <2>1 DEF TryTake
  <2>6. result' \in [Coro -> BOOLEAN] /\ at' \in [Coro -> Where]
    <3>1. result' = result \/ result' = [result EXCEPT ![c] = TRUE]
      BY <1>4 DEF TryTake
    <3>2. at' = at \/ at' = [at EXCEPT ![c] = "run"]
      BY <1>4 DEF TryTake
    <3>3. result' \in [Coro -> BOOLEAN]
      BY <1>0, <2>1, <3>1
    <3>4. at' \in [Coro -> Where]
      BY <1>0, <2>1, <3>2
    <3> QED BY <3>3, <3>4
  <2>7. lock' \in [Event -> Coro \union Thread \union {NoOne}]
    BY <1>4, <1>0, <2>1 DEF TryTake
  <2> QED BY <1>0, <2>4, <2>5, <2>6, <2>7
<1>5. ASSUME NEW c \in One, TryUndo(c) PROVE Fields'
  <2>1. c \in Coro /\ ev[c] \in Event /\ counter[ev[c]] \in {-1, 0}
    BY <1>5, <1>0 DEF TryUndo, Counts
  <2>2. counter' \in [Event -> -1..MaxCount]
    BY <1>5, <1>0, <2>1, CountsAssumption DEF TryUndo
  <2> QED BY <1>5, <1>0, <2>1, <2>2 DEF TryUndo, Fail
<1>6. ASSUME NEW c \in One, ExpireEnd(c) PROVE Fields'
  BY <1>6, <1>0 DEF ExpireEnd
<1>7. ASSUME NEW c \in One, Expire(c) PROVE Fields'
  BY <1>7, <1>0 DEF Expire
<1>8. ASSUME NEW c \in Coro, Resume(c) PROVE Fields'
  BY <1>8, <1>0 DEF Resume
<1>9. ASSUME NEW d \in All, WaitAll(d) PROVE Fields'
  BY SMTT(30), <1>9, <1>0, CountsAssumption  DEF WaitAll, Event
<1>10. ASSUME NEW d \in All, ExpireAllEnd(d) PROVE Fields'
  BY <1>10, <1>0 DEF ExpireAllEnd
<1>11. ASSUME NEW d \in All, LockHard(d) PROVE Fields'
  BY <1>11, <1>0 DEF LockHard
<1>12. ASSUME NEW d \in All, TryLock(d) PROVE Fields'
  <2>1. NotHeld(d) \in SUBSET Event /\ NotHeld(d) # {} /\ d \in Coro
    BY <1>12, <1>0 DEF TryLock, NotHeld
  <2>2. Min(NotHeld(d)) \in Event
    BY <2>1, Smallests, CountsAssumption
  <2> QED BY <1>12, <1>0, <2>1, <2>2 DEF TryLock
<1>13. ASSUME NEW d \in All, AwaitAll(d) PROVE Fields'
  <2>1. Cardinality(Missing) \in 0..N /\ Missing \in SUBSET Event
    BY Sizes DEF Missing
  <2>2. counter' \in [Event -> -1..MaxCount]
    BY <1>13, <1>0, CountsAssumption DEF AwaitAll
  <2> QED BY <1>13, <1>0, <2>1, <2>2 DEF AwaitAll
<1>14. ASSUME NEW d \in All, ExpireAllRemove(d) PROVE Fields'
  BY <1>14, <1>0, RemoveFacts  DEF ExpireAllRemove, Removes
<1>15. ASSUME NEW d \in All, ExpireAll(d) PROVE Fields'
  BY <1>15, <1>0, CountsAssumption DEF ExpireAll
<1>16. ASSUME NEW t \in Thread, NEW e \in Event, NEW how \in {"signal", "signal_all"},
   SignalBegin(t, e, how) PROVE Fields'
  BY <1>16, <1>0 DEF SignalBegin
<1>17. ASSUME NEW t \in Thread, PopOne(t) PROVE Fields'
  <2>1. Head(waitq[target[t]]) \in Coro
    BY <1>17, PopFacts DEF PopOne
  <2> DEFINE c == Head(waitq[target[t]])
  <2>2. c \in One /\ UNCHANGED <<counter, probe, ev, left, first, slock, target, hand, resets>>
    BY <1>17 DEF PopOne
  <2>3. CASE armed' = [armed EXCEPT ![c] = FALSE] /\ result' = [result EXCEPT ![c] = TRUE]
             /\ Goes(c, "ready") /\ Notified(t)
    <3> HIDE DEF c
    <3> QED BY <1>0, <2>1, <2>2, <2>3 DEF Notified
  <2>4. CASE UNCHANGED <<armed, result, at, doing, lock>>
    BY <1>0, <2>2, <2>4
  <2> QED BY <1>17, <2>3, <2>4 DEF PopOne
<1>18. ASSUME NEW t \in Thread, PopAll(t) PROVE Fields'
  <2>1. Head(waitq[target[t]]) \in All
    BY <1>18 DEF PopAll
  <2> QED BY <1>18, <1>0, <2>1 DEF PopAll
<1>19. ASSUME NEW t \in Thread, NotifyAll(t) PROVE Fields'
  <2> DEFINE d == hand[t]
  <2>1. /\ d \in All /\ d \in Coro /\ target[t] \in Event
        /\ hand' = [hand EXCEPT ![t] = NoOne]
        /\ UNCHANGED <<counter, probe, ev, armed, slock, target, resets>>
    BY <1>19, <1>0 DEF NotifyAll
  <2>2. CASE UNCHANGED <<left, first, doing, lock, result, at>>
    BY <1>0, <2>1, <2>2
  <2>3. ASSUME left[d] > 0, left' = [left EXCEPT ![d] = @ - 1],
               first' = [first EXCEPT ![d] = @ \ {target[t]}],
               \/ UNCHANGED <<result, at>>
               \/ result' = [result EXCEPT ![d] = TRUE] /\ Goes(d, "ready"),
               Notified(t)
        PROVE  Fields'
    <3> HIDE DEF d
    <3>1. left' \in [All -> 0..N] /\ first' \in [All -> SUBSET Event]
      BY <1>0, <2>1, <2>3, CountsAssumption
    <3>2. result' \in [Coro -> BOOLEAN] /\ at' \in [Coro -> Where]
      BY <1>0, <2>1, <2>3
    <3>3. /\ lock' \in [Event -> Coro \union Thread \union {NoOne}]
          /\ doing' \in [Thread -> {"idle", "signal", "signal_all"}]
      BY <1>0, <2>1, <2>3 DEF Notified
    <3>4. hand' \in [Thread -> All \union {NoOne}]
      BY <1>0, <2>1
    <3> QED BY <1>0, <2>1, <3>1, <3>2, <3>3, <3>4
  <2> QED BY <1>19, <2>2, <2>3 DEF NotifyAll
<1>20. ASSUME NEW t \in Thread, SignalEnd(t) PROVE Fields'
  <2>1. target[t] \in Event /\ (doing[t] = "signal" => counter[target[t]] < MaxCount)
    BY <1>0 DEF Counts
  <2>2. /\ UNCHANGED <<at, probe, ev, result, armed, left, first, slock, target, hand, resets>>
        /\ lock' \in [Event -> Coro \union Thread \union {NoOne}]
        /\ doing' \in [Thread -> {"idle", "signal", "signal_all"}]
    BY <1>20, <1>0, <2>1 DEF SignalEnd
  <2>3. CASE doing[t] = "signal" /\ counter' = [counter EXCEPT ![target[t]] = @ + 1]
    <3>1. counter[target[t]] + 1 \in -1..MaxCount
      BY <1>0, <2>1, <2>3, CountsAssumption
    <3>2. counter' \in [Event -> -1..MaxCount]
      BY <1>0, <2>1, <2>3, <3>1
    <3> QED BY <1>0, <2>2, <3>2
  <2>4. CASE UNCHANGED counter
    BY <1>0, <2>2, <2>4
  <2> QED BY <1>20, <2>3, <2>4 DEF SignalEnd
<1>21. ASSUME NEW e \in Event, Reset(e) PROVE Fields'
  BY <1>21, <1>0, CountsAssumption DEF Reset
<1> QED
  BY <1>1, <1>2, <1>3, <1>4, <1>5, <1>6, <1>7, <1>8, <1>9, <1>10, <1>11, <1>12, <1>13, <1>14,
     <1>15, <1>16, <1>17, <1>18, <1>19, <1>20, <1>21 DEF Next, OneStep, AllStep, SignalStep,
     Coro

(* Whoever is in a try has the lock, so no other has. *)
LEMMA Alone ==
  ASSUME Fields, Locks
  PROVE  /\ \A c \in One : probe[c] # "load" \/ at[c] \in Inside => lock[ev[c]] = c /\ ev[c] \in Event
         /\ \A c, x \in One : probe[c] # "load" /\ probe[x] # "load" /\ ev[c] = ev[x] => c = x
<1>1. \A c \in One : c \in Coro
  BY Names
<1> QED BY <1>1 DEF Fields, Locks

(* Every step keeps the counters in their bounds. *)
LEMMA NextCounts == Inv /\ Next => Counts'
<1> SUFFICES ASSUME Inv, Next PROVE Counts'
  OBVIOUS
<1>0. /\ Fields /\ Locks /\ Counts
      /\ One \subseteq Coro /\ All \subseteq Coro /\ \A c \in Coro : c \in One <=> c \notin All
      /\ NoOne \notin Coro /\ NoOne \notin Thread /\ \A c \in Coro, t \in Thread : c # t
  BY FieldTypes, Names DEF Inv, Queues, Unseen
<1> USE DEF Goes, Acquire, Trying, coroVars, stateVars, threadVars, eventVars, Fields, Inside, Counts
<1>1. ASSUME NEW c \in One, NEW e \in Event, Wait(c, e) PROVE Counts'
  <2>1. at[c] = "run" /\ probe[c] = "load" /\ ev' = [ev EXCEPT ![c] = e]
        /\ UNCHANGED <<counter, probe, doing, target>>
    BY <1>1, <1>0 DEF Wait, Locks
  <2>2. \A x \in One : probe[x] = "undo" => ev'[x] = ev[x]
    BY <1>0, <2>1
  <2> QED BY <1>0, <2>1, <2>2
<1>2. ASSUME NEW c \in One, SecondTry(c) PROVE Counts'
  BY <1>2, <1>0 DEF SecondTry
<1>3. ASSUME NEW c \in One, TryLoad(c) PROVE Counts'
  BY <1>3, <1>0 DEF TryLoad, Fail
<1>4. ASSUME NEW c \in One, TryTake(c) PROVE Counts'
  <2>1. /\ c \in Coro /\ ev[c] \in Event /\ probe[c] = "take" /\ lock[ev[c]] = c
        /\ UNCHANGED <<ev, doing, target>>
        /\ counter' = [counter EXCEPT ![ev[c]] = @ - 1]
        /\ \/ probe' = [probe EXCEPT ![c] = "load"] /\ counter[ev[c]] > 0
           \/ probe' = [probe EXCEPT ![c] = "undo"] /\ counter[ev[c]] <= 0
    <3>1. c \in Coro /\ ev[c] \in Event /\ probe[c] = "take" /\ lock[ev[c]] = c
      BY <1>4, <1>0, Alone DEF TryTake
    <3> QED BY <1>4, <3>1 DEF TryTake
  <2>2. ~(counter[ev[c]] < 0)
    BY <1>0, <2>1, Alone
  <2>3. \A x \in One : x # c => probe'[x] = probe[x] /\ (probe[x] = "undo" => ev[x] # ev[c])
    BY <1>0, <2>1, Alone
  <2>4. \A e \in Event : counter'[e] = IF e = ev[c] THEN counter[e] - 1 ELSE counter[e]
    BY <1>0, <2>1
  <2>5. \A x \in One : probe'[x] = "undo" => counter'[ev'[x]] \in {-1, 0}
    BY <1>0, <2>1, <2>2, <2>3, <2>4
  <2>6. \A e \in Event : counter'[e] < 0 => \E x \in One : probe'[x] = "undo" /\ ev'[x] = e
    BY <1>0, <2>1, <2>2, <2>3, <2>4
  <2>7. \A t \in Thread : doing'[t] = "signal" => counter'[target'[t]] < MaxCount
    BY <1>0, <2>1, <2>4, CountsAssumption
  <2> QED BY <2>5, <2>6, <2>7
<1>5. ASSUME NEW c \in One, TryUndo(c) PROVE Counts'
  <2>1. /\ c \in Coro /\ ev[c] \in Event /\ probe[c] = "undo" /\ lock[ev[c]] = c
        /\ UNCHANGED <<ev, doing, target>>
        /\ counter' = [counter EXCEPT ![ev[c]] = @ + 1]
        /\ probe' = [probe EXCEPT ![c] = "load"]
    BY <1>5, <1>0, Alone DEF TryUndo
  <2>2. counter[ev[c]] \in {-1, 0}
    BY <1>0, <2>1
  <2>3. \A x \in One : x # c => probe'[x] = probe[x] /\ (probe[x] = "undo" => ev[x] # ev[c])
    BY <1>0, <2>1, Alone
  <2>4. \A e \in Event : counter'[e] = IF e = ev[c] THEN counter[e] + 1 ELSE counter[e]
    BY <1>0, <2>1
  <2>5. \A x \in One : probe'[x] = "undo" => counter'[ev'[x]] \in {-1, 0}
    BY <1>0, <2>1, <2>2, <2>3, <2>4
  <2>6. ASSUME NEW e \in Event, counter'[e] < 0
        PROVE  \E x \in One : probe'[x] = "undo" /\ ev'[x] = e
    <3>1. e # ev[c] /\ counter[e] < 0
      BY <1>0, <2>1, <2>2, <2>4, <2>6
    <3> QED BY <1>0, <2>1, <2>3, <3>1
  <2>7. ASSUME NEW t \in Thread, doing'[t] = "signal" PROVE counter'[target'[t]] < MaxCount
    <3>1. doing[t] = "signal" /\ target[t] \in Event /\ lock[target[t]] = t
      BY <1>0, <2>1, <2>7 DEF Locks
    <3>2. target[t] # ev[c]
      BY <1>0, <2>1, <3>1
    <3> QED BY <1>0, <2>1, <2>4, <3>1, <3>2
  <2> QED BY <2>5, <2>6, <2>7
<1>6. ASSUME NEW c \in One, ExpireEnd(c) PROVE Counts'
  BY <1>6, <1>0 DEF ExpireEnd
<1>7. ASSUME NEW c \in One, Expire(c) PROVE Counts'
  BY <1>7, <1>0 DEF Expire
<1>8. ASSUME NEW c \in Coro, Resume(c) PROVE Counts'
  BY <1>8, <1>0 DEF Resume
<1>9. ASSUME NEW d \in All, WaitAll(d) \/ ExpireAllEnd(d) PROVE Counts'
  BY <1>9, <1>0 DEF WaitAll, ExpireAllEnd
<1>10. ASSUME NEW d \in All, LockHard(d) PROVE Counts'
  BY <1>10, <1>0 DEF LockHard
<1>11. ASSUME NEW d \in All, TryLock(d) PROVE Counts'
  BY <1>11, <1>0 DEF TryLock
<1>12. ASSUME NEW d \in All, AwaitAll(d) PROVE Counts'
  <2>1. (\A e \in Event : lock[e] = d) /\ UNCHANGED <<probe, ev, doing, target>>
    BY <1>12 DEF AwaitAll, NotHeld
  <2>2. /\ \A c \in One : probe[c] # "undo"
        /\ \A t \in Thread : doing[t] # "signal"
    <3>1. (\A c \in One : c # d) /\ (\A t \in Thread : t # d)
      BY <1>0
    <3>2. \A c \in One : probe[c] # "undo"
      BY <1>0, <2>1, <3>1, Alone
    <3>3. \A t \in Thread : doing[t] # "idle" => lock[target[t]] = t /\ target[t] \in Event
      BY <1>0 DEF Locks
    <3> QED BY <2>1, <3>1, <3>2, <3>3
  <2>3. \A e \in Event : counter'[e] < 0 => counter[e] < 0
    BY <1>12, <1>0 DEF AwaitAll
  <2> QED BY <1>0, <2>1, <2>2, <2>3
<1>13. ASSUME NEW d \in All, ExpireAllRemove(d) PROVE Counts'
  BY <1>13, <1>0 DEF ExpireAllRemove
<1>14. ASSUME NEW d \in All, ExpireAll(d) PROVE Counts'
  BY <1>14, <1>0 DEF ExpireAll
<1>15. ASSUME NEW t \in Thread, NEW e \in Event, NEW how \in {"signal", "signal_all"},
   SignalBegin(t, e, how) PROVE Counts'
  BY <1>15, <1>0 DEF SignalBegin
<1>16. ASSUME NEW t \in Thread, PopOne(t) PROVE Counts'
  BY <1>16, <1>0 DEF PopOne, Notified, Pop
<1>17. ASSUME NEW t \in Thread, PopAll(t) PROVE Counts'
  BY <1>17, <1>0 DEF PopAll, Pop
<1>18. ASSUME NEW t \in Thread, NotifyAll(t) PROVE Counts'
  BY <1>18, <1>0 DEF NotifyAll, Notified
<1>19. ASSUME NEW t \in Thread, SignalEnd(t) PROVE Counts'
  <2>1. /\ UNCHANGED <<probe, ev, target>> /\ target[t] \in Event /\ lock[target[t]] = t
        /\ doing' = [doing EXCEPT ![t] = "idle"]
    BY <1>19, <1>0 DEF SignalEnd, Locks
  <2>2. \A c \in One : probe[c] # "load" => ev[c] # target[t] /\ ev[c] \in Event
    BY <1>0, <2>1, Alone
  <2>3. \A e \in Event : counter'[e] = counter[e] \/ (e = target[t] /\ counter'[e] = counter[e] + 1)
    BY <1>19, <1>0 DEF SignalEnd
  <2>4. \A c \in One : probe'[c] = "undo" => counter'[ev'[c]] \in {-1, 0}
    BY <1>0, <2>1, <2>2, <2>3
  <2>5. ASSUME NEW e \in Event, counter'[e] < 0
        PROVE  \E x \in One : probe'[x] = "undo" /\ ev'[x] = e
    BY <1>0, <2>1, <2>3, <2>5
  <2>6. ASSUME NEW x \in Thread, doing'[x] = "signal" PROVE counter'[target'[x]] < MaxCount
    <3>1. x # t /\ doing[x] = "signal" /\ target[x] \in Event /\ lock[target[x]] = x
      BY <1>0, <2>1, <2>6 DEF Locks
    <3>2. target[x] # target[t]
      BY <2>1, <3>1
    <3> QED BY <1>0, <2>1, <2>3, <3>1, <3>2
  <2> QED BY <2>4, <2>5, <2>6
<1>20. ASSUME NEW e \in Event, Reset(e) PROVE Counts'
  <2>1. \A x \in Event : counter'[x] = IF x = e THEN 0 ELSE counter[x]
    BY <1>20, <1>0 DEF Reset
  <2>2. UNCHANGED <<probe, ev, doing, target>>
    BY <1>20 DEF Reset
  <2>3. (\A c \in One : ev[c] \in Event) /\ (\A t \in Thread : target[t] \in Event)
    BY <1>0
  <2>4. \A c \in One : probe'[c] = "undo" => counter'[ev'[c]] \in {-1, 0}
    BY <1>0, <2>1, <2>2, <2>3
  <2>5. \A r \in Event : counter'[r] < 0 => \E x \in One : probe'[x] = "undo" /\ ev'[x] = r
    BY <1>0, <2>1, <2>2
  <2>6. \A t \in Thread : doing'[t] = "signal" => counter'[target'[t]] < MaxCount
    BY <1>0, <2>1, <2>2, <2>3, CountsAssumption
  <2> QED BY <2>4, <2>5, <2>6
<1> QED
  BY <1>1, <1>2, <1>3, <1>4, <1>5, <1>6, <1>7, <1>8, <1>9, <1>10, <1>11, <1>12, <1>13, <1>14,
     <1>15, <1>16, <1>17, <1>18, <1>19, <1>20 DEF Next, OneStep, AllStep, SignalStep, Coro

(* Every step that suspends a wait makes it answerable, and every answer  *)
(* ends it.                                                                *)
LEMMA NextAnswers == Inv /\ Next => AsleepIffLive'
<1> SUFFICES ASSUME Inv, Next PROVE AsleepIffLive'
  OBVIOUS
<1>0. /\ Fields /\ AsleepIffLive
      /\ One \subseteq Coro /\ All \subseteq Coro /\ \A c \in Coro : c \in One <=> c \notin All
      /\ NoOne \notin Coro /\ NoOne \notin Thread /\ \A c \in Coro, t \in Thread : c # t
  BY FieldTypes, Names DEF Inv, Queues, Unseen
<1> USE DEF Goes, Trying, coroVars, stateVars, threadVars, eventVars, Fields, Inside, AsleepIffLive, Live
<1>1. ASSUME NEW c \in One, NEW e \in Event, Wait(c, e) PROVE AsleepIffLive'
  BY <1>1, <1>0 DEF Wait
<1>2. ASSUME NEW c \in One, SecondTry(c) PROVE AsleepIffLive'
  BY <1>2, <1>0 DEF SecondTry
<1>3. ASSUME NEW c \in One, TryLoad(c) PROVE AsleepIffLive'
  <2>1. CASE Fail(c)
    BY <1>3, <1>0, <2>1 DEF TryLoad, Fail
  <2>2. CASE ~Fail(c)
    BY <1>3, <1>0, <2>2 DEF TryLoad
  <2> QED BY <2>1, <2>2
<1>4. ASSUME NEW c \in One, TryTake(c) PROVE AsleepIffLive'
  BY <1>4, <1>0 DEF TryTake
<1>5. ASSUME NEW c \in One, TryUndo(c) PROVE AsleepIffLive'
  BY <1>5, <1>0 DEF TryUndo, Fail
<1>6. ASSUME NEW c \in One, ExpireEnd(c) PROVE AsleepIffLive'
  BY <1>6, <1>0 DEF ExpireEnd
<1>7. ASSUME NEW c \in One, Expire(c) PROVE AsleepIffLive'
  BY <1>7, <1>0 DEF Expire
<1>8. ASSUME NEW c \in Coro, Resume(c) PROVE AsleepIffLive'
  BY <1>8, <1>0 DEF Resume
<1>9. ASSUME NEW d \in All, WaitAll(d) \/ ExpireAllEnd(d) PROVE AsleepIffLive'
  BY <1>9, <1>0 DEF WaitAll, ExpireAllEnd
<1>10. ASSUME NEW d \in All, LockHard(d) PROVE AsleepIffLive'
  BY <1>10, <1>0 DEF LockHard
<1>11. ASSUME NEW d \in All, TryLock(d) PROVE AsleepIffLive'
  BY <1>11, <1>0 DEF TryLock
<1>12. ASSUME NEW d \in All, AwaitAll(d) PROVE AsleepIffLive'
  <2>1. /\ d \in Coro /\ d \notin One /\ UNCHANGED armed
        /\ \A x \in Coro : x # d => at'[x] = at[x]
        /\ left' = [left EXCEPT ![d] = Cardinality(Missing)]
        /\ Missing = {} => at'[d] = "run"
        /\ Missing # {} => at'[d] = "asleep"
    BY <1>12, <1>0 DEF AwaitAll
  <2>2. Cardinality(Missing) > 0 <=> Missing # {}
    <3>1. Missing \in SUBSET Event
      BY DEF Missing
    <3>2. Cardinality(Missing) \in 0..N /\ (Cardinality(Missing) = 0 <=> Missing = {})
      BY <3>1, Sizes
    <3> QED BY <3>2, CountsAssumption
  <2> QED BY <1>0, <2>1, <2>2
<1>13. ASSUME NEW d \in All, ExpireAllRemove(d) PROVE AsleepIffLive'
  BY <1>13, <1>0 DEF ExpireAllRemove
<1>14. ASSUME NEW d \in All, ExpireAll(d) PROVE AsleepIffLive'
  BY <1>14, <1>0 DEF ExpireAll
<1>15. ASSUME NEW t \in Thread, NEW e \in Event, NEW how \in {"signal", "signal_all"},
   SignalBegin(t, e, how) PROVE AsleepIffLive'
  BY <1>15, <1>0 DEF SignalBegin
<1>16. ASSUME NEW t \in Thread, PopOne(t) PROVE AsleepIffLive'
  BY <1>16, <1>0 DEF PopOne
<1>17. ASSUME NEW t \in Thread, PopAll(t) PROVE AsleepIffLive'
  BY <1>17, <1>0 DEF PopAll
<1>18. ASSUME NEW t \in Thread, NotifyAll(t) PROVE AsleepIffLive'
  <2> DEFINE d == hand[t]
  <2>1. d \in All /\ d \in Coro /\ UNCHANGED armed
    BY <1>18, <1>0 DEF NotifyAll
  <2>2. \/ UNCHANGED <<left, at>>
        \/ left' = [left EXCEPT ![d] = @ - 1] /\ left[d] > 1 /\ UNCHANGED at
        \/ left' = [left EXCEPT ![d] = @ - 1] /\ left[d] = 1 /\ at' = [at EXCEPT ![d] = "ready"]
    BY <1>18 DEF NotifyAll
  <2> HIDE DEF d
  <2> QED BY <1>0, <2>1, <2>2
<1>19. ASSUME NEW t \in Thread, SignalEnd(t) PROVE AsleepIffLive'
  BY <1>19, <1>0 DEF SignalEnd
<1>20. ASSUME NEW e \in Event, Reset(e) PROVE AsleepIffLive'
  BY <1>20, <1>0 DEF Reset
<1> QED
  BY <1>1, <1>2, <1>3, <1>4, <1>5, <1>6, <1>7, <1>8, <1>9, <1>10, <1>11, <1>12, <1>13, <1>14,
     <1>15, <1>16, <1>17, <1>18, <1>19, <1>20 DEF Next, OneStep, AllStep, SignalStep, Coro

(* Every step keeps the waiters for one event where they wait. *)
LEMMA NextOnesQueued == Inv /\ Next => OnesQueued'
<1> SUFFICES ASSUME Inv, Next PROVE OnesQueued'
  OBVIOUS
<1>0. /\ TypeOK /\ Fields /\ AsleepIffLive /\ Once /\ OnesQueued
      /\ One \subseteq Coro /\ All \subseteq Coro /\ \A c \in Coro : c \in One <=> c \notin All
      /\ NoOne \notin Coro /\ NoOne \notin Thread /\ \A c \in Coro, t \in Thread : c # t
  BY FieldTypes, Names DEF Inv, Queues, Unseen
<1> USE DEF Goes, Trying, coroVars, stateVars, threadVars, eventVars, Fields, OnesQueued
<1>1. ASSUME NEW c \in One, NEW e \in Event, Wait(c, e) PROVE OnesQueued'
  BY <1>1, <1>0, Unmoved DEF Wait
<1>2. ASSUME NEW c \in One, SecondTry(c) PROVE OnesQueued'
  BY <1>2, <1>0, Unmoved DEF SecondTry
<1>3. ASSUME NEW c \in One, TryLoad(c) PROVE OnesQueued'
  <2>1. CASE Fail(c)
    <3>1. Failed(c) /\ UNCHANGED ev
      BY <1>3, <1>0, <2>1, FailFacts DEF TryLoad, Inside
    <3> QED BY <1>0, <3>1, FailedPlaces DEF Inside
  <2>2. CASE ~Fail(c)
    BY <1>3, <1>0, <2>2, Unmoved DEF TryLoad
  <2> QED BY <2>1, <2>2
<1>4. ASSUME NEW c \in One, TryTake(c) PROVE OnesQueued'
  BY <1>4, <1>0, Unmoved DEF TryTake
<1>5. ASSUME NEW c \in One, TryUndo(c) PROVE OnesQueued'
  <2>1. Failed(c) /\ UNCHANGED ev
    BY <1>5, <1>0, FailFacts DEF TryUndo, Inside
  <2> QED BY <1>0, <2>1, FailedPlaces DEF Inside
<1>6. ASSUME NEW c \in One, ExpireEnd(c) PROVE OnesQueued'
  <2>1. Takes(c, {ev[c]}) /\ c \in Coro
    BY <1>6, <1>0, ExpireEndFacts
  <2> QED BY <1>6, <1>0, <2>1 DEF ExpireEnd, Takes
<1>7. ASSUME NEW c \in One, Expire(c) PROVE OnesQueued'
  BY <1>7, <1>0, Unmoved  DEF Expire, AsleepIffLive, Live
<1>8. ASSUME NEW c \in Coro, Resume(c) PROVE OnesQueued'
  BY <1>8, <1>0, Unmoved DEF Resume
<1>9. ASSUME NEW d \in All, WaitAll(d) PROVE OnesQueued'
  BY <1>9, <1>0, Unmoved DEF WaitAll
<1>10. ASSUME NEW d \in All, ExpireAllEnd(d) PROVE OnesQueued'
  BY <1>10, <1>0, Unmoved DEF ExpireAllEnd
<1>11. ASSUME NEW d \in All, LockHard(d) PROVE OnesQueued'
  BY <1>11, <1>0, Unmoved DEF LockHard
<1>12. ASSUME NEW d \in All, TryLock(d) PROVE OnesQueued'
  BY <1>12, <1>0, Unmoved DEF TryLock
<1>13. ASSUME NEW d \in All, AwaitAll(d) PROVE OnesQueued'
  <2>1. Puts(d, Missing) /\ d \in Coro /\ d \notin One /\ UNCHANGED ev
    BY <1>13, <1>0, AwaitAllFacts DEF AwaitAll
  <2>2. \A x \in One : at'[x] = at[x]
    BY <1>13, <1>0 DEF AwaitAll
  <2> QED BY <1>0, <2>1, <2>2 DEF Puts
<1>14. ASSUME NEW d \in All, ExpireAllRemove(d) PROVE OnesQueued'
  <2>1. (\E e \in Event : Takes(d, {e})) /\ UNCHANGED <<ev, at>>
    BY <1>14, RemoveFacts DEF Removes, ExpireAllRemove
  <2> QED BY <1>0, <2>1 DEF Takes
<1>15. ASSUME NEW d \in All, ExpireAll(d) PROVE OnesQueued'
  BY <1>15, <1>0, Unmoved DEF ExpireAll
<1>16. ASSUME NEW t \in Thread, NEW e \in Event, NEW how \in {"signal", "signal_all"},
   SignalBegin(t, e, how) PROVE OnesQueued'
  BY <1>16, <1>0, Unmoved DEF SignalBegin
<1>17. ASSUME NEW t \in Thread, PopOne(t) PROVE OnesQueued'
  <2> DEFINE c == Head(waitq[target[t]])
  <2>1. c \in Coro /\ c \in Queued[target[t]] /\ target[t] \in Event /\ Takes(c, {target[t]})
    BY <1>17, <1>0, PopFacts DEF PopOne
  <2>2. c \in One /\ UNCHANGED ev /\ (UNCHANGED at \/ Goes(c, "ready"))
    BY <1>17 DEF PopOne
  <2> HIDE DEF c
  <2>3. \A x \in One, e \in Event :
          x \in Queued'[e] => x \in Queued[e] /\ x # c
    BY <1>0, <2>1, <2>2 DEF Takes
  <2> QED BY <1>0, <2>1, <2>2, <2>3
<1>18. ASSUME NEW t \in Thread, PopAll(t) PROVE OnesQueued'
  <2>1. Takes(Head(waitq[target[t]]), {target[t]}) /\ UNCHANGED <<ev, at>>
    BY <1>18, PopFacts DEF PopAll
  <2> QED BY <1>0, <2>1 DEF Takes
<1>19. ASSUME NEW t \in Thread, NotifyAll(t) PROVE OnesQueued'
  BY <1>19, <1>0, Unmoved DEF NotifyAll
<1>20. ASSUME NEW t \in Thread, SignalEnd(t) PROVE OnesQueued'
  BY <1>20, <1>0, Unmoved DEF SignalEnd
<1>21. ASSUME NEW e \in Event, Reset(e) PROVE OnesQueued'
  BY <1>21, <1>0, Unmoved DEF Reset
<1> QED
  BY <1>1, <1>2, <1>3, <1>4, <1>5, <1>6, <1>7, <1>8, <1>9, <1>10, <1>11, <1>12, <1>13, <1>14,
     <1>15, <1>16, <1>17, <1>18, <1>19, <1>20, <1>21 DEF Next, OneStep, AllStep, SignalStep,
     Coro

(* on_notify() of a proxy: an event less, and the last one wakes d. *)
Counted(t, d) ==
  /\ d \in All /\ d \in Coro /\ hand[t] = d /\ target[t] \in Event /\ ~slock[d]
  /\ hand' = [hand EXCEPT ![t] = NoOne]
  /\ UNCHANGED <<counter, waitq, probe, ev, armed, slock, target, resets>>
  /\ \/ UNCHANGED <<left, first, doing, at>>
     \/ /\ left[d] > 0 /\ at[d] = "asleep" /\ doing[t] # "idle"
        /\ left[d] = Cardinality(first[d])
        /\ left' = [left EXCEPT ![d] = @ - 1]
        /\ first' = [first EXCEPT ![d] = @ \ {target[t]}]
        /\ \/ left[d] > 1 /\ UNCHANGED at
           \/ left[d] = 1 /\ first[d] = {target[t]} /\ at' = [at EXCEPT ![d] = "ready"]

LEMMA NotifyAllFacts ==
  ASSUME Inv, NEW t \in Thread, NotifyAll(t)
  PROVE  Counted(t, hand[t])
<1>0. Fields /\ Locks /\ AsleepIffLive /\ InHands /\ Proxies
  BY FieldTypes DEF Inv, Queues
<1> DEFINE d == hand[t]
<1>1. d \in All /\ d \in Coro /\ d # NoOne /\ target[t] \in Event /\ first[d] \in SUBSET Event
  BY <1>0, Names DEF NotifyAll, Fields
<1>2. /\ ~slock[d] /\ hand' = [hand EXCEPT ![t] = NoOne]
      /\ UNCHANGED <<counter, waitq, probe, ev, armed, slock, target, resets>>
  BY DEF NotifyAll
<1>3. target[t] \in first[d] /\ doing[t] # "idle"
  BY <1>0, <1>1 DEF InHands, Locks
<1>4. left[d] > 0 => at[d] = "asleep" /\ left[d] = Cardinality(first[d])
  BY <1>0, <1>1, Names DEF AsleepIffLive, Live, Proxies
<1>5. left[d] = 1 /\ left[d] = Cardinality(first[d]) => first[d] = {target[t]}
  <2>1. Cardinality(first[d] \ {target[t]}) = Cardinality(first[d]) - 1
    BY <1>1, <1>3, Sizes
  <2>2. (first[d] \ {target[t]}) \in SUBSET Event
    BY <1>1
  <2>3. Cardinality(first[d] \ {target[t]}) = 0 <=> first[d] \ {target[t]} = {}
    BY <2>2, Sizes
  <2> QED BY <1>3, <2>1, <2>3
<1>6. \/ UNCHANGED <<left, first, doing, at>>
      \/ /\ left[d] > 0 /\ left' = [left EXCEPT ![d] = @ - 1]
         /\ first' = [first EXCEPT ![d] = @ \ {target[t]}]
         /\ \/ left[d] > 1 /\ UNCHANGED at
            \/ left[d] = 1 /\ at' = [at EXCEPT ![d] = "ready"]
  BY DEF NotifyAll, Goes
<1> QED BY <1>1, <1>2, <1>3, <1>4, <1>5, <1>6 DEF Counted

(* Every step keeps the proxies of a waiter for all where it waits. *)
LEMMA NextAllsQueued == Inv /\ Next => AllsQueued'
<1> SUFFICES ASSUME Inv, Next PROVE AllsQueued'
  OBVIOUS
<1>0. /\ TypeOK /\ Fields /\ AsleepIffLive /\ Once /\ AllsQueued /\ InHands
      /\ One \subseteq Coro /\ All \subseteq Coro /\ \A c \in Coro : c \in One <=> c \notin All
      /\ NoOne \notin Coro /\ NoOne \notin Thread /\ \A c \in Coro, t \in Thread : c # t
  BY FieldTypes, Names DEF Inv, Queues, Unseen
<1> USE DEF Goes, Trying, coroVars, stateVars, threadVars, eventVars, Fields, AllsQueued
<1>1. ASSUME NEW c \in One, NEW e \in Event, Wait(c, e) PROVE AllsQueued'
  BY <1>1, <1>0, Unmoved DEF Wait
<1>2. ASSUME NEW c \in One, SecondTry(c) PROVE AllsQueued'
  BY <1>2, <1>0, Unmoved DEF SecondTry
<1>3. ASSUME NEW c \in One, TryLoad(c) PROVE AllsQueued'
  <2>1. CASE Fail(c)
    <3>1. Failed(c) /\ UNCHANGED first
      BY <1>3, <1>0, <2>1, FailFacts DEF TryLoad, Inside
    <3> QED BY <1>0, <3>1, FailedPlaces DEF Inside
  <2>2. CASE ~Fail(c)
    BY <1>3, <1>0, <2>2, Unmoved DEF TryLoad
  <2> QED BY <2>1, <2>2
<1>4. ASSUME NEW c \in One, TryTake(c) PROVE AllsQueued'
  BY <1>4, <1>0, Unmoved DEF TryTake
<1>5. ASSUME NEW c \in One, TryUndo(c) PROVE AllsQueued'
  <2>1. Failed(c) /\ UNCHANGED first
    BY <1>5, <1>0, FailFacts DEF TryUndo, Inside
  <2> QED BY <1>0, <2>1, FailedPlaces DEF Inside
<1>6. ASSUME NEW c \in One, ExpireEnd(c) PROVE AllsQueued'
  <2>1. Takes(c, {ev[c]}) /\ c \in Coro /\ UNCHANGED first /\ Goes(c, "ready")
    BY <1>6, <1>0, ExpireEndFacts DEF ExpireEnd
  <2> QED BY <1>0, <2>1 DEF Takes
<1>7. ASSUME NEW c \in One, Expire(c) PROVE AllsQueued'
  BY <1>7, <1>0, Unmoved DEF Expire
<1>8. ASSUME NEW c \in Coro, Resume(c) PROVE AllsQueued'
  BY <1>8, <1>0, Unmoved DEF Resume
<1>9. ASSUME NEW d \in All, WaitAll(d) PROVE AllsQueued'
  BY <1>9, <1>0, Unmoved DEF WaitAll
<1>10. ASSUME NEW d \in All, ExpireAllEnd(d) PROVE AllsQueued'
  BY <1>10, <1>0, Unmoved DEF ExpireAllEnd
<1>11. ASSUME NEW d \in All, LockHard(d) PROVE AllsQueued'
  BY <1>11, <1>0, Unmoved DEF LockHard
<1>12. ASSUME NEW d \in All, TryLock(d) PROVE AllsQueued'
  BY <1>12, <1>0, Unmoved DEF TryLock
<1>13. ASSUME NEW d \in All, AwaitAll(d) PROVE AllsQueued'
  <2>1. Puts(d, Missing) /\ d \in Coro /\ Missing \in SUBSET Event
    BY <1>13, <1>0, AwaitAllFacts DEF AwaitAll
  <2>2. /\ first' = [first EXCEPT ![d] = Missing] /\ at[d] = "trying"
        /\ Missing # {} => at'[d] = "asleep"
        /\ \A x \in Coro : x # d => at'[x] = at[x]
    BY <1>13, <1>0, <2>1 DEF AwaitAll
  <2>3. \A x \in All, e \in Event : x # d /\ x \in Queued'[e] => x \in Queued[e]
    BY <1>0, <2>1 DEF Puts
  <2>4. \A e \in Event : d \in Queued'[e] => e \in Missing
    BY <1>0, <2>1, <2>2 DEF Puts
  <2> QED BY <1>0, <2>1, <2>2, <2>3, <2>4
<1>14. ASSUME NEW d \in All, ExpireAllRemove(d) PROVE AllsQueued'
  <2>1. PICK e \in Event : Removes(d, e)
    BY <1>14, RemoveFacts
  <2>2. UNCHANGED at
    BY <1>14 DEF ExpireAllRemove
  <2>3. \A x \in All, r \in Event : x \in Queued'[r] => x \in Queued[r] /\ ~(x = d /\ r = e)
    BY <1>0, <2>1 DEF Removes, Takes
  <2> QED BY <1>0, <2>1, <2>2, <2>3 DEF Removes
<1>15. ASSUME NEW d \in All, ExpireAll(d) PROVE AllsQueued'
  BY <1>15, <1>0, Unmoved  DEF ExpireAll, AsleepIffLive, Live
<1>16. ASSUME NEW t \in Thread, NEW e \in Event, NEW how \in {"signal", "signal_all"},
   SignalBegin(t, e, how) PROVE AllsQueued'
  BY <1>16, <1>0, Unmoved DEF SignalBegin
<1>17. ASSUME NEW t \in Thread, PopOne(t) PROVE AllsQueued'
  <2> DEFINE c == Head(waitq[target[t]])
  <2>1. c \in Coro /\ target[t] \in Event /\ Takes(c, {target[t]})
    BY <1>17, <1>0, PopFacts DEF PopOne
  <2>2. c \in One /\ UNCHANGED first /\ (UNCHANGED at \/ Goes(c, "ready"))
    BY <1>17 DEF PopOne
  <2> HIDE DEF c
  <2>3. \A x \in All, e \in Event : x \in Queued'[e] => x \in Queued[e] /\ x # c
    BY <1>0, <2>1, <2>2 DEF Takes
  <2> QED BY <1>0, <2>1, <2>2, <2>3
<1>18. ASSUME NEW t \in Thread, PopAll(t) PROVE AllsQueued'
  <2>1. Takes(Head(waitq[target[t]]), {target[t]}) /\ UNCHANGED <<first, at>>
    BY <1>18, PopFacts DEF PopAll
  <2> QED BY <1>0, <2>1 DEF Takes
<1>19. ASSUME NEW t \in Thread, NotifyAll(t) PROVE AllsQueued'
  <2> DEFINE d == hand[t]
  <2>1. Counted(t, d) /\ Queued' = Queued
    BY <1>19, <1>0, NotifyAllFacts, Unmoved DEF Counted
  <2>2. d \notin Queued[target[t]]
    BY <1>0, <2>1, Names DEF InHands, Counted
  <2> HIDE DEF d
  <2>3. CASE UNCHANGED <<first, at>>
    BY <1>0, <2>1, <2>3
  <2>4. CASE first' = [first EXCEPT ![d] = @ \ {target[t]}] /\ UNCHANGED at
    BY <1>0, <2>1, <2>2, <2>4 DEF Counted
  <2>5. CASE first[d] = {target[t]} /\ at' = [at EXCEPT ![d] = "ready"]
             /\ first' = [first EXCEPT ![d] = @ \ {target[t]}]
    BY <1>0, <2>1, <2>2, <2>5 DEF Counted
  <2> QED BY <2>1, <2>3, <2>4, <2>5 DEF Counted
<1>20. ASSUME NEW t \in Thread, SignalEnd(t) PROVE AllsQueued'
  BY <1>20, <1>0, Unmoved DEF SignalEnd
<1>21. ASSUME NEW e \in Event, Reset(e) PROVE AllsQueued'
  BY <1>21, <1>0, Unmoved DEF Reset
<1> QED
  BY <1>1, <1>2, <1>3, <1>4, <1>5, <1>6, <1>7, <1>8, <1>9, <1>10, <1>11, <1>12, <1>13, <1>14,
     <1>15, <1>16, <1>17, <1>18, <1>19, <1>20, <1>21 DEF Next, OneStep, AllStep, SignalStep,
     Coro

(* A try that fails leaves the proxies in the threads' hands. *)
LEMMA HandsKept ==
  ASSUME Fields, InHands, NEW c \in One, c \notin All, Failed(c), UNCHANGED <<first, target, hand>>
  PROVE  InHands'
<1> SUFFICES ASSUME NEW t \in Thread, hand[t] # NoOne
             PROVE  /\ at'[hand[t]] \in {"asleep", "expired"}
                    /\ target[t] \in first[hand[t]]
                    /\ hand[t] \notin Queued'[target[t]]
  BY DEF InHands
<1>1. hand[t] \in All /\ hand[t] # c /\ hand[t] \in Coro /\ target[t] \in Event
  BY DEF Fields, Coro
<1>2. /\ at[hand[t]] \in {"asleep", "expired"} /\ target[t] \in first[hand[t]]
      /\ hand[t] \notin Queued[target[t]]
  BY DEF InHands
<1>3. at'[hand[t]] = at[hand[t]]
  <2>1. at \in [Coro -> Where] /\ at' = [at EXCEPT ![c] = at'[c]]
    BY FailedPlaces DEF Fields
  <2> QED BY <1>1, <2>1
<1>4. hand[t] \notin Queued'[target[t]]
  BY <1>1, <1>2, FailedPlaces
<1> QED BY <1>2, <1>3, <1>4

(* Every step keeps a proxy that is in a thread's hand out of the queue. *)
LEMMA NextInHands == Inv /\ Next => InHands'
<1> SUFFICES ASSUME Inv, Next PROVE InHands'
  OBVIOUS
<1>0. /\ TypeOK /\ Fields /\ Locks /\ AsleepIffLive /\ Once /\ AllsQueued /\ InHands
      /\ One \subseteq Coro /\ All \subseteq Coro /\ \A c \in Coro : c \in One <=> c \notin All
      /\ NoOne \notin Coro /\ NoOne \notin Thread /\ \A c \in Coro, t \in Thread : c # t
  BY FieldTypes, Names DEF Inv, Queues, Unseen
<1> USE DEF Goes, Trying, coroVars, stateVars, threadVars, eventVars, Fields, InHands
<1>1. ASSUME NEW c \in One, NEW e \in Event, Wait(c, e) PROVE InHands'
  BY <1>1, <1>0, Unmoved DEF Wait
<1>2. ASSUME NEW c \in One, SecondTry(c) PROVE InHands'
  BY <1>2, <1>0, Unmoved DEF SecondTry
<1>3. ASSUME NEW c \in One, TryLoad(c) PROVE InHands'
  <2>1. CASE Fail(c)
    <3>1. Failed(c) /\ UNCHANGED <<first, target, hand>>
      BY <1>3, <1>0, <2>1, FailFacts DEF TryLoad, Inside
    <3>2. c \notin All
      BY <1>0
    <3> QED BY <1>0, <3>1, <3>2, HandsKept
  <2>2. CASE ~Fail(c)
    BY <1>3, <1>0, <2>2, Unmoved DEF TryLoad
  <2> QED BY <2>1, <2>2
<1>4. ASSUME NEW c \in One, TryTake(c) PROVE InHands'
  BY <1>4, <1>0, Unmoved DEF TryTake
<1>5. ASSUME NEW c \in One, TryUndo(c) PROVE InHands'
  <2>1. Failed(c) /\ UNCHANGED <<first, target, hand>>
    BY <1>5, <1>0, FailFacts DEF TryUndo, Inside
  <2>2. c \notin All
    BY <1>0
  <2> QED BY <1>0, <2>1, <2>2, HandsKept
<1>6. ASSUME NEW c \in One, ExpireEnd(c) PROVE InHands'
  <2>1. Takes(c, {ev[c]}) /\ c \in Coro /\ c \notin All
    BY <1>6, <1>0, ExpireEndFacts
  <2>2. UNCHANGED <<first, target, hand>> /\ Goes(c, "ready")
    BY <1>6 DEF ExpireEnd
  <2>3. \A e \in Event : Queued'[e] \subseteq Queued[e]
    BY <1>0, <2>1 DEF Takes, Queued
  <2> QED BY <1>0, <2>1, <2>2, <2>3
<1>7. ASSUME NEW c \in One, Expire(c) PROVE InHands'
  BY <1>7, <1>0, Unmoved DEF Expire
<1>8. ASSUME NEW c \in Coro, Resume(c) PROVE InHands'
  BY <1>8, <1>0, Unmoved DEF Resume
<1>9. ASSUME NEW d \in All, WaitAll(d) PROVE InHands'
  BY <1>9, <1>0, Unmoved DEF WaitAll
<1>10. ASSUME NEW d \in All, ExpireAllEnd(d) PROVE InHands'
  BY <1>10, <1>0, Unmoved DEF ExpireAllEnd
<1>11. ASSUME NEW d \in All, LockHard(d) PROVE InHands'
  BY <1>11, <1>0, Unmoved DEF LockHard
<1>12. ASSUME NEW d \in All, TryLock(d) PROVE InHands'
  BY <1>12, <1>0, Unmoved DEF TryLock
<1>13. ASSUME NEW d \in All, AwaitAll(d) PROVE InHands'
  <2>1. Puts(d, Missing) /\ d \in Coro /\ UNCHANGED <<target, hand>>
    BY <1>13, <1>0, AwaitAllFacts DEF AwaitAll
  <2>2. at[d] = "trying" /\ \A x \in All : x # d => at'[x] = at[x] /\ first'[x] = first[x]
    BY <1>13, <1>0, <2>1 DEF AwaitAll
  <2>3. \A t \in Thread : hand[t] # d
    BY <1>0, <2>2
  <2>4. \A t \in Thread : hand[t] # NoOne /\ hand[t] \in Queued'[target[t]] => hand[t] \in Queued[target[t]]
    BY <1>0, <2>1, <2>3 DEF Puts
  <2> QED BY <1>0, <2>1, <2>2, <2>3, <2>4
<1>14. ASSUME NEW d \in All, ExpireAllRemove(d) PROVE InHands'
  <2>1. PICK e \in Event : Removes(d, e)
    BY <1>14, RemoveFacts
  <2>2. UNCHANGED <<at, target, hand>> /\ first[d] \in SUBSET Event
    BY <1>14, <1>0 DEF ExpireAllRemove
  <2>3. \A r \in Event : Queued'[r] \subseteq Queued[r]
    BY <1>0, <2>1 DEF Removes, Takes, Queued
  <2>4. \A t \in Thread : hand[t] # NoOne => target[t] # e
    BY <1>0, <2>1 DEF Removes, Locks
  <2> QED BY <1>0, <2>1, <2>2, <2>3, <2>4 DEF Removes
<1>15. ASSUME NEW d \in All, ExpireAll(d) PROVE InHands'
  BY <1>15, <1>0, Unmoved DEF ExpireAll
<1>16. ASSUME NEW t \in Thread, NEW e \in Event, NEW how \in {"signal", "signal_all"},
   SignalBegin(t, e, how) PROVE InHands'
  <2>1. hand[t] = NoOne /\ Queued' = Queued /\ UNCHANGED <<at, first, hand>>
        /\ \A x \in Thread : x # t => target'[x] = target[x]
    BY <1>16, <1>0, Unmoved DEF SignalBegin, Locks
  <2> QED BY <1>0, <2>1
<1>17. ASSUME NEW t \in Thread, PopOne(t) PROVE InHands'
  <2> DEFINE c == Head(waitq[target[t]])
  <2>1. c \in Coro /\ target[t] \in Event /\ Takes(c, {target[t]})
    BY <1>17, <1>0, PopFacts DEF PopOne
  <2>2. c \in One /\ c \notin All /\ UNCHANGED <<first, target, hand>> /\ (UNCHANGED at \/ Goes(c, "ready"))
    BY <1>17, <1>0 DEF PopOne
  <2> HIDE DEF c
  <2>3. \A e \in Event : Queued'[e] \subseteq Queued[e]
    BY <1>0, <2>1 DEF Takes, Queued
  <2> QED BY <1>0, <2>1, <2>2, <2>3
<1>18. ASSUME NEW t \in Thread, PopAll(t) PROVE InHands'
  <2> DEFINE d == Head(waitq[target[t]])
  <2>1. d \in Queued[target[t]] /\ target[t] \in Event /\ Takes(d, {target[t]})
    BY <1>18, <1>0, PopFacts DEF PopAll
  <2>2. d \in All /\ hand' = [hand EXCEPT ![t] = d] /\ UNCHANGED <<at, first, target>>
    BY <1>18 DEF PopAll
  <2> HIDE DEF d
  <2>3. /\ \A e \in Event : Queued'[e] \subseteq Queued[e]
        /\ d \notin Queued'[target[t]]
    BY <1>0, <2>1, <2>2 DEF Takes, Queued
  <2>4. at[d] \in {"asleep", "expired"} /\ target[t] \in first[d]
    BY <1>0, <2>1, <2>2 DEF AllsQueued
  <2> QED BY <1>0, <2>1, <2>2, <2>3, <2>4
<1>19. ASSUME NEW t \in Thread, NotifyAll(t) PROVE InHands'
  <2> DEFINE d == hand[t]
  <2>1. Counted(t, d) /\ Queued' = Queued
    BY <1>19, <1>0, NotifyAllFacts, Unmoved DEF Counted
  <2>2. d # NoOne
    BY <1>0, <2>1 DEF Counted
  <2> HIDE DEF d
  <2>3. \A x \in Thread : x # t /\ hand[x] = d /\ doing[t] # "idle" => target[x] # target[t]
    BY <1>0, <2>1, <2>2 DEF Counted, Locks
  <2>4. CASE UNCHANGED <<first, at>>
    BY <1>0, <2>1, <2>4 DEF Counted
  <2>5. CASE first' = [first EXCEPT ![d] = @ \ {target[t]}] /\ UNCHANGED at /\ doing[t] # "idle"
    BY <1>0, <2>1, <2>3, <2>5 DEF Counted
  <2>6. CASE first[d] = {target[t]} /\ at' = [at EXCEPT ![d] = "ready"] /\ doing[t] # "idle"
             /\ first' = [first EXCEPT ![d] = @ \ {target[t]}]
    BY <1>0, <2>1, <2>3, <2>6 DEF Counted
  <2> QED BY <2>1, <2>4, <2>5, <2>6 DEF Counted
<1>20. ASSUME NEW t \in Thread, SignalEnd(t) PROVE InHands'
  BY <1>20, <1>0, Unmoved DEF SignalEnd
<1>21. ASSUME NEW e \in Event, Reset(e) PROVE InHands'
  BY <1>21, <1>0, Unmoved DEF Reset
<1> QED
  BY <1>1, <1>2, <1>3, <1>4, <1>5, <1>6, <1>7, <1>8, <1>9, <1>10, <1>11, <1>12, <1>13, <1>14,
     <1>15, <1>16, <1>17, <1>18, <1>19, <1>20, <1>21 DEF Next, OneStep, AllStep, SignalStep,
     Coro

(* Every step keeps the count of a waiter for all right. *)
LEMMA NextProxies == Inv /\ Next => Proxies'
<1> SUFFICES ASSUME Inv, Next PROVE Proxies'
  OBVIOUS
<1>0. /\ TypeOK /\ Fields /\ Locks /\ AsleepIffLive /\ Once /\ AllsQueued /\ InHands /\ Proxies
      /\ One \subseteq Coro /\ All \subseteq Coro /\ \A c \in Coro : c \in One <=> c \notin All
      /\ NoOne \notin Coro /\ NoOne \notin Thread /\ \A c \in Coro, t \in Thread : c # t
  BY FieldTypes, Names DEF Inv, Queues, Unseen
<1> USE DEF Goes, Trying, coroVars, stateVars, threadVars, eventVars, Fields, Proxies
<1>1. ASSUME NEW c \in One, NEW e \in Event, Wait(c, e) PROVE Proxies'
  BY <1>1, <1>0, Unmoved DEF Wait
<1>2. ASSUME NEW c \in One, SecondTry(c) PROVE Proxies'
  BY <1>2, <1>0, Unmoved DEF SecondTry
<1>3. ASSUME NEW c \in One, TryLoad(c) PROVE Proxies'
  <2>1. CASE Fail(c)
    <3>1. Failed(c) /\ UNCHANGED <<slock, left, first, target, hand>>
      BY <1>3, <1>0, <2>1, FailFacts DEF TryLoad, Inside
    <3>2. c \notin All
      BY <1>0
    <3> QED BY <1>0, <3>1, <3>2, FailedPlaces DEF Inside
  <2>2. CASE ~Fail(c)
    BY <1>3, <1>0, <2>2, Unmoved DEF TryLoad
  <2> QED BY <2>1, <2>2
<1>4. ASSUME NEW c \in One, TryTake(c) PROVE Proxies'
  BY <1>4, <1>0, Unmoved DEF TryTake
<1>5. ASSUME NEW c \in One, TryUndo(c) PROVE Proxies'
  <2>1. Failed(c) /\ UNCHANGED <<slock, left, first, target, hand>>
    BY <1>5, <1>0, FailFacts DEF TryUndo, Inside
  <2>2. c \notin All
    BY <1>0
  <2> QED BY <1>0, <2>1, <2>2, FailedPlaces DEF Inside
<1>6. ASSUME NEW c \in One, ExpireEnd(c) PROVE Proxies'
  <2>1. Takes(c, {ev[c]}) /\ c \in Coro /\ c \notin All
    BY <1>6, <1>0, ExpireEndFacts
  <2>2. UNCHANGED <<slock, left, first, target, hand>> /\ Goes(c, "ready")
    BY <1>6 DEF ExpireEnd
  <2>3. \A e \in Event, x \in All : x \in Queued[e] => x \in Queued'[e]
    BY <1>0, <2>1 DEF Takes
  <2> QED BY <1>0, <2>1, <2>2, <2>3
<1>7. ASSUME NEW c \in One, Expire(c) PROVE Proxies'
  BY <1>7, <1>0, Unmoved DEF Expire
<1>8. ASSUME NEW c \in Coro, Resume(c) PROVE Proxies'
  BY <1>8, <1>0, Unmoved DEF Resume
<1>9. ASSUME NEW d \in All, WaitAll(d) PROVE Proxies'
  BY <1>9, <1>0, Unmoved DEF WaitAll
<1>10. ASSUME NEW d \in All, ExpireAllEnd(d) PROVE Proxies'
  BY <1>10, <1>0, Unmoved DEF ExpireAllEnd
<1>11. ASSUME NEW d \in All, LockHard(d) PROVE Proxies'
  BY <1>11, <1>0, Unmoved DEF LockHard
<1>12. ASSUME NEW d \in All, TryLock(d) PROVE Proxies'
  BY <1>12, <1>0, Unmoved DEF TryLock
<1>13. ASSUME NEW d \in All, AwaitAll(d) PROVE Proxies'
  <2>1. Puts(d, Missing) /\ d \in Coro /\ UNCHANGED <<slock, target, hand>> /\ Missing \in SUBSET Event
    BY <1>13, <1>0, AwaitAllFacts DEF AwaitAll
  <2>2. /\ at[d] = "trying" /\ \A x \in All : x # d => at'[x] = at[x] /\ first'[x] = first[x] /\ left'[x] = left[x]
        /\ at'[d] # "expired" /\ first'[d] = Missing /\ left'[d] = Cardinality(Missing)
    BY <1>13, <1>0, <2>1 DEF AwaitAll
  <2>3. \A x \in All, e \in Event : (x \in Queued[e] => x \in Queued'[e]) /\ (e \in Missing => d \in Queued'[e])
    BY <1>0, <2>1 DEF Puts
  <2> QED BY <1>0, <2>1, <2>2, <2>3
<1>14. ASSUME NEW d \in All, ExpireAllRemove(d) PROVE Proxies'
  <2>1. PICK e \in Event : Removes(d, e)
    BY <1>14, RemoveFacts
  <2>2. UNCHANGED <<at, slock, left, target, hand>> /\ at[d] = "expired" /\ d \in Coro
    BY <1>14, <1>0 DEF ExpireAllRemove
  <2>3. \A r \in Event, x \in All : x # d => (x \in Queued[r] <=> x \in Queued'[r])
    BY <1>0, <2>1 DEF Removes, Takes
  <2>4. \A x \in All : x # d => first'[x] = first[x]
    BY <1>0, <2>1 DEF Removes
  <2> QED BY <1>0, <2>2, <2>3, <2>4
<1>15. ASSUME NEW d \in All, ExpireAll(d) PROVE Proxies'
  BY <1>15, <1>0, Unmoved DEF ExpireAll
<1>16. ASSUME NEW t \in Thread, NEW e \in Event, NEW how \in {"signal", "signal_all"},
   SignalBegin(t, e, how) PROVE Proxies'
  <2>1. hand[t] = NoOne /\ Queued' = Queued /\ UNCHANGED <<at, slock, left, first, hand>>
        /\ \A x \in Thread : x # t => target'[x] = target[x]
    BY <1>16, <1>0, Unmoved DEF SignalBegin, Locks
  <2>2. \A u \in Thread, x \in All : hand[u] = x => hand'[u] = x /\ target'[u] = target[u]
    BY <1>0, <2>1
  <2> QED BY <1>0, <2>1, <2>2
<1>17. ASSUME NEW t \in Thread, PopOne(t) PROVE Proxies'
  <2> DEFINE c == Head(waitq[target[t]])
  <2>1. c \in Coro /\ target[t] \in Event /\ Takes(c, {target[t]})
    BY <1>17, <1>0, PopFacts DEF PopOne
  <2>2. c \in One /\ c \notin All /\ UNCHANGED <<slock, left, first, target, hand>> /\ (UNCHANGED at \/ Goes(c, "ready"))
    BY <1>17, <1>0 DEF PopOne
  <2> HIDE DEF c
  <2>3. \A e \in Event, x \in All : x \in Queued[e] => x \in Queued'[e]
    BY <1>0, <2>1, <2>2 DEF Takes
  <2> QED BY <1>0, <2>1, <2>2, <2>3
<1>18. ASSUME NEW t \in Thread, PopAll(t) PROVE Proxies'
  <2> DEFINE d == Head(waitq[target[t]])
  <2>1. d \in Coro /\ target[t] \in Event /\ Takes(d, {target[t]}) /\ hand[t] = NoOne
    BY <1>18, <1>0, PopFacts DEF PopAll, Pop
  <2>2. d \in All /\ hand' = [hand EXCEPT ![t] = d] /\ UNCHANGED <<at, slock, left, first, target>>
    BY <1>18 DEF PopAll
  <2> HIDE DEF d
  <2>3. ASSUME NEW x \in All, NEW e \in Event,
               x \in Queued[e] \/ \E u \in Thread : hand[u] = x /\ target[u] = e
        PROVE  x \in Queued'[e] \/ \E u \in Thread : hand'[u] = x /\ target'[u] = e
    <3>1. CASE x \in Queued[e] /\ ~(x = d /\ e = target[t])
      BY <1>0, <2>1, <3>1 DEF Takes
    <3>2. CASE x = d /\ e = target[t]
      BY <1>0, <2>2, <3>2
    <3>3. ASSUME NEW u \in Thread, hand[u] = x, target[u] = e
          PROVE  hand'[u] = x /\ target'[u] = e
      <4>1. u # t
        BY <1>0, <2>1, <3>3
      <4> QED BY <1>0, <2>2, <3>3, <4>1
    <3> QED BY <2>3, <3>1, <3>2, <3>3
  <2> QED BY <1>0, <2>2, <2>3
<1>19. ASSUME NEW t \in Thread, NotifyAll(t) PROVE Proxies'
  <2> DEFINE d == hand[t]
  <2>1. Counted(t, d) /\ Queued' = Queued
    BY <1>19, <1>0, NotifyAllFacts, Unmoved DEF Counted
  <2>2. d # NoOne /\ first[d] \in SUBSET Event
    BY <1>0, <2>1 DEF Counted
  <2> HIDE DEF d
  <2>3. \A x \in Thread : x # t => hand'[x] = hand[x] /\ target'[x] = target[x]
    BY <2>1 DEF Counted
  <2>4. ASSUME NEW x \in All, NEW e \in Event, ~(x = d /\ e = target[t]),
               x \in Queued[e] \/ \E u \in Thread : hand[u] = x /\ target[u] = e
        PROVE  x \in Queued'[e] \/ \E u \in Thread : hand'[u] = x /\ target'[u] = e
    <3>1. CASE x \in Queued[e]
      BY <2>1, <3>1
    <3>2. ASSUME NEW u \in Thread, hand[u] = x, target[u] = e
          PROVE  hand'[u] = x /\ target'[u] = e
      <4>1. u # t
        BY <2>1, <2>4, <3>2 DEF Counted
      <4> QED BY <2>3, <3>2, <4>1
    <3> QED BY <2>4, <3>1, <3>2
  <2>5. ASSUME UNCHANGED <<left, first, doing, at>> PROVE Proxies'
    <3>1. at[d] # "asleep"
      BY <1>19, <1>0, <2>1, <2>5 DEF NotifyAll, Counted, AsleepIffLive, Live
    <3> QED BY <1>0, <2>1, <2>4, <2>5, <3>1 DEF Counted
  <2>6. ASSUME left[d] > 0, at[d] = "asleep", left[d] = Cardinality(first[d]), target[t] \in first[d],
               left' = [left EXCEPT ![d] = @ - 1], first' = [first EXCEPT ![d] = @ \ {target[t]}],
               UNCHANGED at \/ at' = [at EXCEPT ![d] = "ready"]
        PROVE  Proxies'
    <3>1. Cardinality(first'[d]) = left'[d]
      BY <1>0, <2>1, <2>2, <2>6, Sizes DEF Counted
    <3>2. \A x \in All : x # d => left'[x] = left[x] /\ first'[x] = first[x] /\ at'[x] = at[x]
      BY <1>0, <2>1, <2>6 DEF Counted
    <3>3. first'[d] = first[d] \ {target[t]} /\ (at'[d] = "asleep" \/ at'[d] = "ready")
      BY <1>0, <2>1, <2>6 DEF Counted
    <3>4. ASSUME NEW x \in All, at'[x] = "asleep"
          PROVE  /\ left'[x] = Cardinality(first'[x])
                 /\ \A e \in first'[x] : x \in Queued'[e] \/ \E u \in Thread : hand'[u] = x /\ target'[u] = e
      <4>1. at[x] = "asleep"
        BY <2>6, <3>2, <3>4
      <4>2. \A e \in first[x] : x \in Queued[e] \/ \E u \in Thread : hand[u] = x /\ target[u] = e
        BY <1>0, <4>1
      <4>3. \A e \in first'[x] : e \in Event /\ e \in first[x] /\ ~(x = d /\ e = target[t])
        BY <1>0, <2>2, <3>2, <3>3
      <4>4. left'[x] = Cardinality(first'[x])
        BY <1>0, <3>1, <3>2, <4>1
      <4> QED BY <2>4, <4>2, <4>3, <4>4
    <3>5. \A x \in All : slock'[x] <=> at'[x] = "expired"
      BY <1>0, <2>1, <2>6, <3>2, <3>3 DEF Counted
    <3> QED BY <3>4, <3>5
  <2>7. target[t] \in first[d]
    BY <1>0, <2>1, <2>2 DEF Counted, InHands
  <2> QED BY <2>1, <2>5, <2>6, <2>7 DEF Counted
<1>20. ASSUME NEW t \in Thread, SignalEnd(t) PROVE Proxies'
  BY <1>20, <1>0, Unmoved DEF SignalEnd
<1>21. ASSUME NEW e \in Event, Reset(e) PROVE Proxies'
  BY <1>21, <1>0, Unmoved DEF Reset
<1> QED
  BY <1>1, <1>2, <1>3, <1>4, <1>5, <1>6, <1>7, <1>8, <1>9, <1>10, <1>11, <1>12, <1>13, <1>14,
     <1>15, <1>16, <1>17, <1>18, <1>19, <1>20, <1>21 DEF Next, OneStep, AllStep, SignalStep,
     Coro

(* Every step keeps a try from being disappointed but by the one reset. *)
LEMMA NextTries == MaxResets < 2 /\ Inv /\ Next => Tries'
<1> SUFFICES ASSUME MaxResets < 2, Inv, Next PROVE Tries'
  OBVIOUS
<1>0. /\ Fields /\ Locks /\ Counts /\ Tries
      /\ One \subseteq Coro /\ All \subseteq Coro /\ \A c \in Coro : c \in One <=> c \notin All
      /\ NoOne \notin Coro /\ NoOne \notin Thread /\ \A c \in Coro, t \in Thread : c # t
  BY FieldTypes, Names DEF Inv, Queues, Unseen
<1> USE DEF Goes, Trying, coroVars, stateVars, threadVars, eventVars, Fields, Tries
<1>1. ASSUME NEW c \in One, NEW e \in Event, Wait(c, e) PROVE Tries'
  <2>1. at[c] = "run" /\ probe[c] = "load" /\ ev' = [ev EXCEPT ![c] = e]
        /\ UNCHANGED <<counter, probe, resets>>
    BY <1>1, <1>0 DEF Wait, Locks, Inside
  <2>2. \A x \in One : probe[x] # "load" => ev'[x] = ev[x]
    BY <1>0, <2>1
  <2> QED BY <1>0, <2>1, <2>2
<1>2. ASSUME NEW c \in One, SecondTry(c) PROVE Tries'
  BY <1>2, <1>0 DEF SecondTry
<1>3. ASSUME NEW c \in One, TryLoad(c) PROVE Tries'
  <2>1. UNCHANGED <<counter, ev, resets>> /\ \A x \in One : x # c => probe'[x] = probe[x]
    BY <1>3, <1>0 DEF TryLoad
  <2>2. probe'[c] # "undo" /\ (probe'[c] = "take" => counter[ev[c]] > 0)
    BY <1>3, <1>0 DEF TryLoad
  <2> QED BY <1>0, <2>1, <2>2
<1>4. ASSUME NEW c \in One, TryTake(c) PROVE Tries'
  <2>1. /\ c \in Coro /\ ev[c] \in Event /\ probe[c] = "take"
        /\ UNCHANGED <<ev, resets>>
        /\ counter' = [counter EXCEPT ![ev[c]] = @ - 1]
        /\ \/ probe' = [probe EXCEPT ![c] = "load"] /\ counter[ev[c]] > 0
           \/ probe' = [probe EXCEPT ![c] = "undo"] /\ counter[ev[c]] <= 0
    <3>1. c \in Coro /\ ev[c] \in Event /\ probe[c] = "take"
      BY <1>4, <1>0 DEF TryTake
    <3> QED BY <1>4, <3>1 DEF TryTake
  <2>2. counter[ev[c]] >= 0
    <3>1. counter[ev[c]] < 0 => \E x \in One : probe[x] = "undo" /\ ev[x] = ev[c]
      BY <1>0, <2>1 DEF Counts
    <3>2. \A x \in One : probe[x] = "undo" => ev[x] # ev[c]
      BY <1>0, <2>1, Alone
    <3> QED BY <1>0, <2>1, <3>1, <3>2
  <2>3. \A x \in One : x # c /\ probe[x] # "load" => ev[x] # ev[c]
    BY <1>0, <2>1, Alone
  <2>4. \A x \in One : x # c => probe'[x] = probe[x] /\ (probe[x] # "load" => counter'[ev[x]] = counter[ev[x]])
    BY <1>0, <2>1, <2>3
  <2>5. ASSUME probe'[c] = "undo" PROVE counter'[ev[c]] = -1 /\ resets = 1
    <3>1. counter[ev[c]] <= 0
      BY <1>0, <2>1, <2>5
    <3>2. counter[ev[c]] = 0 /\ resets = 1
      BY <1>0, <2>1, <2>2, <3>1
    <3> QED BY <1>0, <2>1, <3>2
  <2>6. probe'[c] # "take"
    BY <1>0, <2>1
  <2> QED BY <1>0, <2>1, <2>4, <2>5, <2>6
<1>5. ASSUME NEW c \in One, TryUndo(c) PROVE Tries'
  <2>1. /\ c \in Coro /\ ev[c] \in Event /\ probe[c] = "undo"
        /\ UNCHANGED <<ev, resets>>
        /\ counter' = [counter EXCEPT ![ev[c]] = @ + 1]
        /\ probe' = [probe EXCEPT ![c] = "load"]
    BY <1>5, <1>0 DEF TryUndo
  <2>3. \A x \in One : x # c /\ probe[x] # "load" => ev[x] # ev[c]
    BY <1>0, <2>1, Alone
  <2>4. \A x \in One : x # c => probe'[x] = probe[x] /\ (probe[x] # "load" => counter'[ev[x]] = counter[ev[x]])
    BY <1>0, <2>1, <2>3
  <2>5. probe'[c] = "load"
    BY <1>0, <2>1
  <2> QED BY <1>0, <2>1, <2>4, <2>5
<1>6. ASSUME NEW c \in One, ExpireEnd(c) PROVE Tries'
  BY <1>6, <1>0 DEF ExpireEnd
<1>7. ASSUME NEW c \in One, Expire(c) PROVE Tries'
  BY <1>7, <1>0 DEF Expire
<1>8. ASSUME NEW c \in Coro, Resume(c) PROVE Tries'
  BY <1>8, <1>0 DEF Resume
<1>9. ASSUME NEW d \in All, WaitAll(d) PROVE Tries'
  BY <1>9, <1>0 DEF WaitAll
<1>10. ASSUME NEW d \in All, ExpireAllEnd(d) PROVE Tries'
  BY <1>10, <1>0 DEF ExpireAllEnd
<1>11. ASSUME NEW d \in All, LockHard(d) PROVE Tries'
  BY <1>11, <1>0 DEF LockHard
<1>12. ASSUME NEW d \in All, TryLock(d) PROVE Tries'
  BY <1>12, <1>0 DEF TryLock
<1>13. ASSUME NEW d \in All, AwaitAll(d) PROVE Tries'
  <2>1. (\A e \in Event : lock[e] = d) /\ UNCHANGED <<probe, ev, resets>>
    BY <1>13 DEF AwaitAll, NotHeld
  <2>2. \A c \in One : probe[c] = "load"
    <3>1. \A c \in One : c # d
      BY <1>0
    <3>2. \A c \in One : probe[c] # "load" => lock[ev[c]] = c /\ ev[c] \in Event
      BY <1>0, Alone
    <3> QED BY <2>1, <3>1, <3>2
  <2> QED BY <2>1, <2>2
<1>14. ASSUME NEW d \in All, ExpireAllRemove(d) PROVE Tries'
  BY <1>14, <1>0 DEF ExpireAllRemove
<1>15. ASSUME NEW d \in All, ExpireAll(d) PROVE Tries'
  BY <1>15, <1>0 DEF ExpireAll
<1>16. ASSUME NEW t \in Thread, NEW e \in Event, NEW how \in {"signal", "signal_all"},
   SignalBegin(t, e, how) PROVE Tries'
  BY <1>16, <1>0 DEF SignalBegin
<1>17. ASSUME NEW t \in Thread, PopOne(t) PROVE Tries'
  BY <1>17, <1>0 DEF PopOne
<1>18. ASSUME NEW t \in Thread, PopAll(t) PROVE Tries'
  BY <1>18, <1>0 DEF PopAll
<1>19. ASSUME NEW t \in Thread, NotifyAll(t) PROVE Tries'
  BY <1>19, <1>0 DEF NotifyAll
<1>20. ASSUME NEW t \in Thread, SignalEnd(t) PROVE Tries'
  <2>1. /\ UNCHANGED <<probe, ev, resets>> /\ target[t] \in Event /\ lock[target[t]] = t
        /\ \A e \in Event : e # target[t] => counter'[e] = counter[e]
    BY <1>20, <1>0 DEF SignalEnd, Locks
  <2>2. \A c \in One : probe[c] # "load" => ev[c] # target[t] /\ ev[c] \in Event
    BY <1>0, <2>1, Alone
  <2> QED BY <1>0, <2>1, <2>2
<1>21. ASSUME NEW e \in Event, Reset(e) PROVE Tries'
  <2>1. /\ UNCHANGED <<probe, ev>> /\ resets = 0 /\ resets' = 1
    BY <1>21, <1>0, CountsAssumption DEF Reset
  <2>2. \A c \in One : probe[c] # "undo"
    BY <1>0, <2>1
  <2> QED BY <1>0, <2>1, <2>2
<1> QED
  BY <1>1, <1>2, <1>3, <1>4, <1>5, <1>6, <1>7, <1>8, <1>9, <1>10, <1>11, <1>12, <1>13, <1>14,
     <1>15, <1>16, <1>17, <1>18, <1>19, <1>20, <1>21 DEF Next, OneStep, AllStep, SignalStep,
     Coro

(* A waiter that joins the queue has seen that there is no signal. *)
LEMMA FailSeen ==
  ASSUME Inv, NEW c \in One, Failed(c), UNCHANGED left,
         counter'[ev[c]] \in Int, counter'[ev[c]] <= 0,
         \A e \in Event : e # ev[c] => counter'[e] = counter[e],
         MaxResets < 2
  PROVE  Seen'
<1>0. /\ Fields /\ OnesQueued /\ AsleepIffLive /\ Seen
      /\ c \in Coro /\ ev[c] \in Event /\ c \notin All
  BY FieldTypes, Names DEF Inv, Queues, Unseen, Fields
<1>1. /\ at[c] \in Inside /\ counter \in [Event -> -1..MaxCount]
      /\ \A e \in Event, x \in Coro :
           x \in Queued'[e] => x \in Queued[e] \/ (x = c /\ e = ev[c])
  BY <1>0, FailedPlaces DEF Fields
<1>2. \A e \in Event : c \notin Queued[e]
  BY <1>0, <1>1 DEF OnesQueued, Inside
<1>3. \A x \in One : x # c => armed'[x] = armed[x]
  BY <1>0 DEF Failed, Fields
<1>4. ASSUME NEW e \in Event, NEW x \in Coro, counter'[e] > 0, x \in Queued'[e]
      PROVE  ~Live(x)'
  <2>1. e # ev[c]
    BY <1>4
  <2>2. counter[e] > 0
    BY <1>4, <2>1
  <2>3. x \in Queued[e] /\ x # c
    BY <1>1, <1>2, <1>4
  <2>4. ~Live(x)
    BY <1>0, <2>2, <2>3 DEF Seen
  <2>5. Live(x)' <=> Live(x)
    BY <1>3, <2>3 DEF Live
  <2> QED BY <2>4, <2>5
<1> QED BY <1>4 DEF Seen

(* Every step keeps a signal from lying beside a waiter. *)
LEMMA NextSeen == MaxResets < 2 /\ Inv /\ Next => Seen'
<1> SUFFICES ASSUME MaxResets < 2, Inv, Next PROVE Seen'
  OBVIOUS
<1>0. /\ TypeOK /\ Fields /\ AsleepIffLive /\ Once /\ OnesQueued /\ AllsQueued
      /\ Tries /\ Seen
      /\ One \subseteq Coro /\ All \subseteq Coro /\ \A c \in Coro : c \in One <=> c \notin All
      /\ NoOne \notin Coro /\ NoOne \notin Thread /\ \A c \in Coro, t \in Thread : c # t
  BY FieldTypes, Names DEF Inv, Queues, Unseen
<1> USE DEF Goes, Trying, coroVars, stateVars, threadVars, eventVars, Fields, Seen, Live
<1>1. ASSUME NEW c \in One, NEW e \in Event, Wait(c, e) PROVE Seen'
  BY <1>1, <1>0, Unmoved DEF Wait
<1>2. ASSUME NEW c \in One, SecondTry(c) PROVE Seen'
  BY <1>2, <1>0, Unmoved DEF SecondTry
<1>3. ASSUME NEW c \in One, TryLoad(c) PROVE Seen'
  <2>1. CASE Fail(c)
    <3>1. Failed(c) /\ UNCHANGED <<counter, left>> /\ counter[ev[c]] <= 0
      BY <1>3, <1>0, <2>1, FailFacts DEF TryLoad, Inside, Fail
    <3> QED BY <1>0, <3>1, FailSeen
  <2>2. CASE ~Fail(c)
    BY <1>3, <1>0, <2>2, Unmoved DEF TryLoad
  <2> QED BY <2>1, <2>2
<1>4. ASSUME NEW c \in One, TryTake(c) PROVE Seen'
  <2>1. /\ Queued' = Queued /\ UNCHANGED <<armed, left>>
        /\ \A e \in Event : counter'[e] > 0 => counter[e] > 0
    BY <1>4, <1>0, Unmoved DEF TryTake
  <2> QED BY <1>0, <2>1
<1>5. ASSUME NEW c \in One, TryUndo(c) PROVE Seen'
  <2>1. /\ Failed(c) /\ UNCHANGED left /\ c \in Coro /\ ev[c] \in Event
        /\ counter' = [counter EXCEPT ![ev[c]] = @ + 1] /\ probe[c] = "undo"
    BY <1>5, <1>0, FailFacts DEF TryUndo, Inside
  <2>2. counter'[ev[c]] = 0
    <3>1. c \in One /\ counter[ev[c]] = -1
      BY <1>0, <2>1 DEF Tries
    <3> QED BY <1>0, <2>1, <3>1
  <2>3. counter'[ev[c]] \in Int /\ counter'[ev[c]] <= 0
    BY <2>2
  <2>4. \A e \in Event : e # ev[c] => counter'[e] = counter[e]
    BY <1>0, <2>1
  <2> HIDE DEF Seen
  <2> QED BY <1>0, <2>1, <2>3, <2>4, FailSeen
<1>6. ASSUME NEW c \in One, ExpireEnd(c) PROVE Seen'
  <2>1. /\ \A e \in Event : Queued'[e] \subseteq Queued[e]
        /\ UNCHANGED counter
    <3>1. Takes(c, {ev[c]}) /\ UNCHANGED counter
      BY <1>6, ExpireEndFacts DEF ExpireEnd
    <3> QED BY <1>0, <3>1 DEF Takes, Queued
  <2>2. \A x \in Coro : Live(x)' => Live(x)
    BY <1>6, <1>0 DEF ExpireEnd
  <2> HIDE DEF Live
  <2> QED BY <1>0, <2>1, <2>2
<1>7. ASSUME NEW c \in One, Expire(c) PROVE Seen'
  BY <1>7, <1>0, Unmoved DEF Expire
<1>8. ASSUME NEW c \in Coro, Resume(c) PROVE Seen'
  BY <1>8, <1>0, Unmoved DEF Resume
<1>9. ASSUME NEW d \in All, WaitAll(d) PROVE Seen'
  BY <1>9, <1>0, Unmoved DEF WaitAll
<1>10. ASSUME NEW d \in All, ExpireAllEnd(d) PROVE Seen'
  BY <1>10, <1>0, Unmoved DEF ExpireAllEnd
<1>11. ASSUME NEW d \in All, LockHard(d) PROVE Seen'
  BY <1>11, <1>0, Unmoved DEF LockHard
<1>12. ASSUME NEW d \in All, TryLock(d) PROVE Seen'
  BY <1>12, <1>0, Unmoved DEF TryLock
<1>13. ASSUME NEW d \in All, AwaitAll(d) PROVE Seen'
  <2>1. /\ Puts(d, Missing) /\ d \in Coro /\ d \notin One /\ UNCHANGED armed /\ at[d] = "trying"
        /\ \A x \in All : x # d => left'[x] = left[x]
    BY <1>13, <1>0, AwaitAllFacts DEF AwaitAll
  <2>2. \A e \in Event : counter'[e] > 0 => counter[e] > 0 /\ e \notin Missing
    BY <1>13, <1>0 DEF AwaitAll, Missing
  <2>3. \A e \in Event : d \notin Queued[e]
    BY <1>0, <2>1 DEF AllsQueued
  <2>4. \A e \in Event, x \in Coro : counter'[e] > 0 /\ x \in Queued'[e] => x \in Queued[e] /\ x # d
    BY <1>0, <2>1, <2>2, <2>3 DEF Puts
  <2> QED BY <1>0, <2>1, <2>2, <2>4
<1>14. ASSUME NEW d \in All, ExpireAllRemove(d) PROVE Seen'
  <2>1. /\ \A e \in Event : Queued'[e] \subseteq Queued[e]
        /\ UNCHANGED counter
    <3>1. (\E e \in Event : Takes(d, {e})) /\ UNCHANGED counter
      BY <1>14, RemoveFacts DEF Removes, ExpireAllRemove
    <3> QED BY <1>0, <3>1 DEF Takes, Queued
  <2>2. \A x \in Coro : Live(x)' => Live(x)
    BY <1>14, <1>0 DEF ExpireAllRemove
  <2> HIDE DEF Live
  <2> QED BY <1>0, <2>1, <2>2
<1>15. ASSUME NEW d \in All, ExpireAll(d) PROVE Seen'
  BY <1>15, <1>0, Unmoved DEF ExpireAll
<1>16. ASSUME NEW t \in Thread, NEW e \in Event, NEW how \in {"signal", "signal_all"},
   SignalBegin(t, e, how) PROVE Seen'
  BY <1>16, <1>0, Unmoved DEF SignalBegin
<1>17. ASSUME NEW t \in Thread, PopOne(t) PROVE Seen'
  <2>1. /\ \A e \in Event : Queued'[e] \subseteq Queued[e]
        /\ UNCHANGED counter
    <3>1. Takes(Head(waitq[target[t]]), {target[t]}) /\ UNCHANGED counter
      BY <1>17, PopFacts DEF PopOne
    <3> QED BY <1>0, <3>1 DEF Takes, Queued
  <2>2. \A x \in Coro : Live(x)' => Live(x)
    BY <1>17, <1>0 DEF PopOne
  <2> HIDE DEF Live
  <2> QED BY <1>0, <2>1, <2>2
<1>18. ASSUME NEW t \in Thread, PopAll(t) PROVE Seen'
  <2>1. /\ \A e \in Event : Queued'[e] \subseteq Queued[e]
        /\ UNCHANGED counter
    <3>1. Takes(Head(waitq[target[t]]), {target[t]}) /\ UNCHANGED counter
      BY <1>18, PopFacts DEF PopAll
    <3> QED BY <1>0, <3>1 DEF Takes, Queued
  <2>2. \A x \in Coro : Live(x)' => Live(x)
    BY <1>18, <1>0 DEF PopAll
  <2> HIDE DEF Live
  <2> QED BY <1>0, <2>1, <2>2
<1>19. ASSUME NEW t \in Thread, NotifyAll(t) PROVE Seen'
  <2>1. Counted(t, hand[t]) /\ Queued' = Queued /\ UNCHANGED <<counter, armed>>
    BY <1>19, <1>0, NotifyAllFacts, Unmoved DEF Counted
  <2>2. \A x \in All : left'[x] > 0 => left[x] > 0
    BY <1>0, <2>1 DEF Counted
  <2> QED BY <1>0, <2>1, <2>2
<1>20. ASSUME NEW t \in Thread, SignalEnd(t) PROVE Seen'
  <2>1. /\ Queued' = Queued /\ UNCHANGED <<armed, left>> /\ target[t] \in Event /\ waitq[target[t]] = <<>>
        /\ \A e \in Event : e # target[t] => counter'[e] = counter[e]
    BY <1>20, <1>0, Unmoved DEF SignalEnd
  <2>2. \A c \in Coro : c \notin Queued[target[t]]
    BY <2>1 DEF Queued, Stands
  <2> QED BY <1>0, <2>1, <2>2
<1>21. ASSUME NEW e \in Event, Reset(e) PROVE Seen'
  <2>1. /\ Queued' = Queued /\ UNCHANGED <<armed, left>>
        /\ \A x \in Event : counter'[x] > 0 => counter[x] > 0
    BY <1>21, <1>0, Unmoved DEF Reset
  <2> QED BY <1>0, <2>1
<1> QED
  BY <1>1, <1>2, <1>3, <1>4, <1>5, <1>6, <1>7, <1>8, <1>9, <1>10, <1>11, <1>12, <1>13, <1>14,
     <1>15, <1>16, <1>17, <1>18, <1>19, <1>20, <1>21 DEF Next, OneStep, AllStep, SignalStep,
     Coro

-----------------------------------------------------------------------------
LEMMA InitInv == Init => Inv
<1> SUFFICES ASSUME Init PROVE Inv
  OBVIOUS
<1>0. /\ N \in Nat \ {0} /\ MaxCount \in Nat \ {0} /\ MaxResets \in Nat
      /\ NoOne \notin Coro /\ NoOne \notin Thread /\ One \subseteq Coro /\ All \subseteq Coro
      /\ 1 \in Event /\ \A c \in Coro : c \in One <=> c \notin All
  BY CountsAssumption, Names DEF Event
<1>1. TypeOK
  <2>1. Fields
    BY <1>0 DEF Init, Fields, Where
  <2>2. waitq \in [Event -> Seq(Coro)]
    BY DEF Init
  <2> QED BY <2>1, <2>2, FieldTypes
<1>2. \A e \in Event, x \in Coro : ~Stands(waitq[e], x) /\ Single(waitq[e], x)
  BY DEF Init, Stands, Single
<1>3. Queues
  BY <1>0, <1>2 DEF Init, Queues, Once, OnesQueued, AllsQueued, InHands, Queued
<1>4. Locks
  BY <1>0 DEF Init, Locks, Inside
<1>5. Counts
  BY <1>0 DEF Init, Counts
<1>6. AsleepIffLive
  BY <1>0 DEF Init, AsleepIffLive, Live
<1>7. Proxies
  BY <1>0 DEF Init, Proxies
<1>8. Unseen
  BY <1>0, <1>2 DEF Init, Unseen, Tries, Seen, Queued
<1> QED BY <1>1, <1>3, <1>4, <1>5, <1>6, <1>7, <1>8 DEF Inv

LEMMA StutterInv == Inv /\ UNCHANGED vars => Inv'
<1> SUFFICES ASSUME Inv, UNCHANGED vars PROVE Inv'
  OBVIOUS
<1> USE DEF vars, eventVars, coroVars, stateVars, threadVars
<1>0. /\ TypeOK
      /\ Fields
      /\ Locks
      /\ Counts
      /\ AsleepIffLive
      /\ Queues
      /\ Once
      /\ Proxies
      /\ Unseen
  BY FieldTypes DEF Inv, Queues
<1>1. TypeOK' /\ Once' /\ Queued' = Queued
  BY <1>0, Unmoved DEF TypeOK
<1>2. Locks'
  BY <1>0 DEF Locks
<1>3. Counts'
  BY <1>0 DEF Counts
<1>4. AsleepIffLive'
  BY <1>0 DEF AsleepIffLive, Live
<1>5. Queues'
  BY <1>0, <1>1 DEF Queues, OnesQueued, AllsQueued, InHands
<1>6. Proxies'
  BY <1>0, <1>1 DEF Proxies
<1>7. Unseen'
  BY <1>0, <1>1 DEF Unseen, Tries, Seen, Live
<1> QED BY <1>1, <1>2, <1>3, <1>4, <1>5, <1>6, <1>7 DEF Inv

LEMMA NextInv == Inv /\ [Next]_vars => Inv'
<1>1. ASSUME Inv, Next PROVE Inv'
  <2>1. TypeOK' /\ Once'
    BY <1>1, NextFields, NextQueued, FieldTypes DEF TypeOK, Fields
  <2>2. Locks' /\ Counts' /\ AsleepIffLive' /\ Proxies'
    BY <1>1, NextLocks, NextCounts, NextAnswers, NextProxies
  <2>3. Queues'
    BY <1>1, <2>1, NextOnesQueued, NextAllsQueued, NextInHands DEF Queues
  <2>4. Unseen'
    BY <1>1, NextTries, NextSeen DEF Unseen
  <2> QED BY <2>1, <2>2, <2>3, <2>4 DEF Inv
<1> QED BY <1>1, StutterInv

LEMMA Invariance == Spec => []Inv
  BY InitInv, NextInv, PTL DEF Spec

(* The types: a counter falls below zero by one at most, and only in a     *)
(* try_wait_one() that a reset() has disappointed.                         *)
THEOREM TypeCorrect == Spec => []TypeOK
<1>1. Inv => TypeOK
  BY DEF Inv
<1> QED BY <1>1, Invariance, PTL

(* Whoever is suspended can still be woken, by a signal or by the timeout, *)
(* and nobody else: on_notify() and on_timeout() answer a wait once.       *)
THEOREM AnswersCorrect == Spec => []AsleepIffLive
<1>1. Inv => AsleepIffLive
  BY DEF Inv
<1> QED BY <1>1, Invariance, PTL

(* wait_all() counts right: what is left in state_event_all_t::_counter is *)
(* the number of the events at which it has a proxy still.                 *)
THEOREM ProxiesCorrect == Spec => []ProxiesCounted
<1>1. ASSUME Inv PROVE ProxiesCounted
  <2>0. /\ Fields
        /\ AsleepIffLive
        /\ AllsQueued
        /\ InHands
        /\ Proxies
        /\ NoOne \notin Coro /\ All \subseteq Coro
        /\ \A c \in Coro : c \in One <=> c \notin All
    BY <1>1, FieldTypes, Names DEF Inv, Queues
  <2>1. ASSUME NEW d \in All, left[d] > 0
        PROVE  first[d] = {e \in Event : ProxyAt(d, e)} /\ left[d] = Cardinality(first[d])
    <3>1. at[d] = "asleep" /\ d \in Coro /\ d # NoOne
      BY <2>0, <2>1 DEF AsleepIffLive, Live
    <3>2. \A e \in Event : ProxyAt(d, e) <=>
            d \in Queued[e] \/ \E t \in Thread : hand[t] = d /\ target[t] = e
      BY <3>1 DEF ProxyAt, Queued, Stands
    <3>3. \A e \in Event : ProxyAt(d, e) <=> e \in first[d]
      BY <2>0, <3>1, <3>2 DEF AllsQueued, InHands, Proxies
    <3>4. first[d] \in SUBSET Event
      BY <2>0 DEF Fields
    <3> QED BY <2>0, <3>1, <3>3, <3>4 DEF Proxies
  <2> QED BY <2>1 DEF ProxiesCounted
<1> QED BY <1>1, Invariance, PTL

(* Nobody waits beside a signal: a wait that finds the event signalled     *)
(* comes back at once.  With more than one reset() it is false: one before *)
(* the fetch_add(-1) of a try and one before its fetch_add(1) leave a      *)
(* signal that nobody gave, beside that waiter.                            *)
THEOREM NobodyWaits ==
  ASSUME MaxResets < 2
  PROVE  Spec => []NobodyWaitsBesideASignal
<1>1. ASSUME Inv PROVE NobodyWaitsBesideASignal
  <2>1. Seen /\ TypeOK
    BY <1>1 DEF Inv, Unseen
  <2>2. ASSUME NEW e \in Event, counter[e] > 0, NEW i \in 1..Len(waitq[e])
        PROVE  ~Live(waitq[e][i])
    <3>1. waitq[e] \in Seq(Coro)
      BY <2>1 DEF TypeOK
    <3>2. waitq[e][i] \in Coro /\ waitq[e][i] \in Queued[e]
      BY <3>1 DEF Queued, Stands
    <3> QED BY <2>1, <2>2, <3>2 DEF Seen
  <2> QED BY <2>2 DEF NobodyWaitsBesideASignal
<1> QED BY <1>1, Invariance, PTL
-----------------------------------------------------------------------------
(* Each step is one of CountingSignal, or changes nothing it speaks of.    *)
(* What the steps do to the order of the queues. *)
LEMMA JoinsOrder ==
  ASSUME TypeOK, NEW c \in Coro, NEW E \in SUBSET Event,
         waitq' = [e \in Event |-> IF e \in E THEN Append(waitq[e], c) ELSE waitq[e]]
  PROVE  \A e \in Event, x, y \in Coro :
           Before(waitq'[e], x, y)
             <=> Before(waitq[e], x, y) \/ (e \in E /\ x \in Queued[e] /\ y = c)
<1> SUFFICES ASSUME NEW e \in Event, NEW x \in Coro, NEW y \in Coro
             PROVE  Before(waitq'[e], x, y)
                      <=> Before(waitq[e], x, y) \/ (e \in E /\ x \in Queued[e] /\ y = c)
  OBVIOUS
<1>1. waitq[e] \in Seq(Coro) /\ (x \in Queued[e] <=> Stands(waitq[e], x))
  BY DEF TypeOK, Queued
<1>2. Before(Append(waitq[e], c), x, y) <=> Before(waitq[e], x, y) \/ (Stands(waitq[e], x) /\ y = c)
  BY <1>1, BeforeTheEnd
<1>3. waitq'[e] = IF e \in E THEN Append(waitq[e], c) ELSE waitq[e]
  OBVIOUS
<1> QED BY <1>1, <1>2, <1>3

LEMMA PopsOrder ==
  ASSUME TypeOK, Once, NEW e \in Event, waitq[e] # <<>>,
         waitq' = [waitq EXCEPT ![e] = Tail(@)]
  PROVE  /\ \A r \in Event, x, y \in Coro :
              Before(waitq[r], x, y)
                <=> Before(waitq'[r], x, y) \/ (r = e /\ x = Head(waitq[e]) /\ y \in Queued'[e])
         /\ \A x \in Coro : ~Before(waitq[e], x, Head(waitq[e]))
<1>1. /\ waitq[e] \in Seq(Coro) /\ Head(waitq[e]) \in Coro
      /\ \A r \in Event : waitq'[r] = IF r = e THEN Tail(waitq[e]) ELSE waitq[r]
  BY HeadTailProperties DEF TypeOK
<1>2. \A y \in Coro : y \in Queued'[e] <=> Stands(Tail(waitq[e]), y)
  BY <1>1 DEF Queued
<1>3. Single(waitq[e], Head(waitq[e]))
  BY <1>1 DEF Once
<1>4. \A x, y : /\ Before(waitq[e], x, y)
                     <=> \/ Before(Tail(waitq[e]), x, y)
                         \/ x = Head(waitq[e]) /\ Stands(Tail(waitq[e]), y)
                /\ ~Before(waitq[e], x, Head(waitq[e]))
  BY <1>1, <1>3, BeforeTheRest
<1> QED BY <1>1, <1>2, <1>4

LEMMA ErasesOrder ==
  ASSUME TypeOK, Once, NEW e \in Event, NEW c \in Coro,
         waitq' = [waitq EXCEPT ![e] = RemoveFirst(@, c)]
  PROVE  \A r \in Event, x, y \in Coro :
           x # c /\ y # c => (Before(waitq'[r], x, y) <=> Before(waitq[r], x, y))
<1>1. /\ waitq[e] \in Seq(Coro) /\ \A x \in Coro : Single(waitq[e], x)
      /\ \A r \in Event : waitq'[r] = IF r = e THEN RemoveFirst(waitq[e], c) ELSE waitq[r]
  BY DEF TypeOK, Once
<1>2. \A x, y \in Coro : x # c /\ y # c =>
        (Before(RemoveFirst(waitq[e], c), x, y) <=> Before(waitq[e], x, y))
  BY <1>1, BeforeErased
<1> QED BY <1>1, <1>2
-----------------------------------------------------------------------------
(* The seats and the order of Event in the words of these proofs. *)
LEMMA Seats ==
  ASSUME NEW e \in Event, NEW x \in Coro, NEW y \in Coro
  PROVE  /\ x \in InQueue(e) <=> x \in Queued[e]
         /\ Precedes(x, y, e) <=> (x \in InHand(e) /\ y \in Queued[e]) \/ Before(waitq[e], x, y)
         /\ InQueue(e) \subseteq Coro
         /\ x \in InQueue(e)' <=> x \in Queued'[e]
         /\ Precedes(x, y, e)' <=> (x \in InHand(e)' /\ y \in Queued'[e]) \/ Before(waitq'[e], x, y)
         /\ InQueue(e)' \subseteq Coro
  BY DEF InQueue, Queued, Stands, Precedes, Before

LEMMA Hands ==
  ASSUME Fields, Locks, NEW e \in Event
  PROVE  /\ InHand(e) \subseteq All /\ InHand(e) \subseteq Coro
         /\ \A t \in Thread : lock[e] = t => InHand(e) = {hand[t]} \ {NoOne}
         /\ lock[e] \notin Thread => InHand(e) = {}
<1>1. \A t \in Thread : hand[t] # NoOne => hand[t] \in All /\ lock[target[t]] = t
  BY DEF Fields, Locks
<1>2. \A t \in Thread : lock[e] = t => target[t] = e
  BY DEF Locks
<1> QED BY <1>1, <1>2, Names DEF InHand

LEMMA SameView ==
  ASSUME \A e \in Event : Waiters(e)' = Waiters(e),
         \A e \in Event : \A x, y \in Waiters(e) : Precedes(x, y, e)' <=> Precedes(x, y, e)
  PROVE  Waiting' = Waiting /\ Ahead' = Ahead
<1>1. ASSUME NEW e \in Event
      PROVE  {p \in Waiters(e)' \X Waiters(e)' : Precedes(p[1], p[2], e)'}
               = {p \in Waiters(e) \X Waiters(e) : Precedes(p[1], p[2], e)}
  BY <1>1
<1> QED BY <1>1 DEF Waiting, Ahead

(* c leaves the events E, or comes to them, and the others stay as they are. *)
Leaves(c, E) ==
  \A e \in Event :
    /\ Waiters(e)' = IF e \in E THEN Waiters(e) \ {c} ELSE Waiters(e)
    /\ \A x, y \in Waiters(e)' : Precedes(x, y, e)' <=> Precedes(x, y, e)

Enters(c, E) ==
  \A e \in Event :
    /\ c \notin Waiters(e)
    /\ Waiters(e)' = IF e \in E THEN Waiters(e) \union {c} ELSE Waiters(e)
    /\ \A x, y \in Waiters(e) : Precedes(x, y, e)' <=> Precedes(x, y, e)
    /\ e \in E => /\ \A x \in Waiters(e) : Precedes(x, c, e)' /\ ~Precedes(c, x, e)'
                  /\ ~Precedes(c, c, e)'

Entered(c, E) ==
  /\ Waiting' = [e \in Event |-> IF e \in E THEN Waiting[e] \union {c} ELSE Waiting[e]]
  /\ Ahead' = [e \in Event |->
                 IF e \in E THEN Ahead[e] \union (Waiting[e] \X {c}) ELSE Ahead[e]]

LEMMA OutView ==
  ASSUME NEW c, NEW E, Leaves(c, E)
  PROVE  Signals!Without(c, E)
<1> USE DEF Leaves
<1>1. ASSUME NEW e \in Event
      PROVE  {p \in Waiters(e)' \X Waiters(e)' : Precedes(p[1], p[2], e)'}
               = IF e \in E THEN {p \in Ahead[e] : c # p[1] /\ c # p[2]} ELSE Ahead[e]
  <2>1. Ahead[e] = {p \in Waiters(e) \X Waiters(e) : Precedes(p[1], p[2], e)}
    BY DEF Ahead
  <2> QED BY <1>1, <2>1
<1>2. Waiting' = [e \in Event |-> IF e \in E THEN Waiting[e] \ {c} ELSE Waiting[e]]
  BY DEF Waiting
<1>3. Ahead' = [e \in Event |->
                  IF e \in E THEN {p \in Ahead[e] : c # p[1] /\ c # p[2]} ELSE Ahead[e]]
  <2>1. Ahead' = [e \in Event |-> {p \in Waiters(e)' \X Waiters(e)' : Precedes(p[1], p[2], e)'}]
    BY DEF Ahead
  <2> QED BY <1>1, <2>1
<1> QED BY <1>2, <1>3 DEF Signals!Without

LEMMA InView ==
  ASSUME NEW c, NEW E, Enters(c, E)
  PROVE  Entered(c, E)
<1> USE DEF Enters
<1>1. ASSUME NEW e \in Event
      PROVE  {p \in Waiters(e)' \X Waiters(e)' : Precedes(p[1], p[2], e)'}
               = IF e \in E THEN Ahead[e] \union (Waiting[e] \X {c}) ELSE Ahead[e]
  <2>1. /\ Ahead[e] = {p \in Waiters(e) \X Waiters(e) : Precedes(p[1], p[2], e)}
        /\ Waiting[e] = Waiters(e)
    BY DEF Ahead, Waiting
  <2>2. CASE e \in E
    <3> DEFINE P == {p \in Waiters(e)' \X Waiters(e)' : Precedes(p[1], p[2], e)'}
               A == {p \in Waiters(e) \X Waiters(e) : Precedes(p[1], p[2], e)}
    <3>1. \A x, y : <<x, y>> \in P <=> <<x, y>> \in A \union (Waiters(e) \X {c})
      BY <2>2
    <3>2. P = A \union (Waiters(e) \X {c})
      BY <3>1
    <3> QED BY <2>1, <2>2, <3>2
  <2>3. CASE e \notin E
    BY <2>1, <2>3
  <2> QED BY <2>2, <2>3
<1>2. Waiting' = [e \in Event |-> IF e \in E THEN Waiting[e] \union {c} ELSE Waiting[e]]
  BY DEF Waiting
<1>3. Ahead' = [e \in Event |-> {p \in Waiters(e)' \X Waiters(e)' : Precedes(p[1], p[2], e)'}]
  BY DEF Ahead
<1> QED BY <1>1, <1>2, <1>3 DEF Entered
-----------------------------------------------------------------------------
(* A signal that a failed try has taken, and is to give back, is unused.   *)
Undoing(e) == \E c \in One : ev[c] = e /\ probe[c] = "undo"

LEMMA UnusedIs ==
  /\ \A e \in Event : Unused[e] = counter[e] + IF Undoing(e) THEN 1 ELSE 0
  /\ Unused = [e \in Event |-> Unused[e]]
  /\ \A e \in Event : Unused'[e] = counter'[e] + IF Undoing(e)' THEN 1 ELSE 0
  /\ Unused' = [e \in Event |-> Unused'[e]]
  BY DEF Unused, Undoing

LEMMA NobodyUndoes ==
  ASSUME Fields, Locks, Counts, NEW e \in Event, lock[e] \notin One
  PROVE  ~Undoing(e) /\ Unused[e] = counter[e] /\ counter[e] \in Nat
<1>1. ~Undoing(e)
  BY Alone DEF Undoing
<1>2. counter[e] \in Int /\ ~(counter[e] < 0)
  BY <1>1 DEF Fields, Counts, Undoing
<1> QED BY <1>1, <1>2, UnusedIs

LEMMA MyUndo ==
  ASSUME Fields, Locks, Counts, NEW c \in One, at[c] \in Inside
  PROVE  /\ ev[c] \in Event /\ (Undoing(ev[c]) <=> probe[c] = "undo")
         /\ Unused[ev[c]] = counter[ev[c]] + IF probe[c] = "undo" THEN 1 ELSE 0
         /\ counter[ev[c]] \in Int /\ (probe[c] # "undo" => counter[ev[c]] >= 0)
<1>1. ev[c] \in Event /\ lock[ev[c]] = c
  BY Alone
<1>2. Undoing(ev[c]) <=> probe[c] = "undo"
  BY <1>1, Alone DEF Undoing
<1>3. counter[ev[c]] \in Int /\ (~Undoing(ev[c]) => ~(counter[ev[c]] < 0))
  BY <1>1 DEF Fields, Counts, Undoing
<1> QED BY <1>1, <1>2, <1>3, UnusedIs

(* What a step leaves as it is. *)
LEMMA SameUnused ==
  ASSUME UNCHANGED counter, \A e \in Event : Undoing(e)' <=> Undoing(e)
  PROVE  Unused' = Unused
<1>1. \A e \in Event : Unused'[e] = Unused[e]
  BY UnusedIs
<1> QED BY <1>1, UnusedIs

LEMMA Untouched ==
  ASSUME Fields, UNCHANGED <<waitq, hand, target>>, \A x \in Coro : Live(x)' <=> Live(x)
  PROVE  Waiting' = Waiting /\ Ahead' = Ahead
<1>1. ASSUME NEW e \in Event
      PROVE  /\ InHand(e)' = InHand(e) /\ InQueue(e)' = InQueue(e)
             /\ InHand(e) \subseteq Coro /\ InQueue(e) \subseteq Coro
  <2>1. InHand(e)' = InHand(e) /\ InQueue(e)' = InQueue(e)
    BY DEF InHand, InQueue
  <2>2. InHand(e) \subseteq Coro /\ InQueue(e) \subseteq Coro
    BY Names DEF InHand, InQueue, Fields
  <2> QED BY <2>1, <2>2
<1>2. \A e \in Event : Waiters(e)' = Waiters(e)
  BY <1>1 DEF Waiters
<1>3. \A e \in Event, x, y \in Coro : Precedes(x, y, e)' <=> Precedes(x, y, e)
  BY <1>1 DEF Precedes
<1>4. \A e \in Event : Waiters(e) \subseteq Coro
  BY <1>1 DEF Waiters
<1> QED BY <1>2, <1>3, <1>4, SameView

LEMMA OtherAnswers ==
  ASSUME NEW c \in Coro, \A x \in Coro : x # c => at'[x] = at[x] /\ result'[x] = result[x]
  PROVE  /\ Answers' = [Answers EXCEPT ![c] = Answer(c)'] /\ Answers[c] = Answer(c)
         /\ Answer(c)' = Answer(c) => Answers' = Answers
<1>1. \A x \in Coro : x # c => Answer(x)' = Answer(x)
  BY DEF Answer
<1>2. Answers' = [x \in Coro |-> Answer(x)'] /\ Answers = [x \in Coro |-> Answer(x)]
  BY DEF Answers
<1> QED BY <1>1, <1>2

(* What a step has to be: one of the promise, or none of its business. *)
absVars == <<Unused, Waiting, Ahead, Answers, doing, target, resets>>
Promised == Signals!Next \/ UNCHANGED absVars

LEMMA Parts == Inv => /\ TypeOK /\ Fields /\ Locks /\ Counts /\ AsleepIffLive /\ Once
                      /\ OnesQueued /\ AllsQueued /\ InHands /\ Proxies
  BY FieldTypes DEF Inv, Queues

(* A wait begins. *)
LEMMA Asks ==
  ASSUME Inv, NEW c \in Coro, at[c] = "run", NEW w \in {"first", "locking"}, Goes(c, w),
         \A x \in One : x # c => ev'[x] = ev[x],
         UNCHANGED <<counter, waitq, probe, result, stateVars, threadVars, resets>>
  PROVE  Signals!Ask(c)
<1>0. Fields /\ Locks
  BY Parts
<1>1. at'[c] = w /\ \A x \in Coro : x # c => at'[x] = at[x] /\ result'[x] = result[x]
  BY <1>0 DEF Fields, Goes
<1>2. c \in One => probe[c] = "load"
  BY <1>0 DEF Locks, Inside
<1>3. \A e \in Event : Undoing(e)' <=> Undoing(e)
  BY <1>2 DEF Undoing
<1>4. Unused' = Unused
  BY <1>3, SameUnused
<1>5. Waiting' = Waiting /\ Ahead' = Ahead
  BY <1>0, Untouched DEF Live, stateVars, threadVars
<1>6. Answer(c) \in {"out", "passed"} /\ Answer(c)' = "asking"
  BY <1>1 DEF Answer
<1> QED BY <1>1, <1>4, <1>5, <1>6, OtherAnswers DEF Signals!Ask, threadVars

(* A step that changes none of what the promise speaks of. *)
LEMMA Idles ==
  ASSUME Inv, NEW c \in Coro, \A x \in Coro : x # c => at'[x] = at[x] /\ result'[x] = result[x],
         Answer(c)' = Answer(c), Unused' = Unused,
         \A x \in Coro : Live(x)' <=> Live(x),
         UNCHANGED <<waitq, threadVars, resets>>
  PROVE  UNCHANGED absVars
<1>1. Waiting' = Waiting /\ Ahead' = Ahead
  BY Parts, Untouched DEF threadVars
<1> QED BY <1>1, OtherAnswers DEF absVars, threadVars

LEMMA SecondTries == ASSUME Inv, NEW c \in One, SecondTry(c) PROVE UNCHANGED absVars
<1>0. c \in Coro /\ at \in [Coro -> Where]
  BY Parts, Names DEF Fields
<1>1. at'[c] = "second" /\ \A x \in Coro : x # c => at'[x] = at[x] /\ result'[x] = result[x]
  BY <1>0 DEF SecondTry, Goes
<1>2. Answer(c)' = Answer(c)
  BY <1>0, <1>1 DEF SecondTry, Answer
<1>3. Unused' = Unused
  BY SameUnused DEF SecondTry, Undoing
<1>4. \A x \in Coro : Live(x)' <=> Live(x)
  BY DEF Live, SecondTry, stateVars
<1> QED BY <1>0, <1>1, <1>2, <1>3, <1>4, Idles DEF SecondTry

(* A try that fails, when there is no signal. *)
LEMMA FailsFirst ==
  ASSUME Inv, NEW c \in One, at[c] = "first", Fail(c), Unused' = Unused,
         UNCHANGED <<left, result, threadVars, resets>>
  PROVE  UNCHANGED absVars
<1>0. c \in Coro /\ at \in [Coro -> Where]
  BY Parts, Names DEF Fields
<1>1. Goes(c, "between") /\ UNCHANGED <<waitq, armed>>
  BY DEF Fail
<1>2. at'[c] = "between" /\ \A x \in Coro : x # c => at'[x] = at[x] /\ result'[x] = result[x]
  BY <1>0, <1>1 DEF Goes
<1>3. Answer(c)' = Answer(c)
  BY <1>0, <1>2 DEF Answer
<1>4. \A x \in Coro : Live(x)' <=> Live(x)
  BY <1>1 DEF Live
<1> QED BY <1>0, <1>1, <1>2, <1>3, <1>4, Idles

LEMMA FailsSecond ==
  ASSUME Inv, NEW c \in One, NEW q \in Event, q = ev[c], at[c] = "second", Fail(c),
         Unused' = Unused, Unused[q] = 0,
         UNCHANGED <<left, result, threadVars, resets>>
  PROVE  Signals!Wait(c, {q})
<1>0. /\ TypeOK /\ Fields /\ Locks /\ OnesQueued /\ AsleepIffLive
      /\ c \in Coro /\ at \in [Coro -> Where] /\ armed \in [One -> BOOLEAN] /\ {q} \in SUBSET Event
  BY Parts, Names DEF Fields
<1>a. PICK E \in SUBSET Event : E = {q}
  BY <1>0
<1>1. /\ Goes(c, "asleep") /\ armed' = [armed EXCEPT ![c] = TRUE]
      /\ waitq' = [waitq EXCEPT ![q] = Append(@, c)]
  BY DEF Fail
<1>2. waitq' = [e \in Event |-> IF e \in E THEN Append(waitq[e], c) ELSE waitq[e]]
  BY <1>0, <1>a, <1>1 DEF TypeOK
<1>3. \A e \in Event : c \notin Queued[e] /\ InHand(e) \subseteq Coro /\ c \notin InHand(e)
  BY <1>0, Hands, Names DEF OnesQueued
<1>4. Once /\ \A e \in E : c \notin Queued[e]
  BY <1>0, <1>3, Parts
<1>5. \A e \in Event, x \in Coro : x \in Queued'[e] <=> x \in Queued[e] \/ (x = c /\ e = q)
  <2>1. Puts(c, E)
    BY <1>0, <1>2, <1>4, Joins
  <2> QED BY <1>a, <2>1 DEF Puts
<1>6. \A e \in Event, x, y \in Coro :
        Before(waitq'[e], x, y) <=> Before(waitq[e], x, y) \/ (e = q /\ x \in Queued[e] /\ y = c)
  <2>1. \A e \in Event, x, y \in Coro :
          Before(waitq'[e], x, y)
            <=> Before(waitq[e], x, y) \/ (e \in E /\ x \in Queued[e] /\ y = c)
    BY <1>0, <1>2, JoinsOrder
  <2> QED BY <1>a, <2>1
<1>7. \A e \in Event : InHand(e)' = InHand(e)
  BY DEF InHand, threadVars
<1>8. Live(c)' /\ \A x \in Coro : x # c => (Live(x)' <=> Live(x))
  BY <1>0, <1>1 DEF Live
<1>9. \A e \in Event, x \in Coro : Before(waitq[e], c, x) => c \in Queued[e]
  BY <1>0 DEF Before, Queued, Stands
<1>10. ASSUME NEW e \in Event
       PROVE  /\ Waiters(e) \subseteq Coro /\ c \notin Waiters(e)
              /\ Waiters(e)' = IF e \in E THEN Waiters(e) \union {c} ELSE Waiters(e)
  <2>1. \A x \in Coro : (x \in InQueue(e)' <=> x \in InQueue(e) \/ (x = c /\ e = q))
                        /\ (x \in InQueue(e) <=> x \in Queued[e])
    BY <1>5, Seats
  <2>2. InQueue(e) \subseteq Coro /\ InQueue(e)' \subseteq Coro
    BY DEF InQueue
  <2> QED BY <1>0, <1>a, <1>3, <1>7, <1>8, <2>1, <2>2 DEF Waiters
<1>11. ASSUME NEW e \in Event, NEW x \in Waiters(e), NEW y \in Waiters(e)
       PROVE  Precedes(x, y, e)' <=> Precedes(x, y, e)
  <2>1. x \in Coro /\ y \in Coro /\ x # c /\ y # c
    BY <1>10
  <2> QED BY <1>5, <1>6, <1>7, <2>1, Seats
<1>12. ASSUME NEW e \in E, NEW x \in Waiters(e)
       PROVE  Precedes(x, c, e)' /\ ~Precedes(c, x, e)'
  <2>1. x \in Coro /\ x # c /\ (x \in InHand(e) \/ x \in Queued[e]) /\ e = q /\ e \in Event
    <3>1. e = q /\ e \in Event
      BY <1>a
    <3> QED BY <1>10, <3>1, Seats DEF Waiters
  <2> QED BY <1>0, <1>3, <1>5, <1>6, <1>7, <1>9, <2>1, Seats
<1>13. \A e \in E : ~Precedes(c, c, e)'
  BY <1>0, <1>a, <1>3, <1>5, <1>6, <1>7, <1>9, Seats
<1>14. Entered(c, E)
  <2>1. Enters(c, E)
    BY <1>a, <1>10, <1>11, <1>12, <1>13 DEF Enters
  <2> QED BY <2>1, InView
<1>15. at'[c] = "asleep" /\ \A x \in Coro : x # c => at'[x] = at[x] /\ result'[x] = result[x]
  BY <1>0, <1>1 DEF Goes
<1>16. Answer(c) = "asking" /\ Answer(c)' = "waiting"
  BY <1>15 DEF Answer
<1>17. Answers[c] = "asking" /\ Answers' = [Answers EXCEPT ![c] = "waiting"]
  BY <1>0, <1>15, <1>16, OtherAnswers
<1>18. {e \in E : Unused[e] = 0} = E
  BY <1>a
<1>19. Unused' = [e \in Event |-> IF e \in E \ E THEN Unused[e] - 1 ELSE Unused[e]]
  BY UnusedIs
<1>20. Signals!Wait(c, E)
  BY <1>a, <1>14, <1>17, <1>18, <1>19 DEF Signals!Wait, Entered, threadVars
<1> QED BY <1>a, <1>20

(* A question is answered with a signal of each event, or with a wait.     *)
LEMMA Passes ==
  ASSUME NEW c \in Coro, NEW E \in (SUBSET Event) \ {{}}, Signals!Wait(c, E)
  PROVE  Promised
  BY DEF Promised, Signals!Next

LEMMA Fails ==
  ASSUME Inv, NEW c \in One, at[c] \in Inside, Fail(c), Unused' = Unused, Unused[ev[c]] = 0,
         UNCHANGED <<left, result, threadVars, resets>>
  PROVE  Promised
<1>1. CASE at[c] = "first"
  BY <1>1, FailsFirst DEF Promised
<1>2. CASE at[c] = "second"
  <2>0. c \in Coro /\ ev[c] \in Event
    BY Parts, Names DEF Fields
  <2>1. PICK q \in Event : q = ev[c]
    BY <2>0
  <2>2. Signals!Wait(c, {q})
    BY <1>2, <2>1, FailsSecond
  <2>3. PICK E \in (SUBSET Event) \ {{}} : E = {q}
    OBVIOUS
  <2>4. Signals!Wait(c, E)
    BY <2>2, <2>3
  <2> QED BY <2>0, <2>4, Passes
<1> QED BY <1>1, <1>2 DEF Inside

LEMMA TryLoads == ASSUME Inv, NEW c \in One, TryLoad(c) PROVE Promised
<1>0. Fields /\ Locks /\ Counts /\ c \in Coro /\ at[c] \in Inside
  BY Parts, Names DEF TryLoad, Trying, Inside
<1>1. CASE /\ counter[ev[c]] > 0 /\ probe' = [probe EXCEPT ![c] = "take"]
           /\ UNCHANGED <<waitq, armed, at, lock>>
  <2>1. \A x \in One : probe'[x] = "undo" <=> probe[x] = "undo"
    BY <1>0, <1>1, Names DEF Fields, TryLoad, Trying
  <2>2. Unused' = Unused
    BY <2>1, SameUnused DEF TryLoad, Undoing
  <2>3. Answer(c)' = Answer(c)
    BY <1>1 DEF Answer, TryLoad
  <2>4. \A x \in Coro : Live(x)' <=> Live(x)
    BY <1>1 DEF Live, TryLoad
  <2>5. UNCHANGED absVars
    BY <1>0, <1>1, <2>2, <2>3, <2>4, Idles DEF TryLoad
  <2> QED BY <2>5 DEF Promised
<1>2. CASE counter[ev[c]] <= 0 /\ Fail(c) /\ UNCHANGED probe
  <2>1. Unused' = Unused
    BY <1>2, SameUnused DEF TryLoad, Undoing
  <2>2. Unused[ev[c]] = 0
    BY <1>0, <1>2, MyUndo DEF TryLoad, Trying
  <2> QED BY <1>0, <1>2, <2>1, <2>2, Fails DEF TryLoad
<1> QED BY <1>1, <1>2 DEF TryLoad

LEMMA TryTakes == ASSUME Inv, NEW c \in One, TryTake(c) PROVE Promised
<1>0. /\ Fields /\ Locks /\ Counts /\ c \in Coro /\ at[c] \in Inside /\ probe[c] = "take"
      /\ at \in [Coro -> Where] /\ probe \in [Coro -> {"load", "take", "undo"}]
      /\ result \in [Coro -> BOOLEAN] /\ counter \in [Event -> -1..MaxCount]
  BY Parts, Names DEF TryTake, Trying, Inside, Fields
<1>1. PICK q \in Event : q = ev[c]
  BY <1>0, MyUndo
<1>2. /\ counter'[q] = counter[q] - 1 /\ \A e \in Event : e # q => counter'[e] = counter[e]
      /\ counter[q] \in Int /\ ~Undoing(q) /\ Unused[q] = counter[q]
      /\ UNCHANGED <<ev, waitq, stateVars, threadVars, resets>>
  BY <1>0, <1>1, MyUndo DEF TryTake
<1>3. \A x \in Coro : Live(x)' <=> Live(x)
  BY <1>2 DEF Live, stateVars
<1>4. \A x \in One : x # c => probe'[x] = probe[x]
  BY <1>0, Names DEF TryTake
<1>5. \A e \in Event : e # q => (Undoing(e)' <=> Undoing(e))
  BY <1>1, <1>2, <1>4 DEF Undoing
<1>6. Undoing(q)' <=> probe'[c] = "undo"
  BY <1>1, <1>2, <1>4 DEF Undoing
<1>7. CASE /\ counter[q] > 0
           /\ result' = [result EXCEPT ![c] = TRUE]
           /\ probe' = [probe EXCEPT ![c] = "load"]
           /\ Goes(c, "run")
  <2>1. Unused[q] > 0 /\ Unused'[q] = Unused[q] - 1
    BY <1>0, <1>2, <1>6, <1>7, UnusedIs
  <2>2. \A e \in Event : e # q => Unused'[e] = Unused[e]
    BY <1>2, <1>5, UnusedIs
  <2>3. {e \in {q} : Unused[e] = 0} = {}
    BY <2>1
  <2>4. Unused' = [e \in Event |-> IF e \in {q} \ {} THEN Unused[e] - 1 ELSE Unused[e]]
    BY <2>1, <2>2, UnusedIs
  <2>5. Waiting' = Waiting /\ Ahead' = Ahead
    BY <1>0, <1>2, <1>3, Untouched DEF threadVars
  <2>6. /\ Waiting = [e \in Event |-> IF e \in {} THEN Waiting[e] \union {c} ELSE Waiting[e]]
        /\ Ahead = [e \in Event |->
                      IF e \in {} THEN Ahead[e] \union (Waiting[e] \X {c}) ELSE Ahead[e]]
    BY DEF Waiting, Ahead
  <2>7. /\ at'[c] = "run" /\ result'[c] = TRUE
        /\ \A x \in Coro : x # c => at'[x] = at[x] /\ result'[x] = result[x]
    BY <1>0, <1>7 DEF Goes
  <2>8. Answer(c) = "asking" /\ Answer(c)' = "passed"
    BY <1>0, <2>7 DEF Answer, Inside
  <2>9. Answers[c] = "asking" /\ Answers' = [Answers EXCEPT ![c] = "passed"]
    BY <1>0, <2>7, <2>8, OtherAnswers
  <2>10. Signals!Wait(c, {q})
    BY <1>2, <2>3, <2>4, <2>5, <2>6, <2>9 DEF Signals!Wait, threadVars
  <2>11. PICK E \in (SUBSET Event) \ {{}} : E = {q}
    OBVIOUS
  <2>12. Signals!Wait(c, E)
    BY <2>10, <2>11
  <2> QED BY <1>0, <2>12, Passes
<1>8. CASE /\ counter[q] <= 0 /\ probe' = [probe EXCEPT ![c] = "undo"]
           /\ UNCHANGED <<result, at, lock>>
  <2>1. \A e \in Event : Unused'[e] = Unused[e]
    BY <1>0, <1>2, <1>5, <1>6, <1>8, UnusedIs
  <2>2. Unused' = Unused
    BY <2>1, UnusedIs
  <2>3. Answer(c)' = Answer(c)
    BY <1>8 DEF Answer
  <2>4. UNCHANGED absVars
    BY <1>0, <1>2, <1>3, <1>8, <2>2, <2>3, Idles
  <2> QED BY <2>4 DEF Promised
<1> QED BY <1>1, <1>7, <1>8 DEF TryTake

LEMMA TryUndos == ASSUME MaxResets < 2, Inv, NEW c \in One, TryUndo(c) PROVE Promised
<1>0. /\ Fields /\ Locks /\ Counts /\ c \in Coro /\ at[c] \in Inside /\ probe[c] = "undo"
      /\ probe \in [Coro -> {"load", "take", "undo"}] /\ counter \in [Event -> -1..MaxCount]
      /\ counter[ev[c]] = -1
  BY Parts, Names DEF TryUndo, Trying, Inside, Fields, Inv, Unseen, Tries
<1>1. PICK q \in Event : q = ev[c]
  BY <1>0, MyUndo
<1>2. /\ counter'[q] = counter[q] + 1 /\ \A e \in Event : e # q => counter'[e] = counter[e]
      /\ Undoing(q) /\ Unused[q] = 0 /\ ev' = ev
  BY <1>0, <1>1, MyUndo DEF TryUndo
<1>3. probe'[c] = "load" /\ \A x \in One : x # c => probe'[x] = probe[x]
  BY <1>0, Names DEF TryUndo
<1>4. \A e \in Event : e # q => (Undoing(e)' <=> Undoing(e))
  BY <1>1, <1>2, <1>3 DEF Undoing
<1>5. ~Undoing(q)'
  <2>1. \A x \in One : probe[x] = "undo" /\ ev[x] = q => x = c
    BY <1>0, <1>1, Alone
  <2> QED BY <1>2, <1>3, <2>1 DEF Undoing
<1>6. \A e \in Event : Unused'[e] = Unused[e]
  BY <1>0, <1>1, <1>2, <1>4, <1>5, UnusedIs
<1>7. Unused' = Unused
  BY <1>6, UnusedIs
<1> QED BY <1>0, <1>1, <1>2, <1>7, Fails DEF TryUndo

(* Whoever goes about the locks has no answer yet. *)
LEMMA Locksmiths ==
  ASSUME Inv, NEW d \in All, LockHard(d) \/ TryLock(d)
  PROVE  UNCHANGED absVars
<1>0. /\ d \in Coro /\ at \in [Coro -> Where] /\ d \notin One /\ One \subseteq Coro
      /\ ev \in [Coro -> Event]
  BY Parts, Names DEF Fields
<1>1. /\ \A x \in Coro : x # d => at'[x] = at[x] /\ ev'[x] = ev[x]
      /\ at[d] \in {"locking", "trying"} /\ at'[d] \in {"locking", "trying"}
      /\ UNCHANGED <<counter, waitq, probe, result, stateVars, threadVars, resets>>
  <2>1. CASE LockHard(d)
    BY <1>0, <2>1 DEF LockHard, Goes
  <2>2. CASE TryLock(d)
    <3>1. /\ at[d] = "trying"
          /\ UNCHANGED <<counter, waitq, probe, result, stateVars, threadVars, resets>>
          /\ \/ UNCHANGED <<at, ev>>
             \/ \E e : ev' = [ev EXCEPT ![d] = e] /\ Goes(d, "locking")
      BY <2>2 DEF TryLock
    <3> QED BY <1>0, <3>1 DEF Goes
  <2> QED BY <2>1, <2>2
<1>2. Unused' = Unused
  BY <1>0, <1>1, SameUnused DEF Undoing
<1>3. \A x \in Coro : Live(x)' <=> Live(x)
  BY <1>1 DEF Live, stateVars
<1>4. Answer(d)' = Answer(d)
  BY <1>1 DEF Answer
<1>5. \A x \in Coro : x # d => at'[x] = at[x] /\ result'[x] = result[x]
  BY <1>1
<1> QED BY <1>0, <1>1, <1>2, <1>3, <1>4, <1>5, Idles

-----------------------------------------------------------------------------
LEMMA PartsAfter == Inv' => /\ TypeOK' /\ Fields' /\ Locks' /\ Counts' /\ AsleepIffLive' /\ Once'
                            /\ OnesQueued' /\ AllsQueued' /\ InHands' /\ Proxies'
  BY DEF Inv, Queues, TypeOK, Fields

(* Who waits, and that these are coroutines. *)
LEMMA Views ==
  ASSUME Inv, Inv', NEW e \in Event
  PROVE  /\ InHand(e) \subseteq Coro /\ InHand(e)' \subseteq Coro
         /\ Waiters(e) \subseteq Coro /\ Waiters(e)' \subseteq Coro
         /\ \A x \in Coro :
              /\ x \in Waiters(e) <=> (x \in InHand(e) \/ x \in Queued[e]) /\ Live(x)
              /\ x \in Waiters(e)' <=> (x \in InHand(e)' \/ x \in Queued'[e]) /\ Live(x)'
<1>1. hand \in [Thread -> All \union {NoOne}] /\ hand' \in [Thread -> All \union {NoOne}]
  BY Parts, PartsAfter DEF Fields
<1>2. InHand(e) \subseteq Coro /\ InHand(e)' \subseteq Coro
  BY <1>1, Names DEF InHand
<1>3. InQueue(e) \subseteq Coro /\ InQueue(e)' \subseteq Coro
  BY DEF InQueue
<1> QED BY <1>2, <1>3, Seats DEF Waiters

(* A step after which c waits no longer at the events E. *)
LEMMA Leaving ==
  ASSUME Inv, Inv', NEW c \in Coro, NEW E,
         \A e \in Event, x \in Coro :
           (x \in InHand(e)' \/ x \in Queued'[e]) /\ Live(x)'
             <=> (x \in InHand(e) \/ x \in Queued[e]) /\ Live(x) /\ ~(x = c /\ e \in E),
         \A e \in Event, x, y \in Coro :
           x \in Waiters(e)' /\ y \in Waiters(e)' => (Precedes(x, y, e)' <=> Precedes(x, y, e))
  PROVE  Leaves(c, E)
<1>1. ASSUME NEW e \in Event
      PROVE  /\ Waiters(e)' = IF e \in E THEN Waiters(e) \ {c} ELSE Waiters(e)
             /\ Waiters(e)' \subseteq Coro
  BY Views
<1>2. \A e \in Event : \A x, y \in Waiters(e)' : Precedes(x, y, e)' <=> Precedes(x, y, e)
  BY <1>1
<1> QED BY <1>1, <1>2 DEF Leaves

LEMMA Staying ==
  ASSUME Inv, Inv',
         \A e \in Event, x \in Coro :
           (x \in InHand(e)' \/ x \in Queued'[e]) /\ Live(x)'
             <=> (x \in InHand(e) \/ x \in Queued[e]) /\ Live(x),
         \A e \in Event, x, y \in Coro :
           x \in Waiters(e) /\ y \in Waiters(e) => (Precedes(x, y, e)' <=> Precedes(x, y, e))
  PROVE  Waiting' = Waiting /\ Ahead' = Ahead
<1>1. \A e \in Event : Waiters(e)' = Waiters(e) /\ Waiters(e) \subseteq Coro
  BY Views
<1> QED BY <1>1, SameView

(* The timeout is first. *)
LEMMA OneGivesUp == ASSUME Inv, Inv', NEW c \in One, Expire(c) PROVE Promised
<1>0. /\ c \in Coro /\ at \in [Coro -> Where] /\ armed \in [One -> BOOLEAN] /\ AsleepIffLive
  BY Parts, Names DEF Fields
<1>1. /\ at[c] = "asleep" /\ at'[c] = "expired" /\ result' = result
      /\ \A x \in Coro : x # c => at'[x] = at[x] /\ result'[x] = result[x]
      /\ \A x \in Coro : Live(x)' <=> Live(x) /\ x # c
  BY <1>0 DEF Expire, Goes, AsleepIffLive, Live
<1>2. /\ UNCHANGED <<waitq, hand, counter, probe, ev, doing, target, resets>>
  BY DEF Expire, eventVars, threadVars
<1>3. \A e \in Event : InHand(e)' = InHand(e) /\ Queued'[e] = Queued[e]
  BY <1>2 DEF InHand, Queued
<1>4. \A e \in Event, x, y \in Coro : Precedes(x, y, e)' <=> Precedes(x, y, e)
  BY <1>2, <1>3, Seats
<1>5. PICK E : E = Event
  OBVIOUS
<1>6. Leaves(c, E)
  BY <1>0, <1>1, <1>3, <1>4, <1>5, Leaving
<1>7. Signals!Without(c, E)
  BY <1>6, OutView
<1>8. Answer(c) = "waiting" /\ Answer(c)' = "out"
  BY <1>1 DEF Answer
<1>9. Answers[c] = "waiting" /\ Answers' = [Answers EXCEPT ![c] = "out"]
  BY <1>0, <1>1, <1>8, OtherAnswers
<1>10. Unused' = Unused
  BY <1>2, SameUnused DEF Undoing
<1>11. Signals!GiveUp(c)
  BY <1>2, <1>5, <1>7, <1>9, <1>10 DEF Signals!GiveUp
<1> QED BY <1>0, <1>11 DEF Promised, Signals!Next

LEMMA AllGivesUp == ASSUME Inv, Inv', NEW c \in All, ExpireAll(c) PROVE Promised
<1>0. /\ c \in Coro /\ c \notin One /\ at \in [Coro -> Where] /\ left \in [All -> 0..N]
      /\ result \in [Coro -> BOOLEAN] /\ AsleepIffLive /\ All \subseteq Coro
      /\ \A x \in Coro : x \notin One => x \in All
  BY Parts, Names DEF Fields
<1>1. /\ at[c] = "asleep" /\ at'[c] = "expired"
      /\ \A x \in Coro : x # c => at'[x] = at[x] /\ result'[x] = result[x]
      /\ \A x \in Coro : Live(x)' <=> Live(x) /\ x # c
  BY <1>0 DEF ExpireAll, Goes, AsleepIffLive, Live
<1>2. /\ UNCHANGED <<waitq, hand, counter, probe, ev, doing, target, resets>>
  BY DEF ExpireAll, eventVars, threadVars
<1>3. \A e \in Event : InHand(e)' = InHand(e) /\ Queued'[e] = Queued[e]
  BY <1>2 DEF InHand, Queued
<1>4. \A e \in Event, x, y \in Coro : Precedes(x, y, e)' <=> Precedes(x, y, e)
  BY <1>2, <1>3, Seats
<1>5. PICK E : E = Event
  OBVIOUS
<1>6. Leaves(c, E)
  BY <1>0, <1>1, <1>3, <1>4, <1>5, Leaving
<1>7. Signals!Without(c, E)
  BY <1>6, OutView
<1>8. Answer(c) = "waiting" /\ Answer(c)' = "out"
  BY <1>1 DEF Answer
<1>9. Answers[c] = "waiting" /\ Answers' = [Answers EXCEPT ![c] = "out"]
  BY <1>0, <1>1, <1>8, OtherAnswers
<1>10. Unused' = Unused
  BY <1>2, SameUnused DEF Undoing
<1>11. Signals!GiveUp(c)
  BY <1>2, <1>5, <1>7, <1>9, <1>10 DEF Signals!GiveUp
<1> QED BY <1>0, <1>11 DEF Promised, Signals!Next

(* A call begins, and ends when nobody waits. *)
LEMMA Begins ==
  ASSUME Inv, Inv', NEW t \in Thread, NEW e \in Event, NEW how \in {"signal", "signal_all"},
         SignalBegin(t, e, how)
  PROVE  Promised
<1>0. Fields /\ Locks /\ hand[t] = NoOne
  BY Parts DEF Locks, SignalBegin
<1>1. \A r \in Event : InHand(r)' = InHand(r)
  <2>1. \A u \in Thread : u # t => target'[u] = target[u]
    BY <1>0 DEF SignalBegin, Fields
  <2>2. hand' = hand
    BY DEF SignalBegin
  <2> QED BY <1>0, <2>1, <2>2 DEF InHand
<1>2. UNCHANGED <<waitq, counter, at, probe, ev, result, armed, left, resets>>
  BY DEF SignalBegin, coroVars, stateVars
<1>3. \A r \in Event : Queued'[r] = Queued[r]
  BY <1>2 DEF Queued
<1>4. \A r \in Event, x, y \in Coro : Precedes(x, y, r)' <=> Precedes(x, y, r)
  BY <1>1, <1>2, <1>3, Seats
<1>5. \A x \in Coro : Live(x)' <=> Live(x)
  BY <1>2 DEF Live
<1>6. Waiting' = Waiting /\ Ahead' = Ahead
  BY <1>1, <1>3, <1>4, <1>5, Staying
<1>7. Unused' = Unused
  BY <1>2, SameUnused DEF Undoing
<1>8. Answers' = Answers
  BY <1>2 DEF Answers, Answer
<1>9. Signals!Call(t, e, how)
  BY <1>2, <1>6, <1>7, <1>8 DEF Signals!Call, SignalBegin
<1> QED BY <1>9 DEF Promised, Signals!Next

LEMMA Ends == ASSUME Inv, Inv', NEW t \in Thread, SignalEnd(t) PROVE Promised
<1>0. /\ Fields /\ Locks /\ doing[t] # "idle" /\ hand[t] = NoOne
      /\ doing \in [Thread -> {"idle", "signal", "signal_all"}]
  BY Parts DEF SignalEnd, Fields
<1>1. PICK e \in Event : e = target[t]
  BY <1>0 DEF Fields
<1>2. lock[e] = t /\ waitq[e] = <<>>
  BY <1>0, <1>1 DEF Locks, SignalEnd
<1>3. Waiters(e) = {}
  <2>1. InHand(e) = {}
    BY <1>0, <1>1, <1>2, Hands
  <2>2. InQueue(e) = {}
    BY <1>2 DEF InQueue
  <2> QED BY <2>1, <2>2 DEF Waiters
<1>4. /\ UNCHANGED <<waitq, at, probe, ev, result, armed, left, hand, target, resets>>
      /\ doing' = [doing EXCEPT ![t] = "idle"]
      /\ \/ doing[t] = "signal" /\ counter' = [counter EXCEPT ![e] = @ + 1]
         \/ doing[t] = "signal_all" /\ UNCHANGED counter
  BY <1>1 DEF SignalEnd, coroVars, stateVars
<1>5. \A x \in Coro : Live(x)' <=> Live(x)
  BY <1>4 DEF Live
<1>6. Waiting' = Waiting /\ Ahead' = Ahead
  BY <1>0, <1>4, <1>5, Untouched
<1>7. Answers' = Answers
  BY <1>4 DEF Answers, Answer
<1>8. \A r \in Event : Undoing(r)' <=> Undoing(r)
  BY <1>4 DEF Undoing
<1>9. Unused' = [Unused EXCEPT ![e] = IF doing[t] = "signal" THEN @ + 1 ELSE @]
  <2>1. \A r \in Event : counter[r] \in Int
    BY <1>0 DEF Fields
  <2>2. CASE doing[t] = "signal" /\ counter' = [counter EXCEPT ![e] = @ + 1]
    <3>1. counter'[e] = counter[e] + 1 /\ \A r \in Event : r # e => counter'[r] = counter[r]
      BY <1>0, <2>2 DEF Fields
    <3>2. Unused'[e] = Unused[e] + 1
      BY <1>8, <2>1, <3>1, UnusedIs
    <3>3. \A r \in Event : r # e => Unused'[r] = Unused[r]
      BY <1>8, <3>1, UnusedIs
    <3> QED BY <2>2, <3>2, <3>3, UnusedIs
  <2>3. CASE doing[t] = "signal_all" /\ UNCHANGED counter
    <3>1. Unused' = Unused
      BY <1>8, <2>3, SameUnused
    <3> QED BY <2>3, <3>1, UnusedIs
  <2> QED BY <1>4, <2>2, <2>3
<1>10. Waiting[e] = {}
  BY <1>3 DEF Waiting
<1>11. Signals!Return(t)
  BY <1>0, <1>1, <1>4, <1>6, <1>7, <1>9, <1>10 DEF Signals!Return
<1> QED BY <1>11 DEF Promised, Signals!Next

(* The only reset() meets no try that has still to give back. *)
LEMMA Resets == ASSUME MaxResets < 2, Inv, NEW e \in Event, Reset(e) PROVE Promised
<1>0. Fields /\ Tries /\ resets = 0 /\ MaxResets \in Nat
  <2>1. MaxResets \in Nat /\ resets \in 0..MaxResets /\ resets < MaxResets
    BY Parts, CountsAssumption DEF Reset, Fields
  <2> QED BY <2>1, Parts DEF Inv, Unseen
<1>1. UNCHANGED <<waitq, at, probe, ev, result, armed, left, doing, hand, target>>
  BY DEF Reset, coroVars, stateVars, threadVars
<1>2. \A r \in Event : ~Undoing(r) /\ ~Undoing(r)'
  <2>1. \A c \in One : probe[c] # "undo"
    BY <1>0 DEF Tries
  <2> QED BY <1>1, <2>1 DEF Undoing
<1>3. \A x \in Coro : Live(x)' <=> Live(x)
  BY <1>1 DEF Live
<1>4. Waiting' = Waiting /\ Ahead' = Ahead
  BY <1>0, <1>1, <1>3, Untouched
<1>5. Answers' = Answers
  BY <1>1 DEF Answers, Answer
<1>6. Unused' = [Unused EXCEPT ![e] = 0]
  <2>1. \A r \in Event : counter'[r] = IF r = e THEN 0 ELSE counter[r]
    BY <1>0 DEF Fields, Reset
  <2>2. \A r \in Event : counter[r] \in Int
    BY <1>0 DEF Fields
  <2>3. \A r \in Event : Unused'[r] = IF r = e THEN 0 ELSE Unused[r]
    BY <1>2, <2>1, <2>2, UnusedIs
  <2> QED BY <2>3, UnusedIs
<1>7. Signals!Reset(e)
  BY <1>1, <1>4, <1>5, <1>6 DEF Signals!Reset, Reset
<1> QED BY <1>7 DEF Promised, Signals!Next

-----------------------------------------------------------------------------
(* Whoever is in its timeout has not passed. *)
Told == \A d \in All : at[d] = "expired" => ~result[d]

LEMMA InitTold == Init => Told
  BY Names DEF Init, Told

LEMMA NextTold == Inv /\ Told /\ [Next]_vars => Told'
<1> SUFFICES ASSUME Inv, Told, [Next]_vars PROVE Told'
  OBVIOUS
<1>0. /\ at \in [Coro -> Where] /\ result \in [Coro -> BOOLEAN] /\ All \subseteq Coro
      /\ One \subseteq Coro /\ \A x \in Coro : x \in One <=> x \notin All
      /\ hand \in [Thread -> All \union {NoOne}]
  BY Parts, Names DEF Fields
<1>1. ASSUME \A d \in All : at'[d] = at[d] /\ result'[d] = result[d]
      PROVE  Told'
  BY <1>1 DEF Told
<1>2. ASSUME NEW d \in All, at'[d] # "expired" \/ ~result'[d],
             \A x \in All : x # d => at'[x] = at[x] /\ result'[x] = result[x]
      PROVE  Told'
  BY <1>2 DEF Told
<1>3. ASSUME NEW c \in One, OneStep(c) \/ Expire(c) \/ \E e \in Event : Wait(c, e)
      PROVE  Told'
  <2>1. \A d \in All : at'[d] = at[d] /\ result'[d] = result[d]
    BY <1>0, <1>3 DEF OneStep, Wait, SecondTry, TryLoad, TryTake, TryUndo, Fail, Goes, Expire,
       ExpireEnd, Resume
  <2> QED BY <1>1, <2>1
<1>4. ASSUME NEW d \in All, AllStep(d) \/ ExpireAll(d) \/ WaitAll(d)
      PROVE  Told'
  <2>1. \A x \in All : x # d => at'[x] = at[x] /\ result'[x] = result[x]
    <3>1. \/ \E w : at' = [at EXCEPT ![d] = w]
          \/ at' = at
      BY <1>4 DEF AllStep, WaitAll, LockHard, TryLock, AwaitAll, ExpireAll, ExpireAllRemove,
         ExpireAllEnd, Resume, Goes, coroVars
    <3>2. \/ \E w : result' = [result EXCEPT ![d] = w]
          \/ result' = result
      BY <1>4 DEF AllStep, WaitAll, LockHard, TryLock, AwaitAll, ExpireAll, ExpireAllRemove,
         ExpireAllEnd, Resume, coroVars
    <3> QED BY <1>0, <3>1, <3>2
  <2>2. CASE ExpireAllRemove(d)
    BY <2>2, <1>1 DEF ExpireAllRemove, coroVars
  <2>3. CASE ExpireAll(d)
    BY <1>0, <1>2, <2>1, <2>3 DEF ExpireAll
  <2>4. CASE TryLock(d)
    <3>1. at'[d] # "expired"
      BY <1>0, <2>4 DEF TryLock, Goes
    <3> QED BY <1>2, <2>1, <3>1
  <2>5. CASE WaitAll(d) \/ LockHard(d) \/ AwaitAll(d) \/ ExpireAllEnd(d) \/ Resume(d)
    <3>1. at'[d] # "expired"
      BY <1>0, <2>5 DEF WaitAll, LockHard, AwaitAll, ExpireAllEnd, Resume, Goes
    <3> QED BY <1>2, <2>1, <3>1
  <2> QED BY <1>4, <2>2, <2>3, <2>4, <2>5 DEF AllStep
<1>5. ASSUME NEW t \in Thread,
             \/ SignalStep(t)
             \/ \E e \in Event, how \in {"signal", "signal_all"} : SignalBegin(t, e, how)
      PROVE  Told'
  <2>1. CASE PopOne(t)
    <3>1. PICK c \in One : \/ at' = at /\ result' = result
                           \/ Goes(c, "ready") /\ result' = [result EXCEPT ![c] = TRUE]
      BY <2>1 DEF PopOne
    <3>2. \A d \in All : at'[d] = at[d] /\ result'[d] = result[d]
      BY <1>0, <3>1 DEF Goes
    <3> QED BY <1>1, <3>2
  <2>2. CASE NotifyAll(t)
    <3>1. hand[t] \in All
      BY <1>0, <2>2 DEF NotifyAll
    <3>2. \/ at' = at /\ result' = result
          \/ Goes(hand[t], "ready") /\ result' = [result EXCEPT ![hand[t]] = TRUE]
      BY <2>2 DEF NotifyAll
    <3> QED BY <1>0, <1>1, <1>2, <3>1, <3>2 DEF Goes
  <2>3. CASE \/ PopAll(t) \/ SignalEnd(t)
             \/ \E e \in Event, how \in {"signal", "signal_all"} : SignalBegin(t, e, how)
    <3>1. at' = at /\ result' = result
      BY <2>3 DEF PopAll, SignalEnd, SignalBegin, coroVars
    <3> QED BY <1>1, <3>1
  <2> QED BY <1>5, <2>1, <2>2, <2>3 DEF SignalStep
<1>6. ASSUME NEW e \in Event, Reset(e) PROVE Told'
  BY <1>1, <1>6 DEF Reset, coroVars
<1>7. CASE UNCHANGED vars
  BY <1>1, <1>7 DEF vars, coroVars
<1> QED BY <1>3, <1>4, <1>5, <1>6, <1>7 DEF Next

LEMMA Resumes == ASSUME Inv, NEW c \in Coro, Resume(c) PROVE UNCHANGED absVars
<1>0. at \in [Coro -> Where]
  BY Parts DEF Fields
<1>1. /\ at[c] = "ready" /\ at'[c] = "run" /\ result' = result
      /\ \A x \in Coro : x # c => at'[x] = at[x] /\ result'[x] = result[x]
      /\ UNCHANGED <<counter, waitq, probe, ev, armed, left, threadVars, resets>>
  BY <1>0 DEF Resume, Goes, eventVars, stateVars
<1>2. Unused' = Unused
  BY <1>1, SameUnused DEF Undoing
<1>3. \A x \in Coro : Live(x)' <=> Live(x)
  BY <1>1 DEF Live
<1>4. Answer(c)' = Answer(c)
  BY <1>1 DEF Answer
<1> QED BY <1>1, <1>2, <1>3, <1>4, Idles

LEMMA Returns == ASSUME Inv, Told, NEW d \in All, ExpireAllEnd(d) PROVE UNCHANGED absVars
<1>0. at \in [Coro -> Where] /\ d \in Coro
  BY Parts, Names DEF Fields
<1>1. /\ at[d] = "expired" /\ at'[d] = "ready" /\ result' = result /\ ~result[d]
      /\ \A x \in Coro : x # d => at'[x] = at[x] /\ result'[x] = result[x]
      /\ UNCHANGED <<counter, waitq, probe, ev, armed, left, threadVars, resets>>
  BY <1>0 DEF ExpireAllEnd, Goes, eventVars, Told
<1>2. Unused' = Unused
  BY <1>1, SameUnused DEF Undoing
<1>3. \A x \in Coro : Live(x)' <=> Live(x)
  BY <1>1 DEF Live
<1>4. Answer(d)' = Answer(d)
  BY <1>1 DEF Answer
<1> QED BY <1>0, <1>1, <1>2, <1>3, <1>4, Idles

(* Whoever is erased from a queue by its timeout did not wait any longer. *)
LEMMA Erasing ==
  ASSUME Inv, Inv', NEW c \in Coro, at[c] = "expired", NEW e \in Event,
         waitq' = [waitq EXCEPT ![e] = RemoveFirst(@, c)],
         \A x \in Coro : x # c => at'[x] = at[x] /\ result'[x] = result[x],
         Answer(c)' = Answer(c),
         UNCHANGED <<counter, probe, ev, armed, left, threadVars, resets>>
  PROVE  UNCHANGED absVars
<1>0. TypeOK /\ Once /\ ~Live(c)
  BY Parts DEF AsleepIffLive
<1>1. \A x \in Coro : Live(x)' <=> Live(x)
  BY DEF Live
<1>2. \A r \in Event : InHand(r)' = InHand(r)
  BY DEF InHand, threadVars
<1>3. \A r \in Event, x \in Coro : x # c => (x \in Queued'[r] <=> x \in Queued[r])
  <2>1. Takes(c, {e})
    BY <1>0, Erases
  <2> QED BY <2>1 DEF Takes
<1>4. \A r \in Event, x, y \in Coro :
        x # c /\ y # c => (Before(waitq'[r], x, y) <=> Before(waitq[r], x, y))
  BY <1>0, ErasesOrder
<1>5. \A r \in Event : c \notin Waiters(r)
  BY <1>0 DEF Waiters
<1>6. \A r \in Event, x, y \in Coro :
        x \in Waiters(r) /\ y \in Waiters(r) => (Precedes(x, y, r)' <=> Precedes(x, y, r))
  <2>1. \A r \in Event, x, y \in Coro :
          x # c /\ y # c => (Precedes(x, y, r)' <=> Precedes(x, y, r))
    BY <1>2, <1>3, <1>4, Seats
  <2> QED BY <1>5, <2>1
<1>7. Waiting' = Waiting /\ Ahead' = Ahead
  BY <1>0, <1>1, <1>2, <1>3, <1>6, Staying
<1>8. Unused' = Unused
  BY SameUnused DEF Undoing
<1> QED BY <1>7, <1>8, OtherAnswers DEF absVars, threadVars

LEMMA OneErased == ASSUME Inv, Inv', NEW c \in One, ExpireEnd(c) PROVE UNCHANGED absVars
<1>0. at \in [Coro -> Where] /\ c \in Coro /\ result \in [Coro -> BOOLEAN] /\ ev[c] \in Event
  BY Parts, Names DEF Fields
<1>1. PICK e \in Event : e = ev[c]
  BY <1>0
<1>2. /\ at[c] = "expired" /\ at'[c] = "ready" /\ result'[c] = FALSE
      /\ \A x \in Coro : x # c => at'[x] = at[x] /\ result'[x] = result[x]
      /\ waitq' = [waitq EXCEPT ![e] = RemoveFirst(@, c)]
      /\ UNCHANGED <<counter, probe, ev, armed, left, threadVars, resets>>
  BY <1>0, <1>1 DEF ExpireEnd, Goes, stateVars
<1>3. Answer(c)' = Answer(c)
  BY <1>2 DEF Answer
<1> QED BY <1>0, <1>2, <1>3, Erasing

LEMMA AllErased == ASSUME Inv, Inv', NEW d \in All, ExpireAllRemove(d) PROVE UNCHANGED absVars
<1>0. first[d] \in SUBSET Event /\ d \in Coro
  BY Parts, Names DEF Fields
<1>1. PICK e \in Event : e = Min(first[d])
  BY <1>0, Smallests, CountsAssumption DEF ExpireAllRemove
<1>2. /\ at[d] = "expired"
      /\ waitq' = [waitq EXCEPT ![e] = RemoveFirst(@, d)]
      /\ UNCHANGED <<counter, at, result, probe, ev, armed, left, threadVars, resets>>
  BY <1>1 DEF ExpireAllRemove, coroVars
<1>3. Answer(d)' = Answer(d)
  BY <1>2 DEF Answer
<1> QED BY <1>0, <1>2, <1>3, Erasing

-----------------------------------------------------------------------------
(* Under all the locks nobody tries, and no thread has a waiter in hand.   *)
LEMMA AwaitsAll == ASSUME Inv, Inv', NEW d \in All, AwaitAll(d) PROVE Promised
<1>0. /\ TypeOK /\ Fields /\ Locks /\ Counts /\ AllsQueued /\ Once /\ Once'
      /\ d \in Coro /\ d \notin One /\ d \notin Thread /\ at[d] = "trying"
      /\ at \in [Coro -> Where] /\ result \in [Coro -> BOOLEAN] /\ left \in [All -> 0..N]
      /\ counter \in [Event -> -1..MaxCount]
      /\ \A x \in Coro : x \notin One => x \in All
  BY Parts, PartsAfter, Names DEF Fields, AwaitAll
<1>1. \A e \in Event : lock[e] = d
  BY DEF AwaitAll, NotHeld
<1>2. \A e \in Event : ~Undoing(e) /\ Unused[e] = counter[e] /\ counter[e] \in Nat
  BY <1>0, <1>1, NobodyUndoes
<1>3. UNCHANGED <<probe, ev, armed, doing, hand, target, resets>>
  BY DEF AwaitAll, threadVars
<1>4. \A e \in Event : InHand(e) = {} /\ InHand(e)' = {}
  <2>1. \A e \in Event : InHand(e) = {}
    BY <1>0, <1>1, Hands
  <2> QED BY <1>3, <2>1 DEF InHand
<1>5. PICK M \in SUBSET Event : M = Missing
  BY DEF Missing
<1>6. /\ waitq' = [e \in Event |-> IF e \in M THEN Append(waitq[e], d) ELSE waitq[e]]
      /\ left' = [left EXCEPT ![d] = Cardinality(M)]
      /\ result' = [result EXCEPT ![d] = (M = {})]
      /\ at' = [at EXCEPT ![d] = IF M = {} THEN "run" ELSE "asleep"]
      /\ counter' = [e \in Event |-> IF counter[e] > 0 THEN counter[e] - 1 ELSE counter[e]]
  BY <1>5 DEF AwaitAll, Goes
<1>7. /\ \A x \in Coro : x # d => at'[x] = at[x] /\ result'[x] = result[x] /\ (Live(x)' <=> Live(x))
      /\ Live(d)' <=> M # {}
  <2>1. left'[d] = Cardinality(M) /\ \A x \in All : x # d => left'[x] = left[x]
    BY <1>0, <1>6
  <2>2. Cardinality(M) \in Nat /\ (Cardinality(M) > 0 <=> M # {})
    BY Sizes
  <2>3. Live(d)' <=> M # {}
    BY <1>0, <2>1, <2>2 DEF Live
  <2> QED BY <1>0, <1>3, <1>6, <2>1, <2>3 DEF Live
<1>8. \A e \in Event : d \notin Queued[e]
  BY <1>0 DEF AllsQueued
<1>9. \A e \in Event, x \in Coro : x \in Queued'[e] <=> x \in Queued[e] \/ (x = d /\ e \in M)
  <2>1. Puts(d, M)
    BY <1>5, AwaitAllFacts
  <2> QED BY <2>1 DEF Puts
<1>10. \A e \in Event, x, y \in Coro :
         Before(waitq'[e], x, y) <=> Before(waitq[e], x, y) \/ (e \in M /\ x \in Queued[e] /\ y = d)
  BY <1>0, <1>6, JoinsOrder
<1>11. \A e \in Event, x \in Coro : Before(waitq[e], d, x) => d \in Queued[e]
  BY <1>0 DEF Before, Queued, Stands
<1>12. ASSUME NEW e \in Event
       PROVE  /\ Waiters(e) \subseteq Coro /\ d \notin Waiters(e)
              /\ Waiters(e)' = IF e \in M THEN Waiters(e) \union {d} ELSE Waiters(e)
  <2>1. \A x \in Coro : /\ x \in Waiters(e) <=> x \in Queued[e] /\ Live(x)
                        /\ x \in Waiters(e)' <=> x \in Queued'[e] /\ Live(x)'
    BY <1>4, Views
  <2>2. \A x \in Coro : x \in Waiters(e)' <=> x \in Waiters(e) \/ (x = d /\ e \in M)
    BY <1>7, <1>8, <1>9, <2>1
  <2>3. Waiters(e) \subseteq Coro /\ Waiters(e)' \subseteq Coro
    BY Views
  <2> QED BY <1>0, <1>8, <2>1, <2>2, <2>3
<1>13. ASSUME NEW e \in Event, NEW x \in Waiters(e), NEW y \in Waiters(e)
       PROVE  Precedes(x, y, e)' <=> Precedes(x, y, e)
  <2>1. x \in Coro /\ y \in Coro /\ x # d /\ y # d
    BY <1>12
  <2> QED BY <1>4, <1>10, <2>1, Seats
<1>14. ASSUME NEW e \in Event, e \in M, NEW x \in Waiters(e)
       PROVE  Precedes(x, d, e)' /\ ~Precedes(d, x, e)'
  <2>1. x \in Coro /\ x # d /\ x \in Queued[e]
    <3>1. x \in Coro /\ x # d
      BY <1>12
    <3> QED BY <1>4, <3>1, Views
  <2> QED BY <1>0, <1>4, <1>8, <1>10, <1>11, <1>14, <2>1, Seats
<1>15. \A e \in Event : e \in M => ~Precedes(d, d, e)'
  BY <1>0, <1>4, <1>8, <1>10, <1>11, Seats
<1>16. Entered(d, M)
  <2>1. Enters(d, M)
    BY <1>12, <1>13, <1>14, <1>15 DEF Enters
  <2> QED BY <2>1, InView
<1>17. /\ Answers[d] = "asking"
       /\ Answers' = [Answers EXCEPT ![d] = IF M = {} THEN "passed" ELSE "waiting"]
  <2>1. at'[d] = (IF M = {} THEN "run" ELSE "asleep") /\ (result'[d] <=> M = {})
    BY <1>0, <1>6
  <2>2. Answer(d) = "asking" /\ Answer(d)' = IF M = {} THEN "passed" ELSE "waiting"
    BY <1>0, <2>1 DEF Answer
  <2> QED BY <1>0, <1>7, <2>2, OtherAnswers
<1>18. PICK E \in (SUBSET Event) \ {{}} : E = Event
  BY CountsAssumption DEF Event
<1>19. {e \in E : Unused[e] = 0} = M
  BY <1>2, <1>5, <1>18 DEF Missing
<1>20. Unused' = [e \in Event |-> IF e \in E \ M THEN Unused[e] - 1 ELSE Unused[e]]
  <2>1. \A e \in Event : ~Undoing(e)'
    BY <1>2, <1>3 DEF Undoing
  <2>2. \A e \in Event : e \in M <=> counter[e] = 0
    BY <1>2, <1>5 DEF Missing
  <2>3. ASSUME NEW e \in Event PROVE Unused'[e] = IF e \in E \ M THEN Unused[e] - 1 ELSE Unused[e]
    <3>1. counter'[e] = IF counter[e] > 0 THEN counter[e] - 1 ELSE counter[e]
      BY <1>6
    <3> QED BY <1>2, <1>18, <2>1, <2>2, <3>1, UnusedIs
  <2> QED BY <2>3, UnusedIs
<1>21. Signals!Wait(d, E)
  BY <1>3, <1>16, <1>17, <1>18, <1>19, <1>20 DEF Signals!Wait, Entered
<1> QED BY <1>0, <1>21, Passes
-----------------------------------------------------------------------------
(* A thread takes the first out of the queue whose lock it has. *)
LEMMA Popping ==
  ASSUME Inv, NEW t \in Thread, Pop(t), NEW e \in Event, e = target[t]
  PROVE  /\ lock[e] = t /\ InHand(e) = {} /\ waitq[e] # <<>>
         /\ Head(waitq[e]) \in Coro /\ Head(waitq[e]) \in Queued[e]
         /\ \A r \in Event, x \in Coro :
              x \in Queued'[r] <=> x \in Queued[r] /\ ~(x = Head(waitq[e]) /\ r = e)
         /\ \A r \in Event, x, y \in Coro :
              Before(waitq[r], x, y)
                <=> Before(waitq'[r], x, y) \/ (r = e /\ x = Head(waitq[e]) /\ y \in Queued'[e])
         /\ \A x \in Coro : ~Before(waitq[e], x, Head(waitq[e]))
<1>0. TypeOK /\ Fields /\ Locks /\ Once
  BY Parts
<1>1. lock[e] = t /\ hand[t] = NoOne /\ waitq[e] # <<>> /\ waitq' = [waitq EXCEPT ![e] = Tail(@)]
  BY <1>0 DEF Pop, Locks
<1>2. InHand(e) = {}
  BY <1>0, <1>1, Hands
<1>3. /\ Head(waitq[e]) \in Coro /\ Head(waitq[e]) \in Queued[e]
      /\ Takes(Head(waitq[e]), {e})
  BY PopFacts
<1>4. \A r \in Event, x \in Coro :
        x \in Queued'[r] <=> x \in Queued[r] /\ ~(x = Head(waitq[e]) /\ r = e)
  BY <1>3 DEF Takes
<1> QED BY <1>0, <1>1, <1>2, <1>3, <1>4, PopsOrder

(* The first of the queue is the one that waits longest. *)
LEMMA OnePasses ==
  ASSUME Inv, Inv', NEW t \in Thread, PopOne(t), armed[Head(waitq[target[t]])]
  PROVE  Promised
<1>0. /\ Fields /\ Locks /\ OnesQueued /\ Pop(t) /\ doing[t] # "idle"
      /\ at \in [Coro -> Where] /\ armed \in [One -> BOOLEAN] /\ result \in [Coro -> BOOLEAN]
      /\ One \subseteq Coro /\ \A x \in One : x \notin All
  BY Parts, Names DEF PopOne, Pop, Fields
<1>1. PICK e \in Event : e = target[t]
  BY <1>0 DEF Fields
<1>2. PICK c \in One : c = Head(waitq[e])
  BY <1>1 DEF PopOne
<1>3. /\ lock[e] = t /\ InHand(e) = {} /\ c \in Coro /\ c \in Queued[e]
      /\ \A r \in Event, x \in Coro : x \in Queued'[r] <=> x \in Queued[r] /\ ~(x = c /\ r = e)
      /\ \A r \in Event, x, y \in Coro :
           Before(waitq[r], x, y)
             <=> Before(waitq'[r], x, y) \/ (r = e /\ x = c /\ y \in Queued'[e])
      /\ \A x \in Coro : ~Before(waitq[e], x, c)
  BY <1>0, <1>1, <1>2, Popping
<1>4. /\ armed[c] /\ armed' = [armed EXCEPT ![c] = FALSE]
      /\ result' = [result EXCEPT ![c] = TRUE] /\ at' = [at EXCEPT ![c] = "ready"]
      /\ Notified(t) /\ UNCHANGED <<counter, probe, ev, left, target, hand, resets>>
  BY <1>1, <1>2 DEF PopOne, Goes
<1>5. /\ Live(c) /\ ~Live(c)' /\ at'[c] = "ready" /\ result'[c] = TRUE
      /\ \A x \in Coro : x # c => at'[x] = at[x] /\ result'[x] = result[x] /\ (Live(x)' <=> Live(x))
  BY <1>0, <1>4 DEF Live
<1>6. \A r \in Event : InHand(r)' = InHand(r) /\ InHand(r) \subseteq All
  BY <1>0, <1>4, Hands DEF InHand
<1>7. \A r \in Event : r # e => c \notin Queued[r]
  BY <1>0, <1>3 DEF OnesQueued
<1>8. \A r \in Event : c \notin InHand(r)
  BY <1>0, <1>6
<1>9. PICK E : E = {e}
  OBVIOUS
<1>10. \A r \in Event, x \in Coro :
         (x \in InHand(r)' \/ x \in Queued'[r]) /\ Live(x)'
           <=> (x \in InHand(r) \/ x \in Queued[r]) /\ Live(x) /\ ~(x = c /\ r \in E)
  BY <1>3, <1>5, <1>6, <1>7, <1>8, <1>9
<1>11. \A r \in Event : c \notin Waiters(r)'
  BY <1>5 DEF Waiters
<1>12. \A r \in Event, x, y \in Coro :
         x \in Waiters(r)' /\ y \in Waiters(r)' => (Precedes(x, y, r)' <=> Precedes(x, y, r))
  <2>1. \A r \in Event, x, y \in Coro : x # c /\ y # c => (Precedes(x, y, r)' <=> Precedes(x, y, r))
    BY <1>3, <1>6, Seats
  <2> QED BY <1>11, <2>1
<1>13. Signals!Without(c, E)
  <2>1. Leaves(c, E)
    BY <1>3, <1>10, <1>12, Leaving
  <2> QED BY <2>1, OutView
<1>14. /\ c \in Waiters(e) /\ Waiters(e) \subseteq Coro
       /\ \A r \in Event : r # e => c \notin Waiters(r)
  BY <1>3, <1>5, <1>7, <1>8, Views
<1>15. \A b \in Waiters(e) : <<b, c>> \notin Ahead[e]
  <2>1. \A b \in Coro : ~Precedes(b, c, e)
    BY <1>3, Seats
  <2> QED BY <1>14, <2>1 DEF Ahead
<1>16. Unused' = Unused
  BY <1>4, SameUnused DEF Undoing
<1>17. Answers' = [Answers EXCEPT ![c] = "passed"]
  <2>1. Answer(c)' = "passed"
    BY <1>5 DEF Answer
  <2> QED BY <1>3, <1>5, <2>1, OtherAnswers
<1>18. doing' = [doing EXCEPT ![t] = IF @ = "signal" THEN "idle" ELSE @]
  BY <1>0, <1>4 DEF Notified, Fields
<1>19. c \in Waiting[e] /\ \A b \in Waiting[e] : <<b, c>> \notin Ahead[e]
  BY <1>14, <1>15 DEF Waiting
<1>20. \A r \in Event \ {e} : c \notin Waiting[r]
  BY <1>14 DEF Waiting
<1>21. Signals!Give(t)
  <2>1. Signals!Without(c, {e})
    BY <1>9, <1>13
  <2> QED BY <1>0, <1>1, <1>4, <1>16, <1>17, <1>18, <1>19, <1>20, <2>1 DEF Signals!Give
<1> QED BY <1>21 DEF Promised, Signals!Next

(* Taking out of a queue whoever does not wait, or into the hand.          *)
LEMMA OneTooLate ==
  ASSUME Inv, Inv', NEW t \in Thread, PopOne(t), ~armed[Head(waitq[target[t]])]
  PROVE  UNCHANGED absVars
<1>0. Fields /\ Pop(t)
  BY Parts DEF PopOne
<1>1. PICK e \in Event : e = target[t]
  BY <1>0 DEF Fields
<1>2. PICK c \in One : c = Head(waitq[e])
  BY <1>1 DEF PopOne
<1>3. /\ c \in Coro
      /\ \A r \in Event, x \in Coro : x \in Queued'[r] <=> x \in Queued[r] /\ ~(x = c /\ r = e)
      /\ \A r \in Event, x, y \in Coro :
           Before(waitq[r], x, y)
             <=> Before(waitq'[r], x, y) \/ (r = e /\ x = c /\ y \in Queued'[e])
  BY <1>0, <1>1, <1>2, Popping
<1>4. /\ ~armed[c]
      /\ UNCHANGED <<counter, probe, ev, left, doing, target, hand, resets, armed, result, at>>
  BY <1>1, <1>2 DEF PopOne
<1>5. ~Live(c) /\ \A x \in Coro : Live(x)' <=> Live(x)
  BY <1>4 DEF Live
<1>6. \A r \in Event : InHand(r)' = InHand(r) /\ c \notin Waiters(r)
  BY <1>4, <1>5 DEF InHand, Waiters
<1>7. \A r \in Event, x, y \in Coro :
         x \in Waiters(r) /\ y \in Waiters(r) => (Precedes(x, y, r)' <=> Precedes(x, y, r))
  <2>1. \A r \in Event, x, y \in Coro : x # c /\ y # c => (Precedes(x, y, r)' <=> Precedes(x, y, r))
    BY <1>3, <1>6, Seats
  <2> QED BY <1>6, <2>1
<1>8. \A r \in Event, x \in Coro :
        (x \in InHand(r)' \/ x \in Queued'[r]) /\ Live(x)'
          <=> (x \in InHand(r) \/ x \in Queued[r]) /\ Live(x)
  BY <1>3, <1>5, <1>6
<1>9. Waiting' = Waiting /\ Ahead' = Ahead
  BY <1>7, <1>8, Staying
<1>10. Unused' = Unused /\ Answers' = Answers
  BY <1>4, SameUnused DEF Undoing, Answers, Answer
<1> QED BY <1>4, <1>9, <1>10 DEF absVars

LEMMA IntoTheHand == ASSUME Inv, Inv', NEW t \in Thread, PopAll(t) PROVE UNCHANGED absVars
<1>0. Fields /\ Pop(t) /\ hand \in [Thread -> All \union {NoOne}] /\ Locks
  BY Parts DEF PopAll, Fields
<1>1. PICK e \in Event : e = target[t]
  BY <1>0 DEF Fields
<1>2. PICK d \in All : d = Head(waitq[e])
  BY <1>1 DEF PopAll
<1>3. /\ d \in Coro /\ lock[e] = t /\ InHand(e) = {} /\ d \in Queued[e]
      /\ \A r \in Event, x \in Coro : x \in Queued'[r] <=> x \in Queued[r] /\ ~(x = d /\ r = e)
      /\ \A r \in Event, x, y \in Coro :
           Before(waitq[r], x, y)
             <=> Before(waitq'[r], x, y) \/ (r = e /\ x = d /\ y \in Queued'[e])
      /\ \A x \in Coro : ~Before(waitq[e], x, d)
  BY <1>0, <1>1, <1>2, Popping
<1>4. /\ hand' = [hand EXCEPT ![t] = d] /\ hand[t] = NoOne /\ d # NoOne
      /\ UNCHANGED <<counter, probe, ev, left, doing, target, resets, armed, result, at>>
  BY <1>1, <1>2, <1>3, Names DEF PopAll, Pop, coroVars, stateVars
<1>5. \A x \in Coro : Live(x)' <=> Live(x)
  BY <1>4 DEF Live
<1>6. InHand(e)' = {d} /\ \A r \in Event : r # e => InHand(r)' = InHand(r)
  <2>1. hand'[t] = d /\ \A u \in Thread : u # t => hand'[u] = hand[u]
    BY <1>0, <1>4
  <2>2. \A u \in Thread : u # t /\ target[u] = e => hand[u] = NoOne
    BY <1>0, <1>3 DEF Locks
  <2>3. InHand(e)' = {d}
    BY <1>1, <1>4, <2>1, <2>2 DEF InHand
  <2>4. \A r \in Event : r # e => InHand(r)' = InHand(r)
    BY <1>1, <1>4, <2>1 DEF InHand
  <2> QED BY <2>3, <2>4
<1>7. \A r \in Event, x \in Coro :
        x \in InHand(r)' \/ x \in Queued'[r] <=> x \in InHand(r) \/ x \in Queued[r]
  BY <1>3, <1>6
<1>8. \A r \in Event, x, y \in Coro : Precedes(x, y, r)' <=> Precedes(x, y, r)
  BY <1>3, <1>6, Seats
<1>9. Waiting' = Waiting /\ Ahead' = Ahead
  BY <1>5, <1>7, <1>8, Staying
<1>10. Unused' = Unused /\ Answers' = Answers
  BY <1>4, SameUnused DEF Undoing, Answers, Answer
<1> QED BY <1>4, <1>9, <1>10 DEF absVars

(* A thread with a waiter for all in its hand: it lets go of it. *)
LEMMA LettingGo ==
  ASSUME Inv, NEW t \in Thread, NotifyAll(t), NEW e \in Event, e = target[t], NEW d, d = hand[t]
  PROVE  /\ d \in All /\ d \in Coro /\ d # NoOne /\ d \notin One
         /\ doing[t] # "idle" /\ e \in first[d]
         /\ d \notin Queued[e] /\ InHand(e) = {d} /\ InHand(e)' = {}
         /\ \A r \in Event : r # e => InHand(r)' = InHand(r)
         /\ \A r \in Event : Queued'[r] = Queued[r]
         /\ \A r \in Event, x \in Coro : ~Before(waitq[r], x, d) \/ d \in Queued[r]
         /\ UNCHANGED <<waitq, counter, probe, ev, armed, target, resets>>
<1>0. Fields /\ Locks /\ InHands /\ hand \in [Thread -> All \union {NoOne}]
  BY Parts DEF Fields
<1>1. d \in All /\ d \in Coro /\ d # NoOne /\ d \notin One
  BY <1>0, Names DEF NotifyAll
<1>2. doing[t] # "idle" /\ lock[e] = t /\ e \in first[d] /\ d \notin Queued[e]
  BY <1>0, <1>1 DEF Locks, InHands
<1>3. InHand(e) = {d}
  BY <1>0, <1>1, <1>2, Hands
<1>4. hand'[t] = NoOne /\ (\A u \in Thread : u # t => hand'[u] = hand[u]) /\ target' = target
  BY <1>0 DEF NotifyAll
<1>5. \A u \in Thread : u # t /\ target[u] = e => hand[u] = NoOne
  BY <1>0, <1>2 DEF Locks
<1>6. InHand(e)' = {} /\ \A r \in Event : r # e => InHand(r)' = InHand(r)
  BY <1>4, <1>5 DEF InHand
<1>7. UNCHANGED <<waitq, counter, probe, ev, armed, target, resets>>
  BY DEF NotifyAll
<1>8. \A r \in Event, x \in Coro : ~Before(waitq[r], x, d) \/ d \in Queued[r]
  BY <1>1 DEF Before, Queued, Stands
<1>9. \A r \in Event : Queued'[r] = Queued[r]
  BY <1>7 DEF Queued
<1> QED BY <1>1, <1>2, <1>3, <1>6, <1>7, <1>8, <1>9

(* If its timeout was first, it did not wait any longer. *)
LEMMA AllTooLate ==
  ASSUME Inv, Inv', NEW t \in Thread, NotifyAll(t), left[hand[t]] = 0
  PROVE  UNCHANGED absVars
<1>1. PICK e \in Event : e = target[t]
  BY Parts DEF Fields
<1>2. PICK d : d = hand[t]
  OBVIOUS
<1>3. /\ d \in Coro /\ d \notin One /\ InHand(e) = {d} /\ InHand(e)' = {} /\ d \notin Queued[e]
      /\ \A r \in Event : r # e => InHand(r)' = InHand(r)
      /\ \A r \in Event : Queued'[r] = Queued[r]
      /\ UNCHANGED <<waitq, counter, probe, ev, armed, target, resets>>
  BY <1>1, <1>2, LettingGo
<1>4. left[d] = 0 /\ UNCHANGED <<left, doing, result, at>>
  BY <1>2 DEF NotifyAll
<1>5. ~Live(d) /\ \A x \in Coro : Live(x)' <=> Live(x)
  BY <1>3, <1>4 DEF Live
<1>6. \A r \in Event : d \notin Waiters(r)
  BY <1>5 DEF Waiters
<1>7. \A r \in Event, x, y \in Coro :
        x \in Waiters(r) /\ y \in Waiters(r) => (Precedes(x, y, r)' <=> Precedes(x, y, r))
  <2>1. \A r \in Event, x, y \in Coro : x # d /\ y # d => (Precedes(x, y, r)' <=> Precedes(x, y, r))
    BY <1>3, Seats
  <2> QED BY <1>6, <2>1
<1>8. \A r \in Event, x \in Coro :
        (x \in InHand(r)' \/ x \in Queued'[r]) /\ Live(x)'
          <=> (x \in InHand(r) \/ x \in Queued[r]) /\ Live(x)
  BY <1>3, <1>5
<1>9. Waiting' = Waiting /\ Ahead' = Ahead
  BY <1>7, <1>8, Staying
<1>10. Unused' = Unused /\ Answers' = Answers
  BY <1>3, <1>4, SameUnused DEF Undoing, Answers, Answer
<1> QED BY <1>3, <1>4, <1>9, <1>10 DEF absVars

(* A waiter for all waits at the events that are left, and nowhere else. *)
LEMMA LeftOver ==
  ASSUME Inv, NEW d \in All, left[d] > 0, NEW e \in first[d]
  PROVE  /\ at[d] = "asleep"
         /\ \A r \in Event : d \in Waiters(r) => r \in first[d]
         /\ left[d] = 1 => \A r \in Event \ {e} : d \notin Waiters(r)
         /\ left[d] > 1 => \E r \in Event \ {e} : d \in Waiters(r)
<1>0. /\ AsleepIffLive /\ Proxies /\ AllsQueued /\ InHands /\ first[d] \in SUBSET Event
      /\ d \in Coro /\ d \notin One /\ d # NoOne
  BY Parts, Names DEF Fields
<1>1. Live(d) /\ at[d] = "asleep"
  BY <1>0 DEF Live, AsleepIffLive
<1>2. left[d] = Cardinality(first[d])
  BY <1>0, <1>1 DEF Proxies
<1>3. \A r \in Event : d \in Waiters(r) <=> d \in InHand(r) \/ d \in Queued[r]
  BY <1>0, <1>1, Seats DEF Waiters
<1>4. \A r \in Event : d \in InHand(r) <=> \E u \in Thread : hand[u] = d /\ target[u] = r
  BY <1>0 DEF InHand
<1>5. \A r \in Event : d \in Waiters(r) <=> r \in first[d]
  BY <1>0, <1>1, <1>3, <1>4 DEF Proxies, AllsQueued, InHands
<1>6. PICK G \in SUBSET Event : G = first[d]
  BY <1>0
<1>7. PICK F \in SUBSET Event : F = G \ {e}
  BY <1>6
<1>8. /\ Cardinality(G) \in Nat /\ left[d] = Cardinality(G)
      /\ Cardinality(F) = Cardinality(G) - 1 /\ (Cardinality(F) = 0 <=> F = {})
  <2>1. Cardinality(F) = 0 <=> F = {}
    BY Sizes
  <2>2. Cardinality(G) \in 0..N /\ Cardinality(G \ {e}) = Cardinality(G) - 1
    BY <1>6, Sizes
  <2> QED BY <1>2, <1>6, <1>7, <2>1, <2>2, CountsAssumption
<1>9. (left[d] = 1 => F = {}) /\ (left[d] > 1 => F # {})
  BY <1>8
<1> QED BY <1>0, <1>1, <1>5, <1>6, <1>7, <1>9

(* It has waited longest, for it was first when it was popped; it passes   *)
(* with the last of its events.                                            *)
LEMMA AllPasses ==
  ASSUME Inv, Inv', NEW t \in Thread, NotifyAll(t), left[hand[t]] > 0
  PROVE  Promised
<1>0. /\ at \in [Coro -> Where] /\ result \in [Coro -> BOOLEAN] /\ left \in [All -> 0..N]
      /\ doing \in [Thread -> {"idle", "signal", "signal_all"}]
      /\ \A x \in Coro : x \notin One => x \in All
  BY Parts, Names DEF Fields
<1>1. PICK e \in Event : e = target[t]
  BY Parts DEF Fields
<1>2. PICK d : d = hand[t]
  OBVIOUS
<1>3. /\ d \in All /\ d \in Coro /\ d \notin One
      /\ InHand(e) = {d} /\ InHand(e)' = {} /\ d \notin Queued[e]
      /\ doing[t] # "idle" /\ e \in first[d]
      /\ \A r \in Event : r # e => InHand(r)' = InHand(r)
      /\ \A r \in Event : Queued'[r] = Queued[r]
      /\ \A r \in Event, x \in Coro : ~Before(waitq[r], x, d) \/ d \in Queued[r]
      /\ UNCHANGED <<waitq, counter, probe, ev, armed, target, resets>>
  BY <1>1, <1>2, LettingGo
<1>4. /\ left[d] > 0 /\ left' = [left EXCEPT ![d] = @ - 1] /\ Notified(t)
      /\ \/ left[d] > 1 /\ UNCHANGED <<result, at>>
         \/ /\ left[d] = 1
            /\ result' = [result EXCEPT ![d] = TRUE] /\ at' = [at EXCEPT ![d] = "ready"]
  BY <1>2 DEF NotifyAll, Goes
<1>5. /\ left[d] \in Nat /\ left'[d] = left[d] - 1
      /\ \A x \in Coro : x # d => at'[x] = at[x] /\ result'[x] = result[x] /\ (Live(x)' <=> Live(x))
  BY <1>0, <1>3, <1>4 DEF Live
<1>6. Live(d) /\ (Live(d)' <=> left[d] > 1)
  BY <1>3, <1>4, <1>5 DEF Live
<1>7. /\ at[d] = "asleep"
      /\ left[d] = 1 => \A r \in Event \ {e} : d \notin Waiters(r)
      /\ left[d] > 1 => \E r \in Event \ {e} : d \in Waiters(r)
  BY <1>3, <1>4, LeftOver
<1>8. PICK E : E = {e}
  OBVIOUS
<1>9. \A r \in Event, x \in Coro :
        (x \in InHand(r)' \/ x \in Queued'[r]) /\ Live(x)'
          <=> (x \in InHand(r) \/ x \in Queued[r]) /\ Live(x) /\ ~(x = d /\ r \in E)
  <2>1. ASSUME NEW r \in Event, NEW x \in Coro, x # d
        PROVE  (x \in InHand(r)' \/ x \in Queued'[r]) /\ Live(x)'
                 <=> (x \in InHand(r) \/ x \in Queued[r]) /\ Live(x)
    BY <1>3, <1>5, <2>1
  <2>2. (d \in InHand(e)' \/ d \in Queued'[e]) <=> FALSE
    BY <1>3
  <2>3. ASSUME NEW r \in Event, r # e
        PROVE  (d \in InHand(r)' \/ d \in Queued'[r]) /\ Live(d)'
                 <=> (d \in InHand(r) \/ d \in Queued[r]) /\ Live(d)
    <3>1. CASE left[d] > 1
      BY <1>3, <1>6, <2>3, <3>1
    <3>2. CASE left[d] = 1
      <4>1. d \notin InHand(r) /\ d \notin Queued[r]
        BY <1>3, <1>6, <1>7, <2>3, <3>2, Views
      <4> QED BY <1>3, <2>3, <4>1
    <3> QED BY <1>4, <1>5, <3>1, <3>2
  <2> QED BY <1>8, <2>1, <2>2, <2>3
<1>10. \A r \in Event, x, y \in Coro :
         x \in Waiters(r)' /\ y \in Waiters(r)' => (Precedes(x, y, r)' <=> Precedes(x, y, r))
  <2>1. \A x, y \in Coro : x # d /\ y # d => (Precedes(x, y, e)' <=> Precedes(x, y, e))
    BY <1>3, Seats
  <2>2. \A r \in Event, x, y \in Coro : r # e => (Precedes(x, y, r)' <=> Precedes(x, y, r))
    BY <1>3, Seats
  <2>3. d \notin Waiters(e)'
    BY <1>3, Views
  <2> QED BY <2>1, <2>2, <2>3
<1>11. Signals!Without(d, E)
  <2>1. Leaves(d, E)
    BY <1>3, <1>9, <1>10, Leaving
  <2> QED BY <2>1, OutView
<1>12. d \in Waiting[e] /\ \A b \in Waiting[e] : <<b, d>> \notin Ahead[e]
  <2>1. d \in Waiters(e) /\ Waiters(e) \subseteq Coro
    BY <1>3, <1>6, Views
  <2>2. \A b \in Coro : ~Precedes(b, d, e)
    BY <1>3, Seats
  <2> QED BY <2>1, <2>2 DEF Ahead, Waiting
<1>13. Unused' = Unused
  BY <1>3, SameUnused DEF Undoing
<1>14. Answers' = [Answers EXCEPT ![d] =
                     IF \A r \in Event \ {e} : d \notin Waiting[r] THEN "passed" ELSE @]
  <2>1. \A r \in Event : Waiting[r] = Waiters(r)
    BY DEF Waiting
  <2>2. Answers' = [Answers EXCEPT ![d] = Answer(d)'] /\ Answers[d] = Answer(d)
    BY <1>3, <1>5, OtherAnswers
  <2>3. CASE left[d] > 1
    <3>1. Answer(d)' = Answer(d)
      BY <1>4, <2>3 DEF Answer
    <3>2. ~ \A r \in Event \ {e} : d \notin Waiting[r]
      BY <1>7, <2>1, <2>3
    <3> QED BY <2>2, <3>1, <3>2
  <2>4. CASE left[d] = 1
    <3>1. at'[d] = "ready" /\ result'[d] = TRUE
      BY <1>0, <1>3, <1>4, <2>4
    <3>2. Answer(d)' = "passed"
      BY <3>1 DEF Answer
    <3>3. \A r \in Event \ {e} : d \notin Waiting[r]
      BY <1>7, <2>1, <2>4
    <3> QED BY <2>2, <3>2, <3>3
  <2> QED BY <1>4, <1>5, <2>3, <2>4
<1>15. doing' = [doing EXCEPT ![t] = IF @ = "signal" THEN "idle" ELSE @]
  BY <1>0, <1>4 DEF Notified
<1>16. Signals!Give(t)
  <2>1. Signals!Without(d, {e})
    BY <1>8, <1>11
  <2> QED BY <1>1, <1>3, <1>12, <1>13, <1>14, <1>15, <2>1 DEF Signals!Give
<1> QED BY <1>16 DEF Promised, Signals!Next
-----------------------------------------------------------------------------
LEMMA InitPromised == Init => Signals!Init
<1> SUFFICES ASSUME Init PROVE Signals!Init
  OBVIOUS
<1>1. \A e \in Event : Waiters(e) = {}
  BY DEF Init, Waiters, InHand, InQueue
<1>2. Waiting = [e \in Event |-> {}] /\ Ahead = [e \in Event |-> {}]
  BY <1>1 DEF Waiting, Ahead
<1>3. \A e \in Event : ~Undoing(e)
  BY Names DEF Init, Undoing
<1>4. Unused \in [Event -> {0, 1}]
  <2>1. \A e \in Event : Unused[e] \in {0, 1}
    BY <1>3, UnusedIs DEF Init
  <2> QED BY <2>1, UnusedIs
<1>5. Answers = [c \in Coro |-> "out"]
  BY DEF Init, Answers, Answer
<1>6. target \in [Thread -> Event]
  BY CountsAssumption DEF Init, Event
<1> QED BY <1>2, <1>4, <1>5, <1>6 DEF Signals!Init, Init

LEMMA NextPromised == MaxResets < 2 /\ Inv /\ Inv' /\ Told /\ [Next]_vars => Promised
<1> SUFFICES ASSUME MaxResets < 2, Inv, Inv', Told, [Next]_vars PROVE Promised
  OBVIOUS
<1>0. One \subseteq Coro /\ All \subseteq Coro
  BY Names
<1>1. ASSUME NEW c \in One, NEW e \in Event, Wait(c, e) PROVE Promised
  <2>1. ev \in [Coro -> Event]
    BY Parts DEF Fields
  <2>2. \A x \in One : x # c => ev'[x] = ev[x]
    BY <1>0, <1>1, <2>1 DEF Wait
  <2>3. Signals!Ask(c)
    BY <1>0, <1>1, <2>2, Asks DEF Wait
  <2> QED BY <1>0, <2>3 DEF Promised, Signals!Next
<1>2. ASSUME NEW d \in All, WaitAll(d) PROVE Promised
  <2>1. ev \in [Coro -> Event] /\ d \notin One
    BY Parts, Names DEF Fields
  <2>2. \A x \in One : x # d => ev'[x] = ev[x]
    BY <1>0, <1>2, <2>1 DEF WaitAll
  <2>3. Signals!Ask(d)
    BY <1>0, <1>2, <2>2, Asks DEF WaitAll, eventVars
  <2> QED BY <1>0, <2>3 DEF Promised, Signals!Next
<1>3. ASSUME NEW c \in One, OneStep(c) PROVE Promised
  BY <1>0, <1>3, SecondTries, TryLoads, TryTakes, TryUndos, OneErased, Resumes DEF OneStep, Promised
<1>4. ASSUME NEW d \in All, AllStep(d) PROVE Promised
  BY <1>0, <1>4, Locksmiths, AwaitsAll, AllErased, Returns, Resumes DEF AllStep, Promised
<1>5. ASSUME NEW t \in Thread, SignalStep(t) PROVE Promised
  <2>1. CASE PopOne(t)
    BY <2>1, OnePasses, OneTooLate DEF Promised
  <2>2. CASE PopAll(t)
    BY <2>2, IntoTheHand DEF Promised
  <2>3. CASE NotifyAll(t)
    <3>1. left[hand[t]] > 0 \/ left[hand[t]] = 0
      BY <2>3 DEF NotifyAll
    <3> QED BY <2>3, <3>1, AllPasses, AllTooLate DEF Promised
  <2>4. CASE SignalEnd(t)
    BY <2>4, Ends
  <2> QED BY <1>5, <2>1, <2>2, <2>3, <2>4 DEF SignalStep
<1>6. CASE UNCHANGED vars
  <2>1. Unused' = Unused
    BY <1>6, SameUnused DEF Undoing, vars, eventVars, coroVars
  <2>2. \A x \in Coro : Live(x)' <=> Live(x)
    BY <1>6 DEF Live, vars, stateVars
  <2>3. Waiting' = Waiting /\ Ahead' = Ahead
    BY <1>6, <2>2, Parts, Untouched DEF vars, eventVars, threadVars
  <2>4. Answers' = Answers
    BY <1>6 DEF Answers, Answer, vars, coroVars
  <2> QED BY <1>6, <2>1, <2>3, <2>4 DEF Promised, absVars, vars, threadVars
<1> QED
  BY <1>1, <1>2, <1>3, <1>4, <1>5, <1>6, OneGivesUp, AllGivesUp, Begins, Resets DEF Next

(* Events keep their promise: each signal lets the client pass that has    *)
(* waited longest, or is counted and had by one later, and nobody passes   *)
(* without; whichever timeouts and threads come between.  With more than   *)
(* one reset() it is false, like NobodyWaits.                              *)
THEOREM Refinement ==
  ASSUME MaxResets < 2
  PROVE  Spec => ImplementsSignals
<1>1. Inv /\ Inv' /\ Told /\ [Next]_vars =>
        [Signals!Next]_<<Unused, Waiting, Ahead, Answers, doing, target, resets>>
  BY NextPromised DEF Promised, absVars
<1>2. Spec => []Told
  <2>1. Spec => []Inv
    BY Invariance
  <2> QED BY <2>1, InitTold, NextTold, PTL DEF Spec
<1> QED BY <1>1, <1>2, InitPromised, Invariance, PTL DEF Spec, ImplementsSignals, Signals!Spec
=============================================================================
