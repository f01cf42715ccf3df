---------------------------- MODULE FutureProofs ----------------------------
(***************************************************************************)
(* Proofs about Future.tla, for any schedulers, coroutines and awaitables. *)
(***************************************************************************)
EXTENDS Future, QueueLemmas

(* What is queued at a scheduler, in the order in which it is resumed.     *)
Pending(s) == cached[s] \o running[s]
Held == [s \in Sched |-> {x \in Entry : Stands(Pending(s), x)}]
Alone == [s \in Sched |-> {x \in Entry : Single(Pending(s), x)}]
Twice == [s \in Sched |-> {x \in Entry : Double(Pending(s), x)}]

InCode == {"run", "awaits", "suspends", "switching", "returned"}
Calling == {"awaits", "suspends"}
Waiting == {"awaits", "suspends", "asleep"}
Done == {"returned", "final", "gone"}

(* A thread is in the code of a coroutine that runs, and in that of no     *)
(* other thread; it starts a task only in user code.                       *)
Threads ==
  /\ \A s \in Sched : stage[s] # "loop" => on[s] = None
  /\ \A s \in Sched : launching[s] # None => stage[s] = "user" \/ on[s] # None
  /\ \A s \in Sched, c \in Coro : on[s] = c =>
       at[c] \in InCode /\ (scheduler[c] = s \/ at[c] = "switching")
  /\ \A c \in Coro : at[c] \in InCode => \E s \in Sched : on[s] = c
  /\ \A s, r \in Sched : on[s] # None /\ on[s] = on[r] => s = r

(* The fields of a state follow the life of its coroutine. *)
Lives ==
  /\ \A x \in State : initor[x] = "Initial" <=> x \in Coro /\ at[x] = "new"
  /\ \A x \in State : initor[x] = "Final" <=> x \in Coro /\ at[x] = "final"
  /\ \A c \in Coro : at[c] = "new" => ~Completed(c)
  /\ \A c \in Coro : at[c] \in Done => Completed(c)
  /\ \A c \in Coro : at[c] # "new" => scheduler[c] # None
  /\ \A c \in Coro : Completed(c) /\ at[c] \notin Done => parent[c] = None
  /\ \A x \in State : setting[x] => x \in Awaitable /\ Completed(x)
  /\ \A x \in State : scheduler[x] = None => parent[x] = None

(* A state is awaited by one coroutine, which is its parent and in the     *)
(* same scheduler.                                                         *)
Waits ==
  /\ \A c \in Coro : at[c] \in Waiting /\ target[c] \in State =>
       scheduler[target[c]] = scheduler[c]
  /\ \A c, d \in Coro :
       at[c] \in Waiting /\ at[d] \in Waiting /\ target[c] = target[d] /\ target[c] \in State
         => c = d
  /\ \A c \in Coro : at[c] \in Calling => target[c] \in State /\ target[c] # c
  /\ \A c \in Coro : at[c] \in Calling /\ target[c] \in Coro =>
       at[target[c]] = "new" /\ parent[target[c]] = None
  /\ \A c \in Coro : at[c] = "asleep" => target[c] \in State \union {Ticket(c)}
  /\ \A c \in Coro : at[c] = "asleep" /\ target[c] \in State =>
       parent[target[c]] = IF target[c] = c THEN None ELSE c
  /\ \A c \in Coro : at[c] = "asleep" /\ target[c] = c => Completed(c)
  /\ \A y, c \in Coro : parent[y] = c /\ at[y] \notin Done =>
       at[c] = "asleep" /\ target[c] = y

(* A state that is being started has been touched by nobody else, and a    *)
(* new coroutine that has a scheduler is on its way to its start.          *)
Launches ==
  /\ \A s \in Sched, x \in State : launching[s] = x =>
       /\ x \in Coro \union Bare /\ scheduler[x] = s /\ parent[x] = None
       /\ x \in Coro => at[x] = "new" /\ x \notin Held[s]
       /\ \A c \in Coro : at[c] \in Waiting => target[c] # x
  /\ \A c \in Coro, s \in Sched : at[c] = "new" /\ scheduler[c] = s =>
       launching[s] = c \/ c \in Held[s] \/ \E d \in Coro : at[d] \in Calling /\ target[d] = c

(* The callers of a coroutine come to an end. *)
Rooted ==
  \A S \in SUBSET Coro :
    S # {} /\ (\A c \in S : at[c] \notin Done) => \E c \in S : parent[c] \notin S

(* Whatever stands in a queue is of use there. *)
Queues ==
  /\ \A s \in Sched, x \in State : x \in Held[s] => scheduler[x] = s
  /\ \A s \in Sched, c \in Coro : Ticket(c) \in Held[s] =>
       /\ scheduler[c] = s /\ at[c] = "asleep" /\ target[c] = Ticket(c)
       /\ Ticket(c) \in Alone[s]
  /\ \A s \in Sched, a \in Awaitable : a \in Held[s] => Completed(a) /\ ~setting[a]
  /\ \A s \in Sched, c \in Coro : c \in Held[s] =>
       /\ at[c] \in {"new", "asleep"} \union Done
       /\ at[c] = "asleep" => target[c] = c
       /\ at[c] \in {"new", "asleep"} => c \in Alone[s]
  /\ \A s \in Sched, c \in Coro : at[c] \in Calling => target[c] \notin Held[s] \cap Coro

(* Whoever is due stands in a queue, and who is to be destroyed does so    *)
(* once more than the caller needs.                                        *)
Served ==
  /\ \A c \in Coro, s \in Sched :
       Due(c) /\ target[c] \notin Void \cap Awaitable /\ scheduler[c] = s => target[c] \in Held[s]
  /\ \A c \in Coro, s \in Sched : at[c] = "final" /\ scheduler[c] = s =>
       /\ c \in Held[s] /\ (coro[c] # None => c \in Twice[s])
       /\ stage[s] # "check"

(* A coroutine has a task until it returns, unless it has a caller. *)
Kept ==
  \A c \in Coro : at[c] \notin Done =>
    \A s \in Sched :
      c \in ready[s] <=>
        parent[c] = None /\ scheduler[c] = s /\ (at[c] = "new" => c \in Held[s])

Inv ==
  /\ TypeOK
  /\ Threads
  /\ Lives
  /\ OneHandle
  /\ Waits
  /\ Launches
  /\ Rooted
  /\ Queues
  /\ Served
  /\ Kept
-----------------------------------------------------------------------------
(* What a step does to the queues: one more at the end of that of s, one   *)
(* less at its front, or no change in what is to come.                     *)
Put(s, x) ==
  /\ \A r \in Sched, y \in Entry :
       /\ y \in Held'[r] <=> y \in Held[r] \/ (r = s /\ y = x)
       /\ y \in Twice[r] => y \in Twice'[r]
       /\ y \in Alone[r] /\ ~(r = s /\ y = x /\ y \in Held[s]) => y \in Alone'[r]
  /\ x \in Held[s] => x \in Twice'[s]
  /\ x \notin Held[s] => x \in Alone'[s]

Took(s, x) ==
  /\ x \in Held[s]
  /\ \A r \in Sched, y \in Entry :
       /\ y \in Held'[r] => y \in Held[r]
       /\ y \in Held[r] /\ ~(r = s /\ y = x) => y \in Held'[r]
       /\ y \in Alone[r] => y \in Alone'[r]
       /\ y \in Twice[r] /\ ~(r = s /\ y = x) => y \in Twice'[r]
  /\ x \in Alone[s] => x \notin Held'[s]
  /\ x \in Twice[s] => x \in Held'[s]

Still == Held' = Held /\ Alone' = Alone /\ Twice' = Twice

(* add_generator() puts an entry at the end. *)
LEMMA PutFacts ==
  ASSUME TypeOK, NEW s \in Sched, NEW x \in Entry, AddGenerator(s, x), UNCHANGED cached
  PROVE  Put(s, x)
<1>1. \A r \in Sched : cached[r] \in Seq(Entry) /\ running[r] \in Seq(Entry) /\ Pending(r) \in Seq(Entry)
  BY ConcatProperties DEF TypeOK, Pending
<1>2. \A r \in Sched : r # s => Pending(r)' = Pending(r)
  BY DEF AddGenerator, Pending, TypeOK
<1>3. Pending(s)' = Append(Pending(s), x)
  <2>1. running'[s] = Append(running[s], x)
    BY DEF AddGenerator, TypeOK
  <2> DEFINE u == cached[s]
             v == running[s]
  <2>2. u \in Seq(Entry) /\ v \in Seq(Entry)
    BY <1>1
  <2> HIDE DEF u, v
  <2>3. Append(u \o v, x) = u \o Append(v, x)
    BY <2>2
  <2> QED BY <2>1, <2>3 DEF Pending, u, v
<1>4. ASSUME NEW y \in Entry
      PROVE  /\ Stands(Pending(s)', y) <=> Stands(Pending(s), y) \/ y = x
             /\ Single(Pending(s), y) /\ ~(y = x /\ Stands(Pending(s), y)) => Single(Pending(s)', y)
             /\ Double(Pending(s), y) \/ (y = x /\ Stands(Pending(s), y)) => Double(Pending(s)', y)
  BY <1>1, <1>3, AtTheEnd
<1>5. ~Stands(Pending(s), x) => Single(Pending(s), x)
  BY DEF Stands, Single
<1> HIDE DEF Pending
<1>6. ASSUME NEW r \in Sched, NEW y \in Entry
      PROVE  y \in Held'[r] <=> y \in Held[r] \/ (r = s /\ y = x)
  BY <1>2, <1>4 DEF Held
<1>7. ASSUME NEW r \in Sched, NEW y \in Entry
      PROVE  /\ y \in Twice[r] => y \in Twice'[r]
             /\ y \in Alone[r] /\ ~(r = s /\ y = x /\ y \in Held[s]) => y \in Alone'[r]
  BY <1>2, <1>4 DEF Held, Alone, Twice
<1>8. x \in Held[s] => x \in Twice'[s]
  BY <1>4 DEF Held, Twice
<1>9. x \notin Held[s] => x \in Alone'[s]
  BY <1>4, <1>5 DEF Held, Alone
<1> QED BY <1>6, <1>7, <1>8, <1>9 DEF Put

(* run_one_batch() takes the first entry of the batch. *)
LEMMA TookFacts ==
  ASSUME TypeOK, NEW s \in Sched, cached[s] # <<>>,
         cached' = [cached EXCEPT ![s] = Tail(@)], UNCHANGED running
  PROVE  Head(cached[s]) \in Entry /\ Took(s, Head(cached[s]))
<1> DEFINE x == Head(cached[s])
<1>1. \A r \in Sched : cached[r] \in Seq(Entry) /\ running[r] \in Seq(Entry) /\ Pending(r) \in Seq(Entry)
  BY ConcatProperties DEF TypeOK, Pending
<1>2. \A r \in Sched : r # s => Pending(r)' = Pending(r)
  BY DEF Pending, TypeOK
<1>3. Pending(s) # <<>> /\ Head(Pending(s)) = x /\ Pending(s)' = Tail(Pending(s))
  <2>1. cached'[s] = Tail(cached[s]) /\ running'[s] = running[s]
    BY DEF TypeOK
  <2>2. /\ cached[s] \o running[s] # <<>> /\ Head(cached[s] \o running[s]) = x
        /\ Tail(cached[s] \o running[s]) = Tail(cached[s]) \o running[s]
    BY <1>1, FirstOfRow
  <2> QED BY <2>1, <2>2 DEF Pending
<1> HIDE DEF x
<1>4. ASSUME NEW y \in Entry
      PROVE  /\ x \in Entry /\ Stands(Pending(s), x)
             /\ Stands(Pending(s)', y) => Stands(Pending(s), y)
             /\ Stands(Pending(s), y) /\ y # x => Stands(Pending(s)', y)
             /\ Single(Pending(s), y) => Single(Pending(s)', y)
             /\ Double(Pending(s), y) /\ y # x => Double(Pending(s)', y)
             /\ Single(Pending(s), x) => ~Stands(Pending(s)', x)
             /\ Double(Pending(s), x) => Stands(Pending(s)', x)
  BY <1>1, <1>3, AtTheFront
<1>5. x \in Entry
  BY <1>1, HeadTailProperties DEF x
<1> HIDE DEF Pending
<1>6. ASSUME NEW r \in Sched, NEW y \in Entry
      PROVE  /\ y \in Held'[r] => y \in Held[r]
             /\ y \in Held[r] /\ ~(r = s /\ y = x) => y \in Held'[r]
             /\ y \in Alone[r] => y \in Alone'[r]
             /\ y \in Twice[r] /\ ~(r = s /\ y = x) => y \in Twice'[r]
  BY <1>2, <1>4 DEF Held, Alone, Twice
<1>7. x \in Held[s] /\ (x \in Alone[s] => x \notin Held'[s]) /\ (x \in Twice[s] => x \in Held'[s])
  BY <1>4, <1>5 DEF Held, Alone, Twice
<1> QED BY <1>5, <1>6, <1>7 DEF Took, x

(* The queues stay, and so they do when run_one_batch() takes a batch. *)
LEMMA StillFacts ==
  ASSUME TypeOK,
         \/ UNCHANGED <<running, cached>>
         \/ \E s \in Sched : TakeBatch(s)
  PROVE  Still
<1>1. CASE UNCHANGED <<running, cached>>
  BY <1>1 DEF Still, Held, Alone, Twice, Pending
<1>2. ASSUME NEW s \in Sched, TakeBatch(s) PROVE Still
  <2>1. ASSUME NEW r \in Sched PROVE Pending(r)' = Pending(r)
    <3>1. CASE r = s
      <4>1. running[s] \in Seq(Entry)
        BY DEF TypeOK
      <4>2. running[s] \o <<>> = running[s] /\ <<>> \o running[s] = running[s]
        BY <4>1, ConcatEmptySeq
      <4>3. cached[s] = <<>> /\ cached'[s] = running[s] /\ running'[s] = <<>>
        BY <1>2 DEF TakeBatch, TypeOK
      <4> QED BY <3>1, <4>2, <4>3 DEF Pending
    <3>2. CASE r # s
      BY <1>2, <3>2 DEF TakeBatch, TypeOK, Pending
    <3> QED BY <3>1, <3>2
  <2> HIDE DEF Pending
  <2> QED BY <2>1 DEF Still, Held, Alone, Twice
<1> QED BY <1>1, <1>2
-----------------------------------------------------------------------------
(* The initial states satisfy the invariant. *)
LEMMA InitInv == Init => Inv
<1> SUFFICES ASSUME Init PROVE Inv
  OBVIOUS
<1>1. TypeOK
  BY DEF Init, TypeOK, Where, Entry, State
<1>2. \A s \in Sched : Held[s] = {}
  <2>1. ASSUME NEW s \in Sched PROVE Len(Pending(s)) = 0
    <3>1. running[s] = <<>> /\ cached[s] = <<>>
      BY DEF Init
    <3>2. <<>> \o <<>> = <<>>
      OBVIOUS
    <3> QED BY <3>1, <3>2 DEF Pending
  <2>2. \A s \in Sched, x \in Entry : ~Stands(Pending(s), x)
    BY <2>1 DEF Stands
  <2> QED BY <2>2 DEF Held
<1> QED
  BY <1>1, <1>2, NoneAssumption
     DEF Init, Inv, Threads, Lives, OneHandle, Waits, Launches, Rooted, Queues, Served, Kept,
         InCode, Calling, Waiting, Done, Due, Completed, State

(* What add_generator() leaves is a queue again. *)
LEMMA AddType ==
  ASSUME TypeOK, NEW s, NEW x \in Entry, AddGenerator(s, x)
  PROVE  running' \in [Sched -> Seq(Entry)]
<1>1. \A r \in Sched : Append(running[r], x) \in Seq(Entry)
  BY AppendProperties DEF TypeOK
<1> QED BY <1>1 DEF AddGenerator, TypeOK

(* The types without those of the queues. *)
Fields ==
  /\ stage \in [Sched -> {"user", "loop", "check"}] /\ on \in [Sched -> Coro \union {None}]
  /\ launching \in [Sched -> State \union {None}]
  /\ scheduler \in [State -> Sched \union {None}]
  /\ coro \in [State -> Coro \union {None}] /\ parent \in [State -> Coro \union {None}]
  /\ initor \in [State -> {"None", "Initial", "Final"}]
  /\ hasValue \in [State -> {"None", "Value", "Exception"}]
  /\ exception \in [State -> BOOLEAN] /\ setting \in [State -> BOOLEAN]
  /\ at \in [Coro -> Where] /\ target \in [Coro -> Entry \union {None}]

LEMMA FieldTypes == TypeOK => Fields
  BY DEF TypeOK, Fields

(* A new entry is one of the known states. *)
LEMMA Entries ==
  /\ State \subseteq Entry /\ Coro \subseteq State /\ Awaitable \subseteq State
  /\ \A c \in Coro : Ticket(c) \in Entry
  BY DEF State, Entry

(* set_value() queues the state or ends the task, and nothing else. *)
LEMMA DeliverType ==
  ASSUME TypeOK, NEW x \in State, Deliver(x)
  PROVE  running' \in [Sched -> Seq(Entry)] /\ ready' \in [Sched -> SUBSET State]
<1>1. CASE AddGenerator(scheduler[x], x) /\ UNCHANGED ready
  BY <1>1, AddType, Entries DEF TypeOK
<1>2. CASE DelFinal(scheduler[x], x) /\ UNCHANGED running
  BY <1>2 DEF DelFinal, TypeOK
<1>3. CASE UNCHANGED <<running, ready>>
  BY <1>3 DEF TypeOK
<1> QED BY <1>1, <1>2, <1>3 DEF Deliver

(* Every step keeps the types. *)
LEMMA NextType == Inv /\ Next => TypeOK'
<1> SUFFICES ASSUME Inv, Next PROVE TypeOK'
  OBVIOUS
<1> USE DEF Inv, TypeOK, Where, threads, queues, states, Goes, Leave, Store, DelFinal
<1>1. ASSUME NEW a \in Awaitable, NEW how \in Result, SetBegin(a, how) PROVE TypeOK'
  <2>1. a \in State /\ setting' = [setting EXCEPT ![a] = TRUE]
        /\ UNCHANGED <<stage, on, launching, running, cached, ready, scheduler, coro, parent,
                       initor, at, target>>
    BY <1>1 DEF SetBegin, State
  <2>2. \/ a \in Void /\ exception' = [exception EXCEPT ![a] = TRUE] /\ UNCHANGED hasValue
        \/ hasValue' = [hasValue EXCEPT ![a] = how] /\ UNCHANGED exception
    BY <1>1 DEF SetBegin
  <2>3. hasValue' \in [State -> {"None", "Value", "Exception"}]
    BY <2>1, <2>2 DEF Result
  <2>4. exception' \in [State -> BOOLEAN] /\ \A x \in State : exception'[x] => x \in Void
    BY <2>1, <2>2
  <2> QED BY <2>1, <2>3, <2>4
<1>2. ASSUME NEW a \in Awaitable, SetEnd(a) PROVE TypeOK'
  BY <1>2, DeliverType, Entries DEF SetEnd
<1>3. ASSUME NEW s \in Sched, NEW x \in State, Launch(s, x) PROVE TypeOK'
  BY <1>3 DEF Launch
<1>4. ASSUME NEW s \in Sched, Emplace(s) PROVE TypeOK'
  BY <1>4, AddType, Entries DEF Emplace
<1>5. ASSUME NEW s \in Sched, NEW c \in Coro, NEW x \in State, AwaitTransform(s, c, x) PROVE TypeOK'
  BY <1>5, Entries DEF AwaitTransform
<1>6. ASSUME NEW s \in Sched, NEW c \in Coro, AwaitReady(s, c) PROVE TypeOK'
  BY <1>6 DEF AwaitReady
<1>7. ASSUME NEW s \in Sched, NEW c \in Coro, AwaitSuspend(s, c) PROVE TypeOK'
  <2>1. target[c] \in State /\ target[c] \in Entry
    BY <1>7, Entries DEF AwaitSuspend, Waits, Calling
  <2>2. running' \in [Sched -> Seq(Entry)]
    BY <1>7, <2>1, AddType DEF AwaitSuspend
  <2> QED BY <1>7, <2>1, <2>2, Entries DEF AwaitSuspend
<1>8. ASSUME NEW s \in Sched, NEW c \in Coro, Yield(s, c) PROVE TypeOK'
  BY <1>8, AddType, Entries DEF Yield
<1>9. ASSUME NEW s \in Sched, NEW c \in Coro, CoYield(s, c) PROVE TypeOK'
  BY <1>9, AddType, Entries DEF CoYield
<1>10. ASSUME NEW s \in Sched, NEW c \in Coro, NEW t \in Sched, SwitchBegin(s, c, t) PROVE TypeOK'
  BY <1>10 DEF SwitchBegin, MoveTasks, Movers, Chain, State
<1>11. ASSUME NEW s \in Sched, NEW c \in Coro, SwitchEnd(s, c) PROVE TypeOK'
  BY <1>11, AddType, Entries DEF SwitchEnd
<1>12. ASSUME NEW s \in Sched, NEW c \in Coro, NEW how \in Result, Return(s, c, how) PROVE TypeOK'
  <2>1. running' \in [Sched -> Seq(Entry)] /\ ready' \in [Sched -> SUBSET State]
    BY <1>12, DeliverType, Entries DEF Return
  <2>2. /\ hasValue' \in [State -> {"None", "Value", "Exception"}]
        /\ exception' \in [State -> BOOLEAN] /\ \A x \in State : exception'[x] => x \in Void
    <3>1. c \in State /\ how \in {"Value", "Exception"} /\ Store(c, how)
      BY <1>12, Entries DEF Return, Result
    <3>2. CASE c \in Void /\ how = "Exception"
      BY <3>1, <3>2
    <3>3. CASE ~(c \in Void /\ how = "Exception")
      <4>1. hasValue' = [hasValue EXCEPT ![c] = how] /\ UNCHANGED exception
        BY <3>1, <3>3
      <4> QED BY <3>1, <4>1
    <3> QED BY <3>2, <3>3
  <2> QED BY <1>12, <2>1, <2>2 DEF Return
<1>13. ASSUME NEW s \in Sched, NEW c \in Coro, FinalSuspend(s, c) PROVE TypeOK'
  BY <1>13, AddType, Entries DEF FinalSuspend
<1>14. ASSUME NEW s \in Sched, Start(s) \/ NoBatch(s) \/ CheckTasks(s) PROVE TypeOK'
  BY <1>14 DEF Start, NoBatch, CheckTasks
<1>15. ASSUME NEW s \in Sched, TakeBatch(s) PROVE TypeOK'
  BY <1>15 DEF TakeBatch
<1>16. ASSUME NEW s \in Sched, Resume(s) PROVE TypeOK'
  <2>1. Tail(cached[s]) \in Seq(Entry)
    BY <1>16, HeadTailProperties DEF Resume
  <2> DEFINE x == Head(cached[s])
  <2>2. cached' \in [Sched -> Seq(Entry)]
    BY <1>16, <2>1 DEF Resume
  <2> HIDE DEF x
  <2>3. /\ on' \in [Sched -> Coro \union {None}] /\ UNCHANGED <<stage, launching>>
        /\ coro' \in [State -> Coro \union {None}]
        /\ initor' \in [State -> {"None", "Initial", "Final"}]
        /\ at' \in [Coro -> Where]
    <3>1. ASSUME NEW c \in Coro, Enter(s, c), UNCHANGED <<coro, initor>> PROVE <2>3
      BY <3>1 DEF Enter
    <3>2. CASE x \in State /\ initor[x] = "Initial" /\ initor' = [initor EXCEPT ![x] = "None"]
               /\ Enter(s, x) /\ UNCHANGED coro
      BY <3>2, Entries DEF Enter, Lives
    <3>3. CASE x \in State /\ coro[x] # None /\ Continue(s, x) /\ UNCHANGED initor
      BY <3>3 DEF Enter, Continue
    <3>4. CASE x \in State /\ initor[x] = "Final" /\ initor' = [initor EXCEPT ![x] = "None"]
               /\ Goes(x, "gone") /\ UNCHANGED <<threads, coro>>
      BY <3>4 DEF Lives
    <3>5. CASE UNCHANGED <<threads, coro, initor, at>>
      BY <3>5
    <3> QED BY <1>16, <3>1, <3>2, <3>3, <3>4, <3>5 DEF Resume, x
  <2> QED BY <1>16, <2>2, <2>3 DEF Resume
<1> QED
  BY <1>1, <1>2, <1>3, <1>4, <1>5, <1>6, <1>7, <1>8, <1>9, <1>10, <1>11, <1>12, <1>13, <1>14,
     <1>15, <1>16 DEF Next, CoroStep, SchedStep
-----------------------------------------------------------------------------
(* A coroutine whose code a thread is in belongs to the scheduler of that  *)
(* thread, until it moves.                                                 *)
LEMMA OnItsThread ==
  ASSUME Inv, NEW s \in Sched, NEW c \in Coro, In(s, c)
  PROVE  /\ at[c] \in InCode /\ on[s] = c /\ launching[s] = None /\ stage[s] = "loop"
         /\ at[c] # "switching" => scheduler[c] = s
         /\ scheduler[c] \in Sched
         /\ \A r \in Sched : on[r] = c => r = s
<1>1. on[s] = c /\ launching[s] = None /\ c # None
  BY NoneAssumption DEF In, State
<1>2. at[c] \in InCode /\ (at[c] # "switching" => scheduler[c] = s) /\ stage[s] = "loop"
      /\ \A r \in Sched : on[r] = c => r = s
  BY <1>1 DEF Inv, Threads
<1>3. scheduler[c] \in Sched
  BY <1>2, Entries DEF Inv, Lives, TypeOK, InCode
<1> QED BY <1>1, <1>2, <1>3

(* What Deliver does to the queues. *)
LEMMA DeliverFacts ==
  ASSUME TypeOK, NEW x \in State, Deliver(x), UNCHANGED cached
  PROVE  \/ /\ scheduler[x] \in Sched /\ HasHandler(x)
            /\ Put(scheduler[x], x) /\ UNCHANGED ready
         \/ /\ scheduler[x] \in Sched /\ ~HasHandler(x)
            /\ Still /\ DelFinal(scheduler[x], x)
         \/ /\ scheduler[x] = None /\ Still /\ UNCHANGED ready
<1>1. scheduler[x] \in Sched \union {None}
  BY DEF TypeOK
<1>2. CASE scheduler[x] # None /\ HasHandler(x) /\ AddGenerator(scheduler[x], x) /\ UNCHANGED ready
  BY <1>1, <1>2, PutFacts, Entries
<1>3. CASE scheduler[x] # None /\ ~HasHandler(x) /\ DelFinal(scheduler[x], x) /\ UNCHANGED running
  BY <1>1, <1>3, StillFacts
<1>4. CASE scheduler[x] = None /\ UNCHANGED <<running, ready>>
  BY <1>4, StillFacts
<1> QED BY <1>2, <1>3, <1>4 DEF Deliver

(* What run_one_batch() and resume() do with the next entry. *)
GoesOn(s, x, c) ==
  /\ x = Ticket(c) /\ at[c] = "asleep" /\ target[c] = x /\ scheduler[c] = s /\ x \in Alone[s]
  /\ Enter(s, c) /\ UNCHANGED <<coro, initor>>

Starts(s, x) ==
  /\ x \in Coro /\ at[x] = "new" /\ scheduler[x] = s /\ x \in Alone[s]
  /\ initor' = [initor EXCEPT ![x] = "None"]
  /\ Enter(s, x) /\ UNCHANGED coro

Continues(s, x, c) ==
  /\ x \in State /\ coro[x] = c /\ at[c] = "asleep" /\ target[c] = x
  /\ scheduler[x] = s /\ scheduler[c] = s
  /\ Completed(x)
  /\ x \in Coro /\ x # c => at[x] \in Done
  /\ x = c => x \in Alone[s]
  /\ coro' = [coro EXCEPT ![x] = None]
  /\ Enter(s, c) /\ UNCHANGED initor

Destroys(s, x) ==
  /\ x \in Coro /\ at[x] = "final" /\ coro[x] = None /\ scheduler[x] = s
  /\ initor' = [initor EXCEPT ![x] = "None"]
  /\ Goes(x, "gone")
  /\ UNCHANGED <<threads, coro>>

Skips(s, x) ==
  /\ x \in State /\ coro[x] = None /\ initor[x] = "None" /\ scheduler[x] = s
  /\ UNCHANGED <<threads, coro, initor, at>>

Resumed(s, x) ==
  /\ Took(s, x) /\ stage[s] = "loop" /\ on[s] = None /\ launching[s] = None
  /\ UNCHANGED <<running, ready, scheduler, parent, hasValue, exception, setting, target,
                 stage, launching>>
  /\ \/ \E c \in Coro : GoesOn(s, x, c) \/ Continues(s, x, c)
     \/ Starts(s, x) \/ Destroys(s, x) \/ Skips(s, x)

(* What resume() finds in the queue: a coroutine to go on with or start,  *)
(* one to destroy, or nothing any more.                                    *)
LEMMA ResumeFacts ==
  ASSUME Inv, NEW s \in Sched, Resume(s)
  PROVE  \E x \in Entry : Resumed(s, x)
<1> USE DEF Resumed
<1> DEFINE x == Head(cached[s])
<1>1. x \in Entry /\ Took(s, x)
  BY TookFacts DEF Resume, Inv
<1> HIDE DEF x
<1>2. stage[s] = "loop" /\ on[s] = None /\ launching[s] = None /\ x \in Held[s]
  BY <1>1 DEF Resume, AtLoop, Inv, Threads, Took
<1>3. UNCHANGED <<running, ready, scheduler, parent, hasValue, exception, setting, target,
                  stage, launching>>
  BY DEF Resume, Enter, Continue, threads
<1>4. ASSUME NEW c \in Coro, x = Ticket(c), Enter(s, c), UNCHANGED <<coro, initor>>
      PROVE  GoesOn(s, x, c)
  BY <1>2, <1>4 DEF Inv, Queues, GoesOn
<1>5. x \in State => scheduler[x] = s /\ (x \in Coro \/ x \in Awaitable)
  BY <1>2 DEF Inv, Queues, State
<1>6. CASE /\ x \in State /\ initor[x] = "Initial" /\ initor' = [initor EXCEPT ![x] = "None"]
           /\ Enter(s, x) /\ UNCHANGED coro
  <2>1. x \in Coro /\ at[x] = "new"
    BY <1>6 DEF Inv, Lives
  <2>2. x \in Alone[s]
    BY <1>2, <2>1 DEF Inv, Queues
  <2>3. Starts(s, x)
    BY <1>5, <1>6, <2>1, <2>2 DEF Starts
  <2> QED BY <1>1, <1>2, <1>3, <2>3
<1>7. CASE x \in State /\ initor[x] # "Initial" /\ coro[x] # None /\ Continue(s, x) /\ UNCHANGED initor
  <2> DEFINE c == coro[x]
  <2>1. c \in Coro /\ at[c] = "asleep" /\ target[c] = x
    BY <1>7 DEF Inv, OneHandle, TypeOK
  <2>2. scheduler[c] = s
    BY <1>5, <1>7, <2>1 DEF Inv, Waits, Waiting
  <2>3. x \in Coro => at[x] # "new"
    BY <1>7 DEF Inv, Lives
  <2>4. x \in Coro => /\ at[x] = "asleep" \/ at[x] \in Done
                      /\ at[x] = "asleep" => target[x] = x /\ x \in Alone[s]
    BY <1>2, <2>3 DEF Inv, Queues
  <2>5. x \in Coro /\ at[x] = "asleep" => x = c
    BY <1>7, <2>4 DEF Inv, OneHandle
  <2>6. x = c => x \in Alone[s]
    BY <2>1, <2>4
  <2>7. x \in Coro /\ x # c => at[x] \in Done
    BY <2>4, <2>5
  <2>8. Completed(x)
    <3>1. CASE x \in Awaitable
      BY <1>2, <3>1 DEF Inv, Queues
    <3>2. CASE x \in Coro /\ x # c
      BY <2>7, <3>2 DEF Inv, Lives
    <3>3. CASE x = c
      BY <2>1, <3>3 DEF Inv, Waits
    <3> QED BY <1>5, <1>7, <3>1, <3>2, <3>3
  <2>9. Continues(s, x, c)
    BY <1>5, <1>7, <2>1, <2>2, <2>6, <2>7, <2>8 DEF Continue, Continues
  <2> QED BY <1>1, <1>2, <1>3, <2>1, <2>9
<1>8. CASE /\ x \in State /\ initor[x] = "Final" /\ coro[x] = None
           /\ initor' = [initor EXCEPT ![x] = "None"]
           /\ Goes(x, "gone") /\ UNCHANGED <<threads, coro>>
  BY <1>1, <1>2, <1>3, <1>5, <1>8 DEF Inv, Lives, Destroys
<1>9. CASE /\ x \in State /\ initor[x] = "None" /\ coro[x] = None
           /\ UNCHANGED <<threads, coro, initor, at>>
  BY <1>1, <1>2, <1>3, <1>5, <1>9 DEF Skips
<1> QED
  BY <1>1, <1>2, <1>3, <1>4, <1>6, <1>7, <1>8, <1>9 DEF Resume, x
-----------------------------------------------------------------------------
(* Who moves with a coroutine: its callers, all of them asleep, each in    *)
(* the next, and all in the scheduler of the coroutine.                    *)
LEMMA ChainFacts ==
  ASSUME Inv, NEW s \in Sched, NEW c \in Coro, NEW t \in Sched, In(s, c), at[c] = "run",
         scheduler[c] # t
  PROVE  /\ c \in Movers(c, t) /\ Movers(c, t) \subseteq Coro
         /\ \A y \in Movers(c, t) :
              /\ at[y] \notin Done \union {"new"} /\ scheduler[y] = s
              /\ parent[y] # None => parent[y] \in Movers(c, t)
              /\ y # c => /\ at[y] = "asleep" /\ target[y] \in Movers(c, t)
                          /\ target[y] # y /\ parent[target[y]] = y
<1> USE DEF Inv
<1>1. scheduler[c] = s
  BY OnItsThread
<1> DEFINE K == {y \in Coro : at[y] \notin Done \union {"new"} /\ scheduler[y] = s}
<1>2. c \in K
  BY <1>1 DEF Done
<1>3. \A z \in K : parent[z] # None => parent[z] \in K
  <2> SUFFICES ASSUME NEW z \in K, parent[z] # None PROVE parent[z] \in K
    OBVIOUS
  <2>1. parent[z] \in Coro
    BY Entries DEF TypeOK
  <2>2. at[parent[z]] = "asleep" /\ target[parent[z]] = z
    BY <2>1 DEF Waits
  <2>3. scheduler[parent[z]] = s
    BY <2>1, <2>2, Entries DEF Waits, Waiting
  <2> QED BY <2>1, <2>2, <2>3 DEF Done
<1>4. Chain(c, t) \subseteq K /\ Chain(c, t) \subseteq Coro
  <2>1. K \in SUBSET Coro
    OBVIOUS
  <2> HIDE DEF K
  <2> QED BY <2>1, <1>2, <1>3 DEF Chain
<1>5. Movers(c, t) = Chain(c, t)
  BY <1>1, <1>4 DEF Movers
<1>6. c \in Chain(c, t)
  BY DEF Chain
<1>7. ASSUME NEW y \in Chain(c, t), parent[y] # None PROVE parent[y] \in Chain(c, t)
  <2>1. parent[y] \in Coro /\ scheduler[y] # t
    BY <1>1, <1>4, <1>7, Entries DEF TypeOK
  <2> QED BY <2>1, <1>7 DEF Chain
<1>8. ASSUME NEW y \in Chain(c, t), y # c
      PROVE  /\ at[y] = "asleep" /\ target[y] \in Chain(c, t)
             /\ target[y] # y /\ parent[target[y]] = y
  <2> DEFINE S == Chain(c, t) \ {y}
  <2>1. S \in SUBSET Coro /\ c \in S /\ y \notin S
    BY <1>4, <1>6, <1>8
  <2>2. PICK z \in S : scheduler[z] # t /\ parent[z] # None /\ parent[z] \notin S
    <3> HIDE DEF S
    <3> QED BY <2>1, <1>8 DEF Chain
  <2>3. parent[z] = y
    BY <1>7, <2>2
  <2>4. z \in Coro /\ y \in Coro /\ at[z] \notin Done
    BY <1>4
  <2>5. at[y] = "asleep" /\ target[y] = z
    BY <2>3, <2>4 DEF Waits
  <2> QED BY <2>2, <2>3, <2>5
<1> QED BY <1>1, <1>4, <1>5, <1>6, <1>7, <1>8

(* Every step keeps the threads apart. *)
LEMMA NextThreads == Inv /\ Next => Threads'
<1> SUFFICES ASSUME Inv, Next PROVE Threads'
  OBVIOUS
<1> USE DEF Inv, Threads, threads, queues, states, Goes, Leave, InCode
<1> DEFINE Own == \A c \in Coro : at[c] \in InCode => scheduler[c] # None
<1>0. TypeOK /\ Own /\ \A c \in Coro : c # None /\ c \in State
  BY NoneAssumption, Entries DEF Lives
<1> HIDE DEF Own
<1>1. ASSUME NEW a \in Awaitable, NEW how \in Result, SetBegin(a, how) PROVE Threads'
  BY <1>1 DEF SetBegin
<1>2. ASSUME NEW a \in Awaitable, SetEnd(a) PROVE Threads'
  BY <1>2 DEF SetEnd
<1>3. ASSUME NEW s \in Sched, NEW x \in State, Launch(s, x) PROVE Threads'
  BY <1>3, <1>0 DEF Launch, TypeOK, Own
<1>4. ASSUME NEW s \in Sched, Emplace(s) PROVE Threads'
  BY <1>4, <1>0 DEF Emplace, TypeOK
<1>5. ASSUME NEW s \in Sched, NEW c \in Coro, NEW x \in State, AwaitTransform(s, c, x)
   PROVE Threads'
  BY <1>5, <1>0 DEF AwaitTransform, In, TypeOK, Own
<1>6. ASSUME NEW s \in Sched, NEW c \in Coro, AwaitReady(s, c) PROVE Threads'
  BY <1>6, <1>0 DEF AwaitReady, In, TypeOK
<1>7. ASSUME NEW s \in Sched, NEW c \in Coro, AwaitSuspend(s, c) PROVE Threads'
  <2>1. scheduler' = scheduler
    BY <1>7, <1>0 DEF AwaitSuspend, Waits, Calling, Waiting, TypeOK
  <2> QED BY <1>7, <2>1, <1>0 DEF AwaitSuspend, In, TypeOK
<1>8. ASSUME NEW s \in Sched, NEW c \in Coro, Yield(s, c) PROVE Threads'
  BY <1>8, <1>0 DEF Yield, In, TypeOK
<1>9. ASSUME NEW s \in Sched, NEW c \in Coro, CoYield(s, c) PROVE Threads'
  BY <1>9, <1>0 DEF CoYield, In, TypeOK
<1>10. ASSUME NEW s \in Sched, NEW c \in Coro, NEW t \in Sched, SwitchBegin(s, c, t)
   PROVE Threads'
  <2>1. \A y \in Coro : y # c /\ scheduler'[y] # scheduler[y] => at[y] = "asleep"
    BY <1>10, ChainFacts, Entries DEF SwitchBegin
  <2>2. UNCHANGED threads /\ at' = [at EXCEPT ![c] = "switching"] /\ on[s] = c
    BY <1>10 DEF SwitchBegin, In
  <2>3. at \in [Coro -> Where] /\ Threads
    BY <1>0 DEF TypeOK
  <2> HIDE DEF Inv
  <2> QED BY <2>1, <2>2, <2>3, <1>0
<1>11. ASSUME NEW s \in Sched, NEW c \in Coro, SwitchEnd(s, c) PROVE Threads'
  BY <1>11, <1>0 DEF SwitchEnd, In, TypeOK
<1>12. ASSUME NEW s \in Sched, NEW c \in Coro, NEW how \in Result, Return(s, c, how)
   PROVE Threads'
  BY <1>12, <1>0 DEF Return, In, TypeOK
<1>13. ASSUME NEW s \in Sched, NEW c \in Coro, FinalSuspend(s, c) PROVE Threads'
  BY <1>13, <1>0 DEF FinalSuspend, In, TypeOK
<1>14. ASSUME NEW s \in Sched, Start(s) PROVE Threads'
  BY <1>14, <1>0 DEF Start, TypeOK
<1>15. ASSUME NEW s \in Sched, TakeBatch(s) PROVE Threads'
  BY <1>15 DEF TakeBatch
<1>16. ASSUME NEW s \in Sched, NoBatch(s) PROVE Threads'
  BY <1>16, <1>0 DEF NoBatch, AtLoop, TypeOK
<1>17. ASSUME NEW s \in Sched, CheckTasks(s) PROVE Threads'
  BY <1>17, <1>0 DEF CheckTasks, TypeOK
<1>18. ASSUME NEW s \in Sched, Resume(s) PROVE Threads'
  <2>1. PICK x \in Entry : Resumed(s, x)
    BY <1>18, ResumeFacts
  <2> USE DEF Resumed
  <2>2. ASSUME NEW c \in Coro, at[c] \notin InCode, scheduler[c] = s, Enter(s, c) PROVE Threads'
    BY <2>1, <2>2, <1>0, NoneAssumption, Entries DEF Enter, TypeOK
  <2>3. CASE Destroys(s, x)
    BY <2>1, <2>3, <1>0 DEF Destroys, TypeOK
  <2>4. CASE Skips(s, x)
    BY <2>1, <2>4 DEF Skips
  <2> QED BY <2>1, <2>2, <2>3, <2>4 DEF GoesOn, Continues, Starts
<1> QED
  BY <1>1, <1>2, <1>3, <1>4, <1>5, <1>6, <1>7, <1>8, <1>9, <1>10, <1>11, <1>12, <1>13,
     <1>14, <1>15, <1>16, <1>17, <1>18 DEF Next, CoroStep, SchedStep

(* Every step keeps the fields of a state in step with its coroutine. *)
LEMMA NextLives == Inv /\ Next => Lives'
<1> SUFFICES ASSUME Inv, Next PROVE Lives'
  OBVIOUS
<1> USE DEF Inv, Lives, threads, queues, states, Goes, Leave, Completed
<1>0. /\ Fields /\ Coro \subseteq State /\ Awaitable \subseteq State /\ Coro \cap Awaitable = {}
      /\ \A c \in Coro : c # None
  BY NoneAssumption, NamesAssumption, Entries, FieldTypes
<1>1. ASSUME NEW a \in Awaitable, NEW how \in Result, SetBegin(a, how) PROVE Lives'
  BY <1>1, <1>0 DEF SetBegin, Store, Fields, Result
<1>2. ASSUME NEW a \in Awaitable, SetEnd(a) PROVE Lives'
  BY <1>2, <1>0 DEF SetEnd, Fields
<1>3. ASSUME NEW s \in Sched, NEW x \in State, Launch(s, x) PROVE Lives'
  BY <1>3, <1>0, NoneAssumption DEF Launch, Fields
<1>4. ASSUME NEW s \in Sched, Emplace(s) \/ Start(s) \/ TakeBatch(s) \/ NoBatch(s) \/
   CheckTasks(s) PROVE Lives'
  BY <1>4, <1>0 DEF Emplace, Start, TakeBatch, NoBatch, CheckTasks, Fields
<1>5. ASSUME NEW s \in Sched, NEW c \in Coro, NEW x \in State, AwaitTransform(s, c, x)
   PROVE Lives'
  <2>1. scheduler[c] \in Sched /\ scheduler[c] # None
    BY <1>5, OnItsThread, NoneAssumption DEF AwaitTransform
  <2> QED BY <1>5, <1>0, <2>1 DEF AwaitTransform, Fields, Done
<1>6. ASSUME NEW s \in Sched, NEW c \in Coro, AwaitReady(s, c) PROVE Lives'
  BY <1>6, <1>0 DEF AwaitReady, Fields, Done
<1>7. ASSUME NEW s \in Sched, NEW c \in Coro, AwaitSuspend(s, c) PROVE Lives'
  <2>1. /\ scheduler[c] \in Sched /\ scheduler[c] # None /\ target[c] \in State
        /\ target[c] \in Coro => at[target[c]] = "new"
    BY <1>7, OnItsThread, NoneAssumption DEF AwaitSuspend, Waits, Calling
  <2> QED BY <1>7, <1>0, <2>1 DEF AwaitSuspend, Fields, Done
<1>8. ASSUME NEW s \in Sched, NEW c \in Coro, Yield(s, c) \/ SwitchEnd(s, c) PROVE
   Lives'
  BY <1>8, <1>0 DEF Yield, SwitchEnd, Fields, Done
<1>9. ASSUME NEW s \in Sched, NEW c \in Coro, CoYield(s, c) PROVE Lives'
  BY <1>9, <1>0 DEF CoYield, Fields, Done
<1>10. ASSUME NEW s \in Sched, NEW c \in Coro, NEW t \in Sched, SwitchBegin(s, c, t)
   PROVE Lives'
  BY <1>10, <1>0, NoneAssumption DEF SwitchBegin, Fields, Done
<1>11. ASSUME NEW s \in Sched, NEW c \in Coro, NEW how \in Result, Return(s, c, how)
   PROVE Lives'
  BY <1>11, <1>0 DEF Return, Store, Fields, Done, Result
<1>12. ASSUME NEW s \in Sched, NEW c \in Coro, FinalSuspend(s, c) PROVE Lives'
  BY <1>12, <1>0 DEF FinalSuspend, Fields, Done
<1>13. ASSUME NEW s \in Sched, Resume(s) PROVE Lives'
  <2>1. PICK x \in Entry : Resumed(s, x)
    BY <1>13, ResumeFacts
  <2> USE DEF Resumed
  <2>2. ASSUME NEW c \in Coro, GoesOn(s, x, c) PROVE Lives'
    BY <1>0, <2>1, <2>2 DEF GoesOn, Enter, Fields, Done
  <2>3. ASSUME NEW c \in Coro, Continues(s, x, c) PROVE Lives'
    BY <1>0, <2>1, <2>3 DEF Continues, Enter, Fields, Done
  <2>4. CASE Starts(s, x)
    BY <1>0, <2>1, <2>4, NoneAssumption DEF Starts, Enter, Fields, Done
  <2>5. CASE Destroys(s, x)
    BY <1>0, <2>1, <2>5 DEF Destroys, Fields, Done
  <2>6. CASE Skips(s, x)
    BY <1>0, <2>1, <2>6 DEF Skips
  <2> QED BY <2>1, <2>2, <2>3, <2>4, <2>5, <2>6
<1> QED
  BY <1>1, <1>2, <1>3, <1>4, <1>5, <1>6, <1>7, <1>8, <1>9, <1>10, <1>11, <1>12, <1>13
     DEF Next, CoroStep, SchedStep

(* Every step keeps a handle where its coroutine waits. *)
LEMMA NextOneHandle == Inv /\ Next => OneHandle'
<1> SUFFICES ASSUME Inv, Next PROVE OneHandle'
  OBVIOUS
<1> USE DEF Inv, OneHandle, threads, queues, states, Goes, Leave
<1>0. /\ Fields /\ Coro \subseteq State
      /\ \A c \in Coro : c # None /\ Ticket(c) \notin State
  BY NoneAssumption, NamesAssumption, Entries, FieldTypes
<1>1. ASSUME NEW a \in Awaitable, NEW how \in Result, SetBegin(a, how) PROVE OneHandle'
  BY <1>1 DEF SetBegin
<1>2. ASSUME NEW a \in Awaitable, SetEnd(a) PROVE OneHandle'
  BY <1>2 DEF SetEnd
<1>3. ASSUME NEW s \in Sched, NEW x \in State, Launch(s, x) PROVE OneHandle'
  BY <1>3 DEF Launch
<1>4. ASSUME NEW s \in Sched, Emplace(s) \/ Start(s) \/ TakeBatch(s) \/ NoBatch(s) \/
   CheckTasks(s) PROVE OneHandle'
  BY <1>4 DEF Emplace, Start, TakeBatch, NoBatch, CheckTasks
<1>5. ASSUME NEW s \in Sched, NEW c \in Coro, NEW x \in State, AwaitTransform(s, c, x)
   PROVE OneHandle'
  BY <1>5, <1>0 DEF AwaitTransform, Fields
<1>6. ASSUME NEW s \in Sched, NEW c \in Coro, AwaitReady(s, c) PROVE OneHandle'
  BY <1>6, <1>0 DEF AwaitReady, Fields
<1>7. ASSUME NEW s \in Sched, NEW c \in Coro, AwaitSuspend(s, c) PROVE OneHandle'
  <2> DEFINE x == target[c]
  <2>1. x \in State /\ \A d \in Coro : at[d] = "asleep" => target[d] # x
    BY <1>7 DEF AwaitSuspend, Waits, Calling, Waiting
  <2>2. coro[x] = None
    BY <1>0, <2>1 DEF Fields
  <2> HIDE DEF x
  <2>3. /\ at[c] = "suspends" /\ coro' = [coro EXCEPT ![x] = c]
        /\ at' = [at EXCEPT ![c] = "asleep"] /\ UNCHANGED target
    BY <1>7, <1>0, <2>1, <2>2 DEF AwaitSuspend, Fields, x
  <2>4. target[c] = x
    BY DEF x
  <2> QED BY <1>0, <2>1, <2>2, <2>3, <2>4 DEF Fields
<1>8. ASSUME NEW s \in Sched, NEW c \in Coro, Yield(s, c) \/ SwitchEnd(s, c) PROVE
   OneHandle'
  BY <1>8, <1>0 DEF Yield, SwitchEnd, Fields
<1>9. ASSUME NEW s \in Sched, NEW c \in Coro, CoYield(s, c) PROVE OneHandle'
  <2>1. at[c] = "run" /\ parent[c] = None /\ coro' = [coro EXCEPT ![c] = IF @ = None THEN c ELSE @]
        /\ at' = [at EXCEPT ![c] = "asleep"] /\ target' = [target EXCEPT ![c] = c]
    BY <1>9 DEF CoYield
  <2>2. \A d \in Coro : at[d] = "asleep" => target[d] # c
    BY <1>0, <2>1 DEF Waits
  <2>3. coro[c] = None
    BY <1>0, <2>2 DEF Fields
  <2> QED BY <1>0, <2>1, <2>2, <2>3 DEF Fields
<1>10. ASSUME NEW s \in Sched, NEW c \in Coro, NEW t \in Sched, SwitchBegin(s, c, t)
   PROVE OneHandle'
  BY <1>10, <1>0 DEF SwitchBegin, Fields
<1>11. ASSUME NEW s \in Sched, NEW c \in Coro, NEW how \in Result, Return(s, c, how)
   PROVE OneHandle'
  BY <1>11, <1>0 DEF Return, Fields
<1>12. ASSUME NEW s \in Sched, NEW c \in Coro, FinalSuspend(s, c) PROVE OneHandle'
  BY <1>12, <1>0 DEF FinalSuspend, Fields
<1>13. ASSUME NEW s \in Sched, Resume(s) PROVE OneHandle'
  <2>1. PICK x \in Entry : Resumed(s, x)
    BY <1>13, ResumeFacts
  <2> USE DEF Resumed
  <2>2. ASSUME NEW c \in Coro, GoesOn(s, x, c) PROVE OneHandle'
    BY <1>0, <2>1, <2>2 DEF GoesOn, Enter, Fields
  <2>3. ASSUME NEW c \in Coro, Continues(s, x, c) PROVE OneHandle'
    BY <1>0, <2>1, <2>3 DEF Continues, Enter, Fields
  <2>4. CASE Starts(s, x)
    BY <1>0, <2>1, <2>4 DEF Starts, Enter, Fields
  <2>5. CASE Destroys(s, x)
    BY <1>0, <2>1, <2>5 DEF Destroys, Fields
  <2>6. CASE Skips(s, x)
    BY <1>0, <2>1, <2>6 DEF Skips
  <2> QED BY <2>1, <2>2, <2>3, <2>4, <2>5, <2>6
<1> QED
  BY <1>1, <1>2, <1>3, <1>4, <1>5, <1>6, <1>7, <1>8, <1>9, <1>10, <1>11, <1>12, <1>13
     DEF Next, CoroStep, SchedStep

(* Every step keeps who awaits what. *)
LEMMA NextWaits == Inv /\ Next => Waits'
<1> SUFFICES ASSUME Inv, Next PROVE Waits'
  OBVIOUS
<1> USE DEF Waits, Waiting, Calling, Done, Completed, threads, queues, states, Goes, Leave
<1>0. /\ Fields /\ Coro \subseteq State /\ Awaitable \subseteq State /\ Coro \cap Awaitable = {}
      /\ \A c \in Coro : c # None /\ Ticket(c) \notin State
      /\ \A s \in Sched : s # None
      /\ \A c \in Coro : at[c] # "new" => scheduler[c] # None
      /\ TypeOK /\ Threads /\ Lives /\ OneHandle /\ Waits /\ Launches /\ Queues /\ Served /\ Kept
  BY NoneAssumption, NamesAssumption, Entries, FieldTypes DEF Inv, Lives
<1>1. ASSUME NEW a \in Awaitable, NEW how \in Result, SetBegin(a, how) PROVE Waits'
  BY <1>1, <1>0 DEF SetBegin, Store, Completed, Fields
<1>2. ASSUME NEW a \in Awaitable, SetEnd(a) PROVE Waits'
  BY <1>2, <1>0 DEF SetEnd
<1>3. ASSUME NEW s \in Sched, NEW x \in State, Launch(s, x) PROVE Waits'
  BY <1>3, <1>0 DEF Launch, Fields
<1>4. ASSUME NEW s \in Sched, Emplace(s) \/ Start(s) \/ TakeBatch(s) \/ NoBatch(s) \/
   CheckTasks(s) PROVE Waits'
  BY <1>4, <1>0 DEF Emplace, Start, TakeBatch, NoBatch, CheckTasks
<1>5. ASSUME NEW s \in Sched, NEW c \in Coro, NEW x \in State, AwaitTransform(s, c, x)
   PROVE Waits'
  <2>1. scheduler[c] \in Sched /\ x # c /\ \A d \in Coro : at[d] \in Waiting => target[d] # x
    BY <1>5, <1>0, OnItsThread DEF AwaitTransform, Fields
  <2>2. parent[x] = None /\ (x \in Coro => at[x] = "new")
    BY <1>5, <1>0 DEF AwaitTransform, Lives
  <2> QED BY <1>5, <1>0, <2>1, <2>2 DEF AwaitTransform, Fields
<1>6. ASSUME NEW s \in Sched, NEW c \in Coro, AwaitReady(s, c) PROVE Waits'
  BY <1>6, <1>0 DEF AwaitReady, Fields
<1>7. ASSUME NEW s \in Sched, NEW c \in Coro, AwaitSuspend(s, c) PROVE Waits'
  <2>1. target[c] \in State /\ target[c] # c /\ scheduler' = scheduler
    BY <1>7, <1>0 DEF AwaitSuspend, Fields
  <2> QED BY <1>7, <1>0, <2>1 DEF AwaitSuspend, Fields, Done
<1>8. ASSUME NEW s \in Sched, NEW c \in Coro, Yield(s, c) \/ SwitchEnd(s, c) PROVE Waits'
  <2>1. /\ at' = [at EXCEPT ![c] = "asleep"] /\ target' = [target EXCEPT ![c] = Ticket(c)]
        /\ at[c] \in {"run", "switching"}
        /\ UNCHANGED <<scheduler, parent, hasValue, exception>>
    BY <1>8, <1>0 DEF Yield, SwitchEnd
  <2>2. /\ at'[c] = "asleep" /\ target'[c] = Ticket(c)
        /\ \A d \in Coro : d # c => at'[d] = at[d] /\ target'[d] = target[d]
    BY <1>0, <2>1 DEF Fields
  <2>3. \A y \in Coro : parent[y] = c => at[y] \in Done
    BY <1>0, <2>1
  <2> QED BY <1>0, <2>1, <2>2, <2>3
<1>9. ASSUME NEW s \in Sched, NEW c \in Coro, CoYield(s, c) PROVE Waits'
  BY <1>9, <1>0 DEF CoYield, Fields, Completed
<1>10. ASSUME NEW s \in Sched, NEW c \in Coro, NEW t \in Sched, SwitchBegin(s, c, t)
   PROVE Waits'
  <2>1. \A d \in Coro : at[d] \in Waiting /\ target[d] \in State =>
          (d \in Movers(c, t) <=> target[d] \in Movers(c, t))
    BY <1>10, <1>0, ChainFacts DEF SwitchBegin, Done
  <2> QED BY <1>10, <1>0, <2>1 DEF SwitchBegin, Fields
<1>11. ASSUME NEW s \in Sched, NEW c \in Coro, NEW how \in Result, Return(s, c, how)
   PROVE Waits'
  BY <1>11, <1>0 DEF Return, Store, Completed, Fields, Done, Result
<1>12. ASSUME NEW s \in Sched, NEW c \in Coro, FinalSuspend(s, c) PROVE Waits'
  BY <1>12, <1>0 DEF FinalSuspend, Completed, Fields, Done
<1>13. ASSUME NEW s \in Sched, Resume(s) PROVE Waits'
  <2>1. PICK x \in Entry : Resumed(s, x)
    BY <1>13, ResumeFacts
  <2> USE DEF Resumed
  <2>7. x \in Coro => \A d \in Coro : at[d] \in Calling => target[d] # x
    BY <1>0, <2>1, Entries DEF Queues, Took
  <2>2. ASSUME NEW c \in Coro, GoesOn(s, x, c) PROVE Waits'
    BY <1>0, <2>1, <2>2, <2>7 DEF GoesOn, Enter, Fields, Done, Completed
  <2>3. ASSUME NEW c \in Coro, Continues(s, x, c) PROVE Waits'
    BY <1>0, <2>1, <2>3, <2>7 DEF Continues, Enter, Fields, Done, Completed
  <2>4. CASE Starts(s, x)
    BY <1>0, <2>1, <2>4, <2>7 DEF Starts, Enter, Fields, Done, Completed
  <2>5. CASE Destroys(s, x)
    BY <1>0, <2>1, <2>5, <2>7 DEF Destroys, Fields, Done, Completed
  <2>6. CASE Skips(s, x)
    BY <1>0, <2>1, <2>6, <2>7 DEF Skips, Completed
  <2> QED BY <2>1, <2>2, <2>3, <2>4, <2>5, <2>6
<1> QED
  BY <1>1, <1>2, <1>3, <1>4, <1>5, <1>6, <1>7, <1>8, <1>9, <1>10, <1>11, <1>12, <1>13
     DEF Next, CoroStep, SchedStep

(* A coroutine that is through stays so. *)
LEMMA NextDone == Inv /\ Next => \A d \in Coro : at[d] \in Done => at'[d] \in Done
<1> SUFFICES ASSUME Inv, Next PROVE \A d \in Coro : at[d] \in Done => at'[d] \in Done
  OBVIOUS
<1> USE DEF Goes, Done
<1>0. Fields /\ TypeOK
  BY FieldTypes DEF Inv
<1>1. ASSUME NEW a \in Awaitable, NEW how \in Result, SetBegin(a, how) PROVE \A d \in
   Coro : at[d] \in Done => at'[d] \in Done
  BY <1>1, <1>0 DEF SetBegin
<1>2. ASSUME NEW a \in Awaitable, SetEnd(a) PROVE \A d \in Coro : at[d] \in Done =>
   at'[d] \in Done
  BY <1>2, <1>0 DEF SetEnd
<1>3. ASSUME NEW s \in Sched, NEW x \in State, Launch(s, x) PROVE \A d \in Coro : at[d]
   \in Done => at'[d] \in Done
  BY <1>3, <1>0 DEF Launch
<1>4. ASSUME NEW s \in Sched, Emplace(s) \/ Start(s) \/ TakeBatch(s) \/ NoBatch(s) \/
   CheckTasks(s) PROVE \A d \in Coro : at[d] \in Done => at'[d] \in Done
  BY <1>4, <1>0 DEF Emplace, Start, TakeBatch, NoBatch, CheckTasks
<1>5. ASSUME NEW s \in Sched, NEW c \in Coro, NEW x \in State, AwaitTransform(s, c, x)
   PROVE \A d \in Coro : at[d] \in Done => at'[d] \in Done
  BY <1>5, <1>0 DEF AwaitTransform, Fields
<1>6. ASSUME NEW s \in Sched, NEW c \in Coro, AwaitReady(s, c) \/ AwaitSuspend(s, c) \/
   Yield(s, c) \/ CoYield(s, c) \/ SwitchEnd(s, c) \/ FinalSuspend(s, c) PROVE \A d \in
   Coro : at[d] \in Done => at'[d] \in Done
  BY <1>6, <1>0 DEF AwaitReady, AwaitSuspend, Yield, CoYield, SwitchEnd, FinalSuspend, Fields
<1>7. ASSUME NEW s \in Sched, NEW c \in Coro, NEW t \in Sched, SwitchBegin(s, c, t)
   PROVE \A d \in Coro : at[d] \in Done => at'[d] \in Done
  BY <1>7, <1>0 DEF SwitchBegin, Fields
<1>8. ASSUME NEW s \in Sched, NEW c \in Coro, NEW how \in Result, Return(s, c, how)
   PROVE \A d \in Coro : at[d] \in Done => at'[d] \in Done
  BY <1>8, <1>0 DEF Return, Fields
<1>9. ASSUME NEW s \in Sched, Resume(s) PROVE \A d \in Coro : at[d] \in Done => at'[d]
   \in Done
  <2>1. PICK x \in Entry : Resumed(s, x)
    BY <1>9, ResumeFacts
  <2> QED BY <1>0, <2>1 DEF Resumed, GoesOn, Continues, Starts, Destroys, Skips, Enter, Fields
<1> QED
  BY <1>1, <1>2, <1>3, <1>4, <1>5, <1>6, <1>7, <1>8, <1>9 DEF Next, CoroStep, SchedStep

(* Every step leaves the callers an end. *)
LEMMA NextRooted == Inv /\ Next => Rooted'
<1> SUFFICES ASSUME Inv, Next PROVE Rooted'
  OBVIOUS
<1> USE DEF Inv, Rooted
<1>1. \A c \in Coro : at[c] \in Done => at'[c] \in Done
  BY NextDone
<1>2. CASE UNCHANGED parent
  BY <1>1, <1>2
<1>3. ASSUME NEW s \in Sched, NEW c \in Coro, AwaitSuspend(s, c) PROVE Rooted'
  <2> DEFINE x == target[c]
  <2>1. x \in State /\ x # c /\ parent' = [parent EXCEPT ![x] = c]
        /\ \A y \in Coro : x \in Coro => parent[y] # x \/ at[y] \in Done
    BY <1>3, NoneAssumption DEF AwaitSuspend, Waits, Calling
  <2> HIDE DEF x
  <2> SUFFICES ASSUME NEW S \in SUBSET Coro, S # {}, \A d \in S : at'[d] \notin Done
               PROVE  \E d \in S : parent'[d] \notin S
    BY DEF Rooted
  <2>2. \A d \in S : at[d] \notin Done /\ d \in State
    BY <1>1, Entries
  <2>3. parent \in [State -> Coro \union {None}]
    BY FieldTypes DEF Fields
  <2>4. CASE x \notin S
    BY <2>1, <2>2, <2>3, <2>4
  <2>5. CASE x \in S /\ c \notin S
    BY <2>1, <2>2, <2>3, <2>5
  <2>6. CASE x \in S /\ c \in S
    <3>1. S \ {x} \in SUBSET Coro /\ S \ {x} # {} /\ \A d \in S \ {x} : at[d] \notin Done
      BY <2>1, <2>2, <2>6
    <3>2. PICK d \in S \ {x} : parent[d] \notin S \ {x}
      BY <3>1
    <3>3. parent[d] # x /\ parent'[d] = parent[d]
      BY <2>1, <2>2, <2>3, <2>6, <3>2
    <3> QED BY <3>2, <3>3
  <2> QED BY <2>4, <2>5, <2>6
<1>4. ASSUME NEW s \in Sched, NEW c \in Coro, CoroStep(s, c) PROVE Rooted'
  <2>1. AwaitSuspend(s, c) \/ UNCHANGED parent
    BY <1>4 DEF CoroStep, AwaitTransform, AwaitReady, Yield, CoYield, SwitchBegin, SwitchEnd,
       Return, FinalSuspend, states
  <2> QED BY <1>2, <1>3, <2>1
<1>5. ASSUME NEW s \in Sched, SchedStep(s) PROVE UNCHANGED parent
  BY <1>5 DEF SchedStep, Emplace, Start, TakeBatch, NoBatch, CheckTasks, Resume, states
<1>6. ASSUME NEW s \in Sched, NEW x \in State, Launch(s, x) PROVE UNCHANGED parent
  BY <1>6 DEF Launch
<1>7. ASSUME NEW a \in Awaitable, SetEnd(a) \/ \E how \in Result : SetBegin(a, how)
      PROVE  UNCHANGED parent
  BY <1>7 DEF SetBegin, SetEnd
<1> QED BY <1>2, <1>4, <1>5, <1>6, <1>7 DEF Next

(* What emplace() and future_await_suspend() do, each to one state.        *)
Emplaces(s, x) ==
  /\ launching[s] = x /\ launching' = [launching EXCEPT ![s] = None]
  /\ scheduler[x] = s /\ ~setting[x]
  /\ ready' = [ready EXCEPT ![s] = @ \union {x}]
  /\ (HasHandler(x) /\ Put(s, x)) \/ (~HasHandler(x) /\ Still)
  /\ UNCHANGED <<stage, on, scheduler, coro, parent, initor, hasValue, exception, setting, at,
                 target>>

LEMMA EmplaceFacts ==
  ASSUME Inv, NEW s \in Sched, Emplace(s)
  PROVE  \E x \in State : Emplaces(s, x)
<1> DEFINE x == launching[s]
<1>1. /\ x # None /\ ~setting[x] /\ ready' = [ready EXCEPT ![s] = @ \union {x}]
      /\ launching' = [launching EXCEPT ![s] = None]
      /\ UNCHANGED <<stage, on, cached, states, at, target>>
      /\ \/ HasHandler(x) /\ AddGenerator(s, x)
         \/ ~HasHandler(x) /\ UNCHANGED running
  BY DEF Emplace
<1>2. TypeOK /\ x \in State
  BY <1>1, FieldTypes DEF Fields, Inv
<1> HIDE DEF x
<1>3. scheduler[x] = s
  BY <1>2 DEF Inv, Launches, x
<1>4. (HasHandler(x) /\ Put(s, x)) \/ (~HasHandler(x) /\ Still)
  BY <1>1, <1>2, PutFacts, StillFacts, Entries
<1>5. Emplaces(s, x)
  BY <1>1, <1>3, <1>4 DEF Emplaces, states, x
<1> QED BY <1>2, <1>5

Suspends(s, c, x) ==
  /\ x # c /\ target[c] = x /\ at[c] = "suspends" /\ on[s] = c
  /\ scheduler[c] = s /\ scheduler[x] = s /\ ~setting[x] /\ coro[x] = None
  /\ x \in Coro => at[x] = "new" /\ parent[x] = None /\ x \notin Held[s]
  /\ at' = [at EXCEPT ![c] = "asleep"] /\ on' = [on EXCEPT ![s] = None]
  /\ parent' = [parent EXCEPT ![x] = c] /\ coro' = [coro EXCEPT ![x] = c]
  /\ (IsReady(x) /\ Put(s, x)) \/ (~IsReady(x) /\ Still)
  /\ UNCHANGED <<stage, launching, ready, scheduler, initor, hasValue, exception, setting, target>>

LEMMA SuspendFacts ==
  ASSUME Inv, NEW s \in Sched, NEW c \in Coro, AwaitSuspend(s, c)
  PROVE  \E x \in State : Suspends(s, c, x)
<1> DEFINE x == target[c]
<1>1. /\ TypeOK /\ Fields /\ Waits /\ OneHandle /\ Queues
      /\ at[c] = "suspends" /\ scheduler[c] = s /\ on[s] = c
  BY OnItsThread, FieldTypes DEF Inv, AwaitSuspend
<1>2. /\ x \in State /\ x # c /\ scheduler[x] = s
      /\ x \in Coro => at[x] = "new" /\ parent[x] = None /\ x \notin Held[s]
      /\ \A d \in Coro : at[d] = "asleep" => target[d] # x
  BY <1>1 DEF Waits, Waiting, Calling, Queues
<1>3. coro[x] = None
  BY <1>1, <1>2 DEF Fields, OneHandle
<1>4. /\ ~setting[x] /\ parent' = [parent EXCEPT ![x] = c]
      /\ scheduler' = [scheduler EXCEPT ![x] = scheduler[c]]
      /\ coro' = [coro EXCEPT ![x] = IF @ = None THEN c ELSE @]
      /\ \/ IsReady(x) /\ AddGenerator(scheduler[c], x)
         \/ ~IsReady(x) /\ UNCHANGED running
      /\ at' = [at EXCEPT ![c] = "asleep"] /\ on' = [on EXCEPT ![s] = None]
      /\ UNCHANGED <<stage, launching, cached, ready, initor, hasValue, exception, setting, target>>
  BY DEF AwaitSuspend, Goes, Leave
<1>5. target[c] = x
  OBVIOUS
<1> HIDE DEF x
<1>6. scheduler' = scheduler /\ coro' = [coro EXCEPT ![x] = c]
  BY <1>1, <1>2, <1>3, <1>4 DEF Fields
<1>7. (IsReady(x) /\ Put(s, x)) \/ (~IsReady(x) /\ Still)
  BY <1>1, <1>2, <1>4, PutFacts, StillFacts, Entries
<1>8. Suspends(s, c, x)
  BY <1>1, <1>2, <1>3, <1>4, <1>5, <1>6, <1>7 DEF Suspends
<1> QED BY <1>2, <1>8

(* A coroutine that yields, has moved or is through queues itself.         *)
LEMMA OwnFacts ==
  ASSUME Inv, NEW s \in Sched, NEW c \in Coro
  PROVE  /\ Yield(s, c) \/ SwitchEnd(s, c) =>
              scheduler[c] \in Sched /\ Put(scheduler[c], Ticket(c))
         /\ CoYield(s, c) => scheduler[c] = s /\ Put(s, c)
         /\ FinalSuspend(s, c) =>
              scheduler[c] = s /\ Put(s, c) /\ ready' = [ready EXCEPT ![s] = @ \ {c}]
<1>1. TypeOK
  BY DEF Inv
<1>2. Yield(s, c) \/ SwitchEnd(s, c) => scheduler[c] \in Sched /\ Put(scheduler[c], Ticket(c))
  BY <1>1, OnItsThread, PutFacts, Entries DEF Yield, SwitchEnd
<1>3. CoYield(s, c) => scheduler[c] = s /\ Put(s, c)
  BY <1>1, OnItsThread, PutFacts, Entries DEF CoYield
<1>4. ASSUME FinalSuspend(s, c)
      PROVE  scheduler[c] = s /\ Put(s, c) /\ ready' = [ready EXCEPT ![s] = @ \ {c}]
  <2>1. scheduler[c] = s
    BY <1>4, OnItsThread DEF FinalSuspend
  <2> QED BY <1>1, <1>4, <2>1, PutFacts, Entries DEF FinalSuspend, DelFinal
<1> QED BY <1>2, <1>3, <1>4

(* Every step keeps what is being started. *)
LEMMA NextLaunches == Inv /\ Next => Launches'
<1> SUFFICES ASSUME Inv, Next PROVE Launches'
  OBVIOUS
<1> USE DEF Launches, Waiting, Calling, threads, queues, states, Goes, Leave
<1>0. /\ Fields /\ Coro \subseteq State /\ Awaitable \subseteq State /\ Coro \cap Awaitable = {}
      /\ \A c \in Coro : c # None /\ Ticket(c) \notin State
      /\ \A s \in Sched : s # None
      /\ \A c \in Coro : at[c] # "new" => scheduler[c] # None
      /\ TypeOK /\ Threads /\ Lives /\ OneHandle /\ Waits /\ Launches /\ Queues /\ Served /\ Kept
  BY NoneAssumption, NamesAssumption, Entries, FieldTypes DEF Inv, Lives
<1>1. ASSUME NEW a \in Awaitable, NEW how \in Result, SetBegin(a, how) PROVE Launches'
  <2>1. Held' = Held
    BY <1>1, <1>0, StillFacts DEF SetBegin, Still
  <2> QED BY <1>1, <1>0, <2>1 DEF SetBegin
<1>2. ASSUME NEW a \in Awaitable, SetEnd(a) PROVE Launches'
  <2>1. \A r \in Sched, y \in Coro : y \in Held'[r] <=> y \in Held[r]
    BY <1>2, <1>0, DeliverFacts, Entries DEF SetEnd, Put, Still
  <2> QED BY <1>2, <1>0, <2>1 DEF SetEnd
<1>3. ASSUME NEW s \in Sched, NEW x \in State, Launch(s, x) PROVE Launches'
  <2>1. Held' = Held
    BY <1>3, <1>0, StillFacts DEF Launch, Still
  <2>2. /\ x \notin Held[s] /\ parent[x] = None /\ (x \in Coro => at[x] = "new")
        /\ \A d \in Coro : at[d] \in Waiting => target[d] # x
    BY <1>3, <1>0 DEF Launch, Queues, Lives, Waits
  <2>3. /\ launching' = [launching EXCEPT ![s] = x] /\ launching[s] = None
        /\ scheduler' = [scheduler EXCEPT ![x] = s] /\ scheduler[x] = None
        /\ x \in Coro \union Bare /\ UNCHANGED <<parent, at, target>>
    BY <1>3 DEF Launch
  <2> QED BY <1>0, <2>1, <2>2, <2>3 DEF Fields
<1>4. ASSUME NEW s \in Sched, Emplace(s) PROVE Launches'
  <2>1. PICK x \in State : Emplaces(s, x)
    BY <1>4, EmplaceFacts
  <2>2. /\ \A r \in Sched, y \in Entry : y \in Held'[r] => y \in Held[r] \/ (r = s /\ y = x)
        /\ \A r \in Sched, y \in Entry : y \in Held[r] => y \in Held'[r]
        /\ HasHandler(x) => x \in Held'[s]
    BY <1>0, <2>1, Entries DEF Emplaces, Put, Still
  <2>3. x \in Coro /\ at[x] = "new" => HasHandler(x)
    BY <1>0 DEF Lives, HasHandler
  <2>4. /\ launching[s] = x /\ launching' = [launching EXCEPT ![s] = None]
        /\ scheduler[x] = s /\ UNCHANGED <<scheduler, parent, at, target>>
    BY <2>1 DEF Emplaces
  <2>5. \A r \in Sched : r # s => launching'[r] = launching[r]
    BY <1>0, <2>4 DEF Fields
  <2>6. launching'[s] = None /\ \A y \in State : y # None
    BY <1>0, <2>4, NoneAssumption DEF Fields
  <2> QED BY <1>0, <2>2, <2>3, <2>4, <2>5, <2>6, Entries
<1>5. ASSUME NEW s \in Sched, NEW c \in Coro, NEW x \in State, AwaitTransform(s, c, x)
   PROVE Launches'
  <2>1. Held' = Held
    BY <1>5, <1>0, StillFacts DEF AwaitTransform, Still
  <2>2. x # c /\ (x \in Coro => at[x] = "new") /\ \A r \in Sched : launching[r] # x
    BY <1>5, <1>0 DEF AwaitTransform, Lives
  <2>3. /\ scheduler' = [scheduler EXCEPT ![x] = scheduler[c]] /\ scheduler[x] = None
        /\ target' = [target EXCEPT ![c] = x] /\ at' = [at EXCEPT ![c] = "awaits"]
        /\ at[c] = "run" /\ UNCHANGED <<launching, parent>>
    BY <1>5 DEF AwaitTransform
  <2> QED BY <1>0, <2>1, <2>2, <2>3 DEF Fields
<1>6. ASSUME NEW s \in Sched, NEW c \in Coro, AwaitReady(s, c) PROVE Launches'
  <2>1. Held' = Held
    BY <1>6, <1>0, StillFacts DEF AwaitReady, Still
  <2>2. target[c] \in Coro => hasValue[target[c]] = "None"
    BY <1>6, <1>0 DEF AwaitReady, Waits, Lives, Completed
  <2> QED BY <1>6, <1>0, <2>1, <2>2 DEF AwaitReady, Fields
<1>7. ASSUME NEW s \in Sched, NEW c \in Coro, AwaitSuspend(s, c) PROVE Launches'
  <2>1. PICK x \in State : Suspends(s, c, x)
    BY <1>7, SuspendFacts
  <2>2. /\ \A r \in Sched, y \in Entry : y \in Held'[r] => y \in Held[r] \/ y = x
        /\ \A r \in Sched, y \in Entry : y \in Held[r] => y \in Held'[r]
        /\ x \in Coro => x \in Held'[s]
    BY <1>0, <2>1, Entries DEF Suspends, IsReady, Put, Still
  <2> QED BY <1>0, <2>1, <2>2, Entries DEF Suspends, Fields
<1>8. ASSUME NEW s \in Sched, NEW c \in Coro, Yield(s, c) \/ SwitchEnd(s, c) PROVE
   Launches'
  <2>1. \A r \in Sched, y \in Coro : y \in Held'[r] <=> y \in Held[r]
    BY <1>8, <1>0, OwnFacts, Entries DEF Put
  <2> QED BY <1>8, <1>0, <2>1 DEF Yield, SwitchEnd, Fields
<1>9. ASSUME NEW s \in Sched, NEW c \in Coro, CoYield(s, c) PROVE Launches'
  <2>1. \A r \in Sched, y \in Coro : y # c => (y \in Held'[r] <=> y \in Held[r])
    BY <1>9, <1>0, OwnFacts, Entries DEF Put
  <2> QED BY <1>9, <1>0, <2>1 DEF CoYield, Fields
<1>10. ASSUME NEW s \in Sched, NEW c \in Coro, NEW t \in Sched, SwitchBegin(s, c, t)
   PROVE Launches'
  <2>1. Held' = Held
    BY <1>10, <1>0, StillFacts DEF SwitchBegin, Still
  <2>2. \A y \in State : at[y] = "new" \/ y \notin Coro => scheduler'[y] = scheduler[y]
    BY <1>10, <1>0, ChainFacts DEF SwitchBegin, Done
  <2>3. at' = [at EXCEPT ![c] = "switching"] /\ at[c] = "run" /\ UNCHANGED <<launching, parent, target>>
    BY <1>10 DEF SwitchBegin
  <2> QED BY <1>0, <2>1, <2>2, <2>3 DEF Fields
<1>11. ASSUME NEW s \in Sched, NEW c \in Coro, NEW how \in Result, Return(s, c, how)
   PROVE Launches'
  <2>1. \A r \in Sched, y \in Coro : y # c => (y \in Held'[r] <=> y \in Held[r])
    BY <1>11, <1>0, DeliverFacts, Entries DEF Return, Put, Still
  <2> QED BY <1>11, <1>0, <2>1 DEF Return, Fields
<1>12. ASSUME NEW s \in Sched, NEW c \in Coro, FinalSuspend(s, c) PROVE Launches'
  <2>1. \A r \in Sched, y \in Coro : y # c => (y \in Held'[r] <=> y \in Held[r])
    BY <1>12, <1>0, OwnFacts, Entries DEF Put
  <2> QED BY <1>12, <1>0, <2>1 DEF FinalSuspend, Fields
<1>13. ASSUME NEW s \in Sched, Start(s) \/ TakeBatch(s) \/ NoBatch(s) \/ CheckTasks(s)
   PROVE Launches'
  <2>1. Held' = Held
    BY <1>13, <1>0, StillFacts DEF Start, TakeBatch, NoBatch, CheckTasks, Still
  <2> QED BY <1>13, <1>0, <2>1 DEF Start, TakeBatch, NoBatch, CheckTasks
<1>14. ASSUME NEW s \in Sched, Resume(s) PROVE Launches'
  <2>1. PICK x \in Entry : Resumed(s, x)
    BY <1>14, ResumeFacts
  <2> USE DEF Resumed
  <2>7. x \in Held[s] /\ \A r \in Sched, y \in Coro :
          /\ y \in Held'[r] => y \in Held[r]
          /\ y \in Held[r] /\ ~(r = s /\ y = x) => y \in Held'[r]
    BY <2>1, <1>0, Entries DEF Took
  <2>8. x \in State => scheduler[x] = s
    BY <1>0, <2>7 DEF Queues
  <2>2. ASSUME NEW c \in Coro, GoesOn(s, x, c) PROVE Launches'
    BY <1>0, <2>1, <2>2, <2>7, <2>8 DEF GoesOn, Enter, Fields, Done
  <2>3. ASSUME NEW c \in Coro, Continues(s, x, c) PROVE Launches'
    BY <1>0, <2>1, <2>3, <2>7, <2>8 DEF Continues, Enter, Fields, Done
  <2>4. CASE Starts(s, x)
    BY <1>0, <2>1, <2>4, <2>7, <2>8 DEF Starts, Enter, Fields, Done
  <2>5. CASE Destroys(s, x)
    BY <1>0, <2>1, <2>5, <2>7, <2>8 DEF Destroys, Fields, Done
  <2>6. CASE Skips(s, x)
    BY <1>0, <2>1, <2>6, <2>7, <2>8 DEF Skips, Lives
  <2> QED BY <2>1, <2>2, <2>3, <2>4, <2>5, <2>6
<1> QED
  BY <1>1, <1>2, <1>3, <1>4, <1>5, <1>6, <1>7, <1>8, <1>9, <1>10, <1>11, <1>12, <1>13,
     <1>14 DEF Next, CoroStep, SchedStep

(* Every step leaves in the queues only what is of use there. *)
LEMMA NextQueues == Inv /\ Next => Queues'
<1> SUFFICES ASSUME Inv, Next PROVE Queues'
  OBVIOUS
<1> USE DEF Queues, Waiting, Calling, Done, Still, threads, queues, states, Goes, Leave
<1>0. /\ Fields /\ Coro \subseteq State /\ Awaitable \subseteq State /\ Coro \cap Awaitable = {}
      /\ \A c \in Coro : c # None /\ Ticket(c) \notin State
      /\ \A s \in Sched : s # None
      /\ \A c \in Coro : at[c] # "new" => scheduler[c] # None
      /\ TypeOK /\ Threads /\ Lives /\ OneHandle /\ Waits /\ Launches /\ Queues /\ Served /\ Kept
  BY NoneAssumption, NamesAssumption, Entries, FieldTypes DEF Inv, Lives
<1>1. ASSUME NEW a \in Awaitable, NEW how \in Result, SetBegin(a, how) PROVE Queues'
  <2>1. Still
    BY <1>1, <1>0, StillFacts DEF SetBegin
  <2> QED BY <1>1, <1>0, <2>1 DEF SetBegin, Store, Completed, Fields
<1>2. ASSUME NEW a \in Awaitable, SetEnd(a) PROVE Queues'
  <2>1. Completed(a) /\ a \in State /\ a \in Entry /\ \A y : y \in Entry \/ y \notin Coro
    BY <1>2, <1>0, Entries DEF SetEnd, Lives
  <2>2. (scheduler[a] \in Sched /\ Put(scheduler[a], a)) \/ Still
    BY <1>2, <1>0, <2>1, DeliverFacts DEF SetEnd
  <2>3. setting' = [setting EXCEPT ![a] = FALSE] /\ UNCHANGED <<scheduler, at, target, hasValue, exception>>
    BY <1>2 DEF SetEnd
  <2>4. CASE Still
    BY <1>0, <2>1, <2>3, <2>4, Entries DEF Fields, Completed
  <2>5. CASE scheduler[a] \in Sched /\ Put(scheduler[a], a)
    BY <1>0, <2>1, <2>3, <2>5, Entries DEF Fields, Completed, Put
  <2> QED BY <2>2, <2>4, <2>5
<1>3. ASSUME NEW s \in Sched, NEW x \in State, Launch(s, x) PROVE Queues'
  <2>1. Still
    BY <1>3, <1>0, StillFacts DEF Launch
  <2>2. \A r \in Sched : x \notin Held[r]
    BY <1>3, <1>0 DEF Launch
  <2> QED BY <1>3, <1>0, <2>1, <2>2 DEF Launch, Fields, Completed
<1>4. ASSUME NEW s \in Sched, Emplace(s) PROVE Queues'
  <2>1. PICK x \in State : Emplaces(s, x)
    BY <1>4, EmplaceFacts
  <2>2. /\ \A d \in Coro : at[d] \in Waiting => target[d] # x
        /\ x \in Coro => at[x] = "new" /\ x \notin Held[s]
    BY <1>0, <2>1 DEF Emplaces, Launches
  <2>3. HasHandler(x) => x \in Coro
    BY <1>0, <2>2 DEF HasHandler, OneHandle, Lives, Fields
  <2>4. UNCHANGED <<scheduler, at, target, setting, hasValue, exception>> /\ scheduler[x] = s
    BY <2>1 DEF Emplaces
  <2>5. CASE Still
    BY <1>0, <2>4, <2>5 DEF Completed
  <2>6. CASE x \in Coro /\ Put(s, x)
    BY <1>0, <2>2, <2>4, <2>6, Entries DEF Completed, Put
  <2> QED BY <2>1, <2>3, <2>5, <2>6 DEF Emplaces
<1>5. ASSUME NEW s \in Sched, NEW c \in Coro, NEW x \in State, AwaitTransform(s, c, x)
   PROVE Queues'
  <2>1. Still
    BY <1>5, <1>0, StillFacts DEF AwaitTransform
  <2>2. \A r \in Sched : x \notin Held[r]
    BY <1>5, <1>0 DEF AwaitTransform
  <2> QED BY <1>5, <1>0, <2>1, <2>2 DEF AwaitTransform, Fields, Completed
<1>6. ASSUME NEW s \in Sched, NEW c \in Coro, AwaitReady(s, c) PROVE Queues'
  <2>1. Still
    BY <1>6, <1>0, StillFacts DEF AwaitReady
  <2> QED BY <1>6, <1>0, <2>1 DEF AwaitReady, Fields, Completed
<1>7. ASSUME NEW s \in Sched, NEW c \in Coro, AwaitSuspend(s, c) PROVE Queues'
  <2>1. PICK x \in State : Suspends(s, c, x)
    BY <1>7, SuspendFacts
  <2>2. \A d \in Coro : at[d] \in Waiting /\ target[d] = x => d = c
    BY <1>0, <2>1 DEF Suspends, Waits
  <2>3. /\ target[c] = x /\ x # c /\ at[c] = "suspends" /\ at' = [at EXCEPT ![c] = "asleep"]
        /\ scheduler[x] = s /\ (x \in Coro => at[x] = "new" /\ x \notin Held[s])
        /\ UNCHANGED <<scheduler, target, setting, hasValue, exception>>
        /\ ~setting[x]
    BY <2>1 DEF Suspends
  <2>4. CASE Still
    BY <1>0, <2>3, <2>4 DEF Completed, Fields
  <2>5. CASE IsReady(x) /\ Put(s, x)
    <3>1. x \in Awaitable => Completed(x)
      BY <1>0, <2>5 DEF IsReady, Completed
    <3> QED BY <1>0, <2>2, <2>3, <2>5, <3>1, Entries DEF Completed, Put, Fields
  <2> QED BY <2>1, <2>4, <2>5 DEF Suspends
<1>8. ASSUME NEW s \in Sched, NEW c \in Coro, Yield(s, c) \/ SwitchEnd(s, c) PROVE
   Queues'
  <2>1. scheduler[c] \in Sched /\ Put(scheduler[c], Ticket(c)) /\ Ticket(c) \in Entry
    BY <1>8, OwnFacts, Entries
  <2>2. /\ at' = [at EXCEPT ![c] = "asleep"] /\ target' = [target EXCEPT ![c] = Ticket(c)]
        /\ at[c] \in {"run", "switching"}
        /\ UNCHANGED <<scheduler, setting, hasValue, exception>>
    BY <1>8 DEF Yield, SwitchEnd
  <2>3. \A r \in Sched : Ticket(c) \notin Held[r] /\ c \notin Held[r]
    BY <1>0, <2>2
  <2>4. \A d \in Coro : Ticket(d) = Ticket(c) => d = c
    BY DEF Ticket
  <2>5. ASSUME NEW r \in Sched, NEW y \in Entry, y # Ticket(c)
        PROVE  (y \in Held'[r] <=> y \in Held[r]) /\ (y \in Alone[r] => y \in Alone'[r])
    BY <2>1, <2>5 DEF Put
  <2>6. \A r \in Sched : Ticket(c) \in Held'[r] => r = scheduler[c] /\ Ticket(c) \in Alone'[r]
    BY <2>1, <2>3 DEF Put
  <2>7. \A y \in State : y # Ticket(c) /\ y \in Entry
    BY <1>0, Entries
  <2>8. \A d \in Coro : d # c => Ticket(d) # Ticket(c) /\ Ticket(d) \in Entry
    BY <2>4, Entries
  <2>9. /\ at'[c] = "asleep" /\ target'[c] = Ticket(c)
        /\ \A d \in Coro : d # c => at'[d] = at[d] /\ target'[d] = target[d]
    BY <1>0, <2>2 DEF Fields
  <2>10. ASSUME NEW r \in Sched, NEW d \in Coro, Ticket(d) \in Held'[r]
         PROVE  /\ scheduler'[d] = r /\ at'[d] = "asleep" /\ target'[d] = Ticket(d)
                /\ Ticket(d) \in Alone'[r]
    BY <1>0, <2>2, <2>5, <2>6, <2>8, <2>9, <2>10
  <2>11. ASSUME NEW r \in Sched, NEW d \in Coro, d \in Held'[r]
         PROVE  /\ at'[d] \in {"new", "asleep"} \union Done
                /\ at'[d] = "asleep" => target'[d] = d
                /\ at'[d] \in {"new", "asleep"} => d \in Alone'[r]
    BY <1>0, <2>3, <2>5, <2>7, <2>9, <2>11
  <2>12. \A r \in Sched, y \in State : y \in Held'[r] => scheduler'[y] = r
    BY <1>0, <2>2, <2>5, <2>7
  <2>13. \A r \in Sched, a \in Awaitable :
           a \in Held'[r] => Completed(a)' /\ ~setting'[a]
    BY <1>0, <2>2, <2>5, <2>7 DEF Completed
  <2>14. \A r \in Sched, d \in Coro : at'[d] \in Calling => target'[d] \notin Held'[r] \cap Coro
    BY <1>0, <2>5, <2>7, <2>9
  <2> QED BY <2>10, <2>11, <2>12, <2>13, <2>14
<1>9. ASSUME NEW s \in Sched, NEW c \in Coro, CoYield(s, c) PROVE Queues'
  <2>1. scheduler[c] = s /\ Put(s, c)
    BY <1>9, OwnFacts
  <2>2. /\ at' = [at EXCEPT ![c] = "asleep"] /\ target' = [target EXCEPT ![c] = c]
        /\ at[c] = "run" /\ hasValue' = [hasValue EXCEPT ![c] = "Value"]
        /\ UNCHANGED <<scheduler, setting, exception>>
    BY <1>9 DEF CoYield
  <2>3. \A r \in Sched : Ticket(c) \notin Held[r] /\ c \notin Held[r]
    BY <1>0, <2>2
  <2>4. \A d \in Coro : at[d] \in Calling => target[d] # c
    BY <1>0, <2>2 DEF Waits
  <2> QED BY <1>0, <2>1, <2>2, <2>3, <2>4, Entries DEF Completed, Put, Fields
<1>10. ASSUME NEW s \in Sched, NEW c \in Coro, NEW t \in Sched, SwitchBegin(s, c, t)
   PROVE Queues'
  <2>1. Still
    BY <1>10, <1>0, StillFacts DEF SwitchBegin
  <2>2. /\ scheduler' = [x \in State |-> IF x \in Movers(c, t) THEN t ELSE scheduler[x]]
        /\ at' = [at EXCEPT ![c] = "switching"] /\ at[c] = "run"
        /\ UNCHANGED <<target, setting, hasValue, exception>>
    BY <1>10 DEF SwitchBegin
  <2>3. \A r \in Sched, y \in Movers(c, t) : y \in Coro /\ y \notin Held[r] /\ Ticket(y) \notin Held[r]
    <3>1. \A y \in Movers(c, t) :
            y \in Coro /\ (y # c => at[y] = "asleep" /\ target[y] \in Coro /\ target[y] # y)
      BY <1>10, ChainFacts DEF SwitchBegin
    <3> QED BY <1>0, <2>2, <3>1
  <2> QED BY <1>0, <2>1, <2>2, <2>3 DEF Completed, Fields
<1>11. ASSUME NEW s \in Sched, NEW c \in Coro, NEW how \in Result, Return(s, c, how)
   PROVE Queues'
  <2>1. c \in State /\ ((scheduler[c] = s /\ Put(s, c)) \/ Still)
    BY <1>11, <1>0, DeliverFacts, OnItsThread DEF Return
  <2>2. /\ at' = [at EXCEPT ![c] = "returned"] /\ at[c] = "run" /\ c \notin Awaitable
        /\ \A x \in State : x # c => hasValue'[x] = hasValue[x] /\ exception'[x] = exception[x]
        /\ UNCHANGED <<scheduler, target, setting>>
    BY <1>11, <1>0 DEF Return, Store, Fields
  <2>3. \A r \in Sched : c \notin Held[r] /\ Ticket(c) \notin Held[r]
    BY <1>0, <2>2
  <2>4. \A d \in Coro : at[d] \in Calling => target[d] # c
    BY <1>0, <2>2 DEF Waits
  <2>5. CASE Still
    BY <1>0, <2>2, <2>3, <2>5 DEF Completed, Fields
  <2>6. CASE scheduler[c] = s /\ Put(s, c)
    BY <1>0, <2>2, <2>3, <2>4, <2>6, Entries DEF Completed, Fields, Put
  <2> QED BY <2>1, <2>5, <2>6
<1>12. ASSUME NEW s \in Sched, NEW c \in Coro, FinalSuspend(s, c) PROVE Queues'
  <2>1. scheduler[c] = s /\ Put(s, c)
    BY <1>12, OwnFacts
  <2>2. /\ at' = [at EXCEPT ![c] = "final"] /\ at[c] = "returned"
        /\ UNCHANGED <<scheduler, target, setting, hasValue, exception>>
    BY <1>12 DEF FinalSuspend
  <2>3. \A r \in Sched : Ticket(c) \notin Held[r]
    BY <1>0, <2>2
  <2>4. \A d \in Coro : at[d] \in Calling => target[d] # c
    BY <1>0, <2>2 DEF Waits
  <2> QED BY <1>0, <2>1, <2>2, <2>3, <2>4, Entries DEF Completed, Fields, Put
<1>13. ASSUME NEW s \in Sched, Start(s) \/ TakeBatch(s) \/ NoBatch(s) \/ CheckTasks(s)
   PROVE Queues'
  <2>1. Still
    BY <1>13, <1>0, StillFacts DEF Start, TakeBatch, NoBatch, CheckTasks
  <2> QED BY <1>13, <2>1, <1>0 DEF Start, TakeBatch, NoBatch, CheckTasks, Completed
<1>14. ASSUME NEW s \in Sched, Resume(s) PROVE Queues'
  <2>1. PICK x \in Entry : Resumed(s, x)
    BY <1>14, ResumeFacts
  <2>2. /\ Took(s, x)
        /\ UNCHANGED <<scheduler, hasValue, exception, setting, target>>
    BY <2>1 DEF Resumed
  <2>3. ASSUME NEW c \in Coro, GoesOn(s, x, c) PROVE Queues'
    BY <1>0, <2>2, <2>3, Entries DEF GoesOn, Enter, Fields, Took, Completed
  <2>4. ASSUME NEW c \in Coro, Continues(s, x, c) PROVE Queues'
    BY <1>0, <2>2, <2>4, Entries DEF Continues, Enter, Fields, Took, Completed
  <2>5. CASE Starts(s, x)
    BY <1>0, <2>2, <2>5, Entries DEF Starts, Enter, Fields, Took, Completed
  <2>6. CASE Destroys(s, x)
    BY <1>0, <2>2, <2>6, Entries DEF Destroys, Fields, Took, Completed
  <2>7. CASE Skips(s, x)
    BY <1>0, <2>2, <2>7, Entries DEF Skips, Took, Completed
  <2> QED BY <2>1, <2>3, <2>4, <2>5, <2>6, <2>7 DEF Resumed
<1> QED
  BY <1>1, <1>2, <1>3, <1>4, <1>5, <1>6, <1>7, <1>8, <1>9, <1>10, <1>11, <1>12, <1>13,
     <1>14 DEF Next, CoroStep, SchedStep

(* Every step queues whoever is due, and keeps what is queued for someone.  *)
LEMMA NextServed == Inv /\ Next => Served'
<1> SUFFICES ASSUME Inv, Next PROVE Served'
  OBVIOUS
<1> USE DEF Served, Due, Still, threads, queues, states, Goes, Leave
<1>0. /\ Fields /\ Coro \subseteq State /\ Awaitable \subseteq State /\ Coro \cap Awaitable = {}
      /\ \A c \in Coro : c # None /\ Ticket(c) \notin State
      /\ \A s \in Sched : s # None
      /\ \A c \in Coro : at[c] # "new" => scheduler[c] # None
      /\ TypeOK /\ Threads /\ Lives /\ OneHandle /\ Waits /\ Launches /\ Queues /\ Served /\ Kept
  BY NoneAssumption, NamesAssumption, Entries, FieldTypes DEF Inv, Lives
<1>a. Coro \subseteq Entry /\ \A d \in Coro : at[d] = "asleep" => target[d] \in Entry
  BY <1>0, Entries DEF Waits
<1>1. ASSUME NEW a \in Awaitable, NEW how \in Result, SetBegin(a, how) PROVE Served'
  <2>1. Still
    BY <1>1, <1>0, StillFacts DEF SetBegin
  <2>2. \A x \in State : Completed(x)' /\ ~setting'[x] => Completed(x) /\ ~setting[x]
    BY <1>1, <1>0 DEF SetBegin, Store, Completed, Fields
  <2> QED BY <1>1, <1>0, <2>1, <2>2 DEF SetBegin
<1>2. ASSUME NEW a \in Awaitable, SetEnd(a) PROVE Served'
  <2>1. a \in State /\ a \in Entry
    BY <1>0, Entries
  <2>2. \/ scheduler[a] \in Sched /\ HasHandler(a) /\ Put(scheduler[a], a)
        \/ Still /\ (scheduler[a] \in Sched => ~HasHandler(a))
    BY <1>2, <1>0, <2>1, DeliverFacts DEF SetEnd
  <2>3. \A c \in Coro : at[c] = "asleep" /\ target[c] = a =>
          HasHandler(a) /\ scheduler[c] = scheduler[a] /\ scheduler[a] \in Sched
    BY <1>0, <2>1 DEF OneHandle, Waits, Waiting, HasHandler, Fields
  <2>4. setting' = [setting EXCEPT ![a] = FALSE]
        /\ UNCHANGED <<scheduler, at, target, hasValue, exception, coro, stage>>
    BY <1>2 DEF SetEnd
  <2>5. CASE Still /\ (scheduler[a] \in Sched => ~HasHandler(a))
    BY <1>0, <2>1, <2>3, <2>4, <2>5 DEF Fields, Completed
  <2>6. CASE scheduler[a] \in Sched /\ Put(scheduler[a], a)
    BY <1>0, <1>a, <2>1, <2>3, <2>4, <2>6, Entries DEF Fields, Completed, Put
  <2> QED BY <2>2, <2>5, <2>6
<1>3. ASSUME NEW s \in Sched, NEW x \in State, Launch(s, x) PROVE Served'
  <2>1. Still
    BY <1>3, <1>0, StillFacts DEF Launch
  <2>2. x \in Coro => at[x] = "new"
    BY <1>3, <1>0 DEF Launch
  <2> QED BY <1>3, <1>0, <2>1, <2>2 DEF Launch, Fields, Completed
<1>4. ASSUME NEW s \in Sched, Emplace(s) PROVE Served'
  <2>1. PICK x \in State : Emplaces(s, x)
    BY <1>4, EmplaceFacts
  <2>2. UNCHANGED <<stage, scheduler, at, target, setting, hasValue, exception, coro>>
    BY <2>1 DEF Emplaces
  <2>3. \A r \in Sched, y \in Entry :
          (y \in Held[r] => y \in Held'[r]) /\ (y \in Twice[r] => y \in Twice'[r])
    BY <2>1 DEF Emplaces, Put
  <2> QED BY <1>0, <1>a, <2>2, <2>3, Entries DEF Completed, Fields
<1>5. ASSUME NEW s \in Sched, NEW c \in Coro, NEW x \in State, AwaitTransform(s, c, x)
   PROVE Served'
  <2>1. Still
    BY <1>5, <1>0, StillFacts DEF AwaitTransform
  <2>2. x \in Coro => at[x] = "new"
    BY <1>5, <1>0 DEF AwaitTransform
  <2> QED BY <1>5, <1>0, <2>1, <2>2 DEF AwaitTransform, Fields, Completed
<1>6. ASSUME NEW s \in Sched, NEW c \in Coro, AwaitReady(s, c) PROVE Served'
  <2>1. Still
    BY <1>6, <1>0, StillFacts DEF AwaitReady
  <2> QED BY <1>6, <1>0, <2>1 DEF AwaitReady, Fields, Completed
<1>7. ASSUME NEW s \in Sched, NEW c \in Coro, AwaitSuspend(s, c) PROVE Served'
  <2>1. PICK x \in State : Suspends(s, c, x)
    BY <1>7, SuspendFacts
  <2>2. \A d \in Coro : at[d] = "asleep" => target[d] # x
    BY <1>0, <2>1 DEF Suspends, Waits, Waiting
  <2>3. /\ target[c] = x /\ x # c /\ at[c] = "suspends" /\ at' = [at EXCEPT ![c] = "asleep"]
        /\ scheduler[c] = s /\ (x \in Coro => at[x] = "new")
        /\ coro' = [coro EXCEPT ![x] = c]
        /\ UNCHANGED <<stage, scheduler, target, setting, hasValue, exception>>
    BY <2>1 DEF Suspends
  <2>4. \A r \in Sched, y \in Entry :
          (y \in Held[r] => y \in Held'[r]) /\ (y \in Twice[r] => y \in Twice'[r])
    BY <2>1 DEF Suspends, Put
  <2>5. x \in Held'[s] \/ ~IsReady(x)
    BY <2>1, Entries DEF Suspends, Put
  <2>6. Completed(x) /\ x \notin Void \cap Awaitable => IsReady(x)
    BY <1>0 DEF Completed, IsReady, TypeOK, State
  <2> QED BY <1>0, <1>a, <2>2, <2>3, <2>4, <2>5, <2>6, Entries DEF Completed, Fields
<1>8. ASSUME NEW s \in Sched, NEW c \in Coro, Yield(s, c) \/ SwitchEnd(s, c) PROVE
   Served'
  <2>1. scheduler[c] \in Sched /\ Put(scheduler[c], Ticket(c)) /\ Ticket(c) \in Entry
    BY <1>8, OwnFacts, Entries
  <2>2. /\ at' = [at EXCEPT ![c] = "asleep"] /\ target' = [target EXCEPT ![c] = Ticket(c)]
        /\ at[c] \in {"run", "switching"}
        /\ UNCHANGED <<stage, scheduler, setting, hasValue, exception, coro>>
    BY <1>8 DEF Yield, SwitchEnd
  <2> QED BY <1>0, <1>a, <2>1, <2>2, Entries DEF Completed, Put, Fields
<1>9. ASSUME NEW s \in Sched, NEW c \in Coro, CoYield(s, c) PROVE Served'
  <2>1. scheduler[c] = s /\ Put(s, c) /\ c \in Entry
    BY <1>9, OwnFacts, Entries
  <2>2. /\ at' = [at EXCEPT ![c] = "asleep"] /\ target' = [target EXCEPT ![c] = c]
        /\ at[c] = "run" /\ parent[c] = None /\ hasValue' = [hasValue EXCEPT ![c] = "Value"]
        /\ \A d \in Coro : d # c => coro'[d] = coro[d]
        /\ UNCHANGED <<stage, scheduler, setting, exception>>
    BY <1>9, <1>0 DEF CoYield, Fields
  <2>3. \A d \in Coro : at[d] = "asleep" => target[d] # c
    BY <1>0, <2>2 DEF Waits
  <2> QED BY SMTT(30), <1>0, <1>a, <2>1, <2>2, <2>3, Entries DEF Completed, Put, Fields
<1>10. ASSUME NEW s \in Sched, NEW c \in Coro, NEW t \in Sched, SwitchBegin(s, c, t)
   PROVE Served'
  <2>1. Still
    BY <1>10, <1>0, StillFacts DEF SwitchBegin
  <2>2. /\ scheduler' = [x \in State |-> IF x \in Movers(c, t) THEN t ELSE scheduler[x]]
        /\ at' = [at EXCEPT ![c] = "switching"] /\ at[c] = "run"
        /\ UNCHANGED <<stage, target, setting, hasValue, exception, coro>>
    BY <1>10 DEF SwitchBegin
  <2>3. \A y \in Movers(c, t) : y \in Coro /\ at[y] # "final" /\ ~Due(y)
    <3>1. ASSUME NEW y \in Movers(c, t), y # c PROVE ~Due(y)
      <4>1. /\ target[y] \in Coro /\ parent[target[y]] = y /\ y \in Coro
            /\ at[target[y]] \notin Done
        BY <1>10, <3>1, ChainFacts DEF SwitchBegin
      <4> QED BY <1>0, <1>a, <4>1 DEF Lives
    <3> QED BY <1>10, <3>1, <2>2, ChainFacts DEF SwitchBegin, Done
  <2> QED BY <1>0, <1>a, <2>1, <2>2, <2>3 DEF Completed, Fields
<1>11. ASSUME NEW s \in Sched, NEW c \in Coro, NEW how \in Result, Return(s, c, how)
   PROVE Served'
  <2>1. /\ c \in State /\ c \in Entry /\ scheduler[c] = s
        /\ (HasHandler(c) /\ Put(s, c)) \/ (~HasHandler(c) /\ Still)
    BY <1>11, <1>0, DeliverFacts, OnItsThread, Entries DEF Return
  <2>2. /\ at' = [at EXCEPT ![c] = "returned"] /\ at[c] = "run"
        /\ \A x \in State : x # c => hasValue'[x] = hasValue[x] /\ exception'[x] = exception[x]
        /\ UNCHANGED <<stage, coro, scheduler, target, setting>>
    BY <1>11, <1>0 DEF Return, Store, Fields
  <2>3. \A d \in Coro : at[d] = "asleep" /\ target[d] = c => HasHandler(c) /\ scheduler[d] = s
    BY <1>0, <2>1 DEF OneHandle, Waits, Waiting, HasHandler
  <2>4. \A r \in Sched, y \in Entry :
          (y \in Held[r] => y \in Held'[r]) /\ (y \in Twice[r] => y \in Twice'[r])
    BY <2>1 DEF Put
  <2>5. HasHandler(c) => c \in Held'[s]
    BY <2>1 DEF Put
  <2> HIDE DEF Still
  <2> QED BY <1>0, <1>a, <2>1, <2>2, <2>3, <2>4, <2>5, Entries DEF Completed, Fields
<1>12. ASSUME NEW s \in Sched, NEW c \in Coro, FinalSuspend(s, c) PROVE Served'
  <2>1. scheduler[c] = s /\ Put(s, c) /\ c \in Entry /\ stage[s] = "loop"
    BY <1>12, OwnFacts, OnItsThread, Entries DEF FinalSuspend
  <2>2. /\ at' = [at EXCEPT ![c] = "final"] /\ at[c] = "returned"
        /\ UNCHANGED <<stage, scheduler, target, setting, hasValue, exception, coro>>
    BY <1>12 DEF FinalSuspend
  <2>3. coro[c] # None => c \in Held[s]
    <3> SUFFICES ASSUME coro[c] # None PROVE c \in Held[s]
      OBVIOUS
    <3> DEFINE d == coro[c]
    <3>1. d \in Coro /\ at[d] = "asleep" /\ target[d] = c
      BY <1>0 DEF Fields, OneHandle
    <3>2. scheduler[d] = s
      BY <1>0, <2>1, <3>1 DEF Waits, Waiting
    <3>3. Completed(c) /\ ~setting[c] /\ c \notin Awaitable
      BY <1>0, <2>2 DEF Lives, Done
    <3> QED BY <3>1, <3>2, <3>3, <1>0
  <2> QED BY <1>0, <1>a, <2>1, <2>2, <2>3, Entries DEF Completed, Fields, Put
<1>13. ASSUME NEW s \in Sched, Start(s) \/ TakeBatch(s) \/ CheckTasks(s) PROVE Served'
  <2>1. Still
    BY <1>13, <1>0, StillFacts DEF Start, TakeBatch, CheckTasks
  <2> QED BY <1>13, <2>1, <1>0 DEF Start, TakeBatch, CheckTasks, Completed, Fields
<1>14. ASSUME NEW s \in Sched, NoBatch(s) PROVE Served'
  <2>1. Still
    BY <1>14, <1>0, StillFacts DEF NoBatch
  <2>2. Held[s] = {}
    <3>1. cached[s] = <<>> /\ running[s] = <<>>
      BY <1>14 DEF NoBatch
    <3>2. <<>> \o <<>> = <<>> /\ Len(<<>>) = 0
      OBVIOUS
    <3>3. \A x : ~Stands(Pending(s), x)
      BY <3>1, <3>2 DEF Stands, Pending
    <3> QED BY <3>3 DEF Held
  <2> QED BY <1>14, <2>1, <2>2, <1>0 DEF NoBatch, Completed, Fields
<1>15. ASSUME NEW s \in Sched, Resume(s) PROVE Served'
  <2>1. PICK x \in Entry : Resumed(s, x)
    BY <1>15, ResumeFacts
  <2>2. /\ Took(s, x) /\ stage[s] = "loop"
        /\ UNCHANGED <<stage, scheduler, hasValue, exception, setting, target>>
    BY <2>1 DEF Resumed
  <2>8. \A d \in Coro : Ticket(d) \notin State /\ \A c \in Coro : Ticket(d) = Ticket(c) => d = c
    BY <1>0 DEF Ticket
  <2>9. \A d \in Coro : at[d] = "asleep" => target[d] \in State \union {Ticket(d)}
    BY <1>0 DEF Waits
  <2>10. \A d \in Coro : at[d] = "asleep" /\ target[d] \in State => coro[target[d]] = d
    BY <1>0 DEF OneHandle
  <2>3. ASSUME NEW c \in Coro, GoesOn(s, x, c) PROVE Served'
    BY <1>0, <1>a, <2>2, <2>3, <2>8, <2>9, <2>10, Entries DEF GoesOn, Enter, Fields, Took, Completed
  <2>4. ASSUME NEW c \in Coro, Continues(s, x, c) PROVE Served'
    BY <1>0, <1>a, <2>2, <2>4, <2>8, <2>9, <2>10, Entries DEF Continues, Enter, Fields, Took, Completed
  <2>5. CASE Starts(s, x)
    <3>1. /\ at' = [at EXCEPT ![x] = "run"] /\ x \in Coro /\ at[x] = "new" /\ UNCHANGED coro
      BY <2>5 DEF Starts, Enter
    <3>2. \A d \in Coro : at'[d] \in {"asleep", "final"} => at'[d] = at[d] /\ d # x
      BY <1>0, <3>1 DEF Fields
    <3>3. \A d \in Coro : at[d] = "asleep" /\ target[d] = x => ~Completed(x)
      BY <1>0, <3>1 DEF Lives
    <3>4. \A r \in Sched, y \in Entry : y # x =>
            (y \in Held[r] => y \in Held'[r]) /\ (y \in Twice[r] => y \in Twice'[r])
      BY <2>2 DEF Took
    <3>5. \A d \in Coro, r \in Sched :
            Due(d)' /\ target[d] \notin Void \cap Awaitable /\ scheduler[d] = r
              => target[d] \in Held'[r]
      <4>1. ASSUME NEW d \in Coro, Due(d)' PROVE Due(d) /\ target[d] # x /\ target[d] \in Entry
        <5>1. Due(d)
          BY <2>2, <3>2, <4>1 DEF Completed
        <5>2. target[d] # x
          BY <1>0, <2>8, <2>9, <3>1, <3>3, <5>1
        <5> QED BY <1>a, <5>1, <5>2
      <4> QED BY <1>0, <3>4, <4>1
    <3>6. \A d \in Coro, r \in Sched : at'[d] = "final" /\ scheduler[d] = r =>
            /\ d \in Held'[r] /\ (coro[d] # None => d \in Twice'[r])
            /\ stage[r] # "check"
      BY <1>0, <1>a, <3>2, <3>4
    <3> QED BY <2>2, <3>1, <3>5, <3>6
  <2>6. CASE Destroys(s, x)
    <3>1. /\ at' = [at EXCEPT ![x] = "gone"] /\ x \in Coro /\ coro[x] = None /\ UNCHANGED coro
      BY <2>6 DEF Destroys
    <3>2. \A d \in Coro : at'[d] = "asleep" => at[d] = "asleep" /\ target[d] # x
      BY <1>0, <2>8, <2>10, <3>1 DEF Fields
    <3>3. \A r \in Sched, y \in Entry : y # x =>
            (y \in Held[r] => y \in Held'[r]) /\ (y \in Twice[r] => y \in Twice'[r])
      BY <2>2 DEF Took
    <3> QED BY <1>0, <1>a, <2>2, <3>1, <3>2, <3>3 DEF Fields, Completed
  <2>7. CASE Skips(s, x)
    BY <1>0, <1>a, <2>2, <2>7, <2>8, <2>9, <2>10, Entries DEF Skips, Took, Completed, Lives, Fields
  <2> QED BY <2>1, <2>3, <2>4, <2>5, <2>6, <2>7 DEF Resumed
<1> QED
  BY <1>1, <1>2, <1>3, <1>4, <1>5, <1>6, <1>7, <1>8, <1>9, <1>10, <1>11, <1>12, <1>13,
     <1>14, <1>15 DEF Next, CoroStep, SchedStep

(* Every step keeps the tasks. *)
LEMMA NextKept == Inv /\ Next => Kept'
<1> SUFFICES ASSUME Inv, Next PROVE Kept'
  OBVIOUS
<1> USE DEF Kept, Done, threads, queues, states, Goes, Leave
<1>0. /\ Fields /\ Coro \subseteq State /\ Awaitable \subseteq State /\ Coro \cap Awaitable = {}
      /\ \A c \in Coro : c # None /\ Ticket(c) \notin State
      /\ \A s \in Sched : s # None
      /\ \A c \in Coro : at[c] # "new" => scheduler[c] # None
      /\ TypeOK /\ Threads /\ Lives /\ OneHandle /\ Waits /\ Launches /\ Queues /\ Served /\ Kept
  BY NoneAssumption, NamesAssumption, Entries, FieldTypes DEF Inv, Lives
<1>a. ready \in [Sched -> SUBSET State]
  BY <1>0 DEF TypeOK
<1>1. ASSUME NEW a \in Awaitable, NEW how \in Result, SetBegin(a, how) PROVE Kept'
  <2>1. Still
    BY <1>1, <1>0, StillFacts DEF SetBegin
  <2> QED BY <1>1, <1>0, <2>1 DEF SetBegin, Still
<1>2. ASSUME NEW a \in Awaitable, SetEnd(a) PROVE Kept'
  <2>1. \A r \in Sched, y \in Coro : (y \in Held'[r] <=> y \in Held[r]) /\ (y \in ready'[r] <=> y \in ready[r])
    BY <1>2, <1>0, <1>a, DeliverFacts, Entries DEF SetEnd, Put, Still, DelFinal
  <2> QED BY <1>2, <1>0, <2>1 DEF SetEnd
<1>3. ASSUME NEW s \in Sched, NEW x \in State, Launch(s, x) PROVE Kept'
  <2>1. Still
    BY <1>3, <1>0, StillFacts DEF Launch
  <2>2. \A r \in Sched : x \notin Held[r]
    BY <1>3, <1>0 DEF Launch, Queues
  <2>3. x \in Coro => at[x] = "new" /\ \A r \in Sched : x \notin ready[r]
    BY <1>3, <1>0 DEF Launch
  <2> QED BY <1>3, <1>0, <2>1, <2>2, <2>3 DEF Launch, Fields, Still
<1>4. ASSUME NEW s \in Sched, Emplace(s) PROVE Kept'
  <2>1. PICK x \in State : Emplaces(s, x)
    BY <1>4, EmplaceFacts
  <2>2. /\ x \in Coro => at[x] = "new" /\ parent[x] = None /\ HasHandler(x)
        /\ scheduler[x] = s /\ UNCHANGED <<scheduler, at, parent>>
    BY <1>0, <2>1 DEF Emplaces, Launches, HasHandler, Lives
  <2>3. \A r \in Sched, y \in Coro : y # x \/ r # s =>
          (y \in Held'[r] <=> y \in Held[r]) /\ (y \in ready'[r] <=> y \in ready[r])
    BY <1>0, <1>a, <2>1, Entries DEF Emplaces, Put, Still
  <2>4. x \in Coro => x \in Held'[s] /\ x \in ready'[s]
    BY <1>0, <1>a, <2>1, <2>2, Entries DEF Emplaces, Put
  <2> QED BY <1>0, <2>2, <2>3, <2>4
<1>5. ASSUME NEW s \in Sched, NEW c \in Coro, NEW x \in State, AwaitTransform(s, c, x)
   PROVE Kept'
  <2>1. Still
    BY <1>5, <1>0, StillFacts DEF AwaitTransform
  <2>2. \A r \in Sched : x \notin Held[r]
    BY <1>5, <1>0 DEF AwaitTransform, Queues
  <2>3. x \in Coro => at[x] = "new" /\ \A r \in Sched : x \notin ready[r]
    BY <1>5, <1>0 DEF AwaitTransform
  <2> QED BY <1>5, <1>0, <2>1, <2>2, <2>3 DEF AwaitTransform, Fields, Still
<1>6. ASSUME NEW s \in Sched, NEW c \in Coro, AwaitReady(s, c) PROVE Kept'
  <2>1. Still
    BY <1>6, <1>0, StillFacts DEF AwaitReady
  <2> QED BY <1>6, <1>0, <2>1 DEF AwaitReady, Fields, Still
<1>7. ASSUME NEW s \in Sched, NEW c \in Coro, AwaitSuspend(s, c) PROVE Kept'
  <2>1. PICK x \in State : Suspends(s, c, x)
    BY <1>7, SuspendFacts
  <2>2. /\ target[c] = x /\ x # c /\ at[c] = "suspends" /\ at' = [at EXCEPT ![c] = "asleep"]
        /\ scheduler[x] = s /\ (x \in Coro => at[x] = "new" /\ x \notin Held[s])
        /\ parent' = [parent EXCEPT ![x] = c] /\ UNCHANGED <<ready, scheduler>>
    BY <2>1 DEF Suspends
  <2>3. \A r \in Sched, y \in Coro : y # x => (y \in Held'[r] <=> y \in Held[r])
    BY <1>0, <2>1, Entries DEF Suspends, Put, Still
  <2>4. x \in Coro => \A r \in Sched : x \notin ready[r]
    BY <1>0, <2>2
  <2> QED BY <1>0, <2>2, <2>3, <2>4 DEF Fields
<1>8. ASSUME NEW s \in Sched, NEW c \in Coro, Yield(s, c) \/ SwitchEnd(s, c) \/
   CoYield(s, c) PROVE Kept'
  <2>1. \A r \in Sched, y \in Coro : y # c => (y \in Held'[r] <=> y \in Held[r])
    BY <1>8, <1>0, <1>a, OwnFacts, Entries DEF Put
  <2>2. /\ at' = [at EXCEPT ![c] = "asleep"] /\ at[c] \in {"run", "switching"}
        /\ UNCHANGED <<ready, scheduler, parent>>
    BY <1>8 DEF Yield, SwitchEnd, CoYield
  <2> QED BY <1>0, <2>1, <2>2 DEF Fields
<1>9. ASSUME NEW s \in Sched, NEW c \in Coro, NEW t \in Sched, SwitchBegin(s, c, t)
   PROVE Kept'
  <2>1. Still
    BY <1>9, <1>0, StillFacts DEF SwitchBegin
  <2> DEFINE M == Movers(c, t)
  <2>2. \A y \in M : y \in Coro /\ at[y] \notin Done \union {"new"} /\ scheduler[y] = s
    BY <1>9, ChainFacts DEF SwitchBegin
  <2>3. s # t
    BY <1>9, OnItsThread DEF SwitchBegin
  <2>4. /\ scheduler' = [x \in State |-> IF x \in M THEN t ELSE scheduler[x]]
        /\ ready' = [r \in Sched |->
                      IF r = t THEN ready[t] \union {y \in M : y \in ready[scheduler[y]]}
                               ELSE ready[r] \ {y \in M : scheduler[y] = r}]
        /\ at' = [at EXCEPT ![c] = "switching"] /\ at[c] = "run" /\ UNCHANGED parent
    BY <1>9 DEF SwitchBegin, MoveTasks
  <2> HIDE DEF M
  <2>5. ASSUME NEW y \in Coro, y \in M, NEW r \in Sched
        PROVE  y \in ready'[r] <=> parent[y] = None /\ r = t
    BY <1>0, <2>2, <2>3, <2>4, <2>5
  <2>6. ASSUME NEW y \in Coro, y \notin M, NEW r \in Sched
        PROVE  y \in ready'[r] <=> y \in ready[r]
    BY <2>4, <2>6
  <2> QED BY <1>0, <2>1, <2>2, <2>4, <2>5, <2>6 DEF Fields, Still
<1>10. ASSUME NEW s \in Sched, NEW c \in Coro, NEW how \in Result, Return(s, c, how)
   PROVE Kept'
  <2>1. /\ at' = [at EXCEPT ![c] = "returned"] /\ at[c] = "run" /\ UNCHANGED <<scheduler, parent>>
    BY <1>10 DEF Return
  <2>2. \A r \in Sched, y \in Coro : y # c =>
          (y \in Held'[r] <=> y \in Held[r]) /\ (y \in ready'[r] <=> y \in ready[r])
    BY <1>10, <1>0, <1>a, DeliverFacts, Entries DEF Return, Put, Still, DelFinal
  <2> QED BY <1>0, <2>1, <2>2 DEF Fields
<1>11. ASSUME NEW s \in Sched, NEW c \in Coro, FinalSuspend(s, c) PROVE Kept'
  <2>1. /\ at' = [at EXCEPT ![c] = "final"] /\ at[c] = "returned" /\ UNCHANGED <<scheduler, parent>>
    BY <1>11 DEF FinalSuspend
  <2>2. \A r \in Sched, y \in Coro : y # c =>
          (y \in Held'[r] <=> y \in Held[r]) /\ (y \in ready'[r] <=> y \in ready[r])
    BY <1>11, <1>0, <1>a, OwnFacts, Entries DEF Put
  <2> QED BY <1>0, <2>1, <2>2 DEF Fields
<1>12. ASSUME NEW s \in Sched, Start(s) \/ TakeBatch(s) \/ NoBatch(s) \/ CheckTasks(s)
   PROVE Kept'
  <2>1. Still
    BY <1>12, <1>0, StillFacts DEF Start, TakeBatch, NoBatch, CheckTasks
  <2> QED BY <1>12, <2>1, <1>0 DEF Start, TakeBatch, NoBatch, CheckTasks, Still
<1>13. ASSUME NEW s \in Sched, Resume(s) PROVE Kept'
  <2>1. PICK x \in Entry : Resumed(s, x)
    BY <1>13, ResumeFacts
  <2>2. /\ Took(s, x) /\ x \in Held[s] /\ UNCHANGED <<ready, scheduler, parent>>
    BY <2>1 DEF Resumed, Took
  <2>3. \A r \in Sched, y \in Coro : ~(r = s /\ y = x) => (y \in Held'[r] <=> y \in Held[r])
    BY <1>0, <2>2, Entries DEF Took
  <2>4. ASSUME NEW c \in Coro, GoesOn(s, x, c) PROVE Kept'
    BY <1>0, <2>2, <2>3, <2>4 DEF GoesOn, Enter, Fields
  <2>5. ASSUME NEW c \in Coro, Continues(s, x, c) PROVE Kept'
    BY <1>0, <2>2, <2>3, <2>5 DEF Continues, Enter, Fields
  <2>6. CASE Starts(s, x)
    BY <1>0, <2>2, <2>3, <2>6 DEF Starts, Enter, Fields
  <2>7. CASE Destroys(s, x)
    BY <1>0, <2>2, <2>3, <2>7 DEF Destroys, Fields
  <2>8. CASE Skips(s, x)
    BY <1>0, <2>2, <2>3, <2>8 DEF Skips, Lives
  <2> QED BY <2>1, <2>4, <2>5, <2>6, <2>7, <2>8 DEF Resumed
<1> QED
  BY <1>1, <1>2, <1>3, <1>4, <1>5, <1>6, <1>7, <1>8, <1>9, <1>10, <1>11, <1>12, <1>13
     DEF Next, CoroStep, SchedStep
-----------------------------------------------------------------------------
(* The invariant holds in every reachable state. *)
LEMMA NextInv == Inv /\ [Next]_vars => Inv'
<1> SUFFICES ASSUME Inv, [Next]_vars PROVE Inv'
  OBVIOUS
<1>1. CASE Next
  BY <1>1, NextType, NextThreads, NextLives, NextOneHandle, NextWaits, NextLaunches, NextRooted,
     NextQueues, NextServed, NextKept DEF Inv
<1>2. CASE UNCHANGED vars
  <2>1. Still
    BY <1>2, StillFacts DEF Inv, vars, queues
  <2> USE <1>2, <2>1 DEF Inv, vars, threads, queues, states, Still
  <2>2. TypeOK' /\ Threads'
    BY DEF TypeOK, Threads
  <2>3. Lives' /\ OneHandle' /\ Waits'
    BY DEF Lives, OneHandle, Waits, Completed
  <2>4. Launches' /\ Rooted' /\ Queues'
    BY DEF Launches, Rooted, Queues, Completed
  <2>5. Served' /\ Kept'
    BY DEF Served, Kept, Due, Completed
  <2> QED BY <2>2, <2>3, <2>4, <2>5
<1> QED BY <1>1, <1>2 DEF vars

THEOREM Invariance == Spec => []Inv
  BY InitInv, NextInv, PTL DEF Spec

(* The variables have their types: handles are handles of coroutines,      *)
(* queues hold states and tickets, and only a state_t<void> keeps an       *)
(* exception beside _has_value.                                            *)
THEOREM TypeCorrect == Spec => []TypeOK
  BY Invariance, PTL DEF Inv

(* The handle of a coroutine that waits is in the state it waits for and   *)
(* in no other, so that it goes on at most once for each co_await.         *)
THEOREM HandleCorrect == Spec => []OneHandle
  BY Invariance, PTL DEF Inv

(* A coroutine runs on the thread of its scheduler, and what it waits for  *)
(* belongs to the same scheduler, however many coroutines via() moved.     *)
THEOREM ThreadCorrect == Spec => []OwnThread
<1>1. Inv => OwnThread
  BY DEF Inv, Threads, Waits, Waiting, OwnThread
<1> QED BY <1>1, Invariance, PTL

(* A coroutine that nobody awaits keeps its task until it returns, in the  *)
(* scheduler it is in and in no other.                                     *)
THEOREM TaskCorrect == Spec => []TaskKept
<1>1. Inv => TaskKept
  BY DEF Inv, Kept, Done, TaskKept, Unfinished
<1> QED BY <1>1, Invariance, PTL

(* What is held stands in one of the two queues. *)
LEMMA HeldIsQueued ==
  ASSUME TypeOK, NEW s \in Sched, NEW x \in Held[s]
  PROVE  Queued(x, s)
<1>1. cached[s] \in Seq(Entry) /\ running[s] \in Seq(Entry)
  BY DEF TypeOK
<1> DEFINE u == cached[s]
           v == running[s]
<1>2. PICK i \in 1..Len(u \o v) : (u \o v)[i] = x
  BY DEF Held, Stands, Pending
<1>3. Queued(x, s) <=> (\E j \in 1..Len(v) : v[j] = x) \/ (\E j \in 1..Len(u) : u[j] = x)
  BY DEF Queued
<1>4. u \in Seq(Entry) /\ v \in Seq(Entry)
  BY <1>1
<1> HIDE DEF u, v
<1>5. /\ Len(u) \in Nat /\ Len(v) \in Nat /\ Len(u \o v) = Len(u) + Len(v)
      /\ \A j \in 1..(Len(u) + Len(v)) : (u \o v)[j] = IF j <= Len(u) THEN u[j] ELSE v[j - Len(u)]
  BY <1>4, ConcatProperties, LenProperties
<1>6. CASE i <= Len(u)
  BY <1>2, <1>3, <1>5, <1>6
<1>7. CASE ~(i <= Len(u))
  <2>1. i - Len(u) \in 1..Len(v) /\ v[i - Len(u)] = x
    BY <1>2, <1>5, <1>7
  <2> QED BY <1>3, <2>1
<1> QED BY <1>6, <1>7

(* A completion is never lost, in whatever step of co_await it comes; only *)
(* an exception in an awaitable_t<void> is, which MCFutureVoid shows.      *)
THEOREM NothingLost ==
  ASSUME Void \cap Awaitable = {}
  PROVE  Spec => []NothingForgotten
<1>1. Inv => NothingForgotten
  <2> SUFFICES ASSUME Inv PROVE NothingForgotten
    OBVIOUS
  <2>1. ASSUME NEW c \in Coro, at[c] # "new" PROVE scheduler[c] \in Sched
    BY <2>1, FieldTypes, Entries DEF Inv, Lives, Fields
  <2>2. ASSUME NEW c \in Coro, Due(c) PROVE Queued(target[c], scheduler[c])
    <3>1. scheduler[c] \in Sched
      BY <2>1, <2>2 DEF Due
    <3>2. target[c] \in Held[scheduler[c]]
      BY <2>2, <3>1 DEF Inv, Served
    <3> QED BY <3>1, <3>2, HeldIsQueued DEF Inv
  <2>3. ASSUME NEW c \in Coro, at[c] = "final" PROVE \E s \in Sched : Queued(c, s)
    <3>1. scheduler[c] \in Sched /\ c \in Held[scheduler[c]]
      BY <2>1, <2>3 DEF Inv, Served
    <3> QED BY <3>1, HeldIsQueued DEF Inv
  <2> QED BY <2>2, <2>3 DEF NothingForgotten
<1> QED BY <1>1, Invariance, PTL

(* run_until_notask() returns only when every coroutine of the scheduler   *)
(* has come to its end: one of the unfinished ones has no caller among     *)
(* them, and it has a task.                                                *)
LEMMA AllDone ==
  ASSUME Inv, NEW s \in Sched, stage[s] = "check", ready[s] = {}, NEW c \in Coro, scheduler[c] = s
  PROVE  at[c] = "gone"
<1> USE DEF Inv
<1>0. Fields /\ Coro \subseteq State /\ \A d \in Coro : d # None
  BY FieldTypes, Entries, NoneAssumption
<1>1. on[s] = None /\ launching[s] = None
  BY NoneAssumption DEF Threads
<1>2. ASSUME NEW d \in Coro, at[d] \in InCode \ {"switching"}, scheduler[d] = s PROVE FALSE
  BY <1>0, <1>1, <1>2 DEF Threads
<1> DEFINE S == {d \in Coro : scheduler[d] = s /\ at[d] \notin Done}
<1>3. ASSUME NEW d \in S, parent[d] = None PROVE FALSE
  <2>1. at[d] = "new" /\ d \notin Held[s]
    BY <1>3 DEF Kept
  <2>2. PICK e \in Coro : at[e] \in Calling /\ target[e] = d
    BY <1>0, <1>1, <1>3, <2>1 DEF Launches
  <2>3. scheduler[e] = s
    BY <1>0, <1>3, <2>2 DEF Waits, Waiting, Calling
  <2> QED BY <1>2, <2>2, <2>3 DEF Calling, InCode
<1>4. ASSUME NEW d \in S, parent[d] # None PROVE parent[d] \in S
  <2>1. parent[d] \in Coro /\ at[parent[d]] = "asleep" /\ target[parent[d]] = d
    BY <1>0, <1>4 DEF Fields, Waits
  <2>2. scheduler[parent[d]] = s
    BY <1>0, <1>4, <2>1 DEF Waits, Waiting
  <2> QED BY <2>1, <2>2 DEF Done
<1>5. S = {}
  <2>1. S \in SUBSET Coro /\ \A d \in S : at[d] \notin Done
    OBVIOUS
  <2> HIDE DEF S
  <2> QED BY <1>3, <1>4, <2>1 DEF Rooted
<1>6. at[c] # "returned"
  BY <1>2 DEF InCode
<1>7. at[c] # "final"
  BY DEF Served
<1> QED BY <1>5, <1>6, <1>7 DEF Done

THEOREM ReturnCorrect == Spec => ReturnsWhenDone
<1> DEFINE Leaves(s) == stage[s] = "check" /\ stage'[s] = "user"
<1>1. Inv /\ [Next]_vars =>
        \A s \in Sched : Leaves(s) => \A c \in Coro : scheduler[c] = s => at[c] = "gone"
  <2> SUFFICES ASSUME Inv, [Next]_vars, NEW s \in Sched, Leaves(s)
               PROVE  \A c \in Coro : scheduler[c] = s => at[c] = "gone"
    OBVIOUS
  <2>1. stage' # stage /\ stage \in [Sched -> {"user", "loop", "check"}]
    BY FieldTypes DEF Inv, Fields
  <2>2. \E r \in Sched : Start(r) \/ NoBatch(r) \/ CheckTasks(r)
    <3>1. ASSUME NEW r \in Sched, NEW c \in Coro, CoroStep(r, c) PROVE stage' = stage
      BY <3>1 DEF CoroStep, AwaitTransform, AwaitReady, AwaitSuspend, Yield, CoYield, SwitchBegin,
         SwitchEnd, Return, FinalSuspend, Leave, threads
    <3>2. ASSUME NEW r \in Sched, Emplace(r) \/ TakeBatch(r) \/ Resume(r) PROVE stage' = stage
      BY <3>2 DEF Emplace, TakeBatch, Resume, Enter, Continue, threads
    <3>3. ASSUME NEW r \in Sched, NEW x \in State, Launch(r, x) PROVE stage' = stage
      BY <3>3 DEF Launch
    <3>4. ASSUME NEW a \in Awaitable, SetEnd(a) \/ \E how \in Result : SetBegin(a, how)
          PROVE  stage' = stage
      BY <3>4 DEF SetBegin, SetEnd, threads
    <3>5. CASE UNCHANGED vars
      BY <2>1, <3>5 DEF vars, threads
    <3> QED BY <2>1, <3>1, <3>2, <3>3, <3>4, <3>5 DEF Next, SchedStep
  <2>3. ready[s] = {}
    BY <2>1, <2>2 DEF Start, NoBatch, CheckTasks, AtLoop
  <2> QED BY <2>3, AllDone
<1>2. Inv /\ [Next]_vars =>
        [\A s \in Sched : Leaves(s) => \A c \in Coro : scheduler[c] = s => at[c] = "gone"]_vars
  BY <1>1
<1> QED BY <1>2, Invariance, PTL DEF Spec, ReturnsWhenDone

(* The steps of the promise of co_await. *)
Promised ==
  \/ UNCHANGED <<Complete, Awaits>>
  \/ \E x \in State : Complete' = Complete \union {x} /\ UNCHANGED Awaits
  \/ \E c \in Coro, x \in State :
       Awaits[c] = None /\ Awaits' = [Awaits EXCEPT ![c] = x] /\ UNCHANGED Complete
  \/ \E c \in Coro :
       Awaits[c] \in Complete /\ Awaits' = [Awaits EXCEPT ![c] = None] /\ UNCHANGED Complete

(* Every step is one of these. *)
LEMMA StepPromises == Inv /\ Next => Promised
<1> SUFFICES ASSUME Inv, Next PROVE Promised
  OBVIOUS
<1> USE DEF Promised, Complete, Awaits, Completed, Waiting, threads, queues, states, Goes, Leave
<1>0. /\ Fields /\ Coro \subseteq State /\ Awaitable \subseteq State /\ Coro \cap Awaitable = {}
      /\ \A c \in Coro : c # None /\ Ticket(c) \notin State
      /\ \A s \in Sched : s # None
      /\ \A c \in Coro : at[c] # "new" => scheduler[c] # None
      /\ TypeOK /\ Threads /\ Lives /\ OneHandle /\ Waits /\ Launches /\ Queues /\ Served /\ Kept
  BY NoneAssumption, NamesAssumption, Entries, FieldTypes DEF Inv, Lives
<1>1. ASSUME NEW a \in Awaitable, NEW how \in Result, SetBegin(a, how) PROVE Promised
  <2>1. a \in State /\ Complete' = Complete \union {a} /\ Awaits' = Awaits
    BY <1>1, <1>0 DEF SetBegin, Store, Fields, Result
  <2> QED BY <2>1
<1>2. ASSUME NEW a \in Awaitable, SetEnd(a) PROVE Promised
  BY <1>2 DEF SetEnd
<1>3. ASSUME NEW s \in Sched, NEW x \in State, Launch(s, x) PROVE Promised
  BY <1>3 DEF Launch
<1>4. ASSUME NEW s \in Sched, Emplace(s) \/ Start(s) \/ TakeBatch(s) \/ NoBatch(s) \/
   CheckTasks(s) PROVE Promised
  BY <1>4 DEF Emplace, Start, TakeBatch, NoBatch, CheckTasks
<1>5. ASSUME NEW s \in Sched, NEW c \in Coro, NEW x \in State, AwaitTransform(s, c, x)
   PROVE Promised
  <2>1. x # c
    BY <1>5, <1>0, OnItsThread DEF AwaitTransform
  <2>2. Complete' = Complete /\ Awaits[c] = None /\ Awaits' = [Awaits EXCEPT ![c] = x]
    BY <1>5, <1>0, <2>1 DEF AwaitTransform, Fields
  <2> QED BY <2>2
<1>6. ASSUME NEW s \in Sched, NEW c \in Coro, AwaitReady(s, c) PROVE Promised
  <2>1. target[c] \in State \ {c} /\ at[c] = "awaits" /\ Complete' = Complete
    BY <1>6, <1>0 DEF AwaitReady, Waits, Calling
  <2>2. CASE at' = [at EXCEPT ![c] = "run"] /\ hasValue[target[c]] # "None" /\ UNCHANGED target
    <3>1. Awaits[c] \in Complete /\ Awaits' = [Awaits EXCEPT ![c] = None]
      BY <1>0, <2>1, <2>2 DEF Fields
    <3> QED BY <2>1, <3>1
  <2>3. CASE at' = [at EXCEPT ![c] = "suspends"] /\ UNCHANGED target
    <3>1. Awaits' = Awaits
      BY <1>0, <2>1, <2>3 DEF Fields
    <3> QED BY <2>1, <3>1
  <2> QED BY <1>6, <2>2, <2>3 DEF AwaitReady
<1>7. ASSUME NEW s \in Sched, NEW c \in Coro, AwaitSuspend(s, c) PROVE Promised
  <2>1. PICK x \in State : Suspends(s, c, x)
    BY <1>7, SuspendFacts
  <2>2. Complete' = Complete /\ Awaits' = Awaits
    BY <1>0, <2>1 DEF Suspends, Fields
  <2> QED BY <2>2
<1>8. ASSUME NEW s \in Sched, NEW c \in Coro, Yield(s, c) \/ SwitchEnd(s, c) \/
   FinalSuspend(s, c) PROVE Promised
  BY <1>8, <1>0 DEF Yield, SwitchEnd, FinalSuspend, Fields
<1>9. ASSUME NEW s \in Sched, NEW c \in Coro, CoYield(s, c) PROVE Promised
  <2>1. Complete' = Complete \union {c} /\ Awaits' = Awaits
    BY <1>9, <1>0 DEF CoYield, Fields
  <2> QED BY <1>0, <2>1
<1>10. ASSUME NEW s \in Sched, NEW c \in Coro, NEW t \in Sched, SwitchBegin(s, c, t)
   PROVE Promised
  BY <1>10, <1>0 DEF SwitchBegin, Fields
<1>11. ASSUME NEW s \in Sched, NEW c \in Coro, NEW how \in Result, Return(s, c, how)
   PROVE Promised
  <2>1. Complete' = Complete \union {c} /\ Awaits' = Awaits
    BY <1>11, <1>0 DEF Return, Store, Fields, Result
  <2> QED BY <1>0, <2>1
<1>12. ASSUME NEW s \in Sched, Resume(s) PROVE Promised
  <2>1. PICK x \in Entry : Resumed(s, x)
    BY <1>12, ResumeFacts
  <2>2. Complete' = Complete /\ UNCHANGED target
    BY <2>1 DEF Resumed
  <2>3. ASSUME NEW c \in Coro, Continues(s, x, c) PROVE Promised
    <3>1. CASE x = c
      <4>1. Awaits' = Awaits
        BY <1>0, <2>2, <2>3, <3>1 DEF Continues, Enter, Fields
      <4> QED BY <2>2, <4>1
    <3>2. CASE x # c
      <4>1. Awaits[c] \in Complete /\ Awaits' = [Awaits EXCEPT ![c] = None]
        BY <1>0, <2>2, <2>3, <3>2 DEF Continues, Enter, Fields
      <4> QED BY <2>2, <4>1
    <3> QED BY <3>1, <3>2
  <2>4. ASSUME NEW c \in Coro, GoesOn(s, x, c) PROVE Awaits' = Awaits
    BY <1>0, <2>2, <2>4 DEF GoesOn, Enter, Fields
  <2>5. CASE Starts(s, x) \/ Destroys(s, x) \/ Skips(s, x)
    BY <1>0, <2>2, <2>5 DEF Starts, Destroys, Skips, Enter, Fields
  <2> QED BY <2>1, <2>2, <2>3, <2>4, <2>5 DEF Resumed
<1> QED
  BY <1>1, <1>2, <1>3, <1>4, <1>5, <1>6, <1>7, <1>8, <1>9, <1>10, <1>11, <1>12 DEF Next,
     CoroStep, SchedStep

(* No co_await comes back before the operation has its result: Future      *)
(* implements Completion.                                                  *)
THEOREM Refinement == Spec => ImplementsCompletion
<1>1. Init => Abstract!Init
  BY NoneAssumption DEF Init, Abstract!Init, Complete, Awaits, Completed
<1>2. Inv /\ [Next]_vars => [Abstract!Next]_<<Complete, Awaits>>
  <2> SUFFICES ASSUME Inv, [Next]_vars PROVE [Abstract!Next]_<<Complete, Awaits>>
    OBVIOUS
  <2>1. CASE Next
    <3>1. Promised
      BY <2>1, StepPromises
    <3> QED BY <3>1 DEF Promised, Complete, Awaits, Waiting, Abstract!Next, Abstract!Finish,
               Abstract!Await, Abstract!GoOn
  <2>2. CASE UNCHANGED vars
    BY <2>2 DEF vars, threads, states, Complete, Awaits, Completed
  <2> QED BY <2>1, <2>2
<1> QED
  BY <1>1, <1>2, Invariance, PTL DEF Spec, ImplementsCompletion, Abstract!Spec
=============================================================================
