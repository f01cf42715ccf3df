------------------------------- MODULE Channel -------------------------------
(***************************************************************************)
(* channel_t: a queue of at most _max_counter values, a queue of waiting   *)
(* readers and one of waiting writers, all under one lock.  Coroutines     *)
(* suspend in co_await read() and co_await write(v); native threads spin   *)
(* in the destructor of the awaiter.  A coroutine that another one         *)
(* notifies runs again when its scheduler gets to it.  With a capacity of  *)
(* zero, values go from hand to hand.                                      *)
(*                                                                         *)
(* _values is a ring_queue, used here as the bounded buffer that           *)
(* RingQueue.tla implements.                                               *)
(***************************************************************************)
EXTENDS Integers, Sequences

CONSTANTS
  Reader, Writer,     \* the coroutines that read and those that write
  Value,
  NoVal,              \* what an awaiter holds before its first value
  Capacities          \* the capacities a channel is built with

Coro == Reader \union Writer

ASSUME CapacitiesAssumption == Capacities \subseteq Nat
ASSUME NoValAssumption == NoVal \notin Value

VARIABLES
  cap,            \* channel_impl_v2::_max_counter
  values,         \* channel_impl_v2::_values
  readAwakes,     \* channel_impl_v2::_read_awakes, each state as its coroutine
  writeAwakes,    \* channel_impl_v2::_write_awakes
  readVal,        \* read_awaiter::_value of the coroutine's last read
  writeVal,       \* write_awaiter::_value of its last write
  at              \* where a coroutine is

vars == <<cap, values, readAwakes, writeAwakes, readVal, writeVal, at>>

(* "run": between two calls; "reads", "writes": in await_ready() or        *)
(* await_suspend(), without the lock; "reading", "writing": suspended in   *)
(* a queue; "ready": notified, and in the queue of its scheduler.          *)
Where == {"run", "reads", "writes", "reading", "writing", "ready"}

Init ==
  /\ cap \in Capacities
  /\ values = <<>>
  /\ readAwakes = <<>>
  /\ writeAwakes = <<>>
  /\ readVal = [c \in Reader |-> NoVal]
  /\ writeVal = [c \in Writer |-> NoVal]
  /\ at = [c \in Coro |-> "run"]
-----------------------------------------------------------------------------
(* Mutant: room for one value too many. *)
BugHasRoom(q) == Len(q) <= cap

HasRoom(q) == Len(q) < cap

(* Mutant: the notified coroutine is not put into its scheduler. *)
BugMove(where, woken) == where

(* on_notify of every coroutine of `woken`; `where` is the caller's own    *)
(* move.                                                                   *)
Move(where, woken) == [c \in Coro |-> IF c \in woken THEN "ready" ELSE where[c]]

(* Mutant: a read from the buffer lets no waiting writer in. *)
BugAwakeNoWriter(q, where) ==
  /\ values' = q
  /\ at' = where
  /\ UNCHANGED writeAwakes

(* Mutant: the value of a waiting writer overtakes those in the buffer. *)
BugAwakeWriterFirst(q, where) ==
  \/ /\ writeAwakes = <<>>
     /\ values' = q
     /\ at' = where
     /\ UNCHANGED writeAwakes
  \/ /\ writeAwakes # <<>>
     /\ values' = <<writeVal[Head(writeAwakes)]>> \o q
     /\ at' = Move(where, {Head(writeAwakes)})
     /\ writeAwakes' = Tail(writeAwakes)

(* awake_one_writer_(): a value was popped, leaving q, and the first       *)
(* waiting writer pushes its own.  (A push without room would lose it:     *)
(* that is the assert(ret) of the code.)                                   *)
AwakeWriter(q, where) ==
  \/ /\ writeAwakes = <<>>
     /\ values' = q
     /\ at' = where
     /\ UNCHANGED writeAwakes
  \/ /\ writeAwakes # <<>>
     /\ values' = IF HasRoom(q) THEN Append(q, writeVal[Head(writeAwakes)]) ELSE q
     /\ at' = Move(where, {Head(writeAwakes)})
     /\ writeAwakes' = Tail(writeAwakes)

Give(takers, v) == readVal' = [c \in Reader |-> IF c \in takers THEN v ELSE readVal[c]]

(* awake_one_writer_(val): the value of the first waiting writer goes      *)
(* straight to the reader.                                                 *)
TakeFromWriter(takers, where) ==
  /\ writeAwakes # <<>>
  /\ Give(takers, writeVal[Head(writeAwakes)])
  /\ at' = Move(where, {Head(writeAwakes)})
  /\ writeAwakes' = Tail(writeAwakes)

(* try_read_nolock(), whose value goes to the coroutine in `takers`, or is *)
(* discarded when there is none: from the buffer, or else from a writer.   *)
TryRead(takers, where) ==
  /\ \/ values # <<>> /\ Give(takers, Head(values)) /\ AwakeWriter(Tail(values), where)
     \/ values = <<>> /\ TakeFromWriter(takers, where) /\ UNCHANGED values
  /\ UNCHANGED <<cap, readAwakes, writeVal>>

Readable == values # <<>> \/ writeAwakes # <<>>

(* awake_one_reader_(val): v goes straight to the first waiting reader. *)
GiveToReader(v, where) ==
  /\ readAwakes # <<>>
  /\ Give({Head(readAwakes)}, v)
  /\ at' = Move(where, {Head(readAwakes)})
  /\ readAwakes' = Tail(readAwakes)

(* awake_one_reader_(): the buffer has become q, and the first waiting     *)
(* reader takes the oldest value.                                          *)
AwakeReader(q, where) ==
  \/ readAwakes = <<>> /\ values' = q /\ at' = where /\ UNCHANGED <<readAwakes, readVal>>
  \/ GiveToReader(Head(q), where) /\ values' = Tail(q)

(* try_write_nolock(): into the buffer, or else to a reader. *)
TryWrite(v, where) ==
  /\ \/ HasRoom(values) /\ AwakeReader(Append(values, v), where)
     \/ ~HasRoom(values) /\ GiveToReader(v, where) /\ UNCHANGED values
  /\ UNCHANGED <<cap, writeAwakes>>

Writable == HasRoom(values) \/ readAwakes # <<>>
-----------------------------------------------------------------------------
Going(c, where) == [at EXCEPT ![c] = where]

(* A coroutine starts a read.  With _OptimizationThread, await_ready()     *)
(* tries it under the lock (ReadAtOnce) and, when that fails, releases the *)
(* lock with nothing changed; without, it does not try.                    *)
ReadBegin(c) ==
  /\ at[c] = "run"
  /\ at' = Going(c, "reads")
  /\ UNCHANGED <<cap, values, readAwakes, writeAwakes, readVal, writeVal>>

(* The read succeeds in await_ready() or in await_suspend(), and the       *)
(* coroutine does not suspend.                                             *)
ReadAtOnce(c) ==
  /\ at[c] = "reads"
  /\ TryRead({c}, Going(c, "run"))

(* Mutant: a reader joins the queue without trying again under the lock. *)
BugReadSuspend(c) ==
  /\ at[c] = "reads"
  /\ readAwakes' = Append(readAwakes, c)
  /\ at' = Going(c, "reading")
  /\ UNCHANGED <<cap, values, writeAwakes, readVal, writeVal>>

(* await_suspend() of a read that must wait. *)
ReadSuspend(c) ==
  /\ at[c] = "reads"
  /\ ~Readable
  /\ readAwakes' = Append(readAwakes, c)
  /\ at' = Going(c, "reading")
  /\ UNCHANGED <<cap, values, writeAwakes, readVal, writeVal>>

(* The same for a write of v. *)
WriteBegin(c, v) ==
  /\ at[c] = "run"
  /\ writeVal' = [writeVal EXCEPT ![c] = v]
  /\ at' = Going(c, "writes")
  /\ UNCHANGED <<cap, values, readAwakes, writeAwakes, readVal>>

WriteAtOnce(c) ==
  /\ at[c] = "writes"
  /\ TryWrite(writeVal[c], Going(c, "run"))
  /\ UNCHANGED writeVal

WriteSuspend(c) ==
  /\ at[c] = "writes"
  /\ ~Writable
  /\ writeAwakes' = Append(writeAwakes, c)
  /\ at' = Going(c, "writing")
  /\ UNCHANGED <<cap, values, readAwakes, readVal, writeVal>>

(* state_channel_t::resume(), from the coroutine's scheduler. *)
Resume(c) ==
  /\ at[c] = "ready"
  /\ at' = Going(c, "run")
  /\ UNCHANGED <<cap, values, readAwakes, writeAwakes, readVal, writeVal>>

(* The try of a native thread that succeeds, in the loop of ~read_awaiter  *)
(* or ~write_awaiter.  What it reads is discarded.                         *)
ThreadRead == TryRead({}, at)

ThreadWrite(v) == TryWrite(v, at) /\ UNCHANGED writeVal

Next ==
  \/ \E c \in Reader : ReadBegin(c) \/ ReadAtOnce(c) \/ ReadSuspend(c)
  \/ \E c \in Writer :
       (\E v \in Value : WriteBegin(c, v)) \/ WriteAtOnce(c) \/ WriteSuspend(c)
  \/ \E c \in Coro : Resume(c)
  \/ ThreadRead
  \/ \E v \in Value : ThreadWrite(v)

Spec == Init /\ [][Next]_vars

(* Schedulers run what is ready, a coroutine inside a call gets on with    *)
(* it, and readers and writers keep calling.                               *)
Fairness ==
  /\ \A c \in Reader : WF_vars(ReadBegin(c) \/ ReadAtOnce(c) \/ ReadSuspend(c))
  /\ \A c \in Writer :
       WF_vars((\E v \in Value : WriteBegin(c, v)) \/ WriteAtOnce(c) \/ WriteSuspend(c))
  /\ \A c \in Coro : WF_vars(Resume(c))

FairSpec == Spec /\ Fairness
-----------------------------------------------------------------------------
TypeOK ==
  /\ cap \in Capacities
  /\ values \in Seq(Value) /\ Len(values) <= cap
  /\ readAwakes \in Seq(Reader)
  /\ writeAwakes \in Seq(Writer)
  /\ readVal \in [Reader -> Value \union {NoVal}]
  /\ writeVal \in [Writer -> Value \union {NoVal}]
  /\ at \in [Coro -> Where]

(* Nobody waits in vain: a reader waits only while there is neither a      *)
(* value nor a writer, and a writer only while the buffer is full.  The    *)
(* check and the place in the queue are taken under one lock, so no value  *)
(* slips in between (channel_v2.inl, await_suspend).                       *)
NobodyWaitsInVain ==
  /\ readAwakes # <<>> => values = <<>> /\ writeAwakes = <<>>
  /\ writeAwakes # <<>> => Len(values) = cap

(* A suspended coroutine is in the queue it waits in, once, and a queue    *)
(* holds nobody else: no notification is lost and none is given twice.     *)
QueuesHoldTheSuspended ==
  \A c \in Coro :
    /\ (at[c] = "reading") <=> \E i \in 1..Len(readAwakes) : readAwakes[i] = c
    /\ (at[c] = "writing") <=> \E i \in 1..Len(writeAwakes) : writeAwakes[i] = c

Waiting == [i \in 1..Len(writeAwakes) |-> writeVal[writeAwakes[i]]]

Match == INSTANCE MatchQueue WITH
           Client <- Reader, sent <- values \o Waiting, asking <- readAwakes, got <- readVal

(* Reads and writes are matched in order, at every capacity and whoever    *)
(* waits: a value is neither lost nor read twice, and the values of        *)
(* waiting writers come after the buffered ones.                           *)
ImplementsMatch == Match!Spec

(* While readers and writers keep calling, every coroutine that waits runs *)
(* again, whatever threads take from the channel or put into it.           *)
EveryoneIsServed == \A c \in Coro : at[c] \in {"reading", "writing"} ~> at[c] = "run"
=============================================================================
