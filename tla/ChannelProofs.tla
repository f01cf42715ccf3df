---------------------------- MODULE ChannelProofs ----------------------------
(***************************************************************************)
(* Proofs about Channel.tla, for any coroutines, values and capacities.    *)
(***************************************************************************)
EXTENDS Channel, QueueLemmas

(* Nobody is in a queue twice, so that who is notified has left it. *)
QueuedOnce ==
  /\ \A i, j \in 1..Len(readAwakes) : readAwakes[i] = readAwakes[j] => i = j
  /\ \A i, j \in 1..Len(writeAwakes) : writeAwakes[i] = writeAwakes[j] => i = j

(* Who is in a write has a value to write. *)
WritersHaveValues ==
  \A c \in Coro : at[c] \in {"writes", "writing"} => c \in Writer /\ writeVal[c] \in Value

(* A coroutine that only writes is in no read. *)
ReadersRead == \A c \in Coro : at[c] \in {"reads", "reading"} => c \in Reader

Inv ==
  /\ TypeOK
  /\ QueuesHoldTheSuspended
  /\ NobodyWaitsInVain
  /\ QueuedOnce
  /\ WritersHaveValues
  /\ ReadersRead
-----------------------------------------------------------------------------
(* The initial states satisfy the invariant. *)
LEMMA InitInv == Init => Inv
  BY CapacitiesAssumption DEF Init, Inv, TypeOK, QueuesHoldTheSuspended, NobodyWaitsInVain,
     QueuedOnce, WritersHaveValues, ReadersRead, Where

(* The try of a read keeps the invariant, whoever makes it. *)
LEMMA TryReadInv ==
  ASSUME Inv, NEW takers \in SUBSET Reader, NEW where \in [Coro -> Where], TryRead(takers, where),
         \A c \in Coro : where[c] = at[c] \/ (at[c] = "reads" /\ where[c] = "run")
  PROVE  Inv'
<1> USE DEF Inv
<1>1. CASE writeAwakes = <<>>
  <2>1. values # <<>> /\ values' = Tail(values) /\ at' = where
    BY <1>1 DEF TryRead, TakeFromWriter, AwakeWriter
  <2>2. UNCHANGED <<cap, readAwakes, writeAwakes, writeVal>>
    BY <1>1 DEF TryRead, TakeFromWriter, AwakeWriter
  <2>3. Head(values) \in Value /\ Tail(values) \in Seq(Value) /\ Len(Tail(values)) <= cap
    BY <2>1, FirstAndRest, CapacitiesAssumption DEF TypeOK
  <2>4. readVal' \in [Reader -> Value \union {NoVal}]
    BY <2>1, <2>3 DEF TryRead, Give, TypeOK
  <2>5. TypeOK'
    BY <2>1, <2>2, <2>3, <2>4 DEF TypeOK
  <2> QED
    BY <1>1, <2>1, <2>2, <2>5 DEF QueuesHoldTheSuspended, NobodyWaitsInVain, QueuedOnce,
       WritersHaveValues, ReadersRead
<1>2. CASE writeAwakes # <<>>
  <2> DEFINE w == Head(writeAwakes)
  <2>1. /\ w \in Writer /\ w = writeAwakes[1] /\ Tail(writeAwakes) \in Seq(Writer)
        /\ Len(writeAwakes) \in Nat /\ Len(writeAwakes) > 0
        /\ Len(Tail(writeAwakes)) = Len(writeAwakes) - 1
        /\ \A i \in 1..Len(Tail(writeAwakes)) : Tail(writeAwakes)[i] = writeAwakes[i + 1]
    BY <1>2, FirstAndRest DEF TypeOK
  <2>2. w \in Coro /\ at[w] = "writing" /\ writeVal[w] \in Value
    BY <2>1 DEF QueuesHoldTheSuspended, WritersHaveValues, Coro
  <2>3. readAwakes = <<>> /\ Len(values) = cap
    BY <1>2 DEF NobodyWaitsInVain
  <2>4. /\ writeAwakes' = Tail(writeAwakes) /\ at' = Move(where, {w})
        /\ UNCHANGED <<cap, readAwakes, writeVal>>
    BY <1>2 DEF TryRead, TakeFromWriter, AwakeWriter
  <2>5. /\ values' \in Seq(Value) /\ Len(values') = Len(values)
        /\ readVal' \in [Reader -> Value \union {NoVal}]
    <3>1. CASE values = <<>>
      BY <3>1, <2>2 DEF TryRead, TakeFromWriter, Give, TypeOK
    <3>2. CASE values # <<>>
      <4>1. /\ Head(values) \in Value /\ Tail(values) \in Seq(Value)
            /\ Len(values) \in Nat /\ Len(Tail(values)) = Len(values) - 1
        BY <3>2, FirstAndRest DEF TypeOK
      <4>2. values' = Append(Tail(values), writeVal[w])
        BY <1>2, <3>2, <4>1, <2>3 DEF TryRead, AwakeWriter, HasRoom
      <4>3. readVal' \in [Reader -> Value \union {NoVal}]
        BY <3>2, <4>1 DEF TryRead, Give, TypeOK
      <4> QED BY <4>1, <4>2, <4>3, <2>2
    <3> QED BY <3>1, <3>2
  <2>6. \A c \in Coro : at'[c] = IF c = w THEN "ready" ELSE where[c]
    BY <2>4 DEF Move
  <2>7. TypeOK'
    BY <2>1, <2>2, <2>4, <2>5 DEF TypeOK, Move, Where
  <2>8. QueuedOnce'
    BY <2>1, <2>3, <2>4 DEF QueuedOnce
  <2>9. QueuesHoldTheSuspended'
    <3> SUFFICES ASSUME NEW c \in Coro
                 PROVE  /\ at'[c] # "reading"
                        /\ (at'[c] = "writing") <=>
                             \E i \in 1..Len(writeAwakes') : writeAwakes'[i] = c
      <4>1. readAwakes' = <<>>
        BY <2>3, <2>4
      <4> QED BY <4>1 DEF QueuesHoldTheSuspended
    <3>1. /\ at[c] # "reading"
          /\ at[c] = "writing" <=> \E i \in 1..Len(writeAwakes) : writeAwakes[i] = c
      BY <2>3 DEF QueuesHoldTheSuspended
    <3>2. \A i \in 1..Len(writeAwakes') :
            i + 1 \in 1..Len(writeAwakes) /\ writeAwakes'[i] = writeAwakes[i + 1]
      BY <2>1, <2>4
    <3>3. \A i \in 1..Len(writeAwakes) : i # 1 =>
            i - 1 \in 1..Len(writeAwakes') /\ writeAwakes'[i - 1] = writeAwakes[i]
      BY <2>1, <2>4
    <3>4. CASE c = w
      <4>1. \A i \in 1..Len(writeAwakes) : writeAwakes[i] = c => i = 1
        BY <3>4, <2>1 DEF QueuedOnce
      <4> QED BY <3>4, <4>1, <3>2, <2>6
    <3>5. CASE c # w
      BY SMTT(30), <3>1, <3>2, <3>3, <3>5, <2>1, <2>6
    <3> QED BY <3>4, <3>5
  <2> QED
    BY <2>1, <2>2, <2>3, <2>4, <2>5, <2>6, <2>7, <2>8, <2>9
       DEF NobodyWaitsInVain, WritersHaveValues, ReadersRead
<1> QED BY <1>1, <1>2

(* The try of a write keeps the invariant, whoever makes it. *)
LEMMA TryWriteInv ==
  ASSUME Inv, NEW v \in Value, NEW where \in [Coro -> Where], TryWrite(v, where),
         \A c \in Coro : where[c] = at[c] \/ (at[c] = "writes" /\ where[c] = "run"),
         UNCHANGED writeVal
  PROVE  Inv'
<1> USE DEF Inv
<1>0. UNCHANGED <<cap, writeAwakes, writeVal>> /\ cap \in Nat /\ Len(values) \in Nat
  BY CapacitiesAssumption DEF TryWrite, TypeOK
<1>1. CASE readAwakes = <<>>
  <2>1. /\ HasRoom(values) /\ values' = Append(values, v) /\ at' = where
        /\ UNCHANGED <<readAwakes, readVal>>
    BY <1>1 DEF TryWrite, AwakeReader, GiveToReader
  <2>2. writeAwakes = <<>> /\ Len(values') <= cap /\ values' \in Seq(Value)
    BY <2>1, <1>0 DEF NobodyWaitsInVain, HasRoom, TypeOK
  <2>3. TypeOK'
    BY <1>0, <2>1, <2>2 DEF TypeOK
  <2> QED
    BY <1>0, <1>1, <2>1, <2>2, <2>3 DEF QueuesHoldTheSuspended, NobodyWaitsInVain, QueuedOnce,
       WritersHaveValues, ReadersRead
<1>2. CASE readAwakes # <<>>
  <2> DEFINE r == Head(readAwakes)
  <2>1. /\ r \in Reader /\ r = readAwakes[1] /\ Tail(readAwakes) \in Seq(Reader)
        /\ Len(readAwakes) \in Nat /\ Len(readAwakes) > 0
        /\ Len(Tail(readAwakes)) = Len(readAwakes) - 1
        /\ \A i \in 1..Len(Tail(readAwakes)) : Tail(readAwakes)[i] = readAwakes[i + 1]
    BY <1>2, FirstAndRest DEF TypeOK
  <2>2. r \in Coro /\ at[r] = "reading"
    BY <2>1 DEF QueuesHoldTheSuspended, Coro
  <2>3. values = <<>> /\ writeAwakes = <<>>
    BY <1>2 DEF NobodyWaitsInVain
  <2>4. values' = <<>> /\ GiveToReader(v, where)
    <3>1. CASE HasRoom(values)
      <4>1. /\ Head(Append(values, v)) = v /\ Tail(Append(values, v)) = <<>>
        BY <2>3
      <4> QED BY <1>2, <3>1, <4>1 DEF TryWrite, AwakeReader
    <3>2. CASE ~HasRoom(values)
      BY <3>2, <2>3 DEF TryWrite
    <3> QED BY <3>1, <3>2
  <2>5. readAwakes' = Tail(readAwakes) /\ at' = Move(where, {r})
    BY <2>4 DEF GiveToReader
  <2>6. \A c \in Coro : at'[c] = IF c = r THEN "ready" ELSE where[c]
    BY <2>5 DEF Move
  <2>7. TypeOK'
    <3>1. readVal' \in [Reader -> Value \union {NoVal}]
      BY <2>4 DEF GiveToReader, Give, TypeOK
    <3>2. at' \in [Coro -> Where]
      BY <2>5 DEF Move, Where
    <3> QED BY <1>0, <2>1, <2>3, <2>4, <2>5, <3>1, <3>2 DEF TypeOK
  <2>8. QueuedOnce'
    BY <1>0, <2>1, <2>3, <2>5 DEF QueuedOnce
  <2>9. QueuesHoldTheSuspended'
    <3> SUFFICES ASSUME NEW c \in Coro
                 PROVE  /\ (at'[c] = "reading") <=>
                             \E i \in 1..Len(readAwakes') : readAwakes'[i] = c
                        /\ at'[c] # "writing"
      BY <2>3, <1>0 DEF QueuesHoldTheSuspended
    <3>1. /\ at[c] = "reading" <=> \E i \in 1..Len(readAwakes) : readAwakes[i] = c
          /\ at[c] # "writing"
      BY <2>3 DEF QueuesHoldTheSuspended
    <3>2. \A i \in 1..Len(readAwakes') :
            i + 1 \in 1..Len(readAwakes) /\ readAwakes'[i] = readAwakes[i + 1]
      BY <2>1, <2>5
    <3>3. \A i \in 1..Len(readAwakes) : i # 1 =>
            i - 1 \in 1..Len(readAwakes') /\ readAwakes'[i - 1] = readAwakes[i]
      BY <2>1, <2>5
    <3>4. CASE c = r
      <4>1. \A i \in 1..Len(readAwakes) : readAwakes[i] = c => i = 1
        BY <3>4, <2>1 DEF QueuedOnce
      <4> QED BY <3>4, <4>1, <3>2, <2>6
    <3>5. CASE c # r
      BY <3>1, <3>2, <3>3, <3>5, <2>1, <2>6
    <3> QED BY <3>4, <3>5
  <2> QED
    BY <1>0, <2>1, <2>2, <2>3, <2>4, <2>5, <2>6, <2>7, <2>8, <2>9
       DEF NobodyWaitsInVain, WritersHaveValues, ReadersRead
<1> QED BY <1>1, <1>2

(* Every step keeps the invariant. *)
LEMMA NextInv == Inv /\ [Next]_vars => Inv'
<1> SUFFICES ASSUME Inv, [Next]_vars PROVE Inv'
  OBVIOUS
<1> USE DEF Inv, TypeOK, QueuesHoldTheSuspended, NobodyWaitsInVain, QueuedOnce,
            WritersHaveValues, ReadersRead, Going
<1>1. ASSUME NEW c \in Reader, ReadBegin(c) PROVE Inv'
  BY <1>1 DEF ReadBegin, Where, Coro
<1>2. ASSUME NEW c \in Reader, ReadAtOnce(c) PROVE Inv'
  <2>1. Going(c, "run") \in [Coro -> Where]
    BY DEF Where
  <2> HIDE DEF Inv
  <2> QED BY <1>2, <2>1, TryReadInv DEF ReadAtOnce, Coro
<1>3. ASSUME NEW c \in Reader, ReadSuspend(c) PROVE Inv'
  BY <1>3 DEF ReadSuspend, Readable, Where, Coro
<1>4. ASSUME NEW c \in Writer, NEW v \in Value, WriteBegin(c, v) PROVE Inv'
  BY <1>4 DEF WriteBegin, Where, Coro
<1>5. ASSUME NEW c \in Writer, WriteAtOnce(c) PROVE Inv'
  <2>1. Going(c, "run") \in [Coro -> Where] /\ writeVal[c] \in Value
    BY <1>5 DEF Where, WriteAtOnce, Coro
  <2> HIDE DEF Inv
  <2> QED BY <1>5, <2>1, TryWriteInv DEF WriteAtOnce, Coro
<1>6. ASSUME NEW c \in Writer, WriteSuspend(c) PROVE Inv'
  BY SMTT(30), <1>6, CapacitiesAssumption DEF WriteSuspend, Writable, HasRoom, Where, Coro
<1>7. ASSUME NEW c \in Coro, Resume(c) PROVE Inv'
  BY <1>7 DEF Resume, Where
<1>8. CASE ThreadRead
  <2> HIDE DEF Inv
  <2> QED BY <1>8, TryReadInv DEF ThreadRead, Inv
<1>9. ASSUME NEW v \in Value, ThreadWrite(v) PROVE Inv'
  <2> HIDE DEF Inv
  <2> QED BY <1>9, TryWriteInv DEF ThreadWrite, Inv
<1>10. CASE UNCHANGED vars
  BY <1>10 DEF vars
<1> HIDE DEF Inv
<1> QED
  BY <1>1, <1>2, <1>3, <1>4, <1>5, <1>6, <1>7, <1>8, <1>9, <1>10 DEF Next

(* Every reachable state satisfies the invariant. *)
THEOREM Invariance == Spec => []Inv
  BY InitInv, NextInv, PTL DEF Spec

(* The buffer never holds more values than the channel has room for, and a *)
(* read never sees anything but a value (channel_v2.inl, try_*_nolock).    *)
THEOREM TypeCorrect == Spec => []TypeOK
  BY Invariance, PTL DEF Inv

(* No coroutine waits for a value, or for room, that is there: the second  *)
(* try in await_suspend() and the place in the queue are under one lock.   *)
THEOREM WaitsCorrect == Spec => []NobodyWaitsInVain
  BY Invariance, PTL DEF Inv

(* A suspended coroutine is in the queue it waits in and a queue holds     *)
(* nobody else, whatever the order of notifications and resumptions.       *)
THEOREM QueuesCorrect == Spec => []QueuesHoldTheSuspended
  BY Invariance, PTL DEF Inv
-----------------------------------------------------------------------------
(* The values of the waiting writers, and what moves in them. *)
LEMMA WaitingFacts ==
  ASSUME Inv
  PROVE  /\ Waiting \in Seq(Value) /\ (Waiting = <<>> <=> writeAwakes = <<>>)
         /\ writeAwakes # <<>> =>
              /\ Head(Waiting) = writeVal[Head(writeAwakes)]
              /\ writeVal' = writeVal /\ writeAwakes' = Tail(writeAwakes) =>
                   Waiting' = Tail(Waiting)
<1> USE DEF Inv
<1>1. writeAwakes \in Seq(Writer) /\ Len(writeAwakes) \in Nat
      /\ \A i \in 1..Len(writeAwakes) : writeAwakes[i] \in Writer
  BY LenProperties DEF TypeOK
<1>2. \A i \in 1..Len(writeAwakes) : writeVal[writeAwakes[i]] \in Value
  BY <1>1 DEF QueuesHoldTheSuspended, WritersHaveValues, Coro
<1>3. Waiting \in Seq(Value) /\ Len(Waiting) = Len(writeAwakes)
      /\ \A i \in 1..Len(writeAwakes) : Waiting[i] = writeVal[writeAwakes[i]]
  BY <1>1, <1>2 DEF Waiting
<1>4. Waiting = <<>> <=> writeAwakes = <<>>
  BY <1>1, <1>3, EmptySeq
<1>5. ASSUME writeAwakes # <<>>
      PROVE  /\ Head(Waiting) = writeVal[Head(writeAwakes)]
             /\ writeVal' = writeVal /\ writeAwakes' = Tail(writeAwakes) =>
                  Waiting' = Tail(Waiting)
  <2>1. /\ Head(writeAwakes) = writeAwakes[1] /\ Head(Waiting) = Waiting[1]
        /\ Len(writeAwakes) > 0
        /\ Tail(writeAwakes) \in Seq(Writer)
        /\ Len(Tail(writeAwakes)) = Len(writeAwakes) - 1
        /\ \A i \in 1..(Len(writeAwakes) - 1) : Tail(writeAwakes)[i] = writeAwakes[i + 1]
        /\ Tail(Waiting) \in Seq(Value) /\ Len(Tail(Waiting)) = Len(writeAwakes) - 1
        /\ \A i \in 1..(Len(writeAwakes) - 1) : Tail(Waiting)[i] = Waiting[i + 1]
    BY <1>1, <1>3, <1>4, <1>5, FirstAndRest
  <2>2. ASSUME writeVal' = writeVal, writeAwakes' = Tail(writeAwakes)
        PROVE  Waiting' = Tail(Waiting)
    <3>1. Waiting' = [i \in 1..(Len(writeAwakes) - 1) |-> Waiting[i + 1]]
      BY <2>1, <2>2, <1>1, <1>3 DEF Waiting
    <3>2. Tail(Waiting) = [i \in 1..(Len(writeAwakes) - 1) |-> Tail(Waiting)[i]]
      BY <2>1, LenProperties
    <3> QED BY <2>1, <3>1, <3>2
  <2> QED BY <2>1, <2>2, <1>1, <1>3
<1> QED BY <1>3, <1>4, <1>5

Row == values \o Waiting

(* The row of the values not read yet. *)
LEMMA RowFacts ==
  ASSUME Inv
  PROVE  /\ values \in Seq(Value) /\ Waiting \in Seq(Value) /\ Row \in Seq(Value)
         /\ (writeAwakes = <<>> => Waiting = <<>> /\ Row = values)
         /\ (values = <<>> => Row = Waiting)
         /\ (Row = <<>> <=> values = <<>> /\ writeAwakes = <<>>)
<1>1. values \in Seq(Value) /\ Waiting \in Seq(Value) /\ (Waiting = <<>> <=> writeAwakes = <<>>)
  BY WaitingFacts DEF Inv, TypeOK
<1> QED
  BY <1>1, ConcatProperties, ConcatEmptySeq, ConcatEqualIffEmpty DEF Row

(* The values of the writers stay when the writers do. *)
LEMMA WaitingStays ==
  ASSUME UNCHANGED writeAwakes, UNCHANGED writeVal
  PROVE  Waiting' = Waiting
  BY DEF Waiting

(* A try of a read that succeeds takes the first value of the row, be it   *)
(* from the buffer or from a writer.                                       *)
LEMMA TakesFirst ==
  ASSUME Inv, NEW takers, NEW where, TryRead(takers, where)
  PROVE  Row # <<>> /\ Row' = Tail(Row) /\ Give(takers, Head(Row)) /\ UNCHANGED readAwakes
<1>0. UNCHANGED <<writeVal, readAwakes>>
  BY DEF TryRead
<1>1. CASE values = <<>>
  <2>1. /\ writeAwakes # <<>> /\ writeAwakes' = Tail(writeAwakes) /\ values' = <<>>
        /\ Give(takers, writeVal[Head(writeAwakes)])
    BY <1>1 DEF TryRead, TakeFromWriter
  <2>2. Waiting # <<>> /\ Head(Waiting) = writeVal[Head(writeAwakes)] /\ Waiting' = Tail(Waiting)
    BY <2>1, <1>0, WaitingFacts
  <2>3. Row = Waiting /\ Waiting \in Seq(Value)
    BY <1>1, RowFacts
  <2>4. Tail(Waiting) \in Seq(Value)
    BY <2>2, <2>3, HeadTailProperties
  <2>5. <<>> \o Tail(Waiting) = Tail(Waiting)
    BY <2>4, ConcatEmptySeq
  <2>6. Row' = Tail(Row)
    BY <2>1, <2>2, <2>3, <2>5 DEF Row
  <2> QED BY <2>1, <2>2, <2>3, <2>6, <1>0
<1>2. CASE values # <<>> /\ writeAwakes = <<>>
  <2>1. values' = Tail(values) /\ UNCHANGED writeAwakes /\ Give(takers, Head(values))
    BY <1>2 DEF TryRead, AwakeWriter
  <2>2. Waiting' = Waiting
    BY <2>1, <1>0, WaitingStays
  <2>3. Row # <<>> /\ Head(Row) = Head(values) /\ Tail(Row) = Tail(values) \o Waiting
    BY <1>2, RowFacts, FirstOfRow DEF Row
  <2> QED BY <2>1, <2>2, <2>3, <1>0 DEF Row
<1>3. CASE values # <<>> /\ writeAwakes # <<>>
  <2>1. /\ writeAwakes' = Tail(writeAwakes) /\ Give(takers, Head(values))
        /\ values' = IF HasRoom(Tail(values))
                     THEN Append(Tail(values), writeVal[Head(writeAwakes)]) ELSE Tail(values)
    BY <1>3 DEF TryRead, AwakeWriter
  <2>2. HasRoom(Tail(values))
    <3>1. Len(values) = cap /\ Len(values) \in Nat /\ Len(Tail(values)) = Len(values) - 1
      BY <1>3, FirstAndRest DEF Inv, NobodyWaitsInVain, TypeOK
    <3> QED BY <3>1 DEF HasRoom
  <2>3. /\ Waiting \in Seq(Value) /\ Waiting # <<>>
        /\ Head(Waiting) = writeVal[Head(writeAwakes)] /\ Waiting' = Tail(Waiting)
    BY <1>0, <1>3, <2>1, WaitingFacts
  <2>4. /\ Row # <<>> /\ Head(Row) = Head(values)
        /\ Tail(Row) = Append(Tail(values), Head(Waiting)) \o Tail(Waiting)
    BY <1>3, <2>3, RowFacts, MoveUp DEF Row
  <2>5. values' = Append(Tail(values), Head(Waiting))
    BY <2>1, <2>2, <2>3
  <2> QED BY <2>1, <2>3, <2>4, <2>5, <1>0 DEF Row
<1> QED BY <1>1, <1>2, <1>3

(* A try of a write that succeeds puts the value at the end of the row, or *)
(* gives it to the first reader that waits.                                *)
LEMMA PutsLast ==
  ASSUME Inv, NEW v \in Value, NEW where, TryWrite(v, where), UNCHANGED writeVal
  PROVE  Match!Write(v)
<1>0. UNCHANGED <<writeAwakes, writeVal>>
  BY DEF TryWrite
<1>1. Waiting' = Waiting
  BY <1>0, WaitingStays
<1>2. CASE readAwakes = <<>>
  <2>1. HasRoom(values) /\ values' = Append(values, v) /\ UNCHANGED <<readAwakes, readVal>>
    BY <1>2 DEF TryWrite, AwakeReader, GiveToReader
  <2>2. writeAwakes = <<>>
    BY <2>1, CapacitiesAssumption DEF Inv, NobodyWaitsInVain, HasRoom, TypeOK
  <2>3. Waiting = <<>> /\ Row = values
    BY <2>2, RowFacts
  <2>4. values' \in Seq(Value)
    BY <2>1, RowFacts, AppendProperties
  <2>5. values' \o <<>> = values'
    BY <2>4, ConcatEmptySeq
  <2>6. values' \o Waiting' = Append(Row, v)
    BY <2>1, <2>3, <2>5, <1>1
  <2> QED BY <1>2, <2>1, <2>6 DEF Match!Write, Row
<1>3. CASE readAwakes # <<>>
  <2>1. values = <<>> /\ writeAwakes = <<>>
    BY <1>3 DEF Inv, NobodyWaitsInVain
  <2>2. values' = <<>> /\ GiveToReader(v, where)
    <3>1. CASE HasRoom(values)
      <4>1. /\ Head(Append(values, v)) = v /\ Tail(Append(values, v)) = <<>>
        BY <2>1
      <4> QED BY <1>3, <3>1, <4>1 DEF TryWrite, AwakeReader
    <3>2. CASE ~HasRoom(values)
      BY <3>2, <2>1 DEF TryWrite
    <3> QED BY <3>1, <3>2
  <2>3. readVal' = [readVal EXCEPT ![Head(readAwakes)] = v] /\ readAwakes' = Tail(readAwakes)
    BY <2>2 DEF GiveToReader, Give, Inv, TypeOK
  <2>4. values' \o Waiting' = values \o Waiting
    BY <1>1, <2>1, <2>2
  <2> QED BY <1>3, <2>3, <2>4 DEF Match!Write
<1> QED BY <1>2, <1>3

(* Every step is a step of the match queue, or changes nothing there. *)
LEMMA StepMatches ==
  Inv /\ [Next]_vars => [Match!Next]_<<Row, readAwakes, readVal>>
<1> SUFFICES ASSUME Inv, Next PROVE Match!Next \/ UNCHANGED <<Row, readAwakes, readVal>>
  BY DEF vars, Row, Waiting
<1>1. ASSUME NEW c \in Reader, ReadBegin(c) PROVE UNCHANGED <<Row, readAwakes, readVal>>
  BY <1>1 DEF ReadBegin, Row, Waiting
<1>2. ASSUME NEW c \in Reader, ReadAtOnce(c) PROVE Match!Read(c)
  <2>1. Row # <<>> /\ Row' = Tail(Row) /\ Give({c}, Head(Row)) /\ UNCHANGED readAwakes
    BY <1>2, TakesFirst DEF ReadAtOnce
  <2>2. readVal' = [readVal EXCEPT ![c] = Head(Row)]
    BY <2>1 DEF Give, Inv, TypeOK
  <2> QED BY <2>1, <2>2 DEF Match!Read, Row
<1>3. ASSUME NEW c \in Reader, ReadSuspend(c) PROVE Match!Read(c)
  <2>1. Row = <<>> /\ readAwakes' = Append(readAwakes, c) /\ UNCHANGED <<Row, readVal>>
    BY <1>3, RowFacts DEF ReadSuspend, Readable, Row, Waiting
  <2> QED BY <2>1 DEF Match!Read, Row
<1>4. ASSUME NEW c \in Writer, NEW v \in Value, WriteBegin(c, v)
      PROVE  UNCHANGED <<Row, readAwakes, readVal>>
  <2>1. \A i \in 1..Len(writeAwakes) : writeAwakes[i] # c
    BY <1>4 DEF WriteBegin, Inv, QueuesHoldTheSuspended, Coro
  <2>2. Waiting' = Waiting
    BY <1>4, <2>1 DEF WriteBegin, Waiting, Inv, TypeOK
  <2> QED BY <1>4, <2>2 DEF WriteBegin, Row
<1>5. ASSUME NEW c \in Writer, WriteAtOnce(c) PROVE \E v \in Value : Match!Write(v)
  <2>1. writeVal[c] \in Value
    BY <1>5 DEF WriteAtOnce, Inv, WritersHaveValues, Coro
  <2> QED BY <1>5, <2>1, PutsLast DEF WriteAtOnce
<1>6. ASSUME NEW c \in Writer, WriteSuspend(c) PROVE \E v \in Value : Match!Write(v)
  <2>1. /\ readAwakes = <<>> /\ writeAwakes' = Append(writeAwakes, c)
        /\ UNCHANGED <<values, readAwakes, readVal, writeVal>>
    BY <1>6 DEF WriteSuspend, Writable
  <2>2. writeVal[c] \in Value
    BY <1>6 DEF WriteSuspend, Inv, WritersHaveValues, Coro
  <2>3. Waiting' = Append(Waiting, writeVal[c])
    <3>1. writeAwakes \in Seq(Writer) /\ Len(writeAwakes) \in Nat
      BY LenProperties DEF Inv, TypeOK
    <3>2. /\ Len(writeAwakes') = Len(writeAwakes) + 1
          /\ \A i \in 1..(Len(writeAwakes) + 1) :
               writeAwakes'[i] = IF i = Len(writeAwakes) + 1 THEN c ELSE writeAwakes[i]
      BY <2>1, <3>1, AppendProperties
    <3>3. Waiting' = [i \in 1..(Len(writeAwakes) + 1) |->
                        IF i = Len(writeAwakes) + 1 THEN writeVal[c] ELSE writeVal[writeAwakes[i]]]
      BY <2>1, <3>2 DEF Waiting
    <3>4. Append(Waiting, writeVal[c]) =
            [i \in 1..(Len(writeAwakes) + 1) |->
               IF i = Len(writeAwakes) + 1 THEN writeVal[c] ELSE writeVal[writeAwakes[i]]]
      BY <3>1 DEF Waiting
    <3> QED BY <3>3, <3>4
  <2>4. Append(Row, writeVal[c]) = values \o Append(Waiting, writeVal[c])
    <3>1. values \in Seq(Value) /\ Waiting \in Seq(Value)
      BY RowFacts
    <3> HIDE DEF Waiting
    <3>2. Append(values \o Waiting, writeVal[c]) = values \o Append(Waiting, writeVal[c])
      BY <2>2, <3>1
    <3> QED BY <3>2 DEF Row
  <2>5. values' \o Waiting' = Append(Row, writeVal[c])
    BY <2>1, <2>3, <2>4
  <2>6. Match!Write(writeVal[c])
    BY <2>1, <2>5 DEF Match!Write, Row
  <2> QED BY <2>2, <2>6
<1>7. ASSUME NEW c \in Coro, Resume(c) PROVE UNCHANGED <<Row, readAwakes, readVal>>
  BY <1>7 DEF Resume, Row, Waiting
<1>8. CASE ThreadRead
  <2>1. Row # <<>> /\ Row' = Tail(Row) /\ Give({}, Head(Row)) /\ UNCHANGED readAwakes
    BY <1>8, TakesFirst DEF ThreadRead
  <2>2. readVal' = readVal
    BY <2>1 DEF Give, Inv, TypeOK
  <2>3. Match!Drop
    BY <2>1, <2>2 DEF Match!Drop, Row
  <2> QED BY <2>3 DEF Match!Next
<1>9. ASSUME NEW v \in Value, ThreadWrite(v) PROVE Match!Write(v)
  BY <1>9, PutsLast DEF ThreadWrite
<1> QED
  BY <1>1, <1>2, <1>3, <1>4, <1>5, <1>6, <1>7, <1>8, <1>9 DEF Next, Match!Next

(* At every capacity the channel matches writes and reads in order: a      *)
(* value is neither lost nor read twice, whoever waits (channel_v2.inl).   *)
THEOREM Refinement == Spec => ImplementsMatch
<1>1. Init => Match!Init
  <2> SUFFICES ASSUME Init PROVE Match!Init
    OBVIOUS
  <2>1. values = <<>> /\ Waiting = <<>>
    BY DEF Init, Waiting
  <2> QED BY <2>1 DEF Init, Match!Init
<1>2. Inv /\ [Next]_vars => [Match!Next]_<<values \o Waiting, readAwakes, readVal>>
  BY StepMatches DEF Row
<1> QED
  BY <1>1, <1>2, Invariance, PTL DEF Spec, ImplementsMatch, Match!Spec
=============================================================================
