--------------------------- MODULE RingQueueProofs ---------------------------
(* Proofs about the two queues of a channel: RingQueue.tla, for every size *)
(* and every index type that the constructor's assertion allows, and       *)
(* LinkQueue.tla, for any number of nodes.                                 *)
EXTENDS RingQueue, LinkQueue, QueueLemmas

(* A number below the divisor is its own remainder. *)
LEMMA SmallModulus ==
  ASSUME NEW n \in Nat \ {0}, NEW i \in 0..(n - 1)
  PROVE  i % n = i
  OBVIOUS

(* Nothing wraps in _Sty while the buffer is built. *)
LEMMA Sizes == bufferSize = Sz + 1 /\ capacity = Sz /\ Slot = 0..Sz
<1>1. bufferSize = Sz + 1
  BY WordAssumption, SizeAssumption, SmallModulus DEF bufferSize
<1>2. capacity = Sz
  BY <1>1, WordAssumption, SizeAssumption, SmallModulus DEF capacity
<1> QED
  BY <1>1, <1>2, WordAssumption DEF Slot

(* nextIndex goes round the slots. *)
LEMMA NextIndex ==
  ASSUME NEW i \in Slot
  PROVE  nextIndex(i) = IF i = Sz THEN 0 ELSE i + 1
<1>1. i \in 0..Sz /\ bufferSize = Sz + 1 /\ Sz + 1 < Word
  BY Sizes, WordAssumption, SizeAssumption
<1>2. CASE i = Sz
  <2>1. (i + 1) % bufferSize = 0
    BY <1>1, <1>2, WordAssumption
  <2>2. 0 % Word = 0
    BY WordAssumption, SizeAssumption, SmallModulus
  <2> QED BY <2>1, <2>2, <1>2 DEF nextIndex
<1>3. CASE i # Sz
  <2>1. (i + 1) % bufferSize = i + 1
    BY <1>1, <1>3, WordAssumption, SmallModulus
  <2>2. (i + 1) % Word = i + 1
    BY <1>1, <1>3, WordAssumption, SmallModulus
  <2> QED BY <2>1, <2>2, <1>3 DEF nextIndex
<1> QED BY <1>2, <1>3

(* size() is the distance from the read index to the write index. *)
LEMMA Size ==
  ASSUME writeIndex \in Slot, readIndex \in Slot
  PROVE  size = IF writeIndex >= readIndex THEN writeIndex - readIndex
                ELSE Sz + 1 + writeIndex - readIndex
<1>1. /\ writeIndex \in 0..Sz /\ readIndex \in 0..Sz
      /\ bufferSize = Sz + 1 /\ Sz + 1 < Word /\ Word \in Nat /\ Sz \in Nat
  BY Sizes, WordAssumption, SizeAssumption
<1>2. CASE writeIndex >= readIndex
  <2>1. writeIndex - readIndex \in 0..(Word - 1)
    BY <1>1, <1>2
  <2> QED BY <2>1, <1>1, <1>2, SmallModulus DEF size
<1>3. CASE ~(writeIndex >= readIndex)
  <2>1. bufferSize + writeIndex - readIndex \in 0..(Word - 1)
    BY <1>1, <1>3
  <2> QED BY <2>1, <1>1, <1>3, SmallModulus DEF size
<1> QED BY <1>2, <1>3
-----------------------------------------------------------------------------
(* The indices stay inside the buffer and the slots hold values. *)
THEOREM TypeCorrect == RingSpec => []RingTypeOK
<1>0. 0 \in Slot
  BY Sizes, WordAssumption
<1>r. \A ok \in BOOLEAN, v \in Item \union {NoItem} :
        <<ok, v>> \in BOOLEAN \X (Item \union {NoItem})
  OBVIOUS
<1>1. RingInit => RingTypeOK
  <2> SUFFICES ASSUME RingInit PROVE RingTypeOK
    OBVIOUS
  <2>1. ret \in BOOLEAN \X (Item \union {NoItem})
    BY <1>r DEF RingInit
  <2> QED BY <1>0, <2>1 DEF RingInit, RingTypeOK
<1>2. RingTypeOK /\ [RingNext]_ringVars => RingTypeOK'
  <2> SUFFICES ASSUME RingTypeOK, [RingNext]_ringVars PROVE RingTypeOK'
    OBVIOUS
  <2>1. \A i \in Slot : nextIndex(i) \in Slot
    BY Sizes, NextIndex, WordAssumption
  <2>2. ASSUME NEW v \in Item, try_push(v) PROVE RingTypeOK'
    <3>1. ret' \in BOOLEAN \X (Item \union {NoItem})
      BY <1>r, <2>2 DEF try_push
    <3>2. /\ bufferPtr' \in [Slot -> Item \union {NoItem}]
          /\ writeIndex' \in Slot /\ readIndex' \in Slot
      BY <2>1, <2>2 DEF RingTypeOK, try_push
    <3> QED BY <3>1, <3>2 DEF RingTypeOK
  <2>3. CASE try_pop
    <3>1. ret' \in BOOLEAN \X (Item \union {NoItem})
      BY <1>r, <2>3 DEF try_pop, RingTypeOK
    <3>2. /\ bufferPtr' \in [Slot -> Item \union {NoItem}]
          /\ writeIndex' \in Slot /\ readIndex' \in Slot
      BY <2>1, <2>3 DEF RingTypeOK, try_pop
    <3> QED BY <3>1, <3>2 DEF RingTypeOK
  <2>4. CASE UNCHANGED ringVars
    BY <2>4 DEF RingTypeOK, ringVars
  <2> QED BY <2>2, <2>3, <2>4 DEF RingNext
<1> QED BY <1>1, <1>2, PTL DEF RingSpec

(* empty(), full() and size() agree wherever the indices stand. *)
LEMMA Observers == RingTypeOK => ObserversAgree
<1> SUFFICES ASSUME RingTypeOK PROVE ObserversAgree
  OBVIOUS
<1>1. writeIndex \in 0..Sz /\ readIndex \in 0..Sz /\ capacity = Sz /\ Sz \in Nat
  BY Sizes, WordAssumption DEF RingTypeOK
<1>2. size = IF writeIndex >= readIndex THEN writeIndex - readIndex
             ELSE Sz + 1 + writeIndex - readIndex
  BY Size DEF RingTypeOK
<1>3. nextIndex(writeIndex) = IF writeIndex = Sz THEN 0 ELSE writeIndex + 1
  BY NextIndex DEF RingTypeOK
<1> QED
  BY <1>1, <1>2, <1>3 DEF ObserversAgree, empty, full

(* The observers agree in every state. *)
THEOREM ObserversCorrect == RingSpec => []ObserversAgree
  BY TypeCorrect, Observers, PTL

Datum == Item \union {NoItem}

(* The numbers a step of the indices is reckoned with ... *)
IndexFacts ==
  /\ writeIndex \in 0..Sz /\ readIndex \in 0..Sz /\ Sz \in Nat
  /\ bufferSize = Sz + 1 /\ Slot = 0..Sz
  /\ size = IF writeIndex >= readIndex THEN writeIndex - readIndex
            ELSE Sz + 1 + writeIndex - readIndex
  /\ size \in 0..Sz
  /\ nextIndex(writeIndex) = IF writeIndex = Sz THEN 0 ELSE writeIndex + 1
  /\ nextIndex(readIndex) = IF readIndex = Sz THEN 0 ELSE readIndex + 1

(* ... follow from the types. *)
LEMMA Indices == RingTypeOK => IndexFacts
<1> SUFFICES ASSUME RingTypeOK PROVE IndexFacts
  OBVIOUS
<1>1. /\ writeIndex \in 0..Sz /\ readIndex \in 0..Sz /\ Sz \in Nat
      /\ bufferSize = Sz + 1 /\ Slot = 0..Sz
  BY Sizes, WordAssumption DEF RingTypeOK
<1>2. size = IF writeIndex >= readIndex THEN writeIndex - readIndex
             ELSE Sz + 1 + writeIndex - readIndex
  BY Size DEF RingTypeOK
<1>3. size \in 0..Sz
  BY <1>1, <1>2
<1> QED
  BY <1>1, <1>2, <1>3, NextIndex DEF RingTypeOK, IndexFacts

(* The contents are a sequence of size() values. *)
ContentsFacts == Contents \in Seq(Datum) /\ Len(Contents) = size

LEMMA ContentsSeq == RingTypeOK => ContentsFacts
<1> SUFFICES ASSUME RingTypeOK PROVE ContentsFacts
  OBVIOUS
<1>1. \A i \in 1..size : bufferPtr[At(i - 1)] \in Datum
  <2>1. \A i \in 1..size : At(i - 1) \in Slot
    BY Indices DEF At, IndexFacts
  <2> QED BY <2>1 DEF RingTypeOK, Datum
<1> QED
  BY <1>1, Indices DEF Contents, ContentsFacts, IndexFacts

(* A push into a queue that is not full appends to its contents. *)
LEMMA PushAppends ==
  ASSUME RingTypeOK, RingTypeOK', NEW v \in Item, try_push(v), ~full
  PROVE  Contents' = Append(Contents, v) /\ Len(Contents) < Sz
<1> USE DEF IndexFacts, ContentsFacts
<1>1. IndexFacts /\ IndexFacts' /\ ContentsFacts /\ ContentsFacts'
  BY Indices, ContentsSeq, PTL
<1>2. /\ writeIndex' = nextIndex(writeIndex) /\ readIndex' = readIndex
      /\ bufferPtr' = [bufferPtr EXCEPT ![writeIndex] = v]
  BY DEF try_push
<1>3. size' = size + 1 /\ size < Sz
  BY <1>1, <1>2 DEF full
<1>4. bufferPtr'[At(size)] = v
  BY <1>1, <1>2, <1>3 DEF At, RingTypeOK
<1>5. \A i \in 1..size : bufferPtr'[At(i - 1)] = bufferPtr[At(i - 1)]
  BY <1>1, <1>2, <1>3 DEF At, RingTypeOK
<1>6. \A i \in 1..(size + 1) : Contents'[i] = bufferPtr'[At(i - 1)]
  BY <1>2, <1>3, <1>1 DEF Contents, At
<1>7. \A i \in 1..size : Contents[i] = bufferPtr[At(i - 1)]
  BY DEF Contents
<1>8. /\ Append(Contents, v) \in Seq(Datum) /\ Len(Append(Contents, v)) = size + 1
      /\ \A i \in 1..size : Append(Contents, v)[i] = Contents[i]
      /\ Append(Contents, v)[size + 1] = v
  BY SMTT(30), <1>1, AppendProperties DEF Datum
<1>9. \A i \in 1..(size + 1) : Contents'[i] = Append(Contents, v)[i]
  <2> SUFFICES ASSUME NEW i \in 1..(size + 1) PROVE Contents'[i] = Append(Contents, v)[i]
    OBVIOUS
  <2>1. CASE i = size + 1
    BY <2>1, <1>4, <1>6, <1>8, <1>1
  <2>2. CASE i # size + 1
    <3>1. i \in 1..size
      BY <2>2, <1>1
    <3> QED BY <3>1, <1>5, <1>6, <1>7, <1>8
  <2> QED BY <2>1, <2>2
<1>10. Contents' = Append(Contents, v)
  BY <1>1, <1>3, <1>8, <1>9, SeqEqual
<1> QED
  BY <1>3, <1>10, <1>1

(* A pop from a queue that is not empty returns and removes the first      *)
(* value of its contents.                                                  *)
LEMMA PopTakesFirst ==
  ASSUME RingTypeOK, RingTypeOK', try_pop, ~empty
  PROVE  Contents # <<>> /\ Contents' = Tail(Contents) /\ ret' = <<TRUE, Head(Contents)>>
<1> USE DEF IndexFacts, ContentsFacts
<1>1. IndexFacts /\ IndexFacts' /\ ContentsFacts /\ ContentsFacts'
  BY Indices, ContentsSeq, PTL
<1>2. /\ readIndex' = nextIndex(readIndex) /\ writeIndex' = writeIndex
      /\ bufferPtr' = [bufferPtr EXCEPT ![readIndex] = IF Optional THEN NoItem ELSE @]
      /\ ret' = <<TRUE, bufferPtr[readIndex]>>
  BY DEF try_pop
<1>3. size' = size - 1 /\ size > 0
  BY <1>1, <1>2 DEF empty
<1>4. Contents # <<>>
  BY <1>3, <1>1
<1>5. Head(Contents) = bufferPtr[readIndex]
  BY <1>3, <1>4, <1>1 DEF Contents, At
<1>6. \A i \in 1..(size - 1) : Contents'[i] = Contents[i + 1]
  <2> SUFFICES ASSUME NEW i \in 1..(size - 1) PROVE Contents'[i] = Contents[i + 1]
    OBVIOUS
  <2>1. Contents'[i] = bufferPtr'[At(i - 1)']
    BY <1>3, <1>1 DEF Contents
  <2>2. At(i - 1)' = At(i) /\ At(i) \in Slot /\ At(i) # readIndex
    BY <1>2, <1>3, <1>1 DEF At
  <2>3. bufferPtr'[At(i)] = bufferPtr[At(i)]
    BY <1>2, <2>2 DEF RingTypeOK
  <2>4. Contents[i + 1] = bufferPtr[At(i)]
    BY <1>1 DEF Contents
  <2> QED BY <2>1, <2>2, <2>3, <2>4
<1>7. /\ Tail(Contents) \in Seq(Datum) /\ Len(Tail(Contents)) = size - 1
      /\ \A i \in 1..(size - 1) : Tail(Contents)[i] = Contents[i + 1]
  BY <1>4, <1>1, HeadTailProperties
<1>8. Contents' = Tail(Contents)
  <2>1. Contents' \in Seq(Datum) /\ Len(Contents') = size - 1
    BY <1>1, <1>3
  <2>2. \A i \in 1..Len(Contents') : Contents'[i] = Tail(Contents)[i]
    BY <2>1, <1>6, <1>7
  <2> QED BY <2>1, <2>2, <1>7, SeqEqual
<1> QED
  BY <1>2, <1>4, <1>5, <1>8

(* ring_queue implements the bounded buffer: nothing is lost, doubled or   *)
(* reordered, for every size and however far the indices have wrapped.     *)
THEOREM Refinement == RingSpec => ImplementsFifo
<1>1. RingInit => Fifo!Init
  <2> SUFFICES ASSUME RingInit PROVE Contents = <<>> /\ ret = <<FALSE, NoItem>>
    BY DEF Fifo!Init
  <2>1. size = 0
    BY Size, Sizes, WordAssumption DEF RingInit
  <2> QED BY <2>1 DEF RingInit, Contents
<1>2. RingTypeOK /\ RingTypeOK' /\ [RingNext]_ringVars => [Fifo!Next]_<<Contents, ret>>
  <2> SUFFICES ASSUME RingTypeOK, RingTypeOK', [RingNext]_ringVars
               PROVE  [Fifo!Next]_<<Contents, ret>>
    OBVIOUS
  <2>1. ASSUME NEW v \in Item, try_push(v) PROVE Fifo!TryPush(v)
    <3>1. CASE ~full
      BY <2>1, <3>1, PushAppends DEF Fifo!TryPush, try_push
    <3>2. CASE full
      <4>1. Len(Contents) = Sz
        BY <3>2, Observers, ContentsSeq DEF ContentsFacts, ObserversAgree
      <4>2. Contents' = Contents /\ ret' = <<FALSE, v>>
        BY <2>1, <3>2 DEF try_push, Contents, At, size
      <4> QED BY <4>1, <4>2 DEF Fifo!TryPush
    <3> QED BY <3>1, <3>2
  <2>2. ASSUME try_pop PROVE Fifo!TryPop
    <3>1. CASE ~empty
      BY <2>2, <3>1, PopTakesFirst DEF Fifo!TryPop
    <3>2. CASE empty
      <4>1. Contents = <<>>
        BY <3>2, Observers, ContentsSeq DEF ContentsFacts, ObserversAgree
      <4>2. Contents' = Contents /\ ret' = <<FALSE, NoItem>>
        BY <2>2, <3>2 DEF try_pop, Contents, At, size
      <4> QED BY <4>1, <4>2 DEF Fifo!TryPop
    <3> QED BY <3>1, <3>2
  <2>3. ASSUME UNCHANGED ringVars PROVE UNCHANGED <<Contents, ret>>
    BY <2>3 DEF ringVars, Contents, At, size
  <2> QED BY <2>1, <2>2, <2>3 DEF RingNext, Fifo!Next
<1> QED
  BY <1>1, <1>2, TypeCorrect, PTL DEF RingSpec, ImplementsFifo, Fifo!Spec
-----------------------------------------------------------------------------
(* The list.  A sequence of nodes that is linked in one direction: its     *)
(* first node, and from each the next.                                     *)
Once(s) == s \in Seq(Node) /\ \A i, j \in 1..Len(s) : s[i] = s[j] => i = j

NextIs(s, from, link) ==
  /\ from = IF s = <<>> THEN Null ELSE s[1]
  /\ \A i \in 1..Len(s) : link[s[i]] = IF i = Len(s) THEN Null ELSE s[i + 1]

LEMMA NoMoreThanNodes ==
  ASSUME NEW s, Once(s)
  PROVE  Len(s) \in Nat /\ Cardinality(Node) \in Nat /\ Len(s) <= Cardinality(Node)
<1>1. Len(s) \in Nat /\ s \in [1..Len(s) -> Node] /\ IsFiniteSet(Node)
  BY NodeAssumption, LenProperties DEF Once
<1>2. IsInjective(s)
  BY <1>1 DEF Once, IsInjective
<1>3. s \in Injection(1..Len(s), Node)
  BY <1>1, <1>2 DEF Injection, IsInjective
<1>4. Cardinality(1..Len(s)) <= Cardinality(Node)
  BY <1>1, <1>3, FS_Injection
<1>5. Cardinality(1..Len(s)) = Len(s)
  BY <1>1, FS_Interval
<1> QED BY <1>1, <1>4, <1>5, FS_CardinalityType

(* Whoever follows the links comes along the sequence, and to its end.     *)
LEMMA WalkIs ==
  ASSUME NEW s, Once(s), NEW from, NEW link, NextIs(s, from, link)
  PROVE  Walk(from, link) = s
<1> DEFINE n == Len(s)
           K == Cardinality(Node) + 1
           Rule(f) == [k \in 1..K |->
                         IF k = 1 THEN from ELSE IF f[k - 1] = Null THEN Null ELSE link[f[k - 1]]]
           way == [k \in 1..K |-> IF k <= n THEN s[k] ELSE Null]
<1>1. n \in Nat /\ K \in Nat /\ n < K /\ \A i \in 1..n : s[i] \in Node /\ s[i] # Null
  BY NoMoreThanNodes, NodeAssumption, ElementOfSeq DEF Once
<1>2. \A k \in 1..K : way[k] = IF k <= n THEN s[k] ELSE Null
  OBVIOUS
<1>3. s = <<>> <=> n = 0
  BY <1>1, EmptySeq DEF Once
<1>4. ASSUME NEW k \in 1..K
      PROVE  way[k] = IF k = 1 THEN from ELSE IF way[k - 1] = Null THEN Null ELSE link[way[k - 1]]
  <2> HIDE DEF way, n, K
  <2>1. CASE k = 1
    BY <1>1, <1>2, <1>3, <2>1 DEF NextIs, n
  <2>2. CASE k # 1
    <3>1. k - 1 \in 1..K /\ (k <= n => k - 1 <= n) /\ k - 1 + 1 = k
      BY <1>1, <2>2
    <3>2. CASE k - 1 <= n
      <4>1. way[k - 1] = s[k - 1] /\ k - 1 \in 1..n /\ way[k - 1] # Null
        BY <1>1, <1>2, <3>1, <3>2
      <4>2. link[s[k - 1]] = IF k - 1 = n THEN Null ELSE s[k]
        BY <3>1, <4>1 DEF NextIs, n
      <4>3. k <= n <=> k - 1 # n
        BY <1>1, <3>2
      <4> QED BY <1>2, <2>2, <4>1, <4>2, <4>3
    <3>3. CASE ~(k - 1 <= n)
      BY <1>1, <1>2, <2>2, <3>1, <3>3
    <3> QED BY <3>2, <3>3
  <2> QED BY <2>1, <2>2
<1>5. way = Rule(way)
  BY <1>4
<1>6. ASSUME NEW f, f = Rule(f) PROVE f = way
  <2> DEFINE Bad == {k \in 1..K : f[k] # way[k]}
  <2>1. f = [k \in 1..K |-> f[k]]
    BY <1>6
  <2>2. ASSUME NEW k \in 1..K
        PROVE  f[k] = IF k = 1 THEN from ELSE IF f[k - 1] = Null THEN Null ELSE link[f[k - 1]]
    BY <1>6
  <2> HIDE DEF Rule, way, K
  <2>3. SUFFICES ASSUME Bad # {} PROVE FALSE
    BY <2>1 DEF way
  <2>4. PICK m \in Bad : \A k \in Bad : m <= k
    <3>1. Bad \in SUBSET Nat
      BY <1>1
    <3> HIDE DEF Bad
    <3> QED BY <2>3, <3>1, Smallest
  <2>5. m # 1 => f[m - 1] = way[m - 1]
    <3> SUFFICES ASSUME m # 1 PROVE m - 1 \in 1..K /\ m - 1 \notin Bad
      OBVIOUS
    <3> QED BY <1>1, <2>4
  <2> QED BY <1>4, <2>2, <2>4, <2>5
<1>7. (CHOOSE f : f = Rule(f)) = way
  <2> HIDE DEF Rule, way
  <2> QED BY <1>5, <1>6
<1>8. Walk(from, link) = Restrict(way, {k \in DOMAIN way : way[k] # Null})
  BY <1>7 DEF Walk
<1>9. {k \in DOMAIN way : way[k] # Null} = 1..n
  <2>1. DOMAIN way = 1..K
    OBVIOUS
  <2> HIDE DEF way, n, K
  <2> QED BY <1>1, <1>2, <2>1
<1>10. Restrict(way, 1..n) = s
  <2>1. \A k \in 1..n : k \in 1..K /\ way[k] = s[k]
    BY <1>1, <1>2
  <2>2. s = [k \in 1..n |-> s[k]]
    BY LenProperties DEF Once
  <2> HIDE DEF way
  <2> QED BY <2>1, <2>2 DEF Restrict
<1> QED BY <1>8, <1>9, <1>10

BackIs(s, from, link) ==
  /\ from = IF s = <<>> THEN Null ELSE s[Len(s)]
  /\ \A i \in 1..Len(s) : link[s[i]] = IF i = 1 THEN Null ELSE s[i - 1]

LEMMA Reversed ==
  ASSUME NEW s, Once(s), NEW from, NEW link, BackIs(s, from, link)
  PROVE  Once(Reverse(s)) /\ NextIs(Reverse(s), from, link) /\ Reverse(Reverse(s)) = s
<1> DEFINE n == Len(s)
           r == Reverse(s)
<1>1. n \in Nat /\ s \in Seq(Node) /\ \A i \in 1..n : s[i] \in Node
  BY ElementOfSeq, LenProperties DEF Once
<1>2. r = [i \in 1..n |-> s[(n - i) + 1]]
  BY DEF Reverse
<1>3. \A i \in 1..n : n - i + 1 \in 1..n /\ r[i] = s[n - i + 1]
  BY <1>1, <1>2
<1>4. r \in Seq(Node) /\ Len(r) = n
  <2>1. r \in [1..n -> Node]
    BY <1>1, <1>2, <1>3
  <2> QED BY <1>1, <2>1, LenProperties
<1> HIDE DEF n, r
<1>5. Once(r)
  <2> SUFFICES ASSUME NEW i \in 1..n, NEW j \in 1..n, r[i] = r[j] PROVE i = j
    BY <1>4 DEF Once
  <2>1. n - i + 1 = n - j + 1
    BY <1>3 DEF Once, n
  <2> QED BY <1>1, <2>1
<1>6. NextIs(r, from, link)
  <2>1. r = <<>> <=> n = 0
    BY <1>1, <1>4, EmptySeq
  <2>2. s = <<>> <=> n = 0
    BY <1>1, EmptySeq DEF n
  <2>3. n # 0 => r[1] = s[n]
    BY <1>1, <1>3
  <2>4. ASSUME NEW i \in 1..n
        PROVE  link[r[i]] = IF i = n THEN Null ELSE r[i + 1]
    <3>1. link[s[n - i + 1]] = IF n - i + 1 = 1 THEN Null ELSE s[(n - i + 1) - 1]
      BY <1>3 DEF BackIs, n
    <3>2. n - i + 1 = 1 <=> i = n
      BY <1>1
    <3>3. i # n => r[i + 1] = s[n - (i + 1) + 1] /\ n - (i + 1) + 1 = (n - i + 1) - 1
      BY <1>1, <1>3
    <3> QED BY <1>3, <3>1, <3>2, <3>3
  <2> QED BY <1>4, <2>1, <2>2, <2>3, <2>4 DEF NextIs, BackIs, n
<1>7. Reverse(r) = s
  <2>1. Reverse(r) = [i \in 1..n |-> r[(n - i) + 1]]
    BY <1>4 DEF Reverse
  <2>2. \A i \in 1..n : r[(n - i) + 1] = s[i]
    <3> SUFFICES ASSUME NEW i \in 1..n PROVE r[(n - i) + 1] = s[i]
      OBVIOUS
    <3>1. n - i + 1 \in 1..n /\ n - (n - i + 1) + 1 = i
      BY <1>1
    <3> QED BY <1>3, <3>1
  <2>3. s = [i \in 1..n |-> s[i]]
    BY <1>1, LenProperties DEF n
  <2> QED BY <2>1, <2>2, <2>3
<1> QED BY <1>5, <1>6, <1>7 DEF r

(* A node that is not in the list points to none.                          *)
Free(s) == \A e \in Node : ~Stands(s, e) => nodeNext[e] = Null /\ nodePrev[e] = Null

Listed(s) ==
  /\ Once(s)
  /\ NextIs(s, header, nodeNext)
  /\ BackIs(s, tailer, nodePrev)
  /\ Free(s)

LinkTypes ==
  /\ nodeNext \in [Node -> Node \union {Null}] /\ nodePrev \in [Node -> Node \union {Null}]
  /\ header \in Node \union {Null} /\ tailer \in Node \union {Null}



LEMMA ItemsAre ==
  ASSUME NEW s, Listed(s)
  PROVE  Items = s /\ Reverse(Walk(tailer, nodePrev)) = s
<1>1. Items = s
  BY WalkIs DEF Listed, Items
<1>2. Walk(tailer, nodePrev) = Reverse(s)
  BY Reversed, WalkIs DEF Listed
<1> QED BY <1>1, <1>2, Reversed DEF Listed

LEMMA ItemsWillBe ==
  ASSUME NEW s, Listed(s)'
  PROVE  Items' = s /\ Reverse(Walk(tailer, nodePrev))' = s
<1>1. Items' = s
  BY WalkIs DEF Listed, Items
<1>2. Walk(tailer', nodePrev') = Reverse(s)
  BY Reversed, WalkIs DEF Listed
<1> QED BY <1>1, <1>2, Reversed DEF Listed

LEMMA Members ==
  ASSUME NEW s, Once(s)
  PROVE  /\ s \in Seq(Node) /\ Len(s) \in Nat /\ (s = <<>> <=> Len(s) = 0)
         /\ \A i \in 1..Len(s) : s[i] \in Node /\ s[i] # Null
         /\ \A i, j \in 1..Len(s) : s[i] = s[j] <=> i = j
BY NodeAssumption, ElementOfSeq, LenProperties, EmptySeq DEF Once

(* A node that is pushed comes behind the last.                            *)
LEMMA PushBackFacts ==
  ASSUME LinkTypes, NEW s, Listed(s), NEW e \in Node, ~Stands(s, e), push_back(e)
  PROVE  LinkTypes' /\ Listed(Append(s, e))'
<1> DEFINE n == Len(s)
           t == Append(s, e)
<1>1. /\ s \in Seq(Node) /\ n \in Nat /\ (s = <<>> <=> n = 0)
      /\ \A i \in 1..n : s[i] \in Node /\ s[i] # Null /\ s[i] # e
      /\ \A i, j \in 1..n : s[i] = s[j] <=> i = j
  BY Members DEF Listed, Stands
<1>2. /\ t \in Seq(Node) /\ Len(t) = n + 1 /\ t[n + 1] = e /\ \A i \in 1..n : t[i] = s[i]
  BY <1>1, AppendProperties
<1>3. /\ header = (IF n = 0 THEN Null ELSE s[1]) /\ tailer = (IF n = 0 THEN Null ELSE s[n])
      /\ \A i \in 1..n : nodeNext[s[i]] = IF i = n THEN Null ELSE s[i + 1]
      /\ \A i \in 1..n : nodePrev[s[i]] = IF i = 1 THEN Null ELSE s[i - 1]
  BY <1>1 DEF Listed, NextIs, BackIs
<1> HIDE DEF n, t
<1>4. /\ nodePrev' \in [Node -> Node \union {Null}] /\ nodeNext' \in [Node -> Node \union {Null}]
      /\ \A d \in Node : nodePrev'[d] = IF d = e THEN tailer ELSE nodePrev[d]
      /\ \A d \in Node : nodeNext'[d] = IF d = tailer THEN e ELSE IF d = e THEN Null ELSE nodeNext[d]
  <2> DEFINE cut == [nodeNext EXCEPT ![e] = Null]
  <2>1. cut \in [Node -> Node \union {Null}] /\ \A d \in Node : cut[d] = IF d = e THEN Null ELSE nodeNext[d]
    BY DEF LinkTypes
  <2>2. nodePrev' = [nodePrev EXCEPT ![e] = tailer] /\ nodeNext' = Set(cut, tailer, e)
    BY DEF push_back
  <2> HIDE DEF cut
  <2>3. /\ Set(cut, tailer, e) \in [Node -> Node \union {Null}]
        /\ \A d \in Node : Set(cut, tailer, e)[d] = IF d = tailer THEN e ELSE cut[d]
    BY <2>1, NodeAssumption DEF LinkTypes, Set
  <2>4. /\ nodePrev' \in [Node -> Node \union {Null}]
        /\ \A d \in Node : nodePrev'[d] = IF d = e THEN tailer ELSE nodePrev[d]
    BY <2>2 DEF LinkTypes
  <2> QED BY <2>1, <2>2, <2>3, <2>4
<1>5. header' = (IF n = 0 THEN e ELSE s[1]) /\ tailer' = e
  <2>1. 1 <= n => s[1] # Null
    BY <1>1
  <2> QED BY <1>1, <1>3, <2>1 DEF push_back
<1>6. tailer # e /\ (tailer # Null => n # 0 /\ tailer = s[n])
  BY <1>1, <1>3, NodeAssumption
<1>7. LinkTypes'
  <2>1. header' \in Node
    BY <1>1, <1>5
  <2> QED BY <1>4, <1>5, <2>1 DEF LinkTypes
<1>8. Once(t)
  <2> SUFFICES ASSUME NEW i \in 1..(n + 1), NEW j \in 1..(n + 1), t[i] = t[j] PROVE i = j
    BY <1>2 DEF Once
  <2> QED BY <1>1, <1>2
<1>9. t # <<>> /\ t[1] = (IF n = 0 THEN e ELSE s[1])
  BY <1>1, <1>2, EmptySeq
<1>10. NextIs(t, header, nodeNext)'
  <2>1. ASSUME NEW i \in 1..(n + 1) PROVE nodeNext'[t[i]] = IF i = n + 1 THEN Null ELSE t[i + 1]
    <3>1. CASE i = n + 1
      BY <1>2, <1>4, <1>6, <3>1
    <3>2. CASE i = n
      BY <1>1, <1>2, <1>3, <1>4, <3>2
    <3>3. CASE i # n /\ i # n + 1
      <4>1. i \in 1..n /\ i + 1 \in 1..n /\ n \in 1..n /\ n # 0
        BY <1>1, <3>3
      <4>2. s[i] # s[n] /\ s[i] # e /\ s[i] \in Node
        BY <1>1, <3>3, <4>1
      <4> QED BY <1>2, <1>3, <1>4, <3>3, <4>1, <4>2
    <3> QED BY <3>1, <3>2, <3>3
  <2> QED BY <1>2, <1>5, <1>9, <2>1 DEF NextIs
<1>11. BackIs(t, tailer, nodePrev)'
  <2>1. ASSUME NEW i \in 1..(n + 1) PROVE nodePrev'[t[i]] = IF i = 1 THEN Null ELSE t[i - 1]
    <3>1. CASE i = n + 1
      BY <1>1, <1>2, <1>3, <1>4, <3>1
    <3>2. CASE i # n + 1
      <4>1. i \in 1..n /\ (i # 1 => i - 1 \in 1..n)
        BY <1>1, <3>2
      <4>2. s[i] \in Node /\ s[i] # e /\ t[i] = s[i] /\ (i # 1 => t[i - 1] = s[i - 1])
        BY <1>1, <1>2, <4>1
      <4> QED BY <1>3, <1>4, <4>1, <4>2
    <3> QED BY <3>1, <3>2
  <2> QED BY <1>2, <1>5, <1>9, <2>1 DEF BackIs
<1>12. Free(t)'
  <2> SUFFICES ASSUME NEW d \in Node, ~Stands(t, d) PROVE nodeNext'[d] = Null /\ nodePrev'[d] = Null
    BY DEF Free
  <2>1. d # e /\ ~Stands(s, d)
    BY <1>1, <1>2 DEF Stands, n
  <2>2. d # tailer
    <3>1. n # 0 => n \in 1..n
      BY <1>1
    <3> QED BY <1>6, <2>1, <3>1, NodeAssumption DEF Stands, n
  <2> QED BY <1>4, <2>1, <2>2 DEF Listed, Free
<1> QED BY <1>7, <1>8, <1>10, <1>11, <1>12 DEF Listed, t

(* Or before the first.                                                    *)
LEMMA PushFrontFacts ==
  ASSUME LinkTypes, NEW s, Listed(s), NEW e \in Node, ~Stands(s, e), push_front(e)
  PROVE  LinkTypes' /\ Listed(<<e>> \o s)'
<1> DEFINE n == Len(s)
           t == <<e>> \o s
<1>1. /\ s \in Seq(Node) /\ n \in Nat /\ (s = <<>> <=> n = 0)
      /\ \A i \in 1..n : s[i] \in Node /\ s[i] # Null /\ s[i] # e
      /\ \A i, j \in 1..n : s[i] = s[j] <=> i = j
  BY Members DEF Listed, Stands
<1>2. /\ t \in Seq(Node) /\ Len(t) = n + 1 /\ t[1] = e /\ \A i \in 1..n : t[i + 1] = s[i]
  <2>1. <<e>> \in Seq(Node) /\ Len(<<e>>) = 1 /\ <<e>>[1] = e
    OBVIOUS
  <2>2. /\ t \in Seq(Node) /\ Len(t) = 1 + n
        /\ \A i \in 1..(1 + n) : t[i] = IF i <= 1 THEN <<e>>[i] ELSE s[i - 1]
    <3> DEFINE one == <<e>>
    <3> HIDE DEF one
    <3>1. one \o s \in Seq(Node) /\ Len(one \o s) = Len(one) + Len(s)
      BY <1>1, <2>1, ConcatProperties DEF one
    <3>2. \A i \in 1..(Len(one) + Len(s)) : (one \o s)[i] = IF i <= Len(one) THEN one[i] ELSE s[i - Len(one)]
      BY <1>1, <2>1, ConcatProperties DEF one
    <3> QED BY <2>1, <3>1, <3>2 DEF one, t, n
  <2> HIDE DEF t, n
  <2>3. t[1] = e
    BY <1>1, <2>1, <2>2
  <2>4. ASSUME NEW i \in 1..n PROVE t[i + 1] = s[i]
    <3>1. i + 1 \in 1..(1 + n) /\ ~(i + 1 <= 1) /\ i + 1 - 1 = i
      BY <1>1
    <3> QED BY <2>2, <3>1
  <2> QED BY <1>1, <2>2, <2>3, <2>4
<1>3. /\ header = (IF n = 0 THEN Null ELSE s[1]) /\ tailer = (IF n = 0 THEN Null ELSE s[n])
      /\ \A i \in 1..n : nodeNext[s[i]] = IF i = n THEN Null ELSE s[i + 1]
      /\ \A i \in 1..n : nodePrev[s[i]] = IF i = 1 THEN Null ELSE s[i - 1]
  BY <1>1 DEF Listed, NextIs, BackIs
<1> HIDE DEF n, t
<1>4. /\ nodePrev' \in [Node -> Node \union {Null}] /\ nodeNext' \in [Node -> Node \union {Null}]
      /\ \A d \in Node : nodeNext'[d] = IF d = e THEN header ELSE nodeNext[d]
      /\ \A d \in Node : nodePrev'[d] = IF d = header THEN e ELSE IF d = e THEN Null ELSE nodePrev[d]
  <2> DEFINE cut == [nodePrev EXCEPT ![e] = Null]
  <2>1. cut \in [Node -> Node \union {Null}] /\ \A d \in Node : cut[d] = IF d = e THEN Null ELSE nodePrev[d]
    BY DEF LinkTypes
  <2>2. nodeNext' = [nodeNext EXCEPT ![e] = header] /\ nodePrev' = Set(cut, header, e)
    BY DEF push_front
  <2> HIDE DEF cut
  <2>3. /\ Set(cut, header, e) \in [Node -> Node \union {Null}]
        /\ \A d \in Node : Set(cut, header, e)[d] = IF d = header THEN e ELSE cut[d]
    BY <2>1, NodeAssumption DEF LinkTypes, Set
  <2>4. /\ nodeNext' \in [Node -> Node \union {Null}]
        /\ \A d \in Node : nodeNext'[d] = IF d = e THEN header ELSE nodeNext[d]
    BY <2>2 DEF LinkTypes
  <2> QED BY <2>1, <2>2, <2>3, <2>4
<1>5. tailer' = (IF n = 0 THEN e ELSE s[n]) /\ header' = e
  <2>1. n # 0 => s[n] # Null
    BY <1>1
  <2> QED BY <1>1, <1>3, <2>1 DEF push_front
<1>6. header # e /\ (header # Null => n # 0 /\ header = s[1])
  BY <1>1, <1>3, NodeAssumption
<1>7. LinkTypes'
  <2>1. tailer' \in Node
    BY <1>1, <1>5
  <2> QED BY <1>4, <1>5, <2>1 DEF LinkTypes
<1>8. \A i \in 1..(n + 1) : i # 1 => i - 1 \in 1..n /\ t[i] = s[i - 1]
  <2> SUFFICES ASSUME NEW i \in 1..(n + 1), i # 1 PROVE i - 1 \in 1..n /\ t[i] = s[i - 1]
    OBVIOUS
  <2>1. i - 1 \in 1..n /\ (i - 1) + 1 = i
    BY <1>1
  <2> QED BY <1>2, <2>1
<1>9. Once(t)
  <2> SUFFICES ASSUME NEW i \in 1..(n + 1), NEW j \in 1..(n + 1), t[i] = t[j] PROVE i = j
    BY <1>2 DEF Once
  <2>1. \A k \in 1..(n + 1) : k # 1 => t[k] # e
    BY <1>1, <1>8
  <2>2. CASE i # 1 /\ j # 1
    <3>1. i - 1 = j - 1
      BY <1>1, <1>8, <2>2
    <3> QED BY <1>1, <3>1
  <2> QED BY <1>2, <2>1, <2>2
<1>10. t # <<>> /\ t[n + 1] = (IF n = 0 THEN e ELSE s[n])
  <2>1. n # 0 => n + 1 \in 1..(n + 1) /\ n + 1 # 1 /\ (n + 1) - 1 = n
    BY <1>1
  <2>2. n = 0 => n + 1 = 1
    OBVIOUS
  <2> QED BY <1>1, <1>2, <1>8, <2>1, <2>2, EmptySeq
<1>11. NextIs(t, header, nodeNext)'
  <2>1. ASSUME NEW i \in 1..(n + 1) PROVE nodeNext'[t[i]] = IF i = n + 1 THEN Null ELSE t[i + 1]
    <3>1. CASE i = 1
      <4>1. n # 0 => t[1 + 1] = s[1]
        BY <1>1, <1>2
      <4> QED BY <1>1, <1>2, <1>3, <1>4, <3>1, <4>1
    <3>2. CASE i # 1
      <4>1. i - 1 \in 1..n /\ t[i] = s[i - 1] /\ (i - 1 = n <=> i = n + 1) /\ (i - 1) + 1 = i
        BY <1>1, <1>8, <3>2
      <4>2. i # n + 1 => i \in 1..n /\ t[i + 1] = s[i]
        BY <1>1, <1>2
      <4>3. s[i - 1] \in Node /\ s[i - 1] # e
        BY <1>1, <4>1
      <4>4. nodeNext[s[i - 1]] = IF i - 1 = n THEN Null ELSE s[i]
        BY <1>3, <4>1
      <4> QED BY <1>4, <4>1, <4>2, <4>3, <4>4
    <3> QED BY <3>1, <3>2
  <2> QED BY <1>2, <1>5, <1>10, <2>1 DEF NextIs
<1>12. BackIs(t, tailer, nodePrev)'
  <2>1. ASSUME NEW i \in 1..(n + 1) PROVE nodePrev'[t[i]] = IF i = 1 THEN Null ELSE t[i - 1]
    <3>1. CASE i = 1
      BY <1>2, <1>4, <1>6, <3>1
    <3>2. CASE i # 1
      <4>1. i - 1 \in 1..n /\ t[i] = s[i - 1] /\ 1 \in 1..n /\ n # 0
        BY <1>1, <1>8, <3>2
      <4>2. s[i - 1] \in Node /\ s[i - 1] # e /\ (s[i - 1] = s[1] <=> i - 1 = 1)
        BY <1>1, <4>1
      <4>3. CASE i - 1 = 1
        BY <1>2, <1>3, <1>4, <3>2, <4>1, <4>2, <4>3
      <4>4. CASE i - 1 # 1
        <5>1. i - 1 \in 1..(n + 1) /\ (i - 1) - 1 \in 1..n /\ t[i - 1] = s[(i - 1) - 1]
          BY <1>1, <1>8, <4>1, <4>4
        <5>2. nodePrev[s[i - 1]] = s[(i - 1) - 1]
          BY <1>3, <4>1, <4>4
        <5> QED BY <1>3, <1>4, <3>2, <4>1, <4>2, <4>4, <5>1, <5>2
      <4> QED BY <4>3, <4>4
    <3> QED BY <3>1, <3>2
  <2> QED BY <1>2, <1>5, <1>10, <2>1 DEF BackIs
<1>13. Free(t)'
  <2> SUFFICES ASSUME NEW d \in Node, ~Stands(t, d) PROVE nodeNext'[d] = Null /\ nodePrev'[d] = Null
    BY DEF Free
  <2>1. d # e /\ ~Stands(s, d)
    <3>1. 1 \in 1..(n + 1) /\ \A i \in 1..n : i + 1 \in 1..(n + 1)
      BY <1>1
    <3> QED BY <1>1, <1>2, <3>1 DEF Stands, n
  <2>2. d # header
    <3>1. n # 0 => 1 \in 1..n
      BY <1>1
    <3> QED BY <1>6, <2>1, <3>1, NodeAssumption DEF Stands, n
  <2> QED BY <1>4, <2>1, <2>2 DEF Listed, Free
<1> QED BY <1>7, <1>9, <1>11, <1>12, <1>13 DEF Listed, t

(* What erase() does to the links, and try_pop() to those of the first.    *)
Unlinks(e) ==
  /\ nodePrev' \in [Node -> Node \union {Null}] /\ nodeNext' \in [Node -> Node \union {Null}]
  /\ \A d \in Node : nodePrev'[d] = IF d = e THEN Null
                                    ELSE IF d = nodeNext[e] THEN nodePrev[e] ELSE nodePrev[d]
  /\ \A d \in Node : nodeNext'[d] = IF d = e THEN Null
                                    ELSE IF d = nodePrev[e] THEN nodeNext[e] ELSE nodeNext[d]
  /\ header' = IF header = e THEN nodeNext[e] ELSE header
  /\ tailer' = IF tailer = e THEN nodePrev[e] ELSE tailer

LEMMA UnlinkFacts ==
  ASSUME LinkTypes, NEW s, Listed(s), NEW e \in Node, Stands(s, e), Unlinks(e)
  PROVE  LinkTypes' /\ Listed(RemoveFirst(s, e))'
<1> DEFINE n == Len(s)
           t == RemoveFirst(s, e)
<1>1. /\ s \in Seq(Node) /\ n \in Nat /\ (s = <<>> <=> n = 0)
      /\ \A i \in 1..n : s[i] \in Node /\ s[i] # Null
      /\ \A i, j \in 1..n : s[i] = s[j] <=> i = j
  BY Members DEF Listed
<1>2. PICK m \in 1..n : s[m] = e
  BY DEF Stands
<1>3. /\ t \in Seq(Node) /\ Len(t) = n - 1
      /\ \A i \in 1..(n - 1) : t[i] = IF i < m THEN s[i] ELSE s[i + 1]
  <2>1. Single(s, e)
    BY <1>1 DEF Single
  <2> QED BY <1>1, <1>2, <2>1, ErasedAt
<1>4. /\ header = (IF n = 0 THEN Null ELSE s[1]) /\ tailer = (IF n = 0 THEN Null ELSE s[n])
      /\ \A i \in 1..n : nodeNext[s[i]] = IF i = n THEN Null ELSE s[i + 1]
      /\ \A i \in 1..n : nodePrev[s[i]] = IF i = 1 THEN Null ELSE s[i - 1]
  BY <1>1 DEF Listed, NextIs, BackIs
<1> HIDE DEF n, t
<1>5. /\ n # 0 /\ 1 \in 1..n /\ n \in 1..n /\ header = s[1] /\ tailer = s[n]
      /\ nodeNext[e] = (IF m = n THEN Null ELSE s[m + 1])
      /\ nodePrev[e] = (IF m = 1 THEN Null ELSE s[m - 1])
      /\ (m # n => m + 1 \in 1..n) /\ (m # 1 => m - 1 \in 1..n)
  <2>1. n # 0 /\ 1 \in 1..n /\ n \in 1..n /\ (m # n => m + 1 \in 1..n) /\ (m # 1 => m - 1 \in 1..n)
    BY <1>1, <1>2
  <2>2. nodeNext[s[m]] = (IF m = n THEN Null ELSE s[m + 1])
    BY <1>2, <1>4
  <2>3. nodePrev[s[m]] = (IF m = 1 THEN Null ELSE s[m - 1])
    BY <1>2, <1>4
  <2> QED BY <1>2, <1>4, <2>1, <2>2, <2>3
<1>6. \A i \in 1..n : /\ s[i] = e <=> i = m
                      /\ s[i] = nodeNext[e] <=> i = m + 1
                      /\ s[i] = nodePrev[e] <=> i = m - 1
  <2> SUFFICES ASSUME NEW i \in 1..n
               PROVE  /\ s[i] = e <=> i = m
                      /\ s[i] = nodeNext[e] <=> i = m + 1
                      /\ s[i] = nodePrev[e] <=> i = m - 1
    OBVIOUS
  <2>1. s[i] # Null /\ (s[i] = e <=> i = m)
    BY <1>1, <1>2
  <2>2. s[i] = nodeNext[e] <=> i = m + 1
    BY <1>1, <1>2, <1>5, <2>1
  <2>3. s[i] = nodePrev[e] <=> i = m - 1
    BY <1>1, <1>2, <1>5, <2>1
  <2> QED BY <2>1, <2>2, <2>3
<1>7. header' = (IF m = 1 THEN nodeNext[e] ELSE s[1]) /\ tailer' = (IF m = n THEN nodePrev[e] ELSE s[n])
  BY <1>2, <1>5, <1>6 DEF Unlinks
<1>8. LinkTypes'
  <2>1. header' \in Node \union {Null} /\ tailer' \in Node \union {Null}
    BY <1>1, <1>5, <1>7
  <2> QED BY <2>1 DEF LinkTypes, Unlinks
(* Place i of the rest is place i or i + 1 of the list. *)
<1> DEFINE up(i) == IF i < m THEN i ELSE i + 1
<1>9. \A i \in 1..(n - 1) : up(i) \in 1..n /\ up(i) # m /\ t[i] = s[up(i)]
  BY <1>1, <1>2, <1>3
<1>10. \A i \in 1..(n - 1) :
         /\ nodeNext'[t[i]] = IF up(i) = m - 1 THEN nodeNext[e]
                              ELSE IF up(i) = n THEN Null ELSE s[up(i) + 1]
         /\ nodePrev'[t[i]] = IF up(i) = m + 1 THEN nodePrev[e]
                              ELSE IF up(i) = 1 THEN Null ELSE s[up(i) - 1]
  <2> SUFFICES ASSUME NEW k \in 1..n, k # m
               PROVE  /\ nodeNext'[s[k]] = IF k = m - 1 THEN nodeNext[e]
                                           ELSE IF k = n THEN Null ELSE s[k + 1]
                      /\ nodePrev'[s[k]] = IF k = m + 1 THEN nodePrev[e]
                                           ELSE IF k = 1 THEN Null ELSE s[k - 1]
    <3> HIDE DEF up
    <3> QED BY <1>9
  <2>1. s[k] \in Node /\ s[k] # e
    BY <1>1, <1>6
  <2> QED BY <1>4, <1>6, <2>1 DEF Unlinks
<1>11. Once(t)
  <2> SUFFICES ASSUME NEW i \in 1..(n - 1), NEW j \in 1..(n - 1), t[i] = t[j] PROVE i = j
    BY <1>3 DEF Once
  <2>1. up(i) = up(j)
    <3> HIDE DEF up
    <3> QED BY <1>1, <1>9
  <2> QED BY <1>1, <1>2, <2>1
<1>12. t = <<>> <=> n = 1
  BY <1>1, <1>3, <1>5, EmptySeq
<1>13. NextIs(t, header, nodeNext)'
  <2>1. header' = IF n = 1 THEN Null ELSE t[1]
    <3>1. CASE n = 1
      BY <1>2, <1>5, <1>7, <3>1
    <3>2. CASE n # 1
      <4>1. 1 \in 1..(n - 1) /\ (m = 1 => m # n /\ ~(1 < m)) /\ (m # 1 => 1 < m) /\ 1 + 1 = 2
        BY <1>1, <1>2, <3>2
      <4> QED BY <1>3, <1>5, <1>7, <3>2, <4>1
    <3> QED BY <3>1, <3>2
  <2>2. ASSUME NEW i \in 1..(n - 1) PROVE nodeNext'[t[i]] = IF i = n - 1 THEN Null ELSE t[i + 1]
    <3>1. i # n - 1 => i + 1 \in 1..(n - 1) /\ t[i + 1] = s[up(i + 1)]
      <4> HIDE DEF up
      <4> QED BY <1>1, <1>9
    <3>2. CASE i < m
      <4>1. up(i) = i /\ i # n /\ (i = m - 1 => (m = n <=> i = n - 1) /\ (m # n => up(i + 1) = m + 1))
        BY <1>1, <1>2, <3>2
      <4>2. i # m - 1 => i # n - 1 /\ up(i + 1) = i + 1
        BY <1>1, <1>2, <3>2
      <4> QED BY <1>5, <1>10, <3>1, <4>1, <4>2
    <3>3. CASE ~(i < m)
      <4>1. up(i) = i + 1 /\ i + 1 # m - 1 /\ (i + 1 = n <=> i = n - 1) /\ up(i + 1) = i + 1 + 1
        BY <1>1, <1>2, <3>3
      <4> QED BY <1>10, <3>1, <4>1
    <3> QED BY <3>2, <3>3
  <2> QED BY <1>3, <1>12, <2>1, <2>2 DEF NextIs
<1>14. BackIs(t, tailer, nodePrev)'
  <2>1. tailer' = IF n = 1 THEN Null ELSE t[n - 1]
    <3>1. CASE n = 1
      BY <1>2, <1>5, <1>7, <3>1
    <3>2. CASE n # 1
      <4>1. n - 1 \in 1..(n - 1) /\ (m = n => m # 1 /\ n - 1 < m) /\ (m # n => ~(n - 1 < m)) /\ (n - 1) + 1 = n
        BY <1>1, <1>2, <3>2
      <4> QED BY <1>3, <1>5, <1>7, <3>2, <4>1
    <3> QED BY <3>1, <3>2
  <2>2. ASSUME NEW i \in 1..(n - 1) PROVE nodePrev'[t[i]] = IF i = 1 THEN Null ELSE t[i - 1]
    <3>1. i # 1 => i - 1 \in 1..(n - 1) /\ t[i - 1] = s[up(i - 1)]
      <4> HIDE DEF up
      <4> QED BY <1>1, <1>9
    <3>2. CASE i < m
      <4>1. up(i) = i /\ i # m + 1 /\ (i # 1 => up(i - 1) = i - 1)
        BY <1>1, <1>2, <3>2
      <4> QED BY <1>10, <3>1, <4>1
    <3>3. CASE ~(i < m)
      <4>1. up(i) = i + 1 /\ i + 1 # 1 /\ (i + 1 = m + 1 <=> i = m) /\ (i + 1) - 1 = i
        BY <1>1, <1>2, <3>3
      <4>2. i = m /\ i # 1 => up(i - 1) = m - 1
        BY <1>1, <1>2
      <4>3. i # m => i # 1 /\ up(i - 1) = i
        BY <1>1, <1>2, <3>3
      <4> QED BY <1>5, <1>10, <3>1, <4>1, <4>2, <4>3
    <3> QED BY <3>2, <3>3
  <2> QED BY <1>3, <1>12, <2>1, <2>2 DEF BackIs
<1>15. Free(t)'
  <2> SUFFICES ASSUME NEW d \in Node, ~Stands(t, d) PROVE nodeNext'[d] = Null /\ nodePrev'[d] = Null
    BY DEF Free
  <2>1. CASE d = e
    BY <2>1 DEF Unlinks
  <2>2. CASE d # e
    <3>1. ~Stands(s, d)
      <4>1. \A z \in Node : Single(s, z)
        BY <1>1 DEF Single, n
      <4> QED BY <1>1, <2>2, <4>1, Erased DEF t
    <3>2. d # nodeNext[e] /\ d # nodePrev[e]
      BY <1>5, <3>1, NodeAssumption DEF Stands, n
    <3> QED BY <2>2, <3>1, <3>2 DEF Unlinks, Listed, Free
  <2> QED BY <2>1, <2>2
<1> QED BY <1>8, <1>11, <1>13, <1>14, <1>15 DEF Listed, t

(* Erasing takes a node out, and changes nothing when it is not in.        *)
LEMMA EraseFacts ==
  ASSUME LinkTypes, NEW s, Listed(s), NEW e \in Node, erase(e)
  PROVE  LinkTypes' /\ Listed(RemoveFirst(s, e))'
<1>1. /\ nodePrev' \in [Node -> Node \union {Null}] /\ nodeNext' \in [Node -> Node \union {Null}]
      /\ \A d \in Node : nodePrev'[d] = IF d = e THEN Null
                                        ELSE IF d = nodeNext[e] THEN nodePrev[e] ELSE nodePrev[d]
      /\ \A d \in Node : nodeNext'[d] = IF d = e THEN Null
                                        ELSE IF d = nodePrev[e] THEN nodeNext[e] ELSE nodeNext[d]
  BY NodeAssumption DEF LinkTypes, erase, Set
<1>2. /\ header' = IF header = e THEN nodeNext[e] ELSE header
      /\ tailer' = IF tailer = e THEN nodePrev[e] ELSE tailer
  BY DEF erase
<1>3. CASE Stands(s, e)
  BY <1>1, <1>2, <1>3, UnlinkFacts DEF Unlinks
<1>4. CASE ~Stands(s, e)
  <2>1. nodeNext[e] = Null /\ nodePrev[e] = Null
    BY <1>4 DEF Listed, Free
  <2>2. nodePrev' = nodePrev /\ nodeNext' = nodeNext
    BY <1>1, <2>1, NodeAssumption DEF LinkTypes
  <2>3. header # e /\ tailer # e
    <3>1. s # <<>> => 1 \in 1..Len(s) /\ Len(s) \in 1..Len(s)
      BY Members DEF Listed
    <3> QED BY <1>4, <3>1, NodeAssumption DEF Listed, NextIs, BackIs, Stands
  <2>4. RemoveFirst(s, e) = s
    BY <1>4 DEF RemoveFirst, Stands
  <2> QED BY <1>2, <2>2, <2>3, <2>4 DEF LinkTypes, Listed, NextIs, BackIs, Free
<1> QED BY <1>3, <1>4

(* try_pop() takes out the first.                                          *)
LEMMA PopFacts ==
  ASSUME LinkTypes, NEW s, Listed(s), s # <<>>, pop
  PROVE  LinkTypes' /\ Listed(Tail(s))' /\ popped' = Head(s)
<1>1. /\ s \in Seq(Node) /\ Len(s) \in Nat \ {0} /\ 1 \in 1..Len(s) /\ s[1] \in Node /\ s[1] # Null
      /\ \A i, j \in 1..Len(s) : s[i] = s[j] <=> i = j
      /\ header = s[1] /\ nodePrev[s[1]] = Null /\ Head(s) = s[1]
  BY Members, FirstAndRest DEF Listed, NextIs, BackIs
<1> DEFINE e == s[1]
<1>2. /\ popped' = header
      /\ header' = nodeNext[header]
      /\ tailer' = IF tailer = header THEN Null ELSE tailer
      /\ nodePrev' = [Set(nodePrev, nodeNext[header], Null) EXCEPT ![header] = Null]
      /\ nodeNext' = [nodeNext EXCEPT ![header] = Null]
  BY <1>1 DEF pop
<1>3. e \in Node /\ header = e /\ nodePrev[e] = Null /\ e # Null
  BY <1>1
<1> HIDE DEF e
<1>4. Unlinks(e)
  <2>1. /\ nodePrev' \in [Node -> Node \union {Null}]
        /\ \A d \in Node : nodePrev'[d] = IF d = e THEN Null
                                          ELSE IF d = nodeNext[e] THEN nodePrev[e] ELSE nodePrev[d]
    BY <1>2, <1>3, NodeAssumption DEF LinkTypes, Set
  <2>2. /\ nodeNext' \in [Node -> Node \union {Null}]
        /\ \A d \in Node : nodeNext'[d] = IF d = e THEN Null
                                          ELSE IF d = nodePrev[e] THEN nodeNext[e] ELSE nodeNext[d]
    BY <1>2, <1>3, NodeAssumption DEF LinkTypes
  <2> QED BY <1>2, <1>3, <2>1, <2>2 DEF Unlinks
<1>5. RemoveFirst(s, e) = Tail(s)
  <2>1. /\ RemoveFirst(s, e) \in Seq(Node) /\ Len(RemoveFirst(s, e)) = Len(s) - 1
        /\ \A i \in 1..(Len(s) - 1) : RemoveFirst(s, e)[i] = IF i < 1 THEN s[i] ELSE s[i + 1]
    <3>1. Single(s, e)
      BY <1>1 DEF Single
    <3> QED BY <1>1, <3>1, ErasedAt DEF e
  <2>2. /\ Tail(s) \in Seq(Node) /\ Len(Tail(s)) = Len(s) - 1
        /\ \A i \in 1..(Len(s) - 1) : Tail(s)[i] = s[i + 1]
    BY <1>1, FirstAndRest
  <2>3. \A i \in 1..(Len(s) - 1) : RemoveFirst(s, e)[i] = Tail(s)[i]
    BY <1>1, <2>1, <2>2
  <2> QED BY <2>1, <2>2, <2>3, SeqEqual
<1>6. Stands(s, e)
  BY <1>1 DEF Stands, e
<1>7. LinkTypes' /\ Listed(RemoveFirst(s, e))'
  BY <1>3, <1>4, <1>6, UnlinkFacts
<1> QED BY <1>1, <1>2, <1>5, <1>7

(* What a step of the list does to the sequence that it holds.             *)
DequeStep(s, t) ==
  \/ s # <<>> /\ popped' = Head(s) /\ t = Tail(s)
  \/ s = <<>> /\ popped' = Null /\ t = s
  \/ /\ popped' = popped
     /\ \E e \in Node : \/ ~Stands(s, e) /\ t \in {Append(s, e), <<e>> \o s}
                        \/ t = RemoveFirst(s, e)

LEMMA LinkStep ==
  ASSUME LinkTypes, NEW s, Listed(s), LinkNext
  PROVE  LinkTypes' /\ \E t : Listed(t)' /\ DequeStep(s, t)
<1>1. CASE pop /\ s # <<>>
  BY <1>1, PopFacts DEF DequeStep
<1>2. CASE pop /\ s = <<>>
  <2>1. header = Null
    BY <1>2 DEF Listed, NextIs
  <2>2. popped' = Null /\ UNCHANGED <<nodeNext, nodePrev, header, tailer>>
    BY <1>2, <2>1 DEF pop
  <2>3. LinkTypes' /\ Listed(s)'
    BY <2>2 DEF LinkTypes, Listed, NextIs, BackIs, Free
  <2> QED BY <1>2, <2>2, <2>3 DEF DequeStep
<1>3. ASSUME NEW e \in Node, ~Contains(Items, e), push_back(e)
      PROVE  LinkTypes' /\ \E t : Listed(t)' /\ DequeStep(s, t)
  <2>1. ~Stands(s, e)
    BY <1>3, ItemsAre DEF Contains, Stands
  <2>2. LinkTypes' /\ Listed(Append(s, e))'
    BY <1>3, <2>1, PushBackFacts
  <2>3. popped' = popped
    BY <1>3 DEF push_back
  <2> QED BY <2>1, <2>2, <2>3 DEF DequeStep
<1>4. ASSUME NEW e \in Node, ~Contains(Items, e), push_front(e)
      PROVE  LinkTypes' /\ \E t : Listed(t)' /\ DequeStep(s, t)
  <2>1. ~Stands(s, e)
    BY <1>4, ItemsAre DEF Contains, Stands
  <2>2. LinkTypes' /\ Listed(<<e>> \o s)'
    BY <1>4, <2>1, PushFrontFacts
  <2>3. popped' = popped
    BY <1>4 DEF push_front
  <2> QED BY <2>1, <2>2, <2>3 DEF DequeStep
<1>5. ASSUME NEW e \in Node, erase(e)
      PROVE  LinkTypes' /\ \E t : Listed(t)' /\ DequeStep(s, t)
  <2>1. LinkTypes' /\ Listed(RemoveFirst(s, e))'
    BY <1>5, EraseFacts
  <2>2. popped' = popped
    BY <1>5 DEF erase
  <2> QED BY <2>1, <2>2 DEF DequeStep
<1> QED BY <1>1, <1>2, <1>3, <1>4, <1>5 DEF LinkNext

LinkInv == LinkTypes /\ \E s : Listed(s)

LEMMA LinkInvariance == LinkSpec => []LinkInv
<1>1. LinkInit => LinkInv
  <2> SUFFICES ASSUME LinkInit PROVE LinkInv
    OBVIOUS
  <2>1. LinkTypes
    BY DEF LinkInit, LinkTypes
  <2>2. Listed(<<>>)
    BY DEF LinkInit, Listed, Once, NextIs, BackIs, Free
  <2> QED BY <2>1, <2>2 DEF LinkInv
<1>2. LinkInv /\ [LinkNext]_linkVars => LinkInv'
  <2> SUFFICES ASSUME LinkInv, [LinkNext]_linkVars PROVE LinkInv'
    OBVIOUS
  <2>1. CASE LinkNext
    BY <2>1, LinkStep DEF LinkInv
  <2>2. CASE UNCHANGED linkVars
    BY <2>2 DEF LinkInv, linkVars, LinkTypes, Listed, NextIs, BackIs, Free
  <2> QED BY <2>1, <2>2
<1> QED BY <1>1, <1>2, PTL DEF LinkSpec

backItems == Reverse(Walk(tailer, nodePrev))

(* The operators on sequences are those that Deque has.                    *)
LEMMA SameOperators ==
  ASSUME NEW s, NEW e
  PROVE  /\ Forwards!Contains(s, e) = Contains(s, e) /\ Backwards!Contains(s, e) = Contains(s, e)
         /\ Forwards!RemoveFirst(s, e) = RemoveFirst(s, e) /\ Backwards!RemoveFirst(s, e) = RemoveFirst(s, e)
<1>1. Forwards!Contains(s, e) = Contains(s, e)
  BY DEF Forwards!Contains, Contains
<1>2. Backwards!Contains(s, e) = Contains(s, e)
  BY DEF Backwards!Contains, Contains
<1>3. Forwards!RemoveFirst(s, e) = RemoveFirst(s, e)
  BY DEF Forwards!RemoveFirst, Forwards!RemoveAt, Forwards!SelectInSeq, Forwards!Min,
         RemoveFirst, RemoveAt, SelectInSeq, Min
<1>4. Backwards!RemoveFirst(s, e) = RemoveFirst(s, e)
  BY DEF Backwards!RemoveFirst, Backwards!RemoveAt, Backwards!SelectInSeq, Backwards!Min,
         RemoveFirst, RemoveAt, SelectInSeq, Min
<1> QED BY <1>1, <1>2, <1>3, <1>4

LEMMA LinkStepRefines ==
  ASSUME LinkInv, [LinkNext]_linkVars
  PROVE  [Forwards!Next]_<<Items, popped>> /\ [Backwards!Next]_<<backItems, popped>>
<1>1. PICK s : Listed(s)
  BY DEF LinkInv
<1>2. Items = s /\ backItems = s
  BY <1>1, ItemsAre DEF backItems
<1>3. CASE LinkNext
  <2>1. PICK t : Listed(t)' /\ DequeStep(s, t)
    BY <1>1, <1>3, LinkStep DEF LinkInv
  <2>2. Items' = t /\ backItems' = t
    BY <2>1, ItemsWillBe DEF backItems
  <2>3. CASE s # <<>> /\ popped' = Head(s) /\ t = Tail(s)
    BY <1>2, <2>2, <2>3 DEF Forwards!Next, Forwards!Pop, Backwards!Next, Backwards!Pop, backItems
  <2>4. CASE s = <<>> /\ popped' = Null /\ t = s
    BY <1>2, <2>2, <2>4 DEF Forwards!Next, Forwards!Pop, Backwards!Next, Backwards!Pop, backItems
  <2>5. ASSUME NEW e \in Node, popped' = popped, ~Stands(s, e), t \in {Append(s, e), <<e>> \o s}
        PROVE  Forwards!Put(e) /\ Backwards!Put(e)
    <3>1. ~Contains(s, e)
      BY <2>5 DEF Stands, Contains
    <3>2. ~Contains(Items, e) /\ Items' \in {Append(Items, e), <<e>> \o Items}
      BY <1>2, <2>2, <2>5, <3>1
    <3>3. ~Contains(backItems, e) /\ backItems' \in {Append(backItems, e), <<e>> \o backItems}
      BY <1>2, <2>2, <2>5, <3>1
    <3> QED BY <2>5, <3>2, <3>3, SameOperators DEF Forwards!Put, Backwards!Put, backItems
  <2>6. ASSUME NEW e \in Node, popped' = popped, t = RemoveFirst(s, e)
        PROVE  Forwards!Erase(e) /\ Backwards!Erase(e)
    <3>1. Items' = RemoveFirst(Items, e) /\ backItems' = RemoveFirst(backItems, e)
      BY <1>2, <2>2, <2>6
    <3> QED BY <2>6, <3>1, SameOperators DEF Forwards!Erase, Backwards!Erase, backItems
  <2> QED BY <2>1, <2>3, <2>4, <2>5, <2>6 DEF DequeStep, Forwards!Next, Backwards!Next
<1>4. CASE UNCHANGED linkVars
  <2>1. Listed(s)'
    BY <1>1, <1>4 DEF linkVars, Listed, NextIs, BackIs, Free
  <2>2. Items' = s /\ backItems' = s /\ popped' = popped
    BY <1>4, <2>1, ItemsWillBe DEF backItems, linkVars
  <2> QED BY <1>2, <2>2
<1> QED BY <1>3, <1>4

(* The list of waiters is a queue with two ends, whichever way its links   *)
(* are followed and for any number of nodes: none is lost, none comes      *)
(* twice, the order stays, and erasing a node that a signal has popped     *)
(* already does no harm (intrusive_link_queue).                            *)
THEOREM LinkRefinement == LinkSpec => ImplementsDeque
<1>1. LinkInit => Forwards!Init /\ Backwards!Init
  <2> SUFFICES ASSUME LinkInit PROVE Forwards!Init /\ Backwards!Init
    OBVIOUS
  <2>1. Listed(<<>>)
    BY DEF LinkInit, Listed, Once, NextIs, BackIs, Free
  <2>2. Items = <<>> /\ backItems = <<>> /\ popped = Null
    BY <2>1, ItemsAre DEF backItems, LinkInit
  <2> QED BY <2>2 DEF Forwards!Init, Backwards!Init, backItems
<1>2. LinkInv /\ [LinkNext]_linkVars
        => /\ [Forwards!Next]_<<Items, popped>>
           /\ [Backwards!Next]_<<Reverse(Walk(tailer, nodePrev)), popped>>
  BY LinkStepRefines DEF backItems
<1> QED BY <1>1, <1>2, LinkInvariance, PTL DEF ImplementsDeque, LinkSpec, Forwards!Spec, Backwards!Spec
=============================================================================
