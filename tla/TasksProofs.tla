------------------------------ MODULE TasksProofs ------------------------------
(***************************************************************************)
(* Proofs about Tasks.tla and the modules it composes (those about timers  *)
(* are in TimerProofs.tla): mutexes that are locked together, the children *)
(* of a when_all or a when_any, the stop state, the generators, each with  *)
(* the invariant of its own steps; and that the programs of Tasks keep     *)
(* what was proved of each part.                                           *)
(***************************************************************************)
EXTENDS Tasks, TimerProofs

(* A mutex that a locker has, by where it is: what it got so far; all; or  *)
(* what it has still to unlock.                                            *)
Has(w, m) ==
  \/ /\ rangeAt[w] = "trying"
     /\ \E i \in 1..Len(order[w]) : (i < next[w] \/ i = hard[w]) /\ order[w][i] = m
  \/ rangeAt[w] = "held" /\ Stands(order[w], m)
  \/ rangeAt[w] \in {"backing", "leaving"} /\ Stands(back[w], m)

(* The indices of a locker are inside its range. *)
IndexOK(w) ==
  /\ rangeAt[w] \in {"hard", "asleep", "trying", "backing"} => hard[w] \in 1..Len(order[w])
  /\ rangeAt[w] = "trying" => next[w] \in 1..(Len(order[w]) + 1) /\ next[w] # hard[w]
  /\ rangeAt[w] = "asleep" => next[w] = From(w, 1)

(* It unlocks no mutex twice. *)
BackOK(w) ==
  /\ back[w] # <<>> => rangeAt[w] \in {"backing", "leaving"}
  /\ \A m \in Mtx : Single(back[w], m)

(* It queues for the hard one of its mutexes, once. *)
SeatOK(w) ==
  \A m \in Mtx :
    /\ Stands(waitq[m], w) <=> rangeAt[w] = "asleep" /\ order[w][hard[w]] = m
    /\ Single(waitq[m], w)

ShareOK(w) == \A m \in Mtx : holder[m] = w <=> Has(w, m)

LockerOK(w) == IndexOK(w) /\ BackOK(w) /\ SeatOK(w) /\ ShareOK(w)

RangeInv == RangeTypeOK /\ \A w \in Locker : LockerOK(w)
-----------------------------------------------------------------------------
(* A locker's mutexes are numbers up to M, each named once. *)
LEMMA Named ==
  ASSUME RangeTypeOK, NEW w \in Locker
  PROVE  /\ order[w] \in Seq(Mtx) /\ Len(order[w]) \in 0..M
         /\ \A i \in 1..Len(order[w]) : order[w][i] \in Mtx
         /\ \A i, j \in 1..Len(order[w]) : order[w][i] = order[w][j] => i = j
<1> DEFINE o == order[w]
           n == Len(o)
<1>1. o \in Seq(Mtx) /\ IsInjective(o)
  BY OrdersAssumption DEF RangeTypeOK
<1> HIDE DEF o
<1>2. n \in Nat /\ DOMAIN o = 1..n /\ \A i \in 1..n : o[i] \in Mtx
  BY <1>1, ElementOfSeq, LenProperties
<1>3. \A i, j \in 1..n : o[i] = o[j] => i = j
  BY <1>1, <1>2 DEF IsInjective
<1>4. n <= M
  <2>1. o \in [1..n -> Mtx]
    BY <1>1, <1>2
  <2>2. o \in Injection(1..n, Mtx)
    BY <1>3, <2>1 DEF Injection, IsInjective
  <2>3. M \in Nat /\ IsFiniteSet(Mtx) /\ Cardinality(Mtx) = M
    BY MtxAssumption, FS_Interval DEF Mtx
  <2>4. Cardinality(1..n) = n
    BY SMTT(30), <1>2, FS_Interval
  <2> QED BY <2>2, <2>3, <2>4, FS_Injection
<1> QED BY <1>1, <1>2, <1>3, <1>4, MtxAssumption DEF o

(* The part of a sequence from a to b. *)
LEMMA Slice ==
  ASSUME NEW E, NEW s \in Seq(E), NEW a \in 1..(Len(s) + 1), NEW b \in (a - 1)..Len(s)
  PROVE  /\ SubSeq(s, a, b) \in Seq(E)
         /\ \A x : Stands(SubSeq(s, a, b), x) <=> \E k \in a..b : s[k] = x
         /\ (\A k, l \in 1..Len(s) : s[k] = s[l] => k = l) => \A x : Single(SubSeq(s, a, b), x)
<1>1. Len(s) \in Nat /\ \A k \in a..b : s[k] \in E
  BY ElementOfSeq, LenProperties
<1> DEFINE q == SubSeq(s, a, b)
           n == b - a + 1
<1>2. q \in Seq(E) /\ Len(q) = n /\ \A i \in 1..n : q[i] = s[a + i - 1]
  <2>1. q \in Seq(E) /\ Len(q) = (IF a <= b THEN b - a + 1 ELSE 0)
        /\ \A i \in 1..b - a + 1 : q[i] = s[a + i - 1]
    BY <1>1, SubSeqProperties
  <2> HIDE DEF q
  <2> QED BY <1>1, <2>1
<1> HIDE DEF q
<1>3. \A i \in 1..n : a + i - 1 \in a..b /\ a + i - 1 \in 1..Len(s)
  BY <1>1
<1>4. \A k \in a..b : k - a + 1 \in 1..n /\ a + (k - a + 1) - 1 = k
  BY <1>1
<1>5. ASSUME NEW x PROVE Stands(q, x) <=> \E k \in a..b : s[k] = x
  <2>1. ASSUME NEW i \in 1..n, q[i] = x PROVE \E k \in a..b : s[k] = x
    BY <1>2, <1>3, <2>1
  <2>2. ASSUME NEW k \in a..b, s[k] = x PROVE Stands(q, x)
    <3>1. k - a + 1 \in 1..n /\ q[k - a + 1] = x
      BY <1>2, <1>4, <2>2
    <3> QED BY <1>2, <3>1 DEF Stands
  <2> QED BY <1>2, <2>1, <2>2 DEF Stands
<1>6. ASSUME \A k, l \in 1..Len(s) : s[k] = s[l] => k = l, NEW x PROVE Single(q, x)
  <2> SUFFICES ASSUME NEW i \in 1..n, NEW j \in 1..n, q[i] = x, q[j] = x PROVE i = j
    BY <1>2 DEF Single
  <2> DEFINE k == a + i - 1
             l == a + j - 1
  <2>1. k \in 1..Len(s) /\ l \in 1..Len(s) /\ s[k] = x /\ s[l] = x
    BY <1>2, <1>3
  <2>2. k = l => i = j
    BY <1>1
  <2> HIDE DEF k, l
  <2> QED BY <1>6, <2>1, <2>2
<1> QED BY <1>2, <1>5, <1>6 DEF q

(* What is unlocked after a failed try is what was got. *)
LEMMA BackoutFacts ==
  ASSUME NEW o \in Seq(Mtx), NEW h \in 1..Len(o), NEW i \in 1..Len(o), i # h,
         \A k, l \in 1..Len(o) : o[k] = o[l] => k = l
  PROVE  /\ Backout(o, h, i) \in Seq(Mtx)
         /\ \A m \in Mtx : /\ Stands(Backout(o, h, i), m) <=>
                                \E k \in 1..Len(o) : (k < i \/ k = h) /\ o[k] = m
                           /\ Single(Backout(o, h, i), m)
<1>0. Len(o) \in Nat /\ \A k \in 1..Len(o) : o[k] \in Mtx
  BY ElementOfSeq, LenProperties
<1>1. CASE i < h
  <2> DEFINE u == SubSeq(o, 1, i - 1)
             v == <<o[h]>>
  <2>1. 1 \in 1..(Len(o) + 1) /\ i - 1 \in (1 - 1)..Len(o)
    BY <1>0
  <2>2. /\ u \in Seq(Mtx)
        /\ \A x : Stands(u, x) <=> \E k \in 1..(i - 1) : o[k] = x
        /\ \A x : Single(u, x)
    BY <2>1, Slice
  <2>3. v \in Seq(Mtx) /\ \A x \in Mtx : (Stands(v, x) <=> x = o[h]) /\ Single(v, x)
    <3>1. v \in Seq(Mtx) /\ Len(v) = 1 /\ v[1] = o[h]
      BY <1>0
    <3> HIDE DEF v
    <3> QED BY <3>1 DEF Stands, Single
  <2> HIDE DEF u, v
  <2>4. \A x \in Mtx : ~(Stands(u, x) /\ Stands(v, x))
    BY <1>0, <1>1, <2>2, <2>3
  <2>5. /\ u \o v \in Seq(Mtx)
        /\ \A x \in Mtx : Single(u \o v, x) /\ (Stands(u \o v, x) <=> Stands(u, x) \/ Stands(v, x))
    BY <2>2, <2>3, <2>4, Joined
  <2>6. Backout(o, h, i) = u \o v
    BY <1>1 DEF Backout, u, v
  <2>7. \A k \in 1..Len(o) : k < i <=> k \in 1..(i - 1)
    BY <1>0
  <2>8. 1..(i - 1) \subseteq 1..Len(o)
    BY <1>0
  <2> QED BY <2>2, <2>3, <2>5, <2>6, <2>7, <2>8
<1>2. CASE ~(i < h)
  <2> DEFINE u == SubSeq(o, h + 1, i - 1)
             v == SubSeq(o, 1, h)
  <2>1. /\ h + 1 \in 1..(Len(o) + 1) /\ i - 1 \in ((h + 1) - 1)..Len(o)
        /\ 1 \in 1..(Len(o) + 1) /\ h \in (1 - 1)..Len(o)
    BY <1>0, <1>2
  <2>2. /\ u \in Seq(Mtx)
        /\ \A x : Stands(u, x) <=> \E k \in (h + 1)..(i - 1) : o[k] = x
        /\ \A x : Single(u, x)
    BY <2>1, Slice
  <2>3. /\ v \in Seq(Mtx)
        /\ \A x : Stands(v, x) <=> \E k \in 1..h : o[k] = x
        /\ \A x : Single(v, x)
    BY <2>1, Slice
  <2> HIDE DEF u, v
  <2>4. (h + 1)..(i - 1) \subseteq 1..Len(o) /\ 1..h \subseteq 1..Len(o)
        /\ \A k \in (h + 1)..(i - 1) : \A l \in 1..h : k # l
    BY <1>0, <1>2
  <2>5. \A x \in Mtx : ~(Stands(u, x) /\ Stands(v, x))
    BY <2>2, <2>3, <2>4
  <2>6. /\ u \o v \in Seq(Mtx)
        /\ \A x \in Mtx : Single(u \o v, x) /\ (Stands(u \o v, x) <=> Stands(u, x) \/ Stands(v, x))
    BY <2>2, <2>3, <2>5, Joined
  <2>7. Backout(o, h, i) = u \o v
    BY <1>2 DEF Backout, u, v
  <2>8. \A k \in 1..Len(o) : (k < i \/ k = h) <=> (k \in (h + 1)..(i - 1) \/ k \in 1..h)
    BY <1>0, <1>2
  <2> QED BY <2>2, <2>3, <2>4, <2>6, <2>7, <2>8
<1> QED BY <1>1, <1>2
-----------------------------------------------------------------------------
(* Only w moves. *)
Alone(w) ==
  /\ order' = order
  /\ \A u \in Locker \ {w} : /\ rangeAt'[u] = rangeAt[u] /\ hard'[u] = hard[u]
                             /\ next'[u] = next[u] /\ back'[u] = back[u]

(* Who does not move, keeps its place in the queues and its mutexes, stays *)
(* right.                                                                  *)
LEMMA Bystander ==
  ASSUME NEW u \in Locker, LockerOK(u), order' = order, rangeAt'[u] = rangeAt[u],
         hard'[u] = hard[u], next'[u] = next[u], back'[u] = back[u],
         \A m \in Mtx : /\ Stands(waitq'[m], u) <=> Stands(waitq[m], u)
                        /\ Single(waitq'[m], u)
                        /\ holder'[m] = u <=> holder[m] = u
  PROVE  LockerOK(u)'
<1>1. IndexOK(u)' /\ BackOK(u)' /\ SeatOK(u)'
  BY DEF LockerOK, IndexOK, BackOK, SeatOK, From
<1>2. \A m \in Mtx : Has(u, m)' <=> Has(u, m)
  BY DEF Has
<1>3. ShareOK(u)'
  BY <1>2 DEF LockerOK, ShareOK
<1> QED BY <1>1, <1>3 DEF LockerOK

(* A step of w that leaves the queues, and the mutexes of the others. *)
LEMMA AloneFacts ==
  ASSUME RangeInv, RangeTypeOK', NEW w \in Locker, Alone(w), LockerOK(w)', waitq' = waitq,
         \A m \in Mtx : \A u \in Locker \ {w} : holder'[m] = u <=> holder[m] = u
  PROVE  RangeInv'
<1>1. ASSUME NEW u \in Locker \ {w} PROVE LockerOK(u)'
  <2>1. LockerOK(u) /\ \A m \in Mtx : Single(waitq[m], u)
    BY DEF RangeInv, LockerOK, SeatOK
  <2> QED BY <2>1, Bystander DEF Alone
<1> QED BY <1>1 DEF RangeInv
-----------------------------------------------------------------------------
(* What the invariant says of one locker. *)
LEMMA LockerFacts ==
  ASSUME RangeInv, NEW w \in Locker
  PROVE  /\ LockerOK(w) /\ w # NoLocker
         /\ order[w] \in Seq(Mtx) /\ Len(order[w]) \in 0..M
         /\ \A i \in 1..Len(order[w]) : order[w][i] \in Mtx
         /\ \A i, j \in 1..Len(order[w]) : order[w][i] = order[w][j] => i = j
         /\ holder \in [Mtx -> Locker \union {NoLocker}] /\ waitq \in [Mtx -> Seq(Locker)]
         /\ rangeAt \in [Locker -> Where] /\ hard \in [Locker -> Mtx]
         /\ next \in [Locker -> 1..(M + 2)] /\ back \in [Locker -> Seq(Mtx)]
         /\ M \in Nat \ {0} /\ order[w] \in Orders[w]
  BY Named, MtxAssumption DEF RangeInv, RangeTypeOK

LEMMA LockStep1 ==
  ASSUME RangeInv, NEW w \in Locker, RangeLock(w)
  PROVE  RangeInv'
<1>1. LockerOK(w) /\ RangeTypeOK /\ order[w] \in Seq(Mtx) /\ Len(order[w]) \in 0..M /\ M \in Nat \ {0}
  BY LockerFacts DEF RangeInv
<1>2. RangeTypeOK'
  <2>1. 1 \in Mtx
    BY <1>1 DEF Mtx
  <2>2. \/ rangeAt' = [rangeAt EXCEPT ![w] = "held"]
        \/ rangeAt' = [rangeAt EXCEPT ![w] = "hard"]
    BY DEF RangeLock
  <2>3. /\ hard' = [hard EXCEPT ![w] = 1] /\ order' = order /\ holder' = holder /\ waitq' = waitq
        /\ next' = next /\ back' = back
    BY DEF RangeLock
  <2> QED BY <1>1, <2>1, <2>2, <2>3 DEF RangeTypeOK, Where
<1>3. /\ Alone(w) /\ waitq' = waitq /\ holder' = holder /\ next' = next /\ back' = back
      /\ rangeAt[w] = "idle" /\ hard'[w] = 1 /\ order' = order
      /\ rangeAt'[w] = IF order[w] = <<>> THEN "held" ELSE "hard"
  BY <1>1 DEF RangeTypeOK, RangeLock, Alone
<1>4. order[w] # <<>> => 1 \in 1..Len(order[w])
  BY <1>1, EmptySeq
<1>5. IndexOK(w)'
  BY <1>3, <1>4 DEF IndexOK
<1>6. BackOK(w)' /\ SeatOK(w)'
  BY <1>1, <1>3 DEF LockerOK, BackOK, SeatOK
<1>7. \A m \in Mtx : ~Has(w, m) /\ ~Has(w, m)'
  <2>1. order[w] = <<>> => \A m \in Mtx : ~Stands(order[w], m)
    BY DEF Stands
  <2> QED BY <1>3, <2>1 DEF Has
<1>8. ShareOK(w)'
  BY <1>1, <1>3, <1>7 DEF LockerOK, ShareOK
<1> QED BY <1>2, <1>3, <1>5, <1>6, <1>8, AloneFacts DEF LockerOK

LEMMA LockStep2 ==
  ASSUME RangeInv, NEW w \in Locker, LockHard(w)
  PROVE  RangeInv'
<1> DEFINE h == hard[w]
           m == order[w][h]
<1>1. /\ LockerOK(w) /\ RangeTypeOK /\ order[w] \in Seq(Mtx) /\ Len(order[w]) \in 0..M /\ M \in Nat \ {0}
      /\ \A i \in 1..Len(order[w]) : order[w][i] \in Mtx
      /\ \A i, j \in 1..Len(order[w]) : order[w][i] = order[w][j] => i = j
      /\ w # NoLocker
  BY LockerFacts DEF RangeInv
<1>2. rangeAt[w] = "hard" /\ h \in 1..Len(order[w]) /\ m \in Mtx /\ back[w] = <<>>
  <2>1. rangeAt[w] = "hard" /\ h \in 1..Len(order[w]) /\ back[w] = <<>>
    BY <1>1 DEF LockHard, LockerOK, IndexOK, BackOK
  <2> QED BY <1>1, <2>1
<1> DEFINE f == From(w, 1)
<1>3. f = (IF h = 1 THEN 2 ELSE 1) /\ f \in 1..(Len(order[w]) + 1) /\ f \in 1..(M + 2) /\ f # h
  BY SMTT(30), <1>1, <1>2 DEF From
<1>4. \A i \in 1..Len(order[w]) : (i < f \/ i = h) <=> i = h
  BY <1>1, <1>2, <1>3
<1>5. /\ order' = order /\ hard' = hard /\ back' = back /\ next' = [next EXCEPT ![w] = f]
  BY DEF LockHard
<1>6. \A x \in Mtx : ~Has(w, x) /\ holder[x] # w /\ ~Stands(waitq[x], w)
  <2>1. \A x \in Mtx : ~Has(w, x) /\ ~Stands(waitq[x], w)
    BY <1>1, <1>2 DEF Has, LockerOK, SeatOK
  <2> QED BY <1>1, <2>1 DEF LockerOK, ShareOK
<1>7. BackOK(w)'
  BY <1>1, <1>2, <1>5 DEF LockerOK, BackOK
<1> HIDE DEF f, m, h
<1>8. CASE /\ holder[m] = NoLocker /\ waitq' = waitq
           /\ holder' = [holder EXCEPT ![m] = w] /\ rangeAt' = [rangeAt EXCEPT ![w] = "trying"]
  <2>1. RangeTypeOK'
    BY <1>1, <1>2, <1>3, <1>5, <1>8 DEF RangeTypeOK, Where
  <2>2. rangeAt'[w] = "trying" /\ next'[w] = f /\ hard'[w] = h /\ Alone(w)
    BY <1>1, <1>5, <1>8 DEF RangeTypeOK, Alone, h
  <2>3. IndexOK(w)'
    BY <1>2, <1>3, <1>5, <2>2 DEF IndexOK
  <2>4. SeatOK(w)'
    BY <1>1, <1>2, <1>8, <2>2 DEF LockerOK, SeatOK
  <2>5. \A x \in Mtx : holder'[x] = IF x = m THEN w ELSE holder[x]
    BY <1>1, <1>8 DEF RangeTypeOK
  <2>6. \A x \in Mtx : Has(w, x)' <=> x = m
    BY <1>2, <1>4, <1>5, <2>2 DEF Has, m
  <2>7. ShareOK(w)'
    BY <1>6, <2>5, <2>6 DEF ShareOK
  <2>8. \A x \in Mtx : \A u \in Locker \ {w} : holder'[x] = u <=> holder[x] = u
    BY <1>8, <2>5, MtxAssumption
  <2> QED BY <1>7, <1>8, <2>1, <2>2, <2>3, <2>4, <2>7, <2>8, AloneFacts DEF LockerOK
<1>9. CASE /\ waitq' = [waitq EXCEPT ![m] = Append(@, w)] /\ holder' = holder
           /\ rangeAt' = [rangeAt EXCEPT ![w] = "asleep"]
  <2>0. waitq \in [Mtx -> Seq(Locker)] /\ waitq[m] \in Seq(Locker)
    BY <1>1, <1>2 DEF RangeTypeOK
  <2>1. RangeTypeOK'
    BY <1>1, <1>2, <1>3, <1>5, <1>9, <2>0, AppendProperties DEF RangeTypeOK, Where
  <2>2. rangeAt'[w] = "asleep" /\ next'[w] = f /\ hard'[w] = h /\ Alone(w)
    BY <1>1, <1>5, <1>9 DEF RangeTypeOK, Alone, h
  <2>3. IndexOK(w)'
    BY <1>2, <1>3, <1>5, <2>2 DEF IndexOK, From, f, h
  <2>4. ASSUME NEW x \in Mtx, NEW u \in Locker
        PROVE  /\ Stands(waitq'[x], u) <=> Stands(waitq[x], u) \/ (u = w /\ x = m)
               /\ Single(waitq'[x], u)
    <3>1. Single(waitq[x], u) /\ ~Stands(waitq[x], w)
      BY <1>6 DEF RangeInv, LockerOK, SeatOK
    <3>2. CASE x = m
      <4>1. waitq'[x] = Append(waitq[x], w) /\ waitq[x] \in Seq(Locker)
        BY <1>9, <2>0, <3>2
      <4> QED BY <3>1, <3>2, <4>1, AtTheEnd
    <3>3. CASE x # m
      <4>1. waitq'[x] = waitq[x]
        BY <1>9, <2>0, <3>3
      <4> QED BY <3>1, <3>3, <4>1
    <3> QED BY <3>2, <3>3
  <2>5. SeatOK(w)'
    BY <1>2, <1>5, <1>6, <2>2, <2>4 DEF SeatOK, m
  <2>6. \A x \in Mtx : ~Has(w, x)'
    BY <2>2 DEF Has
  <2>7. ShareOK(w)'
    BY <1>6, <1>9, <2>6 DEF ShareOK
  <2>8. ASSUME NEW u \in Locker \ {w} PROVE LockerOK(u)'
    <3>1. /\ LockerOK(u) /\ u # w
          /\ \A x \in Mtx : /\ Stands(waitq'[x], u) <=> Stands(waitq[x], u)
                            /\ Single(waitq'[x], u)
                            /\ holder'[x] = u <=> holder[x] = u
      BY <1>9, <2>4 DEF RangeInv
    <3> QED BY <2>2, <3>1, Bystander DEF Alone
  <2> QED BY <1>7, <2>1, <2>3, <2>5, <2>7, <2>8 DEF RangeInv, LockerOK
<1> QED BY <1>8, <1>9 DEF LockHard, m, h

LEMMA LockStep3 ==
  ASSUME RangeInv, NEW w \in Locker, TryGet(w)
  PROVE  RangeInv'
<1> DEFINE o == order[w]
           h == hard[w]
           n == next[w]
           m == o[n]
<1>1. /\ LockerOK(w) /\ RangeTypeOK /\ o \in Seq(Mtx) /\ Len(o) \in 0..M /\ M \in Nat \ {0}
      /\ \A i \in 1..Len(o) : o[i] \in Mtx
      /\ \A i, j \in 1..Len(o) : o[i] = o[j] => i = j
      /\ w # NoLocker
  BY LockerFacts DEF RangeInv
<1>2. /\ rangeAt[w] = "trying" /\ h \in 1..Len(o) /\ n \in 1..Len(o) /\ n # h
  BY <1>1 DEF TryGet, Trying, LockerOK, IndexOK
<1> DEFINE f == From(w, n + 1)
<1>3. f = (IF n + 1 = h THEN n + 2 ELSE n + 1) /\ f \in 1..(Len(o) + 1) /\ f \in 1..(M + 2) /\ f # h
  BY SMTT(30), <1>1, <1>2 DEF From
<1>4. \A i \in 1..Len(o) : (i < f \/ i = h) <=> (i < n \/ i = h \/ i = n)
  BY <1>1, <1>2, <1>3
<1>5. /\ order' = order /\ hard' = hard /\ back' = back /\ next' = [next EXCEPT ![w] = f]
      /\ waitq' = waitq /\ rangeAt' = rangeAt /\ holder' = [holder EXCEPT ![m] = w]
      /\ holder[m] = NoLocker
  <2>1. next' = [next EXCEPT ![w] = From(w, @ + 1)]
    BY DEF TryGet
  <2> QED BY <2>1 DEF TryGet
<1>6. m \in Mtx
  BY <1>1, <1>2
<1> HIDE DEF f, o, h, n, m
<1>7. RangeTypeOK'
  BY <1>1, <1>3, <1>5, <1>6 DEF RangeTypeOK
<1>8. rangeAt'[w] = "trying" /\ next'[w] = f /\ hard'[w] = h /\ Alone(w)
  BY <1>1, <1>2, <1>5 DEF RangeTypeOK, Alone, h
<1>9. IndexOK(w)'
  BY <1>2, <1>3, <1>5, <1>8 DEF IndexOK, o
<1>10. BackOK(w)' /\ SeatOK(w)'
  BY <1>1, <1>5 DEF LockerOK, BackOK, SeatOK
<1>11. \A x \in Mtx : holder'[x] = IF x = m THEN w ELSE holder[x]
  BY <1>1, <1>5 DEF RangeTypeOK
<1>12. \A x \in Mtx : Has(w, x) <=> \E i \in 1..Len(o) : (i < n \/ i = h) /\ o[i] = x
  BY <1>2 DEF Has, o, n, h
<1>13. \A x \in Mtx : Has(w, x)' <=> \E i \in 1..Len(o) : (i < f \/ i = h) /\ o[i] = x
  BY <1>5, <1>8 DEF Has, o
<1>14. \A x \in Mtx : Has(w, x)' <=> Has(w, x) \/ x = m
  BY <1>2, <1>4, <1>12, <1>13 DEF m
<1>15. ShareOK(w)'
  BY <1>1, <1>11, <1>14 DEF LockerOK, ShareOK
<1>16. \A x \in Mtx : \A u \in Locker \ {w} : holder'[x] = u <=> holder[x] = u
  BY <1>5, <1>11, MtxAssumption
<1> QED BY <1>5, <1>7, <1>8, <1>9, <1>10, <1>15, <1>16, AloneFacts DEF LockerOK

LEMMA LockStep4 ==
  ASSUME RangeInv, NEW w \in Locker, TryFail(w)
  PROVE  RangeInv'
<1> DEFINE o == order[w]
           h == hard[w]
           n == next[w]
           b == Backout(o, h, n)
<1>1. /\ LockerOK(w) /\ RangeTypeOK /\ o \in Seq(Mtx) /\ Len(o) \in 0..M /\ M \in Nat \ {0}
      /\ \A i, j \in 1..Len(o) : o[i] = o[j] => i = j
  BY LockerFacts DEF RangeInv
<1>2. /\ rangeAt[w] = "trying" /\ h \in 1..Len(o) /\ n \in 1..Len(o) /\ n # h /\ n \in Mtx
  BY <1>1 DEF TryFail, Trying, LockerOK, IndexOK, Mtx
<1>3. /\ b \in Seq(Mtx)
      /\ \A x \in Mtx : /\ Stands(b, x) <=> \E k \in 1..Len(o) : (k < n \/ k = h) /\ o[k] = x
                        /\ Single(b, x)
  <2> HIDE DEF o, h, n
  <2> QED BY <1>1, <1>2, BackoutFacts
<1>4. /\ order' = order /\ holder' = holder /\ waitq' = waitq /\ next' = next
      /\ back' = [back EXCEPT ![w] = b] /\ hard' = [hard EXCEPT ![w] = n]
      /\ rangeAt' = [rangeAt EXCEPT ![w] = "backing"]
  BY DEF TryFail
<1> HIDE DEF o, h, n, b
<1>5. RangeTypeOK'
  BY <1>1, <1>2, <1>3, <1>4 DEF RangeTypeOK, Where
<1>6. rangeAt'[w] = "backing" /\ back'[w] = b /\ hard'[w] = n /\ Alone(w)
  BY <1>1, <1>4 DEF RangeTypeOK, Alone
<1>7. IndexOK(w)' /\ BackOK(w)'
  BY <1>2, <1>3, <1>4, <1>6 DEF IndexOK, BackOK, o
<1>8. SeatOK(w)'
  BY <1>1, <1>2, <1>4, <1>6 DEF LockerOK, SeatOK
<1>9. \A x \in Mtx : Has(w, x)' <=> Has(w, x)
  BY <1>2, <1>3, <1>6 DEF Has, o, h, n
<1>10. ShareOK(w)'
  BY <1>1, <1>4, <1>9 DEF LockerOK, ShareOK
<1> QED BY <1>4, <1>5, <1>6, <1>7, <1>8, <1>10, AloneFacts DEF LockerOK

(* To the end of the range, and from there to unlocking it. *)
LEMMA LockStep5 ==
  ASSUME RangeInv, NEW w \in Locker, GotAll(w) \/ RangeUnlock(w)
  PROVE  RangeInv'
<1> DEFINE o == order[w]
<1>1. /\ LockerOK(w) /\ RangeTypeOK /\ o \in Seq(Mtx) /\ Len(o) \in 0..M /\ M \in Nat \ {0}
      /\ \A i, j \in 1..Len(o) : o[i] = o[j] => i = j
  BY LockerFacts DEF RangeInv
<1>2. order' = order /\ holder' = holder /\ waitq' = waitq /\ hard' = hard /\ next' = next
  BY DEF GotAll, RangeUnlock
<1>3. CASE GotAll(w)
  <2>1. /\ rangeAt[w] = "trying" /\ rangeAt'[w] = "held" /\ back' = back /\ Alone(w) /\ RangeTypeOK'
    BY <1>1, <1>2, <1>3 DEF GotAll, RangeTypeOK, Alone, Where
  <2>2. next[w] \in Nat /\ next[w] > Len(o) /\ \A i \in 1..Len(o) : i < next[w]
    BY <1>1, <1>3 DEF GotAll, RangeTypeOK
  <2>3. \A x \in Mtx : Has(w, x)' <=> Has(w, x)
    BY <1>2, <2>1, <2>2 DEF Has, Stands
  <2>4. ShareOK(w)' /\ IndexOK(w)' /\ BackOK(w)' /\ SeatOK(w)'
    BY <1>1, <1>2, <2>1, <2>3 DEF LockerOK, ShareOK, IndexOK, BackOK, SeatOK
  <2> QED BY <1>2, <2>1, <2>4, AloneFacts DEF LockerOK
<1>4. CASE RangeUnlock(w)
  <2>1. /\ rangeAt[w] = "held" /\ rangeAt'[w] = "leaving" /\ back'[w] = o /\ Alone(w) /\ RangeTypeOK'
    BY <1>1, <1>2, <1>4 DEF RangeUnlock, RangeTypeOK, Alone, Where
  <2>2. \A x \in Mtx : Single(o, x)
    BY <1>1 DEF Single
  <2>3. \A x \in Mtx : Has(w, x)' <=> Has(w, x)
    BY <2>1 DEF Has
  <2>4. ShareOK(w)' /\ IndexOK(w)' /\ BackOK(w)' /\ SeatOK(w)'
    BY <1>1, <1>2, <2>1, <2>2, <2>3 DEF LockerOK, ShareOK, IndexOK, BackOK, SeatOK
  <2> QED BY <1>2, <2>1, <2>4, AloneFacts DEF LockerOK
<1> QED BY <1>3, <1>4

LEMMA LockStep6 ==
  ASSUME RangeInv, NEW w \in Locker, Unlocked(w)
  PROVE  RangeInv'
<1>1. LockerOK(w) /\ RangeTypeOK
  BY LockerFacts DEF RangeInv
<1>2. /\ order' = order /\ holder' = holder /\ waitq' = waitq /\ hard' = hard /\ next' = next
      /\ back' = back /\ back[w] = <<>>
  BY DEF Unlocked
<1>3. /\ \/ rangeAt[w] = "backing" /\ rangeAt'[w] = "hard"
         \/ rangeAt[w] = "leaving" /\ rangeAt'[w] = "idle"
      /\ Alone(w) /\ RangeTypeOK'
  BY <1>1, <1>2 DEF Unlocked, RangeTypeOK, Alone, Where
<1>4. \A x \in Mtx : ~Has(w, x)' /\ ~Has(w, x)
  BY <1>2, <1>3 DEF Has, Stands
<1>5. ShareOK(w)' /\ IndexOK(w)' /\ BackOK(w)' /\ SeatOK(w)'
  BY <1>1, <1>2, <1>3, <1>4 DEF LockerOK, ShareOK, IndexOK, BackOK, SeatOK
<1> QED BY <1>2, <1>3, <1>5, AloneFacts DEF LockerOK

LEMMA LockStep7 ==
  ASSUME RangeInv, NEW w \in Locker, Unlock(w)
  PROVE  RangeInv'
<1> DEFINE b == back[w]
           m == Head(b)
<1>1. /\ LockerOK(w) /\ RangeTypeOK /\ w # NoLocker /\ b \in Seq(Mtx) /\ b # <<>>
      /\ \A x \in Mtx : Single(b, x)
  BY LockerFacts DEF RangeInv, Unlock, LockerOK, BackOK
<1>2. rangeAt[w] \in {"backing", "leaving"}
  BY <1>1 DEF LockerOK, BackOK
<1>3. /\ m \in Mtx /\ Tail(b) \in Seq(Mtx)
      /\ \A x \in Mtx : /\ Stands(Tail(b), x) <=> Stands(b, x) /\ x # m
                        /\ Single(Tail(b), x)
  <2>1. m \in Mtx /\ Tail(b) \in Seq(Mtx)
    BY <1>1, HeadTailProperties
  <2> HIDE DEF b
  <2> QED BY <1>1, <2>1, AtTheFront
<1>4. \A x \in Mtx : Has(w, x) <=> Stands(b, x)
  BY <1>2 DEF Has
<1>5. Stands(b, m) /\ holder[m] = w
  <2>1. Stands(b, m)
    <3> HIDE DEF b
    <3> QED BY <1>1, <1>3, AtTheFront
  <2> QED BY <1>1, <1>3, <1>4, <2>1 DEF LockerOK, ShareOK
<1>6. /\ order' = order /\ hard' = hard /\ next' = next /\ back' = [back EXCEPT ![w] = Tail(b)]
  BY DEF Unlock
<1> HIDE DEF b, m
<1>7. back'[w] = Tail(b) /\ \A u \in Locker \ {w} : back'[u] = back[u]
  BY <1>1, <1>6 DEF RangeTypeOK
(* What w is after it. *)
<1>8. ASSUME rangeAt'[w] = rangeAt[w], NEW u \in Locker \union {NoLocker}, u # w,
             holder' = [holder EXCEPT ![m] = u],
             \A x \in Mtx : (Stands(waitq'[x], w) <=> Stands(waitq[x], w)) /\ Single(waitq'[x], w)
      PROVE  LockerOK(w)'
  <2>1. IndexOK(w)' /\ BackOK(w)' /\ SeatOK(w)'
    BY <1>1, <1>2, <1>3, <1>6, <1>7, <1>8 DEF LockerOK, IndexOK, BackOK, SeatOK
  <2>2. \A x \in Mtx : Has(w, x)' <=> Stands(Tail(b), x)
    BY <1>2, <1>7, <1>8 DEF Has
  <2>3. \A x \in Mtx : holder'[x] = IF x = m THEN u ELSE holder[x]
    BY <1>1, <1>8 DEF RangeTypeOK
  <2>4. ShareOK(w)'
    BY <1>1, <1>3, <1>4, <1>8, <2>2, <2>3 DEF LockerOK, ShareOK
  <2> QED BY <2>1, <2>4 DEF LockerOK
<1>9. CASE waitq[m] = <<>> /\ holder' = [holder EXCEPT ![m] = NoLocker] /\ waitq' = waitq
           /\ rangeAt' = rangeAt
  <2>1. RangeTypeOK'
    BY <1>1, <1>3, <1>6, <1>9 DEF RangeTypeOK
  <2>2. Alone(w)
    BY <1>6, <1>7, <1>9 DEF Alone
  <2>3. LockerOK(w)'
    BY <1>1, <1>8, <1>9 DEF LockerOK, SeatOK
  <2>4. \A x \in Mtx : \A u \in Locker \ {w} : holder'[x] = u <=> holder[x] = u
    <3>1. \A x \in Mtx : holder'[x] = IF x = m THEN NoLocker ELSE holder[x]
      BY <1>1, <1>9 DEF RangeTypeOK
    <3> QED BY <1>5, <3>1, MtxAssumption
  <2> QED BY <1>9, <2>1, <2>2, <2>3, <2>4, AloneFacts
<1>10. CASE /\ waitq[m] # <<>> /\ holder' = [holder EXCEPT ![m] = Head(waitq[m])]
            /\ waitq' = [waitq EXCEPT ![m] = Tail(@)]
            /\ rangeAt' = [rangeAt EXCEPT ![Head(waitq[m])] = "trying"]
  <2> DEFINE q == waitq[m]
  <2>0. q \in Seq(Locker) /\ q # <<>> /\ Head(q) \in Locker /\ Tail(q) \in Seq(Locker)
    BY <1>1, <1>3, <1>10, HeadTailProperties DEF RangeTypeOK
  <2>a. PICK v \in Locker : v = Head(q)
    BY <2>0
  <2>1. q \in Seq(Locker) /\ q # <<>> /\ Tail(q) \in Seq(Locker)
    BY <2>0
  <2>2. \A u \in Locker : Single(q, u)
    BY <1>3 DEF RangeInv, LockerOK, SeatOK
  <2>3. /\ Stands(q, v)
        /\ \A u \in Locker : (Stands(Tail(q), u) <=> Stands(q, u) /\ u # v) /\ Single(Tail(q), u)
    <3> HIDE DEF q
    <3> QED BY <2>1, <2>a, <2>2, AtTheFront
  <2>4. /\ LockerOK(v) /\ order[v] \in Seq(Mtx)
        /\ \A i, j \in 1..Len(order[v]) : order[v][i] = order[v][j] => i = j
        /\ Len(order[v]) \in Nat
    BY LockerFacts
  <2>5. /\ rangeAt[v] = "asleep" /\ order[v][hard[v]] = m /\ v # w
        /\ \A x \in Mtx : Stands(waitq[x], v) <=> x = m
    BY <1>2, <1>3, <2>1, <2>3, <2>4 DEF LockerOK, SeatOK
  <2>6. ASSUME NEW x \in Mtx, NEW u \in Locker
        PROVE  /\ Stands(waitq'[x], u) <=> Stands(waitq[x], u) /\ ~(u = v /\ x = m)
               /\ Single(waitq'[x], u)
    <3>1. CASE x = m
      <4>1. waitq'[x] = Tail(q)
        BY <1>1, <1>10, <3>1 DEF RangeTypeOK
      <4> QED BY <2>3, <3>1, <4>1
    <3>2. CASE x # m
      <4>1. waitq'[x] = waitq[x] /\ Single(waitq[x], u)
        BY <1>1, <1>10, <3>2 DEF RangeTypeOK, RangeInv, LockerOK, SeatOK
      <4> QED BY <3>2, <4>1
    <3> QED BY <3>1, <3>2
  <2>7. RangeTypeOK'
    BY <1>1, <1>3, <1>6, <1>10, <2>0 DEF RangeTypeOK, Where
  <2> HIDE DEF q
  <2>8. /\ holder' = [holder EXCEPT ![m] = v]
        /\ rangeAt'[v] = "trying" /\ \A u \in Locker \ {v} : rangeAt'[u] = rangeAt[u]
        /\ \A x \in Mtx : holder'[x] = IF x = m THEN v ELSE holder[x]
    BY <1>1, <1>10, <2>a DEF RangeTypeOK, q
  <2>9. LockerOK(w)'
    BY <1>8, <2>1, <2>5, <2>6, <2>8
  <2>10. LockerOK(v)'
    <3> DEFINE o == order[v]
               h == hard[v]
    <3>1. h \in 1..Len(o) /\ next[v] = (IF h = 1 THEN 2 ELSE 1) /\ back[v] = <<>>
      BY <2>4, <2>5 DEF LockerOK, IndexOK, BackOK, From
    <3>2. /\ hard'[v] = h /\ next'[v] = next[v] /\ back'[v] = <<>> /\ order'[v] = o
      BY <1>6, <1>7, <2>1, <2>5, <3>1
    <3>3. next[v] \in 1..(Len(o) + 1) /\ next[v] # h
      BY <2>4, <3>1
    <3>4. IndexOK(v)'
      BY <2>8, <3>1, <3>2, <3>3 DEF IndexOK
    <3>5. BackOK(v)'
      BY <3>2 DEF BackOK, Single
    <3>6. SeatOK(v)'
      BY <2>1, <2>5, <2>6, <2>8 DEF SeatOK
    <3>7. \A i \in 1..Len(o) : (i < next[v] \/ i = h) <=> i = h
      BY <2>4, <3>1
    <3>8. \A x \in Mtx : Has(v, x)' <=> x = m
      BY <2>5, <2>8, <3>1, <3>2, <3>7 DEF Has
    <3>9. \A x \in Mtx : ~Has(v, x) /\ holder[x] # v
      <4>1. \A x \in Mtx : ~Has(v, x)
        BY <2>5 DEF Has
      <4> QED BY <2>4, <4>1 DEF LockerOK, ShareOK
    <3>10. ShareOK(v)'
      BY <2>8, <3>8, <3>9 DEF ShareOK
    <3> QED BY <3>4, <3>5, <3>6, <3>10 DEF LockerOK
  <2>11. ASSUME NEW u \in Locker, u # w, u # v PROVE LockerOK(u)'
    <3>1. \A x \in Mtx : /\ Stands(waitq'[x], u) <=> Stands(waitq[x], u)
                         /\ Single(waitq'[x], u)
                         /\ holder'[x] = u <=> holder[x] = u
      BY <1>5, <2>6, <2>8, <2>11
    <3>2. LockerOK(u) /\ order' = order /\ rangeAt'[u] = rangeAt[u] /\ hard'[u] = hard[u]
          /\ next'[u] = next[u] /\ back'[u] = back[u]
      BY <1>6, <1>7, <2>8, <2>11 DEF RangeInv
    <3> QED BY <3>1, <3>2, Bystander
  <2> QED BY <2>7, <2>9, <2>10, <2>11 DEF RangeInv
<1> QED BY <1>9, <1>10 DEF Unlock, m, b

(* RangeSpec without its fairness. *)
RangeSafety == RangeInit /\ [][RangeNext]_rangeVars

LEMMA RangeInitInv == RangeInit => RangeInv
<1> SUFFICES ASSUME RangeInit PROVE RangeInv
  OBVIOUS
<1>1. 1 \in Mtx /\ 1 \in 1..(M + 2)
  BY MtxAssumption DEF Mtx
<1>2. RangeTypeOK
  BY <1>1 DEF RangeInit, RangeTypeOK, Where
<1>3. ASSUME NEW w \in Locker PROVE LockerOK(w)
  <2>1. /\ rangeAt[w] = "idle" /\ back[w] = <<>> /\ w # NoLocker
        /\ \A m \in Mtx : waitq[m] = <<>> /\ holder[m] = NoLocker
    BY MtxAssumption DEF RangeInit
  <2>2. \A x : ~Stands(<<>>, x) /\ Single(<<>>, x)
    BY DEF Stands, Single
  <2>3. IndexOK(w) /\ BackOK(w) /\ SeatOK(w) /\ \A m \in Mtx : ~Has(w, m)
    BY <2>1, <2>2 DEF IndexOK, BackOK, SeatOK, Has
  <2> QED BY <2>1, <2>3 DEF LockerOK, ShareOK
<1> QED BY <1>2, <1>3 DEF RangeInv

LEMMA RangeInvariance == RangeSafety => []RangeInv
<1>1. ASSUME RangeInv, RangeNext PROVE RangeInv'
  BY <1>1, LockStep1, LockStep2, LockStep3, LockStep4, LockStep5, LockStep6, LockStep7
  DEF RangeNext, Attempt
<1>2. ASSUME RangeInv, UNCHANGED rangeVars PROVE RangeInv'
  <2>1. RangeTypeOK'
    BY <1>2 DEF RangeInv, RangeTypeOK, rangeVars
  <2>2. ASSUME NEW w \in Locker PROVE LockerOK(w)'
    <3>1. LockerOK(w) /\ \A m \in Mtx : Single(waitq[m], w)
      BY <1>2 DEF RangeInv, LockerOK, SeatOK
    <3> QED BY <1>2, <3>1, Bystander DEF rangeVars
  <2> QED BY <2>1, <2>2 DEF RangeInv
<1>3. RangeInv /\ [RangeNext]_rangeVars => RangeInv'
  BY <1>1, <1>2
<1> QED BY <1>3, RangeInitInv, PTL DEF RangeSafety

(* The variables of the lockers have their types: no index leaves a range. *)
THEOREM RangeTypeCorrect == RangeSafety => []RangeTypeOK
<1>1. RangeInv => RangeTypeOK
  BY DEF RangeInv
<1> QED BY <1>1, RangeInvariance, PTL

(* A locker that waits for one of its mutexes holds none, whatever others  *)
(* try, let go and hand over; it comes back with all of them, and leaves   *)
(* none locked: _Lock_range(), _Try_lock_range(), batch_unlock_t.          *)
THEOREM RangeCorrect == RangeSafety => []AllOrNothing
<1>1. ASSUME RangeInv PROVE AllOrNothing
  <2>1. ASSUME NEW w \in Locker
        PROVE  /\ rangeAt[w] \in {"idle", "hard", "asleep"} => Holds(w) = {}
               /\ rangeAt[w] = "held" => Holds(w) = ToSet(order[w])
               /\ rangeAt[w] \in {"backing", "leaving"} => Holds(w) = ToSet(back[w])
               /\ rangeAt[w] = "asleep" <=> \E m \in Mtx : Contains(waitq[m], w)
    <3>1. /\ LockerOK(w) /\ order[w] \in Seq(Mtx) /\ back[w] \in Seq(Mtx) /\ waitq \in [Mtx -> Seq(Locker)]
      BY <1>1, LockerFacts
    <3>2. Holds(w) = {m \in Mtx : Has(w, m)}
      BY <3>1 DEF Holds, LockerOK, ShareOK
    <3>3. ASSUME NEW q \in Seq(Mtx) PROVE ToSet(q) = {m \in Mtx : Stands(q, m)}
      BY <3>3, ElementOfSeq, LenProperties DEF ToSet, Stands
    <3>4. rangeAt[w] \in {"idle", "hard", "asleep"} => Holds(w) = {}
      BY <3>2 DEF Has
    <3>5. rangeAt[w] = "held" => Holds(w) = ToSet(order[w])
      <4>1. rangeAt[w] = "held" => \A m \in Mtx : Has(w, m) <=> Stands(order[w], m)
        BY DEF Has
      <4> QED BY <3>1, <3>2, <3>3, <4>1
    <3>6. rangeAt[w] \in {"backing", "leaving"} => Holds(w) = ToSet(back[w])
      <4>1. rangeAt[w] \in {"backing", "leaving"} => \A m \in Mtx : Has(w, m) <=> Stands(back[w], m)
        BY DEF Has
      <4> QED BY <3>1, <3>2, <3>3, <4>1
    <3>7. rangeAt[w] = "asleep" <=> \E m \in Mtx : Contains(waitq[m], w)
      <4>1. rangeAt[w] = "asleep" => order[w][hard[w]] \in Mtx
        BY <1>1, LockerFacts DEF LockerOK, IndexOK
      <4>2. \A m \in Mtx : Contains(waitq[m], w) <=> Stands(waitq[m], w)
        BY DEF Contains, Stands
      <4> QED BY <3>1, <4>1, <4>2 DEF LockerOK, SeatOK
    <3> QED BY <3>4, <3>5, <3>6, <3>7
  <2> QED BY <2>1 DEF AllOrNothing
<1> QED BY <1>1, RangeInvariance, PTL
-----------------------------------------------------------------------------
(* The parent and its children.  What is in the result is what is over:    *)
(* all of it for when_all, the first of it for when_any.                   *)
ValuesOK ==
  /\ winner \in Over \union {Nobody}
  /\ kind = "all" => winner = Nobody /\ value = Over
  /\ kind = "any" => value = {winner} \ {Nobody} /\ (winner = Nobody => Over = {})

(* Only children of the call begin; a parent that goes on, or is about to, *)
(* has nothing left to wait for.                                           *)
MembersOK == \A c \in Child : child[c] # "new" => c \in group
GoneOK == parent \in {"queued", "after"} => counter = 0

WhenInv == WhenTypeOK /\ ValuesOK /\ MembersOK /\ GoneOK

(* What the children do that the parent does not see: begin, get a result, *)
(* throw.                                                                  *)
Unseen ==
  /\ child' \in [Child -> ChildPlace]
  /\ \A c \in Child :
       \/ child'[c] = child[c]
       \/ child[c] = "new" /\ c \in group /\ child'[c] = "asleep"
       \/ child[c] = "asleep" /\ child'[c] \in {"ready", "broken"}
       \/ child[c] = "broken" /\ child'[c] = "threw"
  /\ UNCHANGED <<kind, group, counter, winner, value, parent>>

WhenStep == Unseen \/ Await \/ GoOn \/ \E c \in Child : Finish(c)

LEMMA CountFacts ==
  ASSUME WhenInv
  PROVE  /\ IsFiniteSet(group) /\ IsFiniteSet(value)
         /\ Count(kind, group) \in Nat /\ Cardinality(value) \in Nat
         /\ counter \in Int
         /\ kind = "any" /\ group # {} => Count(kind, group) = 1
         /\ kind = "any" /\ group = {} => Count(kind, group) = 0
<1>1. IsFiniteSet(group) /\ IsFiniteSet(value)
  BY ChildAssumption, FS_Subset DEF WhenInv, WhenTypeOK
<1>2. Cardinality(group) \in Nat /\ Cardinality(value) \in Nat
  BY <1>1, FS_CardinalityType
<1>3. Count(kind, group) \in Nat
  BY <1>2 DEF Count
<1>4. counter \in Int
  BY <1>2, <1>3 DEF WhenInv, WhenTypeOK
<1>5. kind = "any" => Count(kind, group) = IF group = {} THEN 0 ELSE 1
  BY DEF Count
<1> QED BY <1>1, <1>2, <1>3, <1>4, <1>5

(* With nothing left to wait for, the abstract parent may go on, too.      *)
LEMMA NothingLeft ==
  ASSUME WhenInv, counter = 0
  PROVE  Over = group \/ (kind = "any" /\ Over # {})
<1>1. Cardinality(value) = Count(kind, group) /\ value \subseteq group /\ kind \in {"all", "any"}
  BY CountFacts DEF WhenInv, WhenTypeOK
<1>2. CASE kind = "all"
  <2>1. Cardinality(value) = Cardinality(group)
    BY <1>1, <1>2 DEF Count
  <2>2. value = group
    BY <1>1, <2>1, CountFacts, FS_Subset
  <2> QED BY <1>2, <2>2 DEF WhenInv, ValuesOK
<1>3. CASE kind = "any" /\ group = {}
  BY <1>3 DEF WhenInv, WhenTypeOK, MembersOK, Over
<1>4. CASE kind = "any" /\ group # {}
  <2>1. value # {}
    BY <1>1, <1>4, CountFacts, FS_EmptySet
  <2>2. winner # Nobody
    BY <1>4, <2>1 DEF WhenInv, ValuesOK
  <2> QED BY <1>4, <2>2 DEF WhenInv, ValuesOK
<1> QED BY <1>1, <1>2, <1>3, <1>4

LEMMA UnseenFacts ==
  ASSUME WhenInv, Unseen
  PROVE  WhenInv' /\ UNCHANGED <<kind, group, Over, winner, value, parent>>
<1>1. Over' = Over
  BY DEF Unseen, Over
<1>2. UNCHANGED <<kind, group, counter, winner, value, parent>> /\ child' \in [Child -> ChildPlace]
  BY DEF Unseen
<1>3. WhenTypeOK'
  BY <1>2 DEF WhenInv, WhenTypeOK, Count
<1>4. MembersOK'
  BY <1>2 DEF WhenInv, MembersOK, Unseen
<1>5. ValuesOK' /\ GoneOK'
  BY <1>1, <1>2 DEF WhenInv, ValuesOK, GoneOK
<1> QED BY <1>1, <1>2, <1>3, <1>4, <1>5 DEF WhenInv

LEMMA ParentFacts ==
  ASSUME WhenInv, Await \/ GoOn
  PROVE  /\ WhenInv'
         /\ UNCHANGED <<kind, group, Over, winner, value>>
         /\ parent # "after"
         /\ parent' = "after" => counter = 0
<1>1. UNCHANGED <<kind, group, counter, winner, value, child>>
  BY DEF Await, GoOn
<1>2. parent' \in {"asleep", "after"} /\ (parent' = "after" => counter = 0) /\ parent # "after"
  BY DEF Await, GoOn, WhenInv, GoneOK
<1>3. WhenTypeOK'
  BY <1>1, <1>2 DEF WhenInv, WhenTypeOK, Count
<1>4. MembersOK' /\ ValuesOK' /\ UNCHANGED Over
  BY <1>1 DEF WhenInv, MembersOK, ValuesOK, Over
<1>5. GoneOK'
  BY <1>1, <1>2 DEF GoneOK
<1> QED BY <1>1, <1>2, <1>3, <1>4, <1>5 DEF WhenInv

LEMMA FinishFacts ==
  ASSUME WhenInv, NEW c \in Child, Finish(c)
  PROVE  /\ WhenInv'
         /\ c \in group \ Over /\ Over' = Over \union {c}
         /\ UNCHANGED <<kind, group>>
         /\ \/ /\ kind = "all" \/ Over = {}
               /\ value' \union ({winner'} \ {Nobody}) = (value \union ({winner} \ {Nobody})) \union {c}
            \/ /\ kind = "any" /\ Over # {}
               /\ UNCHANGED <<value, winner>>
         /\ parent' = "after" <=> parent = "after"
<1>1. /\ child[c] = "ready" /\ child' = [child EXCEPT ![c] = "done"]
      /\ UNCHANGED <<kind, group>> /\ kind \in {"all", "any"} /\ child \in [Child -> ChildPlace]
      /\ c # Nobody
  BY ChildAssumption DEF Finish, WhenInv, WhenTypeOK
<1>2. c \in group \ Over /\ Over' = Over \union {c}
  BY <1>1 DEF Over, WhenInv, MembersOK
<1>3. child' \in [Child -> ChildPlace] /\ MembersOK'
  BY <1>1, <1>2 DEF WhenInv, MembersOK, ChildPlace
<1>4. value \subseteq Over
  BY <1>1 DEF WhenInv, ValuesOK
<1>5. CASE kind = "all" \/ winner = Nobody
  <2>1. /\ value' = value \union {c} /\ winner' = (IF kind = "any" THEN c ELSE winner)
        /\ counter' = counter - 1
        /\ parent' = IF counter > 1 THEN parent
                     ELSE IF AssertFails THEN "aborted"
                     ELSE IF parent = "asleep" THEN "queued" ELSE parent
    BY <1>1, <1>5 DEF Finish, Notify
  <2>2. Cardinality(value') = Cardinality(value) + 1 /\ value' \subseteq group
    <3>1. Cardinality(value \union {c}) = Cardinality(value) + 1
      BY <1>2, <1>4, CountFacts, FS_AddElement
    <3> QED BY <1>2, <2>1, <3>1 DEF WhenInv, WhenTypeOK
  <2>3. counter' = Count(kind, group) - Cardinality(value')
    <3>1. counter = Count(kind, group) - Cardinality(value)
      BY DEF WhenInv, WhenTypeOK
    <3> QED BY <2>1, <2>2, <3>1, CountFacts
  <2>4. WhenTypeOK'
    <3>1. parent' \in {"before", "asleep", "queued", "after", "aborted"} /\ winner' \in Child \union {Nobody}
      BY <2>1 DEF WhenInv, WhenTypeOK
    <3> QED BY <1>1, <1>3, <2>2, <2>3, <3>1 DEF WhenInv, WhenTypeOK
  <2>5. kind = "any" => value = {} /\ Over = {} /\ winner = Nobody
    BY <1>1, <1>5 DEF WhenInv, ValuesOK
  <2>6. kind = "all" => winner = Nobody /\ value = Over
    BY DEF WhenInv, ValuesOK
  <2>7. ValuesOK'
    BY <1>1, <1>2, <2>1, <2>5, <2>6 DEF ValuesOK
  <2>8. counter > 0
    <3>1. kind = "all" => Cardinality(value) <= Cardinality(group) /\ Count(kind, group) = Cardinality(group)
      BY CountFacts, FS_Subset DEF WhenInv, WhenTypeOK, Count
    <3>2. kind = "any" => Cardinality(value) = 0 /\ Count(kind, group) = 1
      BY <1>2, <2>5, CountFacts, FS_EmptySet
    <3>3. Cardinality(group) \in Nat
      BY CountFacts, FS_CardinalityType
    <3>4. counter \in Nat
      BY <1>1, <3>1, <3>2, <3>3, CountFacts DEF WhenInv, WhenTypeOK
    <3>5. SUFFICES ASSUME counter = 0 PROVE FALSE
      BY <3>4
    <3> QED BY <1>2, <2>5, <3>5, NothingLeft
  <2>9. GoneOK'
    <3>1. parent \notin {"queued", "after"}
      BY <2>8 DEF WhenInv, GoneOK
    <3>2. parent' \in {"queued", "after"} => counter = 1
      BY <2>1, <2>8, <3>1, CountFacts
    <3> QED BY <2>1, <3>2 DEF GoneOK
  <2>10. value' \union ({winner'} \ {Nobody}) = (value \union ({winner} \ {Nobody})) \union {c}
    BY <1>1, <2>1, <2>5, <2>6
  <2>11. parent' = "after" <=> parent = "after"
    BY <2>1 DEF AssertFails
  <2>12. kind = "all" \/ Over = {}
    BY <1>1, <2>5
  <2> QED BY <1>1, <1>2, <1>3, <2>4, <2>7, <2>9, <2>10, <2>11, <2>12 DEF WhenInv
<1>6. CASE kind = "any" /\ winner # Nobody
  <2>1. UNCHANGED <<value, winner, counter, parent>>
    BY <1>1, <1>6 DEF Finish
  <2>2. WhenTypeOK'
    BY <1>1, <1>3, <2>1 DEF WhenInv, WhenTypeOK, Count
  <2>3. ValuesOK' /\ GoneOK' /\ Over # {}
    BY <1>1, <1>2, <1>6, <2>1 DEF WhenInv, ValuesOK, GoneOK
  <2> QED BY <1>1, <1>2, <1>3, <1>6, <2>1, <2>2, <2>3 DEF WhenInv
<1> QED BY <1>1, <1>5, <1>6

LEMMA WhenStepInv == ASSUME WhenInv, WhenStep PROVE WhenInv'
BY UnseenFacts, ParentFacts, FinishFacts DEF WhenStep

joinVars == <<kind, group, Over, value \union ({winner} \ {Nobody}), parent = "after">>

LEMMA WhenStepRefines ==
  ASSUME WhenInv, WhenStep
  PROVE  J!Next \/ UNCHANGED joinVars
<1>1. CASE Unseen
  BY <1>1, UnseenFacts DEF joinVars
<1>2. CASE Await \/ GoOn
  <2>1. /\ UNCHANGED <<kind, group, Over, winner, value>>
        /\ parent # "after"
        /\ parent' = "after" => counter = 0
    BY <1>2, ParentFacts
  <2>2. CASE parent' = "after"
    <3>1. Over = group \/ (kind = "any" /\ Over # {})
      BY <2>1, <2>2, NothingLeft
    <3>2. J!GoOn
      BY <2>1, <2>2, <3>1 DEF J!GoOn
    <3> QED BY <3>2 DEF J!Next
  <2>3. CASE parent' # "after"
    BY <2>1, <2>3 DEF joinVars
  <2> QED BY <2>2, <2>3
<1>3. ASSUME NEW c \in Child, Finish(c) PROVE J!Next
  <2>1. /\ c \in group \ Over /\ Over' = Over \union {c}
        /\ UNCHANGED <<kind, group>>
        /\ \/ /\ kind = "all" \/ Over = {}
              /\ value' \union ({winner'} \ {Nobody}) = (value \union ({winner} \ {Nobody})) \union {c}
           \/ /\ kind = "any" /\ Over # {}
              /\ UNCHANGED <<value, winner>>
        /\ parent' = "after" <=> parent = "after"
    BY <1>3, FinishFacts
  <2>2. J!End(c)
    BY <2>1 DEF J!End
  <2> QED BY <2>2 DEF J!Next
<1> QED BY <1>1, <1>2, <1>3 DEF WhenStep

LEMMA WhenInitInv == WhenInit => WhenInv /\ J!Init
<1> SUFFICES ASSUME WhenInit PROVE WhenInv /\ J!Init
  OBVIOUS
<1>1. Over = {}
  BY DEF WhenInit, Over
<1>2. counter = Count(kind, group) - Cardinality(value)
  <2>1. Cardinality(group) \in Nat
    BY ChildAssumption, FS_Subset, FS_CardinalityType DEF WhenInit
  <2>2. Count(kind, group) \in Nat
    BY <2>1 DEF Count
  <2> QED BY <2>2, FS_EmptySet DEF WhenInit
<1>3. WhenTypeOK
  BY <1>2 DEF WhenInit, WhenTypeOK, ChildPlace
<1>4. ValuesOK /\ MembersOK /\ GoneOK
  BY <1>1 DEF WhenInit, ValuesOK, MembersOK, GoneOK
<1>5. J!Init
  BY <1>1 DEF WhenInit, J!Init
<1> QED BY <1>3, <1>4, <1>5 DEF WhenInv
-----------------------------------------------------------------------------
(* The programs of Tasks: what one of their steps does to a component, a   *)
(* step of that component does or it leaves it alone, so that what was     *)
(* proved of a component holds in them.                                    *)
TasksSafety == TasksInit /\ [][TasksNext]_tasksVars

LEMMA ResumeTimers ==
  ASSUME program \in {"sleep", "lock"}, Resume
  PROVE  UNCHANGED timerVars \/ (program = "sleep" /\ \E a \in Timer : Add(a))
<1>1. CASE UNCHANGED timerVars
  BY <1>1
<1>2. CASE program = "sleep" /\ \E c \in Child : Sleep(c)
  <2>1. PICK c \in Child : Sleep(c)
    BY <1>2
  <2> QED BY <1>2, <2>1, ChildrenAssumption, SleeperAssumption DEF Sleep
<1> QED BY <1>1, <1>2 DEF Resume

LEMMA ResumeRange ==
  ASSUME Resume
  PROVE  UNCHANGED rangeVars \/ \E w \in Locker : RangeLock(w)
<1>1. CASE UNCHANGED rangeVars
  BY <1>1
<1>2. CASE \E c \in Child : Sleep(c)
  BY <1>2 DEF Sleep
<1>3. CASE \E c \in Locker \ NativeThread : RangeLock(c) /\ Begin(c)
  BY <1>3
<1> QED BY <1>1, <1>2, <1>3 DEF Resume

LEMMA TasksTimerStep ==
  ASSUME TasksNext PROVE TimerNext \/ UNCHANGED timerVars
<1>1. CASE TimersNext
  BY <1>1 DEF TimersNext, TimerNext
<1>2. CASE SleepNext
  <2>1. CASE TimerStep
    BY <2>1 DEF TimerStep, TimerNext
  <2>2. CASE Resume
    BY <1>2, <2>2, ResumeTimers DEF SleepNext, TimerNext
  <2> QED BY <1>2, <2>1, <2>2 DEF SleepNext
<1>3. CASE LockNext
  BY <1>3, ResumeTimers DEF LockNext
<1>4. CASE StopsNext
  BY <1>4 DEF StopsNext
<1>5. CASE GeneratorsNext
  BY <1>5 DEF GeneratorsNext
<1> QED BY <1>1, <1>2, <1>3, <1>4, <1>5 DEF TasksNext

LEMMA TasksRangeStep ==
  ASSUME TasksNext PROVE RangeNext \/ UNCHANGED rangeVars
<1>1. CASE TimersNext
  BY <1>1 DEF TimersNext
<1>2. CASE SleepNext
  <2>1. CASE TimerStep
    BY <2>1 DEF TimerStep
  <2>2. CASE Resume
    BY <2>2, ResumeRange DEF RangeNext
  <2> QED BY <1>2, <2>1, <2>2 DEF SleepNext
<1>3. CASE LockNext
  <2>1. CASE Resume
    BY <2>1, ResumeRange DEF RangeNext
  <2>2. ASSUME NEW w \in Locker, LockStep(w) \/ ThreadLock(w) \/ LockEnd(w) PROVE RangeNext
    BY <2>2 DEF LockStep, ThreadLock, LockEnd, RangeNext
  <2> QED BY <1>3, <2>1, <2>2 DEF LockNext
<1>4. CASE StopsNext
  BY <1>4 DEF StopsNext
<1>5. CASE GeneratorsNext
  BY <1>5 DEF GeneratorsNext
<1> QED BY <1>1, <1>2, <1>3, <1>4, <1>5 DEF TasksNext

LEMMA TasksComponents == TasksSafety => TimerSafety /\ RangeSafety
<1>1. TasksInit => TimerInit /\ RangeInit
  BY DEF TasksInit
<1>2. [TasksNext]_tasksVars => [TimerNext]_timerVars /\ [RangeNext]_rangeVars
  BY TasksTimerStep, TasksRangeStep DEF tasksVars
<1> QED BY <1>1, <1>2, PTL DEF TasksSafety, TimerSafety, RangeSafety

LEMMA TasksSpecSafety == TasksSpec => TasksSafety
BY PTL DEF TasksSpec, TasksSafety

(* In a program of timers, and in one of sleeping children whose timers    *)
(* are cancelled, no timer is lost between the lists or called twice       *)
(* (timer_manager::update(), clear()).                                     *)
THEOREM TasksLoseNoTimer == TasksSpec => []NoTimerLost
BY TasksSpecSafety, TasksComponents, NoTimerIsLost, PTL

(* In them every timer is called at most once, as fired or as cancelled,   *)
(* not before its time, and not as fired after the scheduler's thread has  *)
(* stopped it.                                                             *)
THEOREM TasksRefineAlarms == TasksSpec => ImplementsAlarms
BY TasksSpecSafety, TasksComponents, RefinesAlarms, PTL

(* Children of a when_all and threads that lock several mutexes hold none  *)
(* while they wait, all when they come back and none after the unlock      *)
(* (_Lock_range(), batch_unlock_t).                                        *)
THEOREM TasksLockAllOrNothing == TasksSpec => []AllOrNothing
BY TasksSpecSafety, TasksComponents, RangeCorrect, PTL
-----------------------------------------------------------------------------
(* A child that sleeps has its timer set, one that locks is on its way,    *)
(* and either is asleep in its connector until that ends.                  *)
Linked ==
  /\ program = "sleep" => \A c \in Child : outcome[c] = "pending" => child[c] = "asleep"
  /\ program = "lock" => \A c \in Child \cap Locker : rangeAt[c] # "idle" => child[c] = "asleep"

(* update() and clear() set no timer, and unlocking starts nobody.         *)
LEMMA NoneIsSet ==
  ASSUME outcome \in [Timer -> Outcome], Tick \/ Update \/ Clear, NEW a \in Timer
  PROVE  outcome'[a] = "pending" => outcome[a] = "pending"
<1>1. ASSUME NEW b, NEW how \in {"fired", "cancelled"}, NEW H, Called(b, how, H)
      PROVE  outcome'[a] = "pending" => outcome[a] = "pending"
  BY <1>1 DEF Called
<1>2. CASE UNCHANGED outcome
  BY <1>2
<1>3. CASE Tick
  BY <1>2, <1>3 DEF Tick
<1>4. CASE UpdateBegin \/ MoveLook \/ MoveEnd \/ DueLook \/ DueEnd
  BY <1>2, <1>4 DEF UpdateBegin, MoveLook, MoveEnd, DueLook, DueEnd
<1>5. CASE MoveAct
  BY <1>1, <1>2, <1>5 DEF MoveAct
<1>6. CASE DueAct
  BY <1>1, <1>6 DEF DueAct
<1>7. CASE Clear
  BY <1>7 DEF Clear
<1> QED BY <1>3, <1>4, <1>5, <1>6, <1>7 DEF Update

LEMMA NoneStarts ==
  ASSUME RangeInv, NEW w \in Locker, NEW u \in Locker,
         Attempt(w) \/ RangeUnlock(w) \/ Unlock(w) \/ Unlocked(w)
  PROVE  rangeAt'[u] # "idle" => rangeAt[u] # "idle"
<1>1. /\ rangeAt \in [Locker -> Where] /\ waitq \in [Mtx -> Seq(Locker)] /\ back[w] \in Seq(Mtx)
      /\ SeatOK(u)
  BY DEF RangeInv, RangeTypeOK, LockerOK
<1>2. CASE Attempt(w) \/ RangeUnlock(w) \/ Unlocked(w)
  <2>1. UNCHANGED rangeAt \/ (rangeAt[w] # "idle" /\ \E to \in Where : rangeAt' = [rangeAt EXCEPT ![w] = to])
    <3>1. CASE LockHard(w)
      BY <3>1 DEF LockHard, Where
    <3>2. CASE TryGet(w) \/ TryFail(w) \/ GotAll(w)
      BY <3>2 DEF TryGet, TryFail, GotAll, Trying, Where
    <3>3. CASE RangeUnlock(w) \/ Unlocked(w)
      BY <3>3 DEF RangeUnlock, Unlocked, Where
    <3> QED BY <1>2, <3>1, <3>2, <3>3 DEF Attempt
  <2> QED BY <1>1, <2>1
<1>3. CASE Unlock(w)
  <2> DEFINE m == Head(back[w])
  <2>1. back[w] # <<>> /\ m \in Mtx
    BY <1>1, <1>3 DEF Unlock
  <2>2. CASE UNCHANGED rangeAt
    BY <2>2
  <2>3. CASE waitq[m] # <<>> /\ rangeAt' = [rangeAt EXCEPT ![Head(waitq[m])] = "trying"]
    <3>1. CASE u = Head(waitq[m])
      <4>1. waitq[m] \in Seq(Locker) /\ Head(waitq[m]) = waitq[m][1] /\ 1 \in 1..Len(waitq[m])
        BY <1>1, <2>1, <2>3
      <4>2. Stands(waitq[m], u)
        BY <3>1, <4>1 DEF Stands
      <4>3. rangeAt[u] = "asleep"
        BY <1>1, <2>1, <4>2 DEF SeatOK
      <4> QED BY <4>3
    <3>2. CASE u # Head(waitq[m])
      BY <1>1, <2>3, <3>2
    <3> QED BY <3>1, <3>2
  <2> QED BY <1>3, <2>2, <2>3 DEF Unlock
<1> QED BY <1>2, <1>3

LEMMA ConnectorFacts ==
  ASSUME WhenInv, Await \/ GoOn \/ \E c \in Child : Connector(c)
  PROVE  WhenStep /\ \A c \in Child : child[c] = "asleep" => child'[c] = "asleep"
<1>1. CASE Await \/ GoOn
  BY <1>1 DEF Await, GoOn, WhenStep
<1>2. ASSUME NEW c \in Child, Finish(c)
      PROVE  WhenStep /\ \A d \in Child : child[d] = "asleep" => child'[d] = "asleep"
  BY <1>2 DEF Finish, WhenStep, WhenInv, WhenTypeOK
<1>3. ASSUME NEW c \in Child, Throw(c)
      PROVE  WhenStep /\ \A d \in Child : child[d] = "asleep" => child'[d] = "asleep"
  BY <1>3 DEF Throw, WhenStep, Unseen, WhenInv, WhenTypeOK, ChildPlace
<1> QED BY <1>1, <1>2, <1>3 DEF Connector

LEMMA BeginFacts2 ==
  ASSUME WhenInv, NEW c \in Child, Begin(c)
  PROVE  WhenStep /\ \A d \in Child : child[d] = "asleep" \/ d = c => child'[d] = "asleep"
BY DEF Begin, WhenStep, Unseen, WhenInv, WhenTypeOK, ChildPlace

(* Results are given to children that are asleep, and to those alone.      *)
LEMMA ResultsFacts ==
  ASSUME WhenInv, NEW how, Results(how),
         \A c \in DOMAIN how : c \in Child => child[c] = "asleep" /\ how[c] \in {"ready", "broken"}
  PROVE  WhenStep /\ \A d \in Child : d \notin DOMAIN how => child'[d] = child[d]
<1>1. /\ child \in [Child -> ChildPlace]
      /\ child' = [c \in Child |-> IF c \in DOMAIN how THEN how[c] ELSE child[c]]
      /\ UNCHANGED <<kind, group, counter, winner, value, parent>>
  BY DEF Results, WhenInv, WhenTypeOK
<1>2. \A c \in Child : IF c \in DOMAIN how
                       THEN child[c] = "asleep" /\ child'[c] \in {"ready", "broken"}
                       ELSE child'[c] = child[c]
  BY <1>1
<1>3. child' \in [Child -> ChildPlace]
  BY <1>1, <1>2 DEF ChildPlace
<1>4. Unseen
  BY <1>1, <1>2, <1>3 DEF Unseen
<1> QED BY <1>2, <1>4 DEF WhenStep

LEMMA SameWhen == ASSUME WhenInv, UNCHANGED whenVars PROVE WhenStep
BY DEF whenVars, WhenStep, Unseen, WhenInv, WhenTypeOK

LEMMA SleepLinks ==
  ASSUME TimerInv, WhenInv, Linked, SleepNext, UNCHANGED program
  PROVE  WhenStep /\ Linked'
<1>1. /\ program = "sleep" /\ Child \subseteq Timer /\ outcome \in [Timer -> Outcome]
      /\ \A c \in Child : outcome[c] = "pending" => child[c] = "asleep"
  BY ChildrenAssumption, SleeperAssumption DEF SleepNext, Linked, TimerInv, Fields
<1>2. SUFFICES WhenStep /\ \A c \in Child : outcome'[c] = "pending" => child'[c] = "asleep"
  BY <1>1 DEF Linked
<1>3. CASE TimerStep
  <2>1. Results(Woken) /\ (Tick \/ Update \/ Clear) /\ DOMAIN Woken = JustCalled
    BY <1>3 DEF TimerStep, Woken
  <2>2. \A c \in JustCalled : c \in Child /\ child[c] = "asleep" /\ Woken[c] \in {"ready", "broken"}
    BY <1>1 DEF JustCalled, Woken
  <2>3. WhenStep /\ \A d \in Child : d \notin JustCalled => child'[d] = child[d]
    BY <2>1, <2>2, ResultsFacts
  <2>4. ASSUME NEW c \in Child, outcome'[c] = "pending" PROVE child'[c] = "asleep"
    <3>1. outcome[c] = "pending" /\ c \notin JustCalled
      BY <1>1, <2>1, <2>4, NoneIsSet DEF JustCalled
    <3> QED BY <1>1, <2>3, <3>1
  <2> QED BY <2>3, <2>4
<1>4. CASE (Await \/ GoOn \/ \E c \in Child : Connector(c)) /\ UNCHANGED timerVars
  <2>1. UNCHANGED outcome
    BY <1>4 DEF timerVars
  <2> QED BY <1>1, <1>4, <2>1, ConnectorFacts
<1>5. ASSUME NEW c \in Child, Sleep(c)
      PROVE  WhenStep /\ \A d \in Child : outcome'[d] = "pending" => child'[d] = "asleep"
  <2>1. Begin(c) /\ outcome' = [outcome EXCEPT ![c] = "pending"]
    BY <1>5 DEF Sleep, Add
  <2> QED BY <1>1, <2>1, BeginFacts2
<1>6. SleepNext => TimerStep \/ Resume
  BY DEF SleepNext
<1> QED BY <1>1, <1>3, <1>4, <1>5, <1>6 DEF Resume

LEMMA LockLinks ==
  ASSUME RangeInv, WhenInv, Linked, LockNext, UNCHANGED program
  PROVE  WhenStep /\ Linked'
<1>1. /\ program = "lock" /\ NativeThread = Locker \ Child /\ rangeAt \in [Locker -> Where]
      /\ \A c \in Child \cap Locker : rangeAt[c] # "idle" => child[c] = "asleep"
  BY ChildrenAssumption DEF LockNext, Linked, RangeInv, RangeTypeOK
<1>2. SUFFICES WhenStep /\ \A c \in Child \cap Locker : rangeAt'[c] # "idle" => child'[c] = "asleep"
  BY <1>1 DEF Linked
<1>3. CASE (Await \/ GoOn \/ \E c \in Child : Connector(c)) /\ UNCHANGED rangeVars
  <2>1. UNCHANGED rangeAt
    BY <1>3 DEF rangeVars
  <2> QED BY <1>1, <1>3, <2>1, ConnectorFacts
<1>4. ASSUME NEW c \in Locker \ NativeThread, RangeLock(c), Begin(c)
      PROVE  WhenStep /\ \A d \in Child \cap Locker : rangeAt'[d] # "idle" => child'[d] = "asleep"
  <2>1. c \in Child /\ \A d \in Locker : d # c => rangeAt'[d] = rangeAt[d]
    BY <1>1, <1>4 DEF RangeLock
  <2> QED BY <1>1, <1>4, <2>1, BeginFacts2
<1>5. ASSUME NEW w \in Locker, LockStep(w)
      PROVE  WhenStep /\ \A d \in Child \cap Locker : rangeAt'[d] # "idle" => child'[d] = "asleep"
  <2>1. UNCHANGED child /\ UNCHANGED whenVars
    BY <1>5 DEF LockStep, whenVars
  <2>2. Attempt(w) \/ RangeUnlock(w) \/ Unlock(w) \/ Unlocked(w)
    BY <1>5 DEF LockStep
  <2> QED BY <1>1, <2>1, <2>2, NoneStarts, SameWhen
<1>6. ASSUME NEW w \in Locker, ThreadLock(w)
      PROVE  WhenStep /\ \A d \in Child \cap Locker : rangeAt'[d] # "idle" => child'[d] = "asleep"
  <2>1. UNCHANGED child /\ UNCHANGED whenVars
    BY <1>6 DEF ThreadLock, whenVars
  <2>2. \A d \in Child \cap Locker : rangeAt'[d] = rangeAt[d]
    BY <1>1, <1>6 DEF ThreadLock, RangeLock
  <2> QED BY <1>1, <2>1, <2>2, SameWhen
<1>7. ASSUME NEW w \in Locker, LockEnd(w)
      PROVE  WhenStep /\ \A d \in Child \cap Locker : rangeAt'[d] # "idle" => child'[d] = "asleep"
  <2>1. /\ rangeAt[w] = "leaving" /\ Unlocked(w)
        /\ \A d \in Locker : rangeAt'[d] = IF d = w THEN "idle" ELSE rangeAt[d]
    BY <1>1, <1>7 DEF LockEnd, Unlocked
  <2>2. CASE w \in Child
    <3> DEFINE how == [c \in {w} |-> "ready"]
    <3>1. Results(how)
      BY <1>7, <2>2 DEF LockEnd
    <3>2. DOMAIN how = {w} /\ how[w] = "ready"
      OBVIOUS
    <3>3. WhenStep /\ \A d \in Child : d # w => child'[d] = child[d]
      BY <1>1, <2>1, <2>2, <3>1, <3>2, ResultsFacts
    <3> QED BY <1>1, <2>1, <3>3
  <2>3. CASE w \notin Child
    <3>1. UNCHANGED whenVars /\ UNCHANGED child
      BY <1>7, <2>3 DEF LockEnd, whenVars
    <3> QED BY <1>1, <2>1, <3>1, SameWhen
  <2> QED BY <2>2, <2>3
<1>8. CASE Resume
  BY <1>1, <1>3, <1>4, <1>8 DEF Resume
<1> QED BY <1>5, <1>6, <1>7, <1>8 DEF LockNext

LEMMA TasksWhenStep ==
  ASSUME TimerInv, RangeInv, WhenInv, Linked, TasksNext
  PROVE  WhenStep /\ Linked'
<1>1. UNCHANGED program
  BY DEF TasksNext
<1>2. CASE SleepNext
  BY <1>1, <1>2, SleepLinks
<1>3. CASE LockNext
  BY <1>1, <1>3, LockLinks
<1>4. CASE TimersNext \/ StopsNext \/ GeneratorsNext
  <2>1. UNCHANGED whenVars /\ program \notin {"sleep", "lock"}
    BY <1>4 DEF TimersNext, StopsNext, GeneratorsNext
  <2> QED BY <1>1, <2>1, SameWhen DEF Linked
<1> QED BY <1>2, <1>3, <1>4 DEF TasksNext

LEMMA TasksWhenInvariance == TasksSafety => [](WhenInv /\ Linked)
<1>1. TasksInit => WhenInv /\ Linked
  <2>1. ASSUME TasksInit PROVE Linked
    BY <2>1, ChildrenAssumption, SleeperAssumption DEF TasksInit, TimerInit, RangeInit, Linked
  <2> QED BY <2>1, WhenInitInv DEF TasksInit
<1>2. ASSUME TimerInv, RangeInv, WhenInv, Linked, [TasksNext]_tasksVars PROVE (WhenInv /\ Linked)'
  <2>1. CASE TasksNext
    BY <1>2, <2>1, TasksWhenStep, WhenStepInv
  <2>2. CASE UNCHANGED tasksVars
    <3>1. UNCHANGED whenVars /\ UNCHANGED <<program, outcome, rangeAt, child>>
      BY <2>2 DEF tasksVars, whenVars, timerVars, rangeVars
    <3> QED BY <1>2, <3>1, SameWhen, WhenStepInv DEF Linked
  <2> QED BY <1>2, <2>1, <2>2
<1>3. TimerInv /\ RangeInv /\ WhenInv /\ Linked /\ [TasksNext]_tasksVars => (WhenInv /\ Linked)'
  BY <1>2
<1> QED BY <1>1, <1>3, TasksComponents, TimerInvariance, RangeInvariance, PTL DEF TasksSafety

(* The counter of a when_all or when_any is what its parent still waits    *)
(* for, whatever its children do (on_notify_one()).                        *)
THEOREM TasksCountChildren == TasksSpec => []WhenTypeOK
<1>1. WhenInv => WhenTypeOK
  BY DEF WhenInv
<1> QED BY <1>1, TasksWhenInvariance, TasksSpecSafety, PTL

(* when_all comes back when all of its children are over, with all of      *)
(* their values, when_any when one is, with that of the first and no       *)
(* other; with children that sleep, whose timers are cancelled, or lock,   *)
(* in any order, before the parent waits or after it.                      *)
THEOREM TasksRefineJoin == TasksSpec => ImplementsJoin
<1>1. TasksInit => J!Init
  BY WhenInitInv DEF TasksInit
<1>2. ASSUME TimerInv, RangeInv, WhenInv, Linked, [TasksNext]_tasksVars
      PROVE  J!Next \/ UNCHANGED joinVars
  <2>1. WhenStep
    <3>1. CASE TasksNext
      BY <1>2, <3>1, TasksWhenStep
    <3>2. CASE UNCHANGED tasksVars
      BY <1>2, <3>2, SameWhen DEF tasksVars
    <3> QED BY <1>2, <3>1, <3>2
  <2> QED BY <1>2, <2>1, WhenStepRefines
<1>3. TimerInv /\ RangeInv /\ WhenInv /\ Linked /\ [TasksNext]_tasksVars
        => [J!Next]_<<kind, group, Over, value \union ({winner} \ {Nobody}), parent = "after">>
  BY <1>2 DEF joinVars
<1> QED BY <1>1, <1>3, TasksWhenInvariance, TasksSpecSafety, TasksComponents, TimerInvariance, RangeInvariance,
           PTL DEF ImplementsJoin, J!Spec, TasksSafety
-----------------------------------------------------------------------------
(* The stop state.  A reference is counted for each callback that is held. *)
Held == {c \in Callback : cb[c] = "held"}

(* In the list stands, once, who has not been called; who is held and not  *)
(* called is there, or in the hands of request_stop().                     *)
ListOK ==
  /\ \A c \in Callback : Single(head, c)
  /\ \A c \in Callback : Stands(head, c) => cb[c] = "held" /\ ~finished[c]
  /\ \A c \in Callback : cb[c] = "held" /\ ~finished[c] =>
       Stands(head, c) \/ (c = job /\ stage \in {"popped", "calling"})
  /\ \A c \in Callback : cb[c] = "unborn" => ~finished[c]

(* What request_stop() knows of the callback it calls: it is gone if and   *)
(* only if the local `removed` says so, and until then points to it.       *)
JobOK ==
  /\ stage # "none" => requested /\ signalling \in Thread
  /\ stage \in {"popped", "calling"} => job \in Callback /\ ~Stands(head, job) /\ ~finished[job]
  /\ stage = "popped" => cb[job] = "held"
  /\ stage = "calling" =>
       cb[job] \in {"held", "dead"} /\ (cb[job] = "dead" <=> removed) /\ (~removed => isRemoved[job])
  /\ \A c \in Callback : isRemoved[c] /\ cb[c] # "dead" => c = job /\ stage = "calling"

(* Who is in the destructor of a callback that is out of the list, is the  *)
(* only one to be there, and is not the thread between two calls.          *)
LeaveOK ==
  /\ \A t \in Thread : leaving[t] # NoCallback => cb[leaving[t]] = "held" /\ ~Stands(head, leaving[t])
  /\ \A t, u \in Thread : leaving[t] # NoCallback /\ leaving[t] = leaving[u] => t = u
  /\ stage \in {"popped", "relock"} => leaving[signalling] = NoCallback

(* The types, without the count of the references that are no callback's.  *)
WordOK ==
  /\ requested \in BOOLEAN /\ deleted \in BOOLEAN
  /\ tokens \in 0..MaxTokens /\ sources \in 0..MaxSources

CallOK ==
  /\ head \in Seq(Callback)
  /\ signalling \in Thread \union {NoThread} /\ stage \in Stage
  /\ job \in Callback \union {NoCallback}
  /\ anyMore \in BOOLEAN /\ removed \in BOOLEAN
  /\ cb \in [Callback -> Fate]
  /\ finished \in [Callback -> BOOLEAN] /\ isRemoved \in [Callback -> BOOLEAN]
  /\ leaving \in [Thread -> Callback \union {NoCallback}]

CountOK == IsFiniteSet(Held) /\ Cardinality(Held) <= tokens

StopInv == WordOK /\ CallOK /\ CountOK /\ ListOK /\ JobOK /\ LeaveOK

LEMMA PlainIs ==
  ASSUME WordOK, IsFiniteSet(Held)
  PROVE  /\ Cardinality(Held) \in Nat /\ tokens \in Nat /\ Plain = tokens - Cardinality(Held)
         /\ Plain >= 0 <=> Cardinality(Held) <= tokens
         /\ Plain > 0 <=> Cardinality(Held) < tokens
<1>1. Cardinality(Held) \in Nat
  BY FS_CardinalityType
<1>2. tokens \in Nat
  BY CountsAssumption DEF WordOK
<1>3. Plain = tokens - Cardinality(Held)
  BY DEF Plain, Held
<1> QED BY <1>1, <1>2, <1>3

LEMMA HeldGrows ==
  ASSUME StopInv, NEW c \in Callback, cb[c] # "held", cb' = [cb EXCEPT ![c] = "held"]
  PROVE  IsFiniteSet(Held') /\ Cardinality(Held') = Cardinality(Held) + 1
<1>1. Held' = Held \union {c} /\ c \notin Held
  BY DEF Held, StopInv, CallOK
<1>2. IsFiniteSet(Held)
  BY DEF StopInv, CountOK
<1> QED BY <1>1, <1>2, FS_AddElement

LEMMA HeldShrinks ==
  ASSUME StopInv, NEW c \in Callback, cb[c] = "held", cb' = [cb EXCEPT ![c] = "dead"]
  PROVE  /\ IsFiniteSet(Held') /\ Cardinality(Held') = Cardinality(Held) - 1
         /\ Cardinality(Held) \in Nat /\ Cardinality(Held) > 0
<1>1. Held' = Held \ {c} /\ c \in Held
  BY DEF Held, StopInv, CallOK
<1>2. IsFiniteSet(Held) /\ Cardinality(Held) \in Nat
  BY FS_CardinalityType DEF StopInv, CountOK
<1>3. Cardinality(Held) # 0
  BY <1>1, <1>2, FS_EmptySet
<1> QED BY <1>1, <1>2, <1>3, FS_RemoveElement

(* A reference that goes with a callback: the counts go on counting.       *)
LEMMA ReferenceGoes ==
  ASSUME StopInv, NEW c \in Callback, cb[c] = "held", cb' = [cb EXCEPT ![c] = "dead"],
         tokens' = tokens - 1, UNCHANGED <<requested, sources>>, deleted' \in BOOLEAN
  PROVE  WordOK' /\ CountOK'
<1>1. /\ IsFiniteSet(Held') /\ Cardinality(Held') = Cardinality(Held) - 1
      /\ Cardinality(Held) \in Nat /\ Cardinality(Held) > 0
  BY HeldShrinks
<1>2. tokens \in Nat /\ tokens <= MaxTokens /\ MaxTokens \in Nat /\ Cardinality(Held) <= tokens
  BY CountsAssumption DEF StopInv, WordOK, CountOK
<1>3. tokens' \in 0..MaxTokens /\ Cardinality(Held') <= tokens'
  BY <1>1, <1>2
<1> QED BY <1>1, <1>3 DEF StopInv, WordOK, CountOK

LEMMA SameCount ==
  ASSUME StopInv, UNCHANGED <<requested, tokens, sources, deleted>>, \A c \in Callback : cb'[c] = "held" <=> cb[c] = "held"
  PROVE  WordOK' /\ CountOK'
<1>1. Held' = Held
  BY DEF Held
<1> QED BY <1>1 DEF StopInv, WordOK, CountOK

LEMMA PopFacts ==
  ASSUME StopInv, Pop
  PROVE  /\ head' \in Seq(Callback) /\ anyMore' \in BOOLEAN
         /\ \A c \in Callback : Single(head', c)
         /\ \/ /\ stage' = "done" /\ head' = head /\ job' = job
               /\ \A c \in Callback : ~Stands(head, c)
            \/ /\ stage' = "popped" /\ job' \in Callback
               /\ Stands(head, job')
               /\ \A c \in Callback : Stands(head', c) <=> Stands(head, c) /\ c # job'
<1>1. head \in Seq(Callback) /\ anyMore \in BOOLEAN /\ \A c \in Callback : Single(head, c)
  BY DEF StopInv, CallOK, ListOK
<1>2. CASE head = <<>>
  BY <1>1, <1>2 DEF Pop, Stands
<1>3. CASE head # <<>>
  <2>1. /\ stage' = "popped" /\ job' = Head(head) /\ head' = Tail(head) /\ anyMore' = (Tail(head) # <<>>)
    BY <1>3 DEF Pop
  <2>2. job' \in Callback /\ Stands(head, job') /\ head' \in Seq(Callback)
    BY <1>1, <1>3, <2>1, AtTheFront, FirstAndRest
  <2>3. ASSUME NEW c \in Callback
        PROVE  Single(head', c) /\ (Stands(head', c) <=> Stands(head, c) /\ c # job')
    BY <1>1, <1>3, <2>1, <2>2, AtTheFront
  <2> QED BY <2>1, <2>2, <2>3
<1> QED BY <1>2, <1>3

(* request_stop() takes a callback out of the list, at first and after     *)
(* each call.                                                              *)
LEMMA PopsInv ==
  ASSUME StopInv, (\E t \in Thread : Request(t)) \/ Relock
  PROVE  StopInv'
<1>1. /\ Pop /\ UNCHANGED <<tokens, sources, deleted, removed, cb, finished, isRemoved, leaving>>
      /\ requested' = TRUE /\ signalling' \in Thread /\ leaving[signalling'] = NoCallback
      /\ stage \notin {"popped", "calling"}
  <2>1. ASSUME NEW t \in Thread, Request(t)
        PROVE  /\ Pop /\ UNCHANGED <<tokens, sources, deleted, removed, cb, finished, isRemoved, leaving>>
               /\ requested' = TRUE /\ signalling' = t /\ leaving[t] = NoCallback
               /\ stage \notin {"popped", "calling"}
    <3>1. ~requested => stage = "none"
      BY DEF StopInv, JobOK
    <3> QED BY <2>1, <3>1 DEF Request, Free, stopBack
  <2>2. CASE Relock
    BY <2>2 DEF Relock, stopBack, stopWord, StopInv, JobOK, LeaveOK, WordOK
  <2> QED BY <2>1, <2>2
<1>2. /\ head' \in Seq(Callback) /\ anyMore' \in BOOLEAN
      /\ \A c \in Callback : Single(head', c)
      /\ \/ /\ stage' = "done" /\ head' = head /\ job' = job
            /\ \A c \in Callback : ~Stands(head, c)
         \/ /\ stage' = "popped" /\ job' \in Callback
            /\ Stands(head, job')
            /\ \A c \in Callback : Stands(head', c) <=> Stands(head, c) /\ c # job'
  BY <1>1, PopFacts
<1>3. WordOK' /\ CountOK'
  BY <1>1 DEF StopInv, WordOK, CountOK, Held
<1>4. CallOK'
  BY <1>1, <1>2 DEF StopInv, CallOK, Stage
<1>5. ListOK'
  BY <1>1, <1>2 DEF StopInv, ListOK
<1>6. JobOK'
  BY <1>1, <1>2 DEF StopInv, ListOK, JobOK
<1>7. LeaveOK'
  <2>1. \A c \in Callback : Stands(head', c) => Stands(head, c)
    BY <1>2
  <2>2. \A t \in Thread : leaving[t] # NoCallback => leaving[t] \in Callback
    BY DEF StopInv, CallOK
  <2> QED BY <1>1, <2>1, <2>2 DEF StopInv, LeaveOK
<1> QED BY <1>3, <1>4, <1>5, <1>6, <1>7 DEF StopInv

LEMMA CallInv ==
  ASSUME StopInv, Call
  PROVE  StopInv'
<1>1. /\ stage = "popped" /\ stage' = "calling" /\ removed' = FALSE
      /\ isRemoved' = [isRemoved EXCEPT ![job] = TRUE]
      /\ UNCHANGED <<requested, tokens, sources, deleted, signalling, job, anyMore, cb, finished, head, leaving>>
  BY DEF Call, stopWord
<1>2. /\ job \in Callback /\ cb[job] = "held" /\ isRemoved \in [Callback -> BOOLEAN]
      /\ \A c \in Callback : isRemoved[c] => cb[c] = "dead"
  BY <1>1 DEF StopInv, JobOK, CallOK
<1>3. WordOK' /\ CountOK'
  BY <1>1, SameCount
<1>4. CallOK'
  BY <1>1, <1>2 DEF StopInv, CallOK, Stage
<1>5. ListOK' /\ LeaveOK'
  BY <1>1 DEF StopInv, ListOK, LeaveOK
<1>6. JobOK'
  BY <1>1, <1>2 DEF StopInv, JobOK
<1> QED BY <1>3, <1>4, <1>5, <1>6 DEF StopInv

LEMMA ReturnInv ==
  ASSUME StopInv, Return
  PROVE  StopInv'
<1>1. /\ stage = "calling" /\ stage' \in {"relock", "done"} /\ leaving[signalling] = NoCallback
      /\ UNCHANGED <<requested, tokens, sources, deleted, signalling, job, anyMore, removed, cb, head, leaving>>
  BY DEF Return, Free, stopWord
<1>2. /\ job \in Callback /\ ~Stands(head, job) /\ (cb[job] = "dead" <=> removed)
      /\ cb[job] \in {"held", "dead"} /\ requested /\ signalling \in Thread
  BY <1>1 DEF StopInv, JobOK
<1>3. \/ removed /\ UNCHANGED <<isRemoved, finished>>
      \/ /\ ~removed /\ isRemoved' = [isRemoved EXCEPT ![job] = FALSE]
         /\ finished' = [finished EXCEPT ![job] = TRUE]
  BY DEF Return
<1>4. WordOK' /\ CountOK'
  BY <1>1, SameCount
<1>5. CallOK'
  BY <1>1, <1>2, <1>3 DEF StopInv, CallOK, Stage
<1>6. finished \in [Callback -> BOOLEAN] /\ isRemoved \in [Callback -> BOOLEAN]
  BY DEF StopInv, CallOK
<1>7. \A c \in Callback : c # job => finished'[c] = finished[c] /\ isRemoved'[c] = isRemoved[c]
  BY <1>3, <1>6
<1>8. cb[job] # "dead" => finished'[job] /\ ~isRemoved'[job]
  BY <1>2, <1>3, <1>6
<1>9. ListOK'
  BY <1>1, <1>2, <1>7, <1>8 DEF StopInv, ListOK
<1>10. JobOK'
  BY <1>1, <1>2, <1>7, <1>8 DEF StopInv, JobOK
<1>11. LeaveOK'
  BY <1>1 DEF StopInv, LeaveOK
<1> QED BY <1>4, <1>5, <1>9, <1>10, <1>11 DEF StopInv

LEMMA RegisterInv ==
  ASSUME StopInv, NEW t \in Thread, NEW c \in Callback, NEW moved \in BOOLEAN, Register(t, c, moved)
  PROVE  StopInv'
<1>1. /\ cb[c] = "unborn" /\ Plain > 0 /\ (moved \/ tokens < MaxTokens)
      /\ UNCHANGED <<requested, sources, deleted, signalling, stage, job, anyMore, removed>>
      /\ UNCHANGED <<finished, isRemoved, leaving>>
  BY DEF Register, stopCall
<1>2. /\ cb \in [Callback -> Fate] /\ head \in Seq(Callback) /\ ~finished[c] /\ ~Stands(head, c)
      /\ (stage \in {"popped", "calling"} => c # job) /\ \A u \in Thread : leaving[u] # c
  <2>1. cb \in [Callback -> Fate] /\ head \in Seq(Callback) /\ ~finished[c] /\ ~Stands(head, c)
    BY <1>1 DEF StopInv, CallOK, ListOK
  <2>2. stage \in {"popped", "calling"} => c # job
    BY <1>1 DEF StopInv, JobOK
  <2>3. \A u \in Thread : leaving[u] # c
    BY <1>1, NobodyAssumption DEF StopInv, LeaveOK
  <2> QED BY <2>1, <2>2, <2>3
<1>3. ASSUME NEW fate \in {"spent", "never"}, cb' = [cb EXCEPT ![c] = fate], UNCHANGED <<head, tokens>>
      PROVE  StopInv'
  <2>1. \A d \in Callback : cb'[d] = IF d = c THEN fate ELSE cb[d]
    BY <1>2, <1>3
  <2>2. WordOK' /\ CountOK'
    BY <1>1, <1>3, <2>1, SameCount
  <2>3. CallOK'
    BY <1>1, <1>3 DEF StopInv, CallOK, Fate
  <2>4. ListOK'
    BY <1>1, <1>2, <1>3, <2>1 DEF StopInv, ListOK
  <2>5. JobOK'
    BY <1>1, <1>2, <1>3, <2>1 DEF StopInv, JobOK
  <2>6. LeaveOK'
    <3>1. \A u \in Thread : leaving[u] # NoCallback => leaving[u] \in Callback /\ leaving[u] # c
      BY <1>2 DEF StopInv, CallOK
    <3> QED BY <1>1, <1>3, <2>1, <3>1 DEF StopInv, LeaveOK
  <2> QED BY <2>2, <2>3, <2>4, <2>5, <2>6 DEF StopInv
<1>4. ASSUME cb' = [cb EXCEPT ![c] = "held"], head' = <<c>> \o head,
             tokens' = IF moved THEN tokens ELSE tokens + 1
      PROVE  StopInv'
  <2>1. \A d \in Callback : cb'[d] = IF d = c THEN "held" ELSE cb[d]
    BY <1>2, <1>4
  <2>2. /\ head' \in Seq(Callback)
        /\ \A d \in Callback : Single(head', d) /\ (Stands(head', d) <=> Stands(head, d) \/ d = c)
    <3> DEFINE one == <<c>>
    <3>1. one \in Seq(Callback) /\ \A d \in Callback : Single(one, d) /\ (Stands(one, d) <=> d = c)
      BY DEF Single, Stands
    <3>2. head' = one \o head
      BY <1>4
    <3> HIDE DEF one
    <3>3. \A d \in Callback : Single(head, d) /\ ~(Stands(one, d) /\ Stands(head, d))
      BY <1>2, <3>1 DEF StopInv, ListOK
    <3>4. /\ one \o head \in Seq(Callback)
          /\ \A d \in Callback :
               Single(one \o head, d) /\ (Stands(one \o head, d) <=> Stands(one, d) \/ Stands(head, d))
      BY <1>2, <3>1, <3>3, Joined
    <3> QED BY <3>1, <3>2, <3>4
  <2>3. WordOK' /\ CountOK'
    <3>1. IsFiniteSet(Held') /\ Cardinality(Held') = Cardinality(Held) + 1
      BY <1>1, <1>4, HeldGrows
    <3>2. Cardinality(Held) \in Nat /\ tokens \in Nat /\ Cardinality(Held) < tokens
      BY <1>1, PlainIs DEF StopInv, CountOK
    <3>3. MaxTokens \in Nat /\ tokens <= MaxTokens
      BY CountsAssumption DEF StopInv, WordOK
    <3>4. tokens' \in 0..MaxTokens /\ Cardinality(Held') <= tokens'
      BY <1>1, <1>4, <3>1, <3>2, <3>3
    <3> QED BY <1>1, <3>1, <3>4 DEF StopInv, WordOK, CountOK
  <2>4. CallOK'
    BY <1>1, <1>4, <2>2 DEF StopInv, CallOK, Fate
  <2>5. ListOK'
    BY <1>1, <1>2, <2>1, <2>2 DEF StopInv, ListOK
  <2>6. JobOK'
    BY <1>1, <1>2, <2>1, <2>2 DEF StopInv, JobOK
  <2>7. LeaveOK'
    <3>1. \A u \in Thread : leaving[u] # NoCallback => leaving[u] \in Callback /\ leaving[u] # c
      BY <1>2 DEF StopInv, CallOK
    <3> QED BY <1>1, <2>1, <2>2, <3>1 DEF StopInv, LeaveOK
  <2> QED BY <2>3, <2>4, <2>5, <2>6, <2>7 DEF StopInv
<1> QED BY <1>3, <1>4 DEF Register

LEMMA DeregisterInv ==
  ASSUME StopInv, NEW t \in Thread, NEW c \in Callback, Deregister(t, c)
  PROVE  StopInv'
<1>1. /\ cb[c] = "held" /\ leaving[t] = NoCallback /\ (t = signalling => stage \notin {"popped", "relock"})
      /\ \A u \in Thread : leaving[u] # c
      /\ UNCHANGED <<requested, sources, signalling, stage, job, anyMore, removed, finished, isRemoved>>
  BY DEF Deregister, Free, stopCall
<1>2. /\ cb \in [Callback -> Fate] /\ head \in Seq(Callback) /\ \A d \in Callback : Single(head, d)
      /\ Contains(head, c) <=> Stands(head, c)
      /\ leaving \in [Thread -> Callback \union {NoCallback}]
  BY DEF StopInv, CallOK, ListOK, Contains, Stands
<1>3. ASSUME Stands(head, c), head' = RemoveFirst(head, c), cb' = [cb EXCEPT ![c] = "dead"],
             tokens' = tokens - 1, deleted' \in BOOLEAN, UNCHANGED leaving
      PROVE  StopInv'
  <2>1. \A d \in Callback : cb'[d] = IF d = c THEN "dead" ELSE cb[d]
    BY <1>2, <1>3
  <2>2. /\ head' \in Seq(Callback)
        /\ \A d \in Callback : Single(head', d) /\ (Stands(head', d) <=> Stands(head, d) /\ d # c)
    BY <1>2, <1>3, Erased
  <2>3. WordOK' /\ CountOK'
    BY <1>1, <1>3, ReferenceGoes
  <2>4. CallOK'
    BY <1>1, <1>3, <2>2 DEF StopInv, CallOK, Fate
  <2>5. ListOK'
    BY <1>1, <1>3, <2>1, <2>2 DEF StopInv, ListOK
  <2>6. JobOK'
    BY <1>1, <1>3, <2>1, <2>2 DEF StopInv, JobOK
  <2>7. LeaveOK'
    <3>1. \A u \in Thread : leaving[u] # NoCallback => leaving[u] \in Callback /\ leaving[u] # c
      BY <1>1, <1>2
    <3> QED BY <1>1, <1>3, <2>1, <2>2, <3>1 DEF StopInv, LeaveOK
  <2> QED BY <2>3, <2>4, <2>5, <2>6, <2>7 DEF StopInv
<1>4. ASSUME ~Stands(head, c), leaving' = [leaving EXCEPT ![t] = c], UNCHANGED <<head, cb, tokens, deleted>>
      PROVE  StopInv'
  <2>1. \A u \in Thread : leaving'[u] = IF u = t THEN c ELSE leaving[u]
    BY <1>2, <1>4
  <2>2. WordOK' /\ CountOK'
    BY <1>1, <1>4, SameCount
  <2>3. CallOK'
    BY <1>1, <1>4 DEF StopInv, CallOK
  <2>4. ListOK' /\ JobOK'
    BY <1>1, <1>4 DEF StopInv, ListOK, JobOK
  <2>5. LeaveOK'
    BY <1>1, <1>4, <2>1 DEF StopInv, LeaveOK
  <2> QED BY <2>2, <2>3, <2>4, <2>5 DEF StopInv
<1>5. (Word < kLockedAndZeroRef) \in BOOLEAN
  OBVIOUS
<1> QED BY <1>2, <1>3, <1>4, <1>5 DEF Deregister, UnlockAndRemoveToken

LEMMA LeaveFacts ==
  ASSUME StopInv, NEW t \in Thread, Leave(t)
  PROVE  \E c \in Callback :
           /\ c = leaving[t] /\ cb[c] = "held" /\ ~Stands(head, c)
           /\ cb' = [cb EXCEPT ![c] = "dead"] /\ leaving' = [leaving EXCEPT ![t] = NoCallback]
           /\ tokens' = tokens - 1 /\ deleted' \in BOOLEAN
           /\ UNCHANGED <<requested, sources, signalling, stage, job, anyMore, finished, isRemoved, head>>
           /\ IF stage = "calling" /\ c = job
              THEN removed' = TRUE
              ELSE stage = "popped" => c # job
           /\ ~(stage = "calling" /\ c = job) => removed' = removed /\ finished[c]
<1> DEFINE c == leaving[t]
<1>1. /\ c \in Callback /\ cb[c] = "held" /\ ~Stands(head, c) /\ finished[c] \in BOOLEAN
      /\ cb' = [cb EXCEPT ![c] = "dead"] /\ leaving' = [leaving EXCEPT ![t] = NoCallback]
      /\ UNCHANGED <<requested, sources, signalling, stage, job, anyMore, finished, isRemoved, head>>
      /\ \/ signalling = t /\ removed' = (removed \/ isRemoved[c])
         \/ signalling # t /\ finished[c] /\ removed' = removed
  BY DEF Leave, StopInv, CallOK, LeaveOK
<1>2. tokens' = tokens - 1 /\ deleted' \in BOOLEAN
  <2>1. (Word < kZeroRef) \in BOOLEAN
    OBVIOUS
  <2> QED BY <2>1 DEF Leave, RemoveToken
<1>3. CASE stage = "calling" /\ c = job
  <2>1. ~finished[c] /\ (removed \/ isRemoved[c])
    BY <1>1, <1>3 DEF StopInv, JobOK
  <2>2. removed' = TRUE
    BY <1>1, <2>1
  <2> QED BY <1>1, <1>2, <1>3, <2>2
<1>4. CASE ~(stage = "calling" /\ c = job)
  <2>1. ~(stage = "popped" /\ c = job)
    <3>1. SUFFICES ASSUME stage = "popped", c = job PROVE FALSE
      OBVIOUS
    <3>2. ~finished[c] /\ leaving[signalling] = NoCallback
      BY <3>1 DEF StopInv, JobOK, LeaveOK
    <3>3. leaving[t] # NoCallback
      BY DEF Leave
    <3> QED BY <1>1, <3>2, <3>3
  <2>2. finished[c]
    BY <1>1, <1>4, <2>1 DEF StopInv, ListOK
  <2>3. ~isRemoved[c]
    BY <1>1, <1>4 DEF StopInv, JobOK
  <2>4. removed' = removed
    <3>1. removed \in BOOLEAN
      BY DEF StopInv, CallOK
    <3> QED BY <1>1, <2>3, <3>1
  <2> QED BY <1>1, <1>2, <1>4, <2>1, <2>2, <2>4
<1> QED BY <1>3, <1>4

LEMMA LeaveInv ==
  ASSUME StopInv, NEW t \in Thread, Leave(t)
  PROVE  StopInv'
<1>1. PICK c \in Callback :
           /\ c = leaving[t] /\ cb[c] = "held" /\ ~Stands(head, c)
           /\ cb' = [cb EXCEPT ![c] = "dead"] /\ leaving' = [leaving EXCEPT ![t] = NoCallback]
           /\ tokens' = tokens - 1 /\ deleted' \in BOOLEAN
           /\ UNCHANGED <<requested, sources, signalling, stage, job, anyMore, finished, isRemoved, head>>
           /\ IF stage = "calling" /\ c = job
              THEN removed' = TRUE
              ELSE stage = "popped" => c # job
           /\ ~(stage = "calling" /\ c = job) => removed' = removed /\ finished[c]
  BY LeaveFacts
<1>2. /\ cb \in [Callback -> Fate] /\ leaving \in [Thread -> Callback \union {NoCallback}]
      /\ NoCallback \notin Callback
  BY NobodyAssumption DEF StopInv, CallOK
<1>3. /\ \A d \in Callback : cb'[d] = IF d = c THEN "dead" ELSE cb[d]
      /\ \A u \in Thread : leaving'[u] = IF u = t THEN NoCallback ELSE leaving[u]
  BY <1>1, <1>2
<1>4. WordOK' /\ CountOK'
  BY <1>1, ReferenceGoes
<1>5. CallOK'
  <2>1. removed' \in BOOLEAN
    BY <1>1 DEF StopInv, CallOK
  <2> QED BY <1>1, <2>1 DEF StopInv, CallOK, Fate
<1>6. ListOK'
  BY <1>1, <1>3 DEF StopInv, ListOK
<1>7. JobOK'
  <2>1. CASE stage = "calling" /\ c = job
    BY <1>1, <1>3, <2>1 DEF StopInv, JobOK
  <2>2. CASE ~(stage = "calling" /\ c = job)
    BY <1>1, <1>3, <2>2 DEF StopInv, JobOK
  <2> QED BY <2>1, <2>2
<1>8. LeaveOK'
  <2>1. \A u \in Thread : leaving'[u] # NoCallback =>
          leaving'[u] = leaving[u] /\ leaving[u] \in Callback /\ leaving[u] # c
    BY <1>1, <1>2, <1>3 DEF StopInv, LeaveOK
  <2>2. stage \in {"popped", "relock"} => leaving'[signalling] = NoCallback
    BY <1>3 DEF StopInv, LeaveOK, JobOK
  <2> QED BY <1>1, <1>3, <2>1, <2>2 DEF StopInv, LeaveOK
<1> QED BY <1>4, <1>5, <1>6, <1>7, <1>8 DEF StopInv

LEMMA DiscardInv ==
  ASSUME StopInv, NEW t \in Thread, NEW c \in Callback, Discard(t, c)
  PROVE  StopInv'
<1>1. /\ cb[c] \in {"spent", "never"} /\ cb' = [cb EXCEPT ![c] = "dead"] /\ cb \in [Callback -> Fate]
      /\ UNCHANGED <<requested, tokens, sources, deleted, signalling, stage, job, anyMore, removed>>
      /\ UNCHANGED <<finished, isRemoved, head, leaving>>
  BY DEF Discard, stopWord, stopCall, StopInv, CallOK
<1>2. \A d \in Callback : cb'[d] = IF d = c THEN "dead" ELSE cb[d]
  BY <1>1
<1>3. WordOK' /\ CountOK'
  BY <1>1, <1>2, SameCount
<1>4. CallOK'
  BY <1>1 DEF StopInv, CallOK, Fate
<1>5. ListOK'
  BY <1>1, <1>2 DEF StopInv, ListOK
<1>6. JobOK'
  BY <1>1, <1>2 DEF StopInv, JobOK
<1>7. LeaveOK'
  <2>1. \A u \in Thread : leaving[u] # NoCallback => leaving[u] \in Callback /\ leaving[u] # c
    BY <1>1 DEF StopInv, CallOK, LeaveOK
  <2> QED BY <1>1, <1>2, <2>1 DEF StopInv, LeaveOK
<1> QED BY <1>3, <1>4, <1>5, <1>6, <1>7 DEF StopInv

LEMMA RefersInv ==
  ASSUME StopInv, NEW t \in Thread, Refers(t)
  PROVE  StopInv'
<1>1. UNCHANGED onlyWord
  BY DEF Refers, CopySource, DropSource, GetToken, DropToken
<1>2. WordOK' /\ Cardinality(Held) <= tokens'
  <2>1. /\ tokens \in Nat /\ tokens <= MaxTokens /\ MaxTokens \in Nat
        /\ sources \in Nat /\ sources <= MaxSources /\ MaxSources \in Nat
        /\ requested \in BOOLEAN /\ requested' = requested /\ deleted \in BOOLEAN
        /\ Cardinality(Held) \in Nat /\ Cardinality(Held) <= tokens
        /\ Plain > 0 => Cardinality(Held) < tokens
    BY <1>1, CountsAssumption, PlainIs DEF StopInv, WordOK, CountOK, onlyWord
  <2>2. (Word < kZeroRef) \in BOOLEAN
    OBVIOUS
  <2>3. CASE CopySource(t)
    BY <2>1, <2>3 DEF CopySource, WordOK
  <2>4. CASE DropSource(t)
    <3>1. sources > 0
      BY <2>1, <2>4 DEF DropSource
    <3> QED BY <2>1, <2>2, <2>4, <3>1 DEF DropSource, WordOK
  <2>5. CASE GetToken(t)
    BY <2>1, <2>5 DEF GetToken, WordOK
  <2>6. CASE DropToken(t)
    BY <2>1, <2>2, <2>6 DEF DropToken, RemoveToken, WordOK
  <2> QED BY <2>3, <2>4, <2>5, <2>6 DEF Refers
<1>3. /\ UNCHANGED <<signalling, stage, job, anyMore, removed, cb, finished, isRemoved, head, leaving>>
      /\ requested' = requested
  BY <1>1 DEF onlyWord, stopCall, stopBack
<1>4. CountOK'
  BY <1>2, <1>3 DEF StopInv, CountOK, Held
<1>5. CallOK' /\ ListOK' /\ JobOK' /\ LeaveOK'
  BY <1>3 DEF StopInv, CallOK, ListOK, JobOK, LeaveOK
<1> QED BY <1>2, <1>4, <1>5 DEF StopInv

StopSafety == StopInit /\ [][StopNext]_stopVars

LEMMA StopInitInv == StopInit => StopInv
<1> SUFFICES ASSUME StopInit PROVE StopInv
  OBVIOUS
<1>1. Held = {} /\ IsFiniteSet(Held) /\ Cardinality(Held) = 0
  BY FS_EmptySet DEF StopInit, Held
<1>2. WordOK /\ CountOK
  <2>1. MaxTokens \in Nat /\ MaxSources \in Nat /\ MaxSources # 0
    BY CountsAssumption
  <2>2. tokens \in 0..MaxTokens /\ sources \in 0..MaxSources /\ Cardinality(Held) <= tokens
    BY <1>1, <2>1 DEF StopInit
  <2> QED BY <1>1, <2>2 DEF StopInit, WordOK, CountOK
<1>3. CallOK
  <2>1. head \in Seq(Callback)
    BY DEF StopInit
  <2>2. cb \in [Callback -> Fate] /\ leaving \in [Thread -> Callback \union {NoCallback}]
    BY DEF StopInit, Fate
  <2>3. finished \in [Callback -> BOOLEAN] /\ isRemoved \in [Callback -> BOOLEAN]
    BY DEF StopInit
  <2>4. /\ signalling \in Thread \union {NoThread} /\ stage \in Stage
        /\ job \in Callback \union {NoCallback} /\ anyMore \in BOOLEAN /\ removed \in BOOLEAN
    BY DEF StopInit, Stage
  <2> QED BY <2>1, <2>2, <2>3, <2>4 DEF CallOK
<1>4. ListOK /\ JobOK /\ LeaveOK
  BY DEF StopInit, ListOK, JobOK, LeaveOK, Single, Stands
<1> QED BY <1>2, <1>3, <1>4 DEF StopInv

LEMMA StopNextInv == ASSUME StopInv, StopNext PROVE StopInv'
BY PopsInv, CallInv, ReturnInv, RegisterInv, DeregisterInv, LeaveInv, DiscardInv, RefersInv
DEF StopNext, Signals, Comes, Goes

LEMMA StopStutterInv == ASSUME StopInv, UNCHANGED stopVars PROVE StopInv'
<1>1. /\ UNCHANGED <<requested, tokens, sources, deleted>>
      /\ UNCHANGED <<signalling, stage, job, anyMore, removed, cb, finished, isRemoved, head, leaving>>
  BY DEF stopVars, stopWord, stopCall, stopBack
<1> QED BY <1>1 DEF StopInv, WordOK, CallOK, CountOK, Held, ListOK, JobOK, LeaveOK

LEMMA StopInvariance == StopSafety => []StopInv
<1>1. StopInv /\ [StopNext]_stopVars => StopInv'
  BY StopNextInv, StopStutterInv
<1> QED BY <1>1, StopInitInv, PTL DEF StopSafety

(* The reference counts of a stop state stay in their bounds, and cover    *)
(* those of the callbacks.                                                 *)
THEOREM StopTypeCorrect == StopSafety => []StopTypeOK
<1>1. ASSUME StopInv PROVE StopTypeOK
  BY <1>1, PlainIs DEF StopInv, CountOK, WordOK, CallOK, StopTypeOK
<1> QED BY <1>1, StopInvariance, PTL

(* request_stop() calls only callbacks that are there, and writes to none  *)
(* that is gone, whichever thread takes a callback away, its own body      *)
(* included (request_stop(), remove_callback()).                           *)
THEOREM StopTouches == StopSafety => TouchesOnlyLive
<1>1. ASSUME StopInv PROVE WhoIsLive
  <2>1. \A c \in ToSet(head) : c \in Callback /\ Stands(head, c)
    <3>1. head \in Seq(Callback)
      BY <1>1 DEF StopInv, CallOK
    <3> QED BY <3>1, ElementOfSeq, LenProperties DEF ToSet, Stands
  <2>2. \A c \in ToSet(head) : cb[c] = "held" /\ ~finished[c]
    BY <1>1, <2>1 DEF StopInv, ListOK
  <2> QED BY <1>1, <2>2 DEF StopInv, JobOK, LeaveOK, WhoIsLive
<1>2. ASSUME StopInv, [StopNext]_stopVars, NEW c \in Callback, cb[c] = "dead"
      PROVE  isRemoved'[c] = isRemoved[c] /\ finished'[c] = finished[c]
  <2>1. CASE Call
    <3>1. job \in Callback /\ cb[job] = "held" /\ isRemoved \in [Callback -> BOOLEAN]
      BY <1>2, <2>1 DEF Call, StopInv, JobOK, CallOK
    <3> QED BY <1>2, <2>1, <3>1 DEF Call
  <2>2. CASE Return
    <3>1. /\ cb[job] = "dead" <=> removed
          /\ isRemoved \in [Callback -> BOOLEAN] /\ finished \in [Callback -> BOOLEAN]
      BY <1>2, <2>2 DEF Return, StopInv, JobOK, CallOK
    <3> QED BY <1>2, <2>2, <3>1 DEF Return
  <2>3. CASE UNCHANGED <<isRemoved, finished>>
    BY <2>3
  <2>4. CASE (\E t \in Thread : Request(t)) \/ Relock
    BY <2>3, <2>4 DEF Request, Relock, stopBack
  <2>5. ASSUME NEW t \in Thread, Comes(t) \/ Goes(t) PROVE UNCHANGED <<isRemoved, finished>>
    BY <2>5 DEF Comes, Goes, Register, Deregister, Discard
  <2>6. ASSUME NEW t \in Thread, Leave(t) \/ Refers(t) PROVE UNCHANGED <<isRemoved, finished>>
    BY <2>6 DEF Leave, Refers, CopySource, DropSource, GetToken, DropToken, onlyWord, stopBack
  <2>7. CASE UNCHANGED stopVars
    BY <2>3, <2>7 DEF stopVars, stopBack
  <2> QED BY <1>2, <2>1, <2>2, <2>3, <2>4, <2>5, <2>6, <2>7 DEF StopNext, Signals
<1>3. StopInv /\ [StopNext]_stopVars =>
        [\A c \in Callback : cb[c] = "dead" =>
           isRemoved'[c] = isRemoved[c] /\ finished'[c] = finished[c]]_stopVars
  BY <1>2
<1> QED BY <1>1, <1>3, StopInvariance, PTL DEF TouchesOnlyLive, StopSafety
-----------------------------------------------------------------------------
(* The callbacks of the abstract specification. *)
Phases == [c \in Callback |-> Phase(c)]

LEMMA PhaseIs ==
  ASSUME NEW c \in Callback
  PROVE  /\ cb[c] = "unborn" => Phases[c] = "out"
         /\ cb[c] = "never" => Phases[c] = "never"
         /\ cb[c] = "spent" => Phases[c] = "ran"
         /\ cb[c] = "dead" => Phases[c] = IF Running(c) THEN "quitting" ELSE "left"
         /\ cb[c] = "held" => Phases[c] = IF Running(c) THEN "running" ELSE IF finished[c] THEN "ran" ELSE "in"
BY DEF Phases, Phase

LEMMA PhaseWillBe ==
  ASSUME NEW c \in Callback
  PROVE  /\ cb'[c] = "unborn" => Phases'[c] = "out"
         /\ cb'[c] = "never" => Phases'[c] = "never"
         /\ cb'[c] = "spent" => Phases'[c] = "ran"
         /\ cb'[c] = "dead" => Phases'[c] = IF Running(c)' THEN "quitting" ELSE "left"
         /\ cb'[c] = "held" => Phases'[c] = IF Running(c)' THEN "running" ELSE IF finished'[c] THEN "ran" ELSE "in"
BY DEF Phases, Phase

LEMMA SamePhase ==
  ASSUME NEW c \in Callback, cb'[c] = cb[c], finished'[c] = finished[c], Running(c)' <=> Running(c)
  PROVE  Phases'[c] = Phases[c]
<1>1. Phases[c] = Phase(c) /\ Phases'[c] = Phase(c)'
  BY DEF Phases
<1>2. CASE Running(c)
  BY <1>1, <1>2 DEF Phase
<1>3. CASE ~Running(c)
  BY <1>1, <1>3 DEF Phase
<1> QED BY <1>2, <1>3

LEMMA SamePhases ==
  ASSUME \A c \in Callback : Phases'[c] = Phases[c]
  PROVE  Phases' = Phases
BY DEF Phases

(* A callback that comes from one phase to another. *)
LEMMA PhaseTurns ==
  ASSUME NEW c \in Callback, NEW from, NEW to, UNCHANGED requested, Phases[c] \in from, Phases'[c] = to,
         \A d \in Callback \ {c} : Phases'[d] = Phases[d]
  PROVE  Signal!Turns(c, from, to)
<1>1. Phases' = [Phases EXCEPT ![c] = to]
  BY DEF Phases
<1> QED BY <1>1 DEF Signal!Turns, Phases

SignalStep == Signal!Next \/ (UNCHANGED requested /\ Phases' = Phases)

LEMMA PopsRefine ==
  ASSUME StopInv, (\E t \in Thread : Request(t)) \/ Relock
  PROVE  SignalStep
<1>1. /\ Pop /\ UNCHANGED <<cb, finished>> /\ stage \notin {"popped", "calling"}
      /\ (~requested /\ requested') \/ requested' = requested
  <2>1. ~requested => stage = "none"
    BY DEF StopInv, JobOK
  <2> QED BY <2>1 DEF Request, Relock, stopBack, stopWord
<1>2. stage' # "calling"
  BY <1>1, PopFacts
<1>3. \A c \in Callback : Running(c)' <=> Running(c)
  BY <1>1, <1>2 DEF Running
<1>4. Phases' = Phases
  BY <1>1, <1>3, SamePhase, SamePhases
<1>5. CASE ~requested /\ requested'
  <2>1. requested' = TRUE
    BY <1>5 DEF Request, Relock, stopWord
  <2>2. Signal!Ask
    BY <1>4, <1>5, <2>1 DEF Signal!Ask, Phases
  <2> QED BY <2>2 DEF SignalStep, Signal!Next
<1>6. CASE requested' = requested
  BY <1>4, <1>6 DEF SignalStep
<1> QED BY <1>1, <1>5, <1>6

LEMMA CallRefines ==
  ASSUME StopInv, Call
  PROVE  SignalStep
<1>1. /\ stage = "popped" /\ stage' = "calling"
      /\ UNCHANGED <<requested, job, cb, finished>>
  BY DEF Call, stopWord
<1>2. job \in Callback /\ cb[job] = "held" /\ ~finished[job] /\ requested
  BY <1>1 DEF StopInv, JobOK
<1>3. \A c \in Callback : ~Running(c) /\ (Running(c)' <=> c = job)
  BY <1>1 DEF Running
<1>4. Phases[job] = "in" /\ Phases'[job] = "running"
  BY <1>1, <1>2, <1>3, PhaseIs, PhaseWillBe
<1>5. \A d \in Callback \ {job} : Phases'[d] = Phases[d]
  BY <1>1, <1>3, SamePhase
<1>6. Signal!Turns(job, {"in"}, "running")
  BY <1>1, <1>2, <1>4, <1>5, PhaseTurns
<1> QED BY <1>2, <1>6 DEF SignalStep, Signal!Next, Signal!Begin

LEMMA ReturnRefines ==
  ASSUME StopInv, Return
  PROVE  SignalStep
<1>1. /\ stage = "calling" /\ stage' # "calling"
      /\ UNCHANGED <<requested, job, cb>>
  BY DEF Return, stopWord
<1>2. /\ job \in Callback /\ (cb[job] = "dead" <=> removed) /\ cb[job] \in {"held", "dead"}
      /\ finished \in [Callback -> BOOLEAN]
  BY <1>1 DEF StopInv, JobOK, CallOK
<1>3. \A c \in Callback : ~Running(c)' /\ (Running(c) <=> c = job)
  BY <1>1 DEF Running
<1>4. /\ \A d \in Callback : d # job => finished'[d] = finished[d]
      /\ ~removed => finished'[job]
  BY <1>2 DEF Return
<1>5. \A d \in Callback \ {job} : Phases'[d] = Phases[d]
  BY <1>1, <1>3, <1>4, SamePhase
<1>6. CASE removed
  <2>1. Phases[job] = "quitting" /\ Phases'[job] = "left"
    BY <1>1, <1>2, <1>3, <1>6, PhaseIs, PhaseWillBe
  <2>2. Signal!Turns(job, {"quitting"}, "left")
    BY <1>1, <1>2, <1>5, <2>1, PhaseTurns
  <2> QED BY <1>2, <2>2 DEF SignalStep, Signal!Next, Signal!End
<1>7. CASE ~removed
  <2>1. Phases[job] = "running" /\ Phases'[job] = "ran"
    BY <1>1, <1>2, <1>3, <1>4, <1>7, PhaseIs, PhaseWillBe
  <2>2. Signal!Turns(job, {"running"}, "ran")
    BY <1>1, <1>2, <1>5, <2>1, PhaseTurns
  <2> QED BY <1>2, <2>2 DEF SignalStep, Signal!Next, Signal!End
<1> QED BY <1>6, <1>7

LEMMA RegisterRefines ==
  ASSUME StopInv, NEW t \in Thread, NEW c \in Callback, NEW moved \in BOOLEAN, Register(t, c, moved)
  PROVE  SignalStep
<1>1. /\ cb[c] = "unborn" /\ cb \in [Callback -> Fate]
      /\ UNCHANGED <<requested, stage, job, finished>>
  BY DEF Register, stopCall, StopInv, CallOK
<1>2. ~finished[c] /\ (stage = "calling" => c # job)
  BY <1>1 DEF StopInv, ListOK, JobOK
<1>3. \A d \in Callback : Running(d)' <=> Running(d)
  BY <1>1 DEF Running
<1>4. ~Running(c)
  BY <1>2 DEF Running
<1>5. ASSUME NEW fate, cb' = [cb EXCEPT ![c] = fate]
      PROVE  /\ cb'[c] = fate /\ Phases[c] = "out"
             /\ \A d \in Callback \ {c} : Phases'[d] = Phases[d]
  BY <1>1, <1>3, <1>5, SamePhase, PhaseIs
<1>6. CASE requested /\ cb' = [cb EXCEPT ![c] = "spent"]
  <2>1. Phases'[c] = "ran"
    BY <1>5, <1>6, PhaseWillBe
  <2>2. Signal!Turns(c, {"out"}, "ran")
    BY <1>1, <1>5, <1>6, <2>1, PhaseTurns
  <2> QED BY <1>6, <2>2 DEF SignalStep, Signal!Next, Signal!Join
<1>7. CASE ~requested /\ cb' = [cb EXCEPT ![c] = "never"]
  <2>1. Phases'[c] = "never"
    BY <1>5, <1>7, PhaseWillBe
  <2>2. Signal!Turns(c, {"out"}, "never")
    BY <1>1, <1>5, <1>7, <2>1, PhaseTurns
  <2> QED BY <1>7, <2>2 DEF SignalStep, Signal!Next, Signal!Join
<1>8. CASE ~requested /\ cb' = [cb EXCEPT ![c] = "held"]
  <2>1. ~Running(c)' /\ ~finished'[c]
    BY <1>1, <1>2, <1>3, <1>4
  <2>2. Phases'[c] = "in"
    BY <1>5, <1>8, <2>1, PhaseWillBe
  <2>3. Signal!Turns(c, {"out"}, "in")
    BY <1>1, <1>5, <1>8, <2>2, PhaseTurns
  <2> QED BY <1>8, <2>3 DEF SignalStep, Signal!Next, Signal!Join
<1> QED BY <1>6, <1>7, <1>8 DEF Register

LEMMA DeregisterRefines ==
  ASSUME StopInv, NEW t \in Thread, NEW c \in Callback, Deregister(t, c)
  PROVE  SignalStep
<1>1. cb[c] = "held" /\ cb \in [Callback -> Fate] /\ UNCHANGED <<requested, stage, job, finished>>
  BY DEF Deregister, stopCall, StopInv, CallOK
<1>2. \A d \in Callback : Running(d)' <=> Running(d)
  BY <1>1 DEF Running
<1>3. CASE Contains(head, c)
  <2>1. cb' = [cb EXCEPT ![c] = "dead"] /\ Stands(head, c)
    BY <1>3 DEF Deregister, Contains, Stands
  <2>2. ~Running(c) /\ ~finished[c]
    BY <2>1 DEF Running, StopInv, ListOK, JobOK
  <2>3. cb'[c] = "dead" /\ ~Running(c)'
    BY <1>1, <1>2, <2>1, <2>2
  <2>4. Phases[c] = "in" /\ Phases'[c] = "left"
    BY <1>1, <2>2, <2>3, PhaseIs, PhaseWillBe
  <2>5. \A d \in Callback \ {c} : Phases'[d] = Phases[d]
    BY <1>1, <1>2, <2>1, SamePhase
  <2>6. Signal!Turns(c, {"in", "ran", "never"}, "left")
    BY <1>1, <2>4, <2>5, PhaseTurns
  <2> QED BY <2>6 DEF SignalStep, Signal!Next, Signal!Leave
<1>4. CASE ~Contains(head, c)
  <2>1. cb' = cb
    BY <1>4 DEF Deregister
  <2> QED BY <1>1, <1>2, <2>1, SamePhase, SamePhases DEF SignalStep
<1> QED BY <1>3, <1>4

LEMMA LeaveRefines ==
  ASSUME StopInv, NEW t \in Thread, Leave(t)
  PROVE  SignalStep
<1>1. PICK c \in Callback :
           /\ c = leaving[t] /\ cb[c] = "held" /\ ~Stands(head, c)
           /\ cb' = [cb EXCEPT ![c] = "dead"] /\ leaving' = [leaving EXCEPT ![t] = NoCallback]
           /\ tokens' = tokens - 1 /\ deleted' \in BOOLEAN
           /\ UNCHANGED <<requested, sources, signalling, stage, job, anyMore, finished, isRemoved, head>>
           /\ IF stage = "calling" /\ c = job
              THEN removed' = TRUE
              ELSE stage = "popped" => c # job
           /\ ~(stage = "calling" /\ c = job) => removed' = removed /\ finished[c]
  BY LeaveFacts
<1>2. /\ \A d \in Callback : cb'[d] = IF d = c THEN "dead" ELSE cb[d]
  BY <1>1 DEF StopInv, CallOK
<1>3. \A d \in Callback : Running(d)' <=> Running(d)
  BY <1>1 DEF Running
<1>4. \A d \in Callback \ {c} : Phases'[d] = Phases[d]
  BY <1>1, <1>2, <1>3, SamePhase
<1>5. CASE Running(c)
  <2>1. Phases[c] = "running" /\ Phases'[c] = "quitting"
    BY <1>1, <1>2, <1>3, <1>5, PhaseIs, PhaseWillBe
  <2>2. Signal!Turns(c, {"running"}, "quitting")
    BY <1>1, <1>4, <2>1, PhaseTurns
  <2> QED BY <2>2 DEF SignalStep, Signal!Next, Signal!Quit
<1>6. CASE ~Running(c)
  <2>1. finished[c]
    BY <1>1, <1>6 DEF Running
  <2>2. Phases[c] = "ran" /\ Phases'[c] = "left"
    BY <1>1, <1>2, <1>3, <1>6, <2>1, PhaseIs, PhaseWillBe
  <2>3. Signal!Turns(c, {"in", "ran", "never"}, "left")
    BY <1>1, <1>4, <2>2, PhaseTurns
  <2> QED BY <2>3 DEF SignalStep, Signal!Next, Signal!Leave
<1> QED BY <1>5, <1>6

LEMMA DiscardRefines ==
  ASSUME StopInv, NEW t \in Thread, NEW c \in Callback, Discard(t, c)
  PROVE  SignalStep
<1>1. /\ cb[c] \in {"spent", "never"} /\ UNCHANGED <<requested, stage, job, finished>>
      /\ \A d \in Callback : cb'[d] = IF d = c THEN "dead" ELSE cb[d]
  BY DEF Discard, stopWord, stopCall, StopInv, CallOK
<1>2. \A d \in Callback : Running(d)' <=> Running(d)
  BY <1>1 DEF Running
<1>3. ~Running(c)
  BY <1>1 DEF Running, StopInv, JobOK
<1>4. Phases[c] \in {"in", "ran", "never"} /\ Phases'[c] = "left"
  BY <1>1, <1>2, <1>3, PhaseIs, PhaseWillBe
<1>5. \A d \in Callback \ {c} : Phases'[d] = Phases[d]
  BY <1>1, <1>2, SamePhase
<1>6. Signal!Turns(c, {"in", "ran", "never"}, "left")
  BY <1>1, <1>4, <1>5, PhaseTurns
<1> QED BY <1>6 DEF SignalStep, Signal!Next, Signal!Leave

LEMMA QuietRefines ==
  ASSUME UNCHANGED <<requested, stage, job, cb, finished>>
  PROVE  SignalStep
<1>1. \A d \in Callback : Running(d)' <=> Running(d)
  BY DEF Running
<1> QED BY <1>1, SamePhase, SamePhases DEF SignalStep

LEMMA StopStepRefines ==
  ASSUME StopInv, [StopNext]_stopVars
  PROVE  SignalStep
<1>1. CASE UNCHANGED stopVars
  BY <1>1, QuietRefines DEF stopVars, stopWord, stopCall, stopBack
<1>2. ASSUME NEW t \in Thread, Refers(t) PROVE SignalStep
  BY <1>2, QuietRefines
  DEF Refers, CopySource, DropSource, GetToken, DropToken, onlyWord, stopCall, stopBack
<1> QED BY <1>1, <1>2, PopsRefine, CallRefines, ReturnRefines, RegisterRefines, DeregisterRefines,
           LeaveRefines, DiscardRefines DEF StopNext, Signals, Comes, Goes

(* A callback runs at most once, only after a stop was asked for, and does *)
(* not run once its destructor has returned, whichever threads register    *)
(* it, run it and destroy it.                                              *)
THEOREM StopRefines == StopSafety => ImplementsStop
<1>1. StopInit => Signal!Init
  <2>1. ASSUME StopInit, NEW c \in Callback PROVE Phase(c) = "out"
    BY <2>1 DEF StopInit, Phase
  <2> QED BY <2>1 DEF StopInit, Signal!Init
<1>2. StopInv /\ [StopNext]_stopVars => [Signal!Next]_<<requested, [c \in Callback |-> Phase(c)]>>
  <2> SUFFICES ASSUME StopInv, [StopNext]_stopVars
               PROVE  [Signal!Next]_<<requested, [c \in Callback |-> Phase(c)]>>
    OBVIOUS
  <2> QED BY StopStepRefines DEF SignalStep, Phases
<1> QED BY <1>1, <1>2, StopInvariance, PTL DEF ImplementsStop, Signal!Spec, StopSafety

(* In the programs of Tasks, too: what else they are made of leaves the    *)
(* stop state alone.                                                       *)
LEMMA TasksStop == TasksSpec => StopSafety
<1>1. TasksInit => StopInit
  BY DEF TasksInit
<1>2. [TasksNext]_tasksVars => [StopNext]_stopVars
  BY DEF TasksNext, TimersNext, SleepNext, LockNext, StopsNext, GeneratorsNext, tasksVars
<1> QED BY <1>1, <1>2, PTL DEF TasksSpec, StopSafety

(* The programs of Tasks that share a stop state write to no callback that *)
(* is gone (request_stop(), remove_callback()).                            *)
THEOREM TasksTouchOnlyLive == TasksSpec => TouchesOnlyLive
BY TasksStop, StopTouches, PTL

(* In them a callback runs at most once, after a stop was asked for and    *)
(* before its destructor returned.                                         *)
THEOREM TasksRefineStop == TasksSpec => ImplementsStop
BY TasksStop, StopRefines, PTL
-----------------------------------------------------------------------------
(* The generators.  Those that run as tasks stand in the two vectors of    *)
(* the scheduler, as if these were one queue.                              *)
Row == batch \o cached

GenTypes ==
  /\ frame \in [Gen -> {"new", "suspended", "done", "gone"}]
  /\ currentValue \in [Gen -> Nat]
  /\ \A g \in Gen : currentValue[g] <= Yields[g] + 1
  /\ iter \in [Gen -> {"none", "value", "end", "left"}]
  /\ got \in [Gen -> Seq(Nat)]
  /\ batch \in Seq(Gen) /\ cached \in Seq(Gen)

RowOK ==
  /\ \A g \in Gen : Single(Row, g)
  /\ ready \subseteq Gen
  /\ \A g \in Gen : g \in ready <=> Stands(Row, g)

(* A loop has read what its generator has yielded, a task is read by none. *)
FrameOK(g) ==
  /\ frame[g] = "new" => currentValue[g] = 0 /\ iter[g] = "none"
  /\ frame[g] = "suspended" =>
       currentValue[g] \in 1..Yields[g] /\ iter[g] \in {"none", "value"}
  /\ frame[g] = "done" => currentValue[g] = Yields[g] + 1 /\ iter[g] \in {"value", "end"}
  /\ iter[g] = "none" => got[g] = <<>> /\ (frame[g] = "suspended" => g \in ready)
  /\ iter[g] = "value" =>
       frame[g] \in {"suspended", "done"} /\ Len(got[g]) = currentValue[g] /\ Yields[g] > 0
  /\ g \in ready => frame[g] \in {"new", "suspended"} /\ iter[g] = "none"
  /\ \A i \in 1..Len(got[g]) : got[g][i] = i

GenInv == GenTypes /\ RowOK /\ \A g \in Gen : FrameOK(g)

LEMMA SameFrame ==
  ASSUME NEW g \in Gen, FrameOK(g), frame'[g] = frame[g], currentValue'[g] = currentValue[g],
         iter'[g] = iter[g], got'[g] = got[g], g \in ready' <=> g \in ready
  PROVE  FrameOK(g)'
BY DEF FrameOK

(* What the abstract specification sees of a generator.                    *)
Vals == [g \in Gen |-> IF iter[g] = "none" THEN currentValue[g] ELSE InOrder(g)]
Fates == [g \in Gen |-> GenFate(g)]

LEMMA CountsUp ==
  ASSUME NEW s \in Seq(Nat), \A i \in 1..Len(s) : s[i] = i
  PROVE  s = [i \in 1..Len(s) |-> i]
<1>1. s \in [1..Len(s) -> Nat]
  BY LenProperties
<1> QED BY <1>1

LEMMA NextInOrder ==
  ASSUME NEW s \in Seq(Nat), \A i \in 1..Len(s) : s[i] = i, NEW v, v = Len(s) + 1
  PROVE  /\ Append(s, v) \in Seq(Nat) /\ Len(Append(s, v)) = v
         /\ \A i \in 1..Len(Append(s, v)) : Append(s, v)[i] = i
<1>1. Len(s) \in Nat /\ v \in Nat
  BY LenProperties
<1> QED BY <1>1, AppendProperties

LEMMA ValIs ==
  ASSUME GenInv, NEW g \in Gen
  PROVE  Vals[g] = IF iter[g] = "none" THEN currentValue[g] ELSE Len(got[g])
<1>1. got[g] = [i \in 1..Len(got[g]) |-> i]
  BY CountsUp DEF GenInv, GenTypes, FrameOK
<1>2. InOrder(g) = Len(got[g])
  BY <1>1 DEF InOrder
<1> QED BY <1>2 DEF Vals

LEMMA ValWillBe ==
  ASSUME NEW g \in Gen, got'[g] \in Seq(Nat), FrameOK(g)'
  PROVE  Vals'[g] = IF iter'[g] = "none" THEN currentValue'[g] ELSE Len(got'[g])
<1>1. got'[g] = [i \in 1..Len(got'[g]) |-> i]
  BY CountsUp DEF FrameOK
<1>2. InOrder(g)' = Len(got'[g])
  BY <1>1 DEF InOrder
<1> QED BY <1>2 DEF Vals

LEMMA FateIs ==
  ASSUME NEW g \in Gen
  PROVE  /\ g \in ready /\ iter[g] = "none" => Fates[g] = "task"
         /\ g \notin ready /\ iter[g] = "left" => Fates[g] = "left"
         /\ g \notin ready /\ iter[g] = "value" => Fates[g] = "loop"
         /\ g \notin ready /\ iter[g] = "none" /\ frame[g] = "new" => Fates[g] = "fresh"
         /\ g \notin ready /\ iter[g] = "none" /\ frame[g] # "new" => Fates[g] = "over"
         /\ g \notin ready /\ iter[g] = "end" => Fates[g] = "over"
BY DEF Fates, GenFate

LEMMA FateWillBe ==
  ASSUME NEW g \in Gen
  PROVE  /\ g \in ready' /\ iter'[g] = "none" => Fates'[g] = "task"
         /\ g \notin ready' /\ iter'[g] = "left" => Fates'[g] = "left"
         /\ g \notin ready' /\ iter'[g] = "value" => Fates'[g] = "loop"
         /\ g \notin ready' /\ iter'[g] = "none" /\ frame'[g] = "new" => Fates'[g] = "fresh"
         /\ g \notin ready' /\ iter'[g] = "none" /\ frame'[g] # "new" => Fates'[g] = "over"
         /\ g \notin ready' /\ iter'[g] = "end" => Fates'[g] = "over"
BY DEF Fates, GenFate

(* A generator that nothing happens to. *)
LEMMA SameGen ==
  ASSUME GenInv, NEW g \in Gen, frame'[g] = frame[g], currentValue'[g] = currentValue[g],
         iter'[g] = iter[g], got'[g] = got[g], g \in ready' <=> g \in ready
  PROVE  Vals'[g] = Vals[g] /\ Fates'[g] = Fates[g]
<1>1. InOrder(g)' = InOrder(g)
  BY DEF InOrder
<1>2. Vals'[g] = Vals[g]
  BY <1>1 DEF Vals
<1>3. iter[g] \in {"none", "value", "end", "left"} /\ (g \in ready => iter[g] = "none")
  BY DEF GenInv, GenTypes, FrameOK
<1> QED BY <1>2, <1>3, FateIs, FateWillBe

LEMMA GivesOne ==
  ASSUME NEW g \in Gen, Vals[g] <= Yields[g], Vals'[g] = Vals[g] + 1,
         \A d \in Gen \ {g} : Vals'[d] = Vals[d]
  PROVE  T!Gives(g)
<1>1. Vals' = [Vals EXCEPT ![g] = @ + 1]
  BY DEF Vals
<1> QED BY <1>1 DEF T!Gives, Vals

LEMMA GivesNone == ASSUME \A d \in Gen : Vals'[d] = Vals[d] PROVE Vals' = Vals
BY DEF Vals

LEMMA BecomesIt ==
  ASSUME NEW g \in Gen, NEW from, NEW to, Fates[g] \in from, Fates'[g] = to,
         \A d \in Gen \ {g} : Fates'[d] = Fates[d]
  PROVE  T!Becomes(g, from, to)
<1>1. Fates' = [Fates EXCEPT ![g] = to]
  BY DEF Fates
<1> QED BY <1>1 DEF T!Becomes, Fates

LEMMA BecomesNone == ASSUME \A d \in Gen : Fates'[d] = Fates[d] PROVE Fates' = Fates
BY DEF Fates

TurnStep == T!Next \/ (Row' = Row /\ Vals' = Vals /\ Fates' = Fates)

(* A loop begins, or takes the next value, or comes to the end.            *)
LEMMA LoopFacts ==
  ASSUME GenInv, NEW g \in Gen, LoopBegin(g) \/ LoopNext(g)
  PROVE  GenInv' /\ TurnStep
<1>1. /\ frame[g] \in {"new", "suspended", "done"} /\ g \notin ready
      /\ FrameOK(g) /\ Yields[g] \in Nat /\ currentValue[g] \in Nat /\ currentValue[g] <= Yields[g] + 1
      /\ got[g] \in Seq(Nat) /\ iter[g] \in {"none", "value", "end", "left"}
      /\ UNCHANGED <<cached, batch, ready>>
  BY YieldsAssumption DEF LoopBegin, LoopNext, IsTask, genTasks, GenInv, GenTypes, FrameOK
<1>2. \A d \in Gen \ {g} : /\ frame'[d] = frame[d] /\ currentValue'[d] = currentValue[d]
                           /\ iter'[d] = iter[d] /\ got'[d] = got[d] /\ FrameOK(d)
  BY DEF LoopBegin, LoopNext, Advance, GenInv, GenTypes
<1>3. \A d \in Gen \ {g} : FrameOK(d)' /\ Vals'[d] = Vals[d] /\ Fates'[d] = Fates[d]
  BY <1>1, <1>2, SameFrame, SameGen
<1>4. Row' = Row /\ RowOK'
  BY <1>1 DEF GenInv, RowOK, Row
(* The loop reads a value. *)
<1>5. ASSUME NEW f \in {"suspended", "done"}, frame' = [frame EXCEPT ![g] = f],
             currentValue' = [currentValue EXCEPT ![g] = @ + 1],
             iter' = [iter EXCEPT ![g] = "value"], got' = [got EXCEPT ![g] = Append(@, currentValue'[g])],
             currentValue[g] <= Yields[g], Yields[g] > 0,
             f = "done" <=> currentValue[g] = Yields[g],
             Len(got[g]) = currentValue[g], iter[g] = "none" => frame[g] = "new", iter[g] \in {"none", "value"}
      PROVE  GenInv' /\ TurnStep
  <2>1. /\ frame'[g] = f /\ currentValue'[g] = currentValue[g] + 1 /\ iter'[g] = "value"
        /\ got'[g] = Append(got[g], currentValue[g] + 1)
    BY <1>5 DEF GenInv, GenTypes
  <2>2. /\ got'[g] \in Seq(Nat) /\ Len(got'[g]) = currentValue[g] + 1
        /\ \A i \in 1..Len(got'[g]) : got'[g][i] = i
    BY <1>1, <1>5, <2>1, NextInOrder DEF FrameOK
  <2>3. FrameOK(g)'
    BY <1>1, <1>5, <2>1, <2>2 DEF FrameOK
  <2>4. GenTypes'
    <3>1. currentValue'[g] \in Nat /\ currentValue'[g] <= Yields[g] + 1
      BY <1>1, <1>5, <2>1
    <3> QED BY <1>1, <1>2, <1>5, <2>2, <3>1 DEF GenInv, GenTypes
  <2>5. Vals[g] = currentValue[g] /\ Vals'[g] = currentValue[g] + 1
    BY <1>5, <2>1, <2>2, <2>3, ValIs, ValWillBe
  <2>6. Fates[g] \in {"fresh", "loop"} /\ Fates'[g] = "loop"
    BY <1>1, <1>5, <2>1, FateIs, FateWillBe
  <2>7. T!Gives(g) /\ T!Becomes(g, {"fresh", "loop"}, "loop")
    BY <1>3, <1>5, <2>5, <2>6, GivesOne, BecomesIt
  <2>8. T!Read(g)
    BY <1>4, <1>5, <2>7 DEF T!Read, Row
  <2> QED BY <1>3, <1>4, <2>3, <2>4, <2>8 DEF GenInv, TurnStep, T!Next
(* There is nothing left, or nothing at all, to read. *)
<1>6. ASSUME iter' = [iter EXCEPT ![g] = "end"], got' = got, frame'[g] = "done",
             frame' \in [Gen -> {"new", "suspended", "done", "gone"}],
             currentValue' \in [Gen -> Nat], currentValue'[g] = Yields[g] + 1,
             Vals[g] = (IF Yields[g] = 0 THEN 0 ELSE Yields[g] + 1), Len(got[g]) = Vals[g],
             iter[g] = "value" \/ (iter[g] = "none" /\ frame[g] = "new")
      PROVE  GenInv' /\ TurnStep
  <2>1. iter'[g] = "end" /\ got'[g] = got[g]
    BY <1>6 DEF GenInv, GenTypes
  <2>2. FrameOK(g)'
    BY <1>1, <1>6, <2>1 DEF FrameOK
  <2>3. GenTypes'
    <3>1. currentValue'[g] <= Yields[g] + 1
      BY <1>1, <1>6
    <3> QED BY <1>1, <1>2, <1>6, <3>1 DEF GenInv, GenTypes
  <2>4. Vals'[g] = Vals[g]
    BY <1>1, <1>6, <2>1, <2>2, ValWillBe
  <2>5. Fates[g] \in {"fresh", "loop"} /\ Fates'[g] = "over"
    BY <1>1, <1>6, <2>1, FateIs, FateWillBe
  <2>6. Vals' = Vals /\ T!Becomes(g, {"fresh", "loop"}, "over")
    BY <1>3, <2>4, <2>5, GivesNone, BecomesIt
  <2>7. T!End(g)
    BY <1>4, <1>6, <2>6 DEF T!End, Row, Vals
  <2> QED BY <1>3, <1>4, <2>2, <2>3, <2>7 DEF GenInv, TurnStep, T!Next
<1>7. CASE LoopBegin(g)
  <2>1. /\ frame[g] = "new" /\ currentValue[g] = 0 /\ iter[g] = "none" /\ got[g] = <<>> /\ Len(got[g]) = 0
        /\ currentValue' = [currentValue EXCEPT ![g] = @ + 1]
    BY <1>1, <1>7 DEF LoopBegin, FrameOK, Advance
  <2>2. CASE Ends(g)
    <3>1. Yields[g] = 0
      BY <2>1, <2>2 DEF Ends
    <3>2. /\ frame' = [frame EXCEPT ![g] = "done"] /\ iter' = [iter EXCEPT ![g] = "end"] /\ got' = got
      BY <1>7, <2>2 DEF LoopBegin
    <3>3. frame'[g] = "done" /\ frame' \in [Gen -> {"new", "suspended", "done", "gone"}]
      BY <3>2 DEF GenInv, GenTypes
    <3>4. currentValue' \in [Gen -> Nat] /\ currentValue'[g] = Yields[g] + 1
      BY <2>1, <3>1 DEF GenInv, GenTypes
    <3>5. Vals[g] = 0
      BY <2>1, ValIs
    <3> QED BY <1>6, <2>1, <3>1, <3>2, <3>3, <3>4, <3>5
  <2>3. CASE ~Ends(g)
    <3>1. Yields[g] > 0 /\ currentValue[g] # Yields[g]
      BY <1>1, <2>1, <2>3 DEF Ends
    <3>2. /\ frame' = [frame EXCEPT ![g] = "suspended"] /\ iter' = [iter EXCEPT ![g] = "value"]
          /\ got' = [got EXCEPT ![g] = Append(@, currentValue'[g])]
      BY <1>7, <2>3 DEF LoopBegin
    <3>3. currentValue[g] <= Yields[g]
      BY <1>1, <2>1
    <3>4. PICK f \in {"suspended", "done"} : f = "suspended"
      OBVIOUS
    <3>5. f # "done"
      BY <3>4
    <3> QED BY <1>5, <2>1, <3>1, <3>2, <3>3, <3>4, <3>5
  <2> QED BY <2>2, <2>3
<1>8. CASE LoopNext(g)
  <2>1. iter[g] = "value" /\ Len(got[g]) = currentValue[g] /\ Yields[g] > 0
    BY <1>1, <1>8 DEF LoopNext, FrameOK
  <2>2. CASE frame[g] = "done"
    <3>1. UNCHANGED <<frame, currentValue, got>> /\ iter' = [iter EXCEPT ![g] = "end"]
      BY <1>8, <2>2 DEF LoopNext
    <3>2. currentValue[g] = Yields[g] + 1 /\ Vals[g] = Yields[g] + 1
      BY <1>1, <2>1, <2>2, ValIs DEF FrameOK
    <3>3. Yields[g] # 0
      BY <1>1, <2>1
    <3> QED BY <1>6, <2>1, <2>2, <3>1, <3>2, <3>3 DEF GenInv, GenTypes
  <2>3. CASE frame[g] = "suspended"
    <3>1. /\ currentValue' = [currentValue EXCEPT ![g] = @ + 1] /\ iter' = iter
          /\ frame' = [frame EXCEPT ![g] = IF Ends(g) THEN "done" ELSE "suspended"]
          /\ got' = [got EXCEPT ![g] = Append(@, currentValue'[g])]
      BY <1>8, <2>3 DEF LoopNext, Advance
    <3>2. iter' = [iter EXCEPT ![g] = "value"]
      BY <2>1, <3>1 DEF GenInv, GenTypes
    <3>3. currentValue[g] <= Yields[g]
      BY <1>1, <2>3 DEF FrameOK
    <3>4. PICK f \in {"suspended", "done"} :
            frame' = [frame EXCEPT ![g] = f] /\ (f = "done" <=> currentValue[g] = Yields[g])
      BY <3>1 DEF Ends
    <3> QED BY <1>5, <2>1, <3>1, <3>2, <3>3, <3>4
  <2> QED BY <1>8, <2>2, <2>3 DEF LoopNext
<1> QED BY <1>7, <1>8

LEMMA DropFacts ==
  ASSUME GenInv, NEW g \in Gen, Drop(g)
  PROVE  GenInv' /\ TurnStep
<1>1. /\ frame[g] # "gone" /\ g \notin ready /\ FrameOK(g) /\ Yields[g] \in Nat
      /\ frame[g] \in {"new", "suspended", "done", "gone"}
      /\ iter[g] \in {"none", "value", "end", "left"}
      /\ got[g] \in Seq(Nat) /\ UNCHANGED <<currentValue, got, cached, batch, ready>>
      /\ frame'[g] = "gone" /\ iter'[g] = IF iter[g] = "end" THEN "end" ELSE "left"
  BY YieldsAssumption DEF Drop, IsTask, genTasks, GenInv, GenTypes
<1>2. \A d \in Gen \ {g} : /\ frame'[d] = frame[d] /\ currentValue'[d] = currentValue[d]
                           /\ iter'[d] = iter[d] /\ got'[d] = got[d] /\ FrameOK(d)
  BY DEF Drop, GenInv, GenTypes
<1>3. \A d \in Gen \ {g} : FrameOK(d)' /\ Vals'[d] = Vals[d] /\ Fates'[d] = Fates[d]
  BY <1>1, <1>2, SameFrame, SameGen
<1>4. Row' = Row /\ RowOK'
  BY <1>1 DEF GenInv, RowOK, Row
<1>5. FrameOK(g)'
  BY <1>1 DEF FrameOK
<1>6. GenTypes'
  BY <1>1 DEF Drop, GenInv, GenTypes
<1>7. Vals'[g] = Vals[g]
  <2>1. iter[g] = "none" => currentValue[g] = 0 /\ got[g] = <<>>
    BY <1>1 DEF FrameOK
  <2>2. iter[g] = "none" => Len(got[g]) = 0
    BY <2>1
  <2> QED BY <1>1, <1>5, <2>1, <2>2, ValIs, ValWillBe
<1>8. CASE iter[g] = "end"
  <2>1. Fates'[g] = Fates[g]
    BY <1>1, <1>8, FateIs, FateWillBe
  <2> QED BY <1>3, <1>4, <1>5, <1>6, <1>7, <2>1, GivesNone, BecomesNone DEF GenInv, TurnStep
<1>9. CASE iter[g] # "end"
  <2>1. Fates[g] \in {"fresh", "loop"} /\ Fates'[g] = "left"
    BY <1>1, <1>9, FateIs, FateWillBe DEF FrameOK
  <2>2. Vals' = Vals /\ T!Becomes(g, {"fresh", "loop"}, "left")
    BY <1>3, <1>7, <2>1, GivesNone, BecomesIt
  <2>3. T!Leave(g)
    BY <1>4, <2>2 DEF T!Leave, Row, Vals
  <2> QED BY <1>3, <1>4, <1>5, <1>6, <2>3 DEF GenInv, TurnStep, T!Next
<1> QED BY <1>8, <1>9

(* One that is started as a task stands at the end of the row.             *)
LEMMA GoFacts ==
  ASSUME GenInv, NEW g \in Gen, Go(g)
  PROVE  GenInv' /\ TurnStep
<1>1. /\ frame[g] = "new" /\ g \notin ready /\ FrameOK(g)
      /\ batch \in Seq(Gen) /\ cached \in Seq(Gen) /\ ready \subseteq Gen
      /\ UNCHANGED <<frame, currentValue, iter, got, batch>>
      /\ cached' = Append(cached, g) /\ ready' = ready \union {g}
  BY DEF Go, IsTask, GenInv, GenTypes, RowOK
<1>2. Row' = Append(Row, g) /\ Row \in Seq(Gen)
  <2>1. <<g>> \in Seq(Gen) /\ Row \in Seq(Gen)
    BY <1>1 DEF Row
  <2>2. cached' = cached \o <<g>> /\ Append(Row, g) = Row \o <<g>>
    BY <1>1, <2>1, AppendIsConcat
  <2> QED BY <1>1, <2>1, <2>2, ConcatAssociative DEF Row
<1>3. RowOK'
  <2>1. ~Stands(Row, g)
    BY <1>1 DEF GenInv, RowOK
  <2>2. ASSUME NEW d \in Gen PROVE Single(Row', d) /\ (Stands(Row', d) <=> d \in ready')
    BY <1>1, <1>2, <2>1, AtTheEnd DEF GenInv, RowOK
  <2> QED BY <1>1, <2>2 DEF RowOK
<1>4. \A d \in Gen \ {g} : FrameOK(d)' /\ Vals'[d] = Vals[d] /\ Fates'[d] = Fates[d]
  <2>1. \A d \in Gen \ {g} : FrameOK(d) /\ (d \in ready' <=> d \in ready)
    BY <1>1 DEF GenInv
  <2> QED BY <1>1, <2>1, SameFrame, SameGen
<1>5. FrameOK(g)' /\ iter[g] = "none"
  BY <1>1 DEF FrameOK
<1>6. GenTypes'
  BY <1>1 DEF GenInv, GenTypes
<1>7. Vals'[g] = Vals[g]
  BY <1>1, <1>5 DEF Vals
<1>8. Fates[g] = "fresh" /\ Fates'[g] = "task"
  BY <1>1, <1>5, FateIs, FateWillBe
<1>9. Vals' = Vals /\ T!Becomes(g, {"fresh"}, "task")
  BY <1>4, <1>7, <1>8, GivesNone, BecomesIt
<1>10. T!Enter(g)
  BY <1>2, <1>9 DEF T!Enter, Row, Vals
<1> QED BY <1>3, <1>4, <1>5, <1>6, <1>10 DEF GenInv, TurnStep, T!Next

LEMMA SwapFacts ==
  ASSUME GenInv, SwapBatch
  PROVE  GenInv' /\ TurnStep
<1>1. UNCHANGED <<frame, currentValue, iter, got, ready>>
  BY DEF SwapBatch
<1>2. Row' = Row /\ GenTypes'
  <2>1. batch = <<>> /\ batch' = cached /\ cached' = <<>> /\ cached \in Seq(Gen)
    BY DEF SwapBatch, GenInv, GenTypes
  <2> QED BY <1>1, <2>1, ConcatEmptySeq DEF Row, GenInv, GenTypes
<1>3. \A d \in Gen : FrameOK(d)' /\ Vals'[d] = Vals[d] /\ Fates'[d] = Fates[d]
  BY <1>1, SameFrame, SameGen DEF GenInv
<1>4. RowOK'
  BY <1>1, <1>2 DEF GenInv, RowOK
<1> QED BY <1>2, <1>3, <1>4, GivesNone, BecomesNone DEF GenInv, TurnStep

LEMMA AppendToBoth ==
  ASSUME NEW s \in Seq(Gen), NEW t \in Seq(Gen), NEW g \in Gen
  PROVE  s \o Append(t, g) = Append(s \o t, g)
<1>1. <<g>> \in Seq(Gen) /\ s \o t \in Seq(Gen)
  OBVIOUS
<1>2. Append(t, g) = t \o <<g>> /\ Append(s \o t, g) = (s \o t) \o <<g>>
  BY <1>1, AppendIsConcat
<1> QED BY <1>1, <1>2, ConcatAssociative

LEMMA StepIs ==
  ASSUME NEW g \in Gen, Row # <<>>, Head(Row) = g, T!Gives(g),
         \/ Vals[g] < Yields[g] /\ Row' = Append(Tail(Row), g) /\ Fates' = Fates
         \/ Vals[g] = Yields[g] /\ Row' = Tail(Row) /\ T!Becomes(g, {"task"}, "over")
  PROVE  T!Step
<1>1. T!Gives(Head(Row))
  BY DEF T!Gives
<1>2. CASE Vals[g] < Yields[g] /\ Row' = Append(Tail(Row), g) /\ Fates' = Fates
  BY <1>1, <1>2 DEF T!Step, Row, Vals, Fates
<1>3. CASE Vals[g] = Yields[g] /\ Row' = Tail(Row) /\ T!Becomes(g, {"task"}, "over")
  <2>1. T!Becomes(Head(Row), {"task"}, "over")
    BY <1>3 DEF T!Becomes
  <2> QED BY <1>1, <1>3, <2>1 DEF T!Step, Row, Vals, Fates
<1> QED BY <1>2, <1>3

(* A task that is resumed takes its turn, and stands at the end again or   *)
(* is over.                                                                *)
LEMMA ResumeTaskFacts ==
  ASSUME GenInv, ResumeTask
  PROVE  GenInv' /\ TurnStep
<1>1. PICK g \in Gen :
        /\ g = Head(batch)
        /\ batch # <<>> /\ Suspended(g) /\ batch' = Tail(batch)
        /\ UNCHANGED <<iter, got>>
        /\ currentValue' = [currentValue EXCEPT ![g] = @ + 1]
        /\ \/ /\ ~Ends(g) /\ frame' = [frame EXCEPT ![g] = "suspended"]
              /\ cached' = Append(cached, g) /\ ready' = ready
           \/ /\ Ends(g) /\ frame' = [frame EXCEPT ![g] = "gone"]
              /\ ready' = ready \ {g} /\ cached' = cached
  <2>1. batch # <<>> /\ batch \in Seq(Gen)
    BY DEF ResumeTask, GenInv, GenTypes
  <2>2. Head(batch) \in Gen
    BY <2>1, FirstAndRest
  <2> QED BY <2>2 DEF ResumeTask, Advance
<1>2. /\ g \in Gen /\ batch \in Seq(Gen) /\ cached \in Seq(Gen) /\ Row \in Seq(Gen)
      /\ Row # <<>> /\ Head(Row) = g /\ Tail(Row) = Tail(batch) \o cached /\ Tail(batch) \in Seq(Gen)
  <2>1. batch \in Seq(Gen) /\ cached \in Seq(Gen)
    BY DEF GenInv, GenTypes
  <2>2. Tail(batch) \in Seq(Gen)
    BY <1>1, <2>1, FirstAndRest
  <2> QED BY <1>1, <2>1, <2>2, FirstOfRow DEF Row
<1>3. g \in ready /\ Single(Row, g)
  BY <1>2, AtTheFront DEF GenInv, RowOK
<1>4. /\ FrameOK(g) /\ iter[g] = "none" /\ got[g] = <<>> /\ frame[g] \in {"new", "suspended"}
      /\ Yields[g] \in Nat /\ currentValue[g] \in Nat /\ currentValue[g] <= Yields[g]
  <2>1. FrameOK(g) /\ Yields[g] \in Nat /\ currentValue[g] \in Nat
    BY <1>2, YieldsAssumption DEF GenInv, GenTypes
  <2> QED BY <1>3, <2>1 DEF FrameOK
<1>5. /\ currentValue'[g] = currentValue[g] + 1
      /\ \A d \in Gen \ {g} : /\ frame'[d] = frame[d] /\ currentValue'[d] = currentValue[d]
                              /\ iter'[d] = iter[d] /\ got'[d] = got[d] /\ FrameOK(d)
                              /\ d \in ready' <=> d \in ready
  BY <1>1, <1>2 DEF GenInv, GenTypes
<1>6. \A d \in Gen \ {g} : FrameOK(d)' /\ Vals'[d] = Vals[d] /\ Fates'[d] = Fates[d]
  BY <1>5, SameFrame, SameGen
<1>7. Vals[g] = currentValue[g] /\ Vals'[g] = currentValue[g] + 1
  BY <1>1, <1>2, <1>4, <1>5 DEF Vals
<1>8. T!Gives(g)
  BY <1>2, <1>4, <1>6, <1>7, GivesOne
<1>9. Fates[g] = "task"
  BY <1>2, <1>3, <1>4, FateIs
<1>10. currentValue' \in [Gen -> Nat] /\ \A d \in Gen : currentValue'[d] <= Yields[d] + 1
  <2>1. currentValue'[g] \in Nat /\ currentValue'[g] <= Yields[g] + 1
    BY <1>4, <1>5
  <2> QED BY <1>1, <1>2, <1>5, <2>1 DEF GenInv, GenTypes
<1>11. CASE /\ ~Ends(g) /\ frame' = [frame EXCEPT ![g] = "suspended"]
            /\ cached' = Append(cached, g) /\ ready' = ready
  <2>1. currentValue[g] < Yields[g]
    BY <1>4, <1>11 DEF Ends
  <2>2. Row' = Append(Tail(Row), g) /\ Tail(Row) \in Seq(Gen)
    <3>1. Tail(Row) \in Seq(Gen) /\ Row' = Tail(batch) \o Append(cached, g)
      BY <1>1, <1>2, <1>11 DEF Row
    <3>2. Tail(batch) \o Append(cached, g) = Append(Tail(batch) \o cached, g)
      BY <1>2, AppendToBoth
    <3> QED BY <1>2, <3>1, <3>2
  <2>3. RowOK'
    <3>1. ~Stands(Tail(Row), g)
      BY <1>2, <1>3, AtTheFront
    <3>2. ASSUME NEW d \in Gen PROVE Single(Row', d) /\ (Stands(Row', d) <=> d \in ready')
      <4>1. Single(Row, d) /\ (d \in ready <=> Stands(Row, d))
        BY DEF GenInv, RowOK
      <4>2. Single(Tail(Row), d) /\ (d # g => (Stands(Tail(Row), d) <=> Stands(Row, d)))
        BY <1>2, <4>1, AtTheFront
      <4>3. /\ Stands(Row', d) <=> Stands(Tail(Row), d) \/ d = g
            /\ Single(Tail(Row), d) /\ ~(d = g /\ Stands(Tail(Row), d)) => Single(Row', d)
        BY <1>2, <2>2, AtTheEnd
      <4> QED BY <1>3, <1>11, <3>1, <4>1, <4>2, <4>3
    <3> QED BY <1>11, <3>2 DEF GenInv, RowOK
  <2>4. frame'[g] = "suspended" /\ frame' \in [Gen -> {"new", "suspended", "done", "gone"}]
    BY <1>2, <1>11 DEF GenInv, GenTypes
  <2>5. FrameOK(g)'
    <3>1. currentValue'[g] \in 1..Yields[g]
      BY <1>4, <1>5, <2>1
    <3> QED BY <1>1, <1>3, <1>4, <1>11, <2>4, <3>1 DEF FrameOK
  <2>6. GenTypes'
    <3>1. cached' \in Seq(Gen) /\ batch' \in Seq(Gen)
      BY <1>1, <1>2, <1>11
    <3> QED BY <1>1, <1>10, <2>4, <3>1 DEF GenInv, GenTypes
  <2>7. Fates'[g] = "task"
    BY <1>1, <1>2, <1>3, <1>4, <1>11, FateWillBe
  <2>8. Fates' = Fates
    BY <1>6, <1>9, <2>7, BecomesNone
  <2>9. T!Step
    BY <1>2, <1>7, <1>8, <2>1, <2>2, <2>8, StepIs
  <2> QED BY <1>6, <2>3, <2>5, <2>6, <2>9 DEF GenInv, TurnStep, T!Next
<1>12. CASE /\ Ends(g) /\ frame' = [frame EXCEPT ![g] = "gone"]
            /\ ready' = ready \ {g} /\ cached' = cached
  <2>1. currentValue[g] = Yields[g]
    BY <1>12 DEF Ends
  <2>2. Row' = Tail(Row)
    BY <1>1, <1>2, <1>12 DEF Row
  <2>3. RowOK'
    <3>1. ~Stands(Tail(Row), g)
      BY <1>2, <1>3, AtTheFront
    <3>2. ASSUME NEW d \in Gen PROVE Single(Row', d) /\ (Stands(Row', d) <=> d \in ready')
      <4>1. Single(Tail(Row), d) /\ (d # g => (Stands(Tail(Row), d) <=> Stands(Row, d)))
        BY <1>2, AtTheFront DEF GenInv, RowOK
      <4> QED BY <1>12, <2>2, <3>1, <4>1 DEF GenInv, RowOK
    <3> QED BY <1>12, <3>2 DEF GenInv, RowOK
  <2>4. frame'[g] = "gone" /\ frame' \in [Gen -> {"new", "suspended", "done", "gone"}]
    BY <1>2, <1>12 DEF GenInv, GenTypes
  <2>5. FrameOK(g)'
    BY <1>1, <1>4, <1>12, <2>4 DEF FrameOK
  <2>6. GenTypes'
    BY <1>1, <1>2, <1>10, <1>12, <2>4 DEF GenInv, GenTypes
  <2>7. Fates'[g] = "over"
    BY <1>1, <1>2, <1>4, <1>12, <2>4, FateWillBe
  <2>8. T!Becomes(g, {"task"}, "over")
    BY <1>6, <1>9, <2>7, BecomesIt
  <2>9. T!Step
    BY <1>2, <1>7, <1>8, <2>1, <2>2, <2>8, StepIs
  <2> QED BY <1>6, <2>3, <2>5, <2>6, <2>9 DEF GenInv, TurnStep, T!Next
<1> QED BY <1>1, <1>11, <1>12
-----------------------------------------------------------------------------
GenSafety == GenInit /\ [][GenNext]_genVars

LEMMA GenInitInv == GenInit => GenInv /\ T!Init
<1> SUFFICES ASSUME GenInit PROVE GenInv /\ T!Init
  OBVIOUS
<1>1. /\ \A g \in Gen : frame[g] = "new" /\ currentValue[g] = 0 /\ iter[g] = "none" /\ got[g] = <<>>
      /\ cached = <<>> /\ batch = <<>> /\ ready = {}
  BY DEF GenInit
<1>2. Row = <<>>
  BY <1>1 DEF Row
<1>3. GenTypes
  BY YieldsAssumption DEF GenInit, GenTypes
<1>4. RowOK
  BY <1>1, <1>2 DEF RowOK, Single, Stands
<1>5. ASSUME NEW g \in Gen PROVE FrameOK(g)
  BY <1>1 DEF FrameOK
<1>6. GenInv
  BY <1>3, <1>4, <1>5 DEF GenInv
<1>7. Vals = [g \in Gen |-> 0]
  BY <1>1 DEF Vals
<1>8. ASSUME NEW g \in Gen PROVE Fates[g] = "fresh"
  BY <1>1, FateIs
<1>9. Fates = [g \in Gen |-> "fresh"]
  BY <1>8 DEF Fates
<1> QED BY <1>2, <1>6, <1>7, <1>9 DEF T!Init, Row, Vals, Fates

LEMMA GenNextInv == GenInv /\ [GenNext]_genVars => GenInv' /\ TurnStep
<1> SUFFICES ASSUME GenInv, [GenNext]_genVars PROVE GenInv' /\ TurnStep
  OBVIOUS
<1>1. CASE UNCHANGED genVars
  <2>1. UNCHANGED <<frame, currentValue, iter, got, cached, batch, ready>>
    BY <1>1 DEF genVars, genTasks
  <2>2. Row' = Row /\ GenTypes' /\ RowOK'
    BY <2>1 DEF GenInv, GenTypes, RowOK, Row
  <2>3. \A g \in Gen : FrameOK(g)' /\ Vals'[g] = Vals[g] /\ Fates'[g] = Fates[g]
    BY <2>1, SameFrame, SameGen DEF GenInv
  <2> QED BY <2>2, <2>3, GivesNone, BecomesNone DEF GenInv, TurnStep
<1> QED BY <1>1, SwapFacts, ResumeTaskFacts, LoopFacts, DropFacts, GoFacts DEF GenNext, RunBatch

LEMMA GenInvariance == GenSafety => []GenInv
BY GenInitInv, GenNextInv, PTL DEF GenSafety

(* The dictionary of a scheduler holds the generators that run as its      *)
(* tasks, each of them queued once, in one of its two vectors              *)
(* (run_one_batch(), state_generator_t::resume()).                         *)
THEOREM GenTypeCorrect == GenSafety => []GenTypeOK
<1>1. ASSUME GenInv PROVE GenTypeOK
  <2>1. \A g \in Gen : currentValue[g] \in 0..(Yields[g] + 1)
    BY <1>1, YieldsAssumption DEF GenInv, GenTypes
  <2>2. ready = {g \in Gen : \E i \in DOMAIN Row : Row[i] = g}
    <3>1. Row \in Seq(Gen) /\ DOMAIN Row = 1..Len(Row)
      BY <1>1 DEF GenInv, GenTypes, Row
    <3> QED BY <1>1, <3>1 DEF GenInv, RowOK, Stands
  <2> QED BY <1>1, <2>1, <2>2 DEF GenInv, GenTypes, GenTypeOK, Row
<1> QED BY <1>1, GenInvariance, PTL

(* The two vectors of a scheduler, swapped between batches, make one queue *)
(* in which generators take turns, one value at a time; a loop over one    *)
(* reads its values in order, up to that of co_return: ImplementsTurns but *)
(* for the fairness it promises.                                           *)
THEOREM GenTakesTurns == GenSafety => T!Init /\ [][T!Next]_<<Row, Vals, Fates>>
<1>1. GenInv /\ [GenNext]_genVars => [T!Next]_<<Row, Vals, Fates>>
  BY GenNextInv DEF TurnStep
<1> QED BY <1>1, GenInitInv, GenInvariance, PTL DEF GenSafety

-----------------------------------------------------------------------------
LEMMA TasksGen == TasksSpec => GenSafety
<1>1. TasksInit => GenInit
  BY DEF TasksInit
<1>2. [TasksNext]_tasksVars => [GenNext]_genVars
  BY DEF TasksNext, TimersNext, SleepNext, LockNext, StopsNext, GeneratorsNext, tasksVars
<1> QED BY <1>1, <1>2, PTL DEF TasksSpec, GenSafety

(* The same of the programs of Tasks in which generators run. *)
THEOREM TasksTakeTurns == TasksSpec => T!Init /\ [][T!Next]_<<Row, Vals, Fates>>
BY TasksGen, GenTakesTurns, PTL

(* In every program of Tasks the parts keep their types, and what these    *)
(* say beyond: counted children, tasks that are queued, timers that are in *)
(* a list.                                                                 *)
THEOREM TasksTypeCorrect == TasksSpec => []TasksTypeOK
<1>1. TasksSpec => []TimerTypeOK /\ []RangeTypeOK
  BY TasksSpecSafety, TasksComponents, TimerTypeCorrect, RangeTypeCorrect, PTL
<1>2. TasksSpec => []StopTypeOK /\ []GenTypeOK
  BY TasksStop, StopTypeCorrect, TasksGen, GenTypeCorrect, PTL
<1>3. StopTypeOK /\ TimerTypeOK /\ WhenTypeOK /\ RangeTypeOK /\ GenTypeOK => TasksTypeOK
  BY DEF TasksTypeOK
<1> QED BY <1>1, <1>2, <1>3, TasksCountChildren, PTL
=============================================================================
