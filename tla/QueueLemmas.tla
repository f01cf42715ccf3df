----------------------------- MODULE QueueLemmas -----------------------------
(***************************************************************************)
(* Facts about queues that the proofs share: the first entry and the rest, *)
(* two queues that make up a row, and how often an entry stands in one.    *)
(***************************************************************************)
EXTENDS Integers, Sequences, SequencesExt, SequenceTheorems, FiniteSetTheorems, TLAPS

(* The first of a queue and the rest. *)
LEMMA FirstAndRest ==
  ASSUME NEW S, NEW q \in Seq(S), q # <<>>
  PROVE  /\ Head(q) \in S /\ Head(q) = q[1] /\ Tail(q) \in Seq(S)
         /\ Len(q) \in Nat /\ Len(q) > 0 /\ Len(Tail(q)) = Len(q) - 1
         /\ \A i \in 1..Len(Tail(q)) : Tail(q)[i] = q[i + 1]
  BY HeadTailProperties, EmptySeq, LenProperties

(* The first of two queues joined, and the rest. *)
LEMMA FirstOfRow ==
  ASSUME NEW S, NEW s \in Seq(S), NEW t \in Seq(S), s # <<>>
  PROVE  s \o t # <<>> /\ Head(s \o t) = Head(s) /\ Tail(s \o t) = Tail(s) \o t
<1> DEFINE row == s \o t
<1>1. /\ Len(s) \in Nat \ {0} /\ Len(t) \in Nat /\ row \in Seq(S) /\ Len(row) = Len(s) + Len(t)
      /\ \A i \in 1..(Len(s) + Len(t)) : row[i] = IF i <= Len(s) THEN s[i] ELSE t[i - Len(s)]
  BY ConcatProperties, EmptySeq, LenProperties
<1> HIDE DEF row
<1>2. row # <<>> /\ Head(row) = Head(s)
  BY <1>1
<1> DEFINE p == Tail(s)
           rest == Tail(row)
<1>3. /\ p \in Seq(S) /\ Len(p) = Len(s) - 1 /\ \A i \in 1..(Len(s) - 1) : p[i] = s[i + 1]
      /\ rest \in Seq(S) /\ Len(rest) = Len(s) - 1 + Len(t)
      /\ \A i \in 1..(Len(s) - 1 + Len(t)) : rest[i] = row[i + 1]
  BY <1>1, <1>2, HeadTailProperties
<1> HIDE DEF p, rest
<1> DEFINE joined == p \o t
<1>4. /\ joined \in Seq(S) /\ Len(joined) = Len(p) + Len(t)
      /\ \A i \in 1..(Len(p) + Len(t)) : joined[i] = IF i <= Len(p) THEN p[i] ELSE t[i - Len(p)]
  BY <1>3, ConcatProperties
<1> HIDE DEF joined
<1>5. Len(rest) = Len(joined) /\ Len(rest) = Len(s) - 1 + Len(t)
  BY <1>1, <1>3, <1>4
<1>6. ASSUME NEW i \in 1..Len(rest) PROVE rest[i] = joined[i]
  <2>1. i \in 1..(Len(s) - 1 + Len(t)) /\ i + 1 \in 1..(Len(s) + Len(t))
    BY <1>1, <1>5
  <2>2. rest[i] = IF i + 1 <= Len(s) THEN s[i + 1] ELSE t[i + 1 - Len(s)]
    BY <2>1, <1>1, <1>3
  <2>3. joined[i] = IF i <= Len(s) - 1 THEN p[i] ELSE t[i - (Len(s) - 1)]
    BY <2>1, <1>1, <1>3, <1>4
  <2>4. i + 1 - Len(s) = i - (Len(s) - 1)
    BY <2>1, <1>1
  <2>5. CASE i <= Len(s) - 1
    BY <2>1, <2>2, <2>3, <2>5, <1>1, <1>3
  <2>6. CASE ~(i <= Len(s) - 1)
    BY <2>1, <2>2, <2>3, <2>4, <2>6, <1>1
  <2> QED BY <2>5, <2>6
<1>7. rest = joined
  BY <1>3, <1>4, <1>5, <1>6, SeqEqual
<1> QED BY <1>2, <1>7 DEF row, rest, joined, p

(* Taking the first of a row that two queues make up, when the first of    *)
(* the second queue moves up to the end of the first one.                  *)
LEMMA MoveUp ==
  ASSUME NEW S, NEW s \in Seq(S), NEW t \in Seq(S), s # <<>>, t # <<>>
  PROVE  /\ s \o t # <<>> /\ Head(s \o t) = Head(s)
         /\ Tail(s \o t) = Append(Tail(s), Head(t)) \o Tail(t)
<1> DEFINE p == Tail(s)
           x == Head(t)
           q == Tail(t)
<1>1. p \in Seq(S) /\ x \in S /\ q \in Seq(S) /\ <<x>> \in Seq(S)
  BY HeadTailProperties
<1>2. t = <<x>> \o q
  <2>1. Len(t) \in Nat \ {0}
    BY EmptySeq
  <2>2. 1 \in 1..Len(t) /\ Len(t) \in 1..Len(t)
    BY <2>1
  <2>3. SubSeq(t, 1, Len(t)) = <<t[1]>> \o SubSeq(t, 1 + 1, Len(t))
    BY <2>2, SubSeqRecursiveFirst
  <2>4. SubSeq(t, 1, Len(t)) = t /\ SubSeq(t, 2, Len(t)) = q
    BY SubSeqFull, TailIsSubSeq
  <2>5. x = t[1] /\ 1 + 1 = 2
    BY <2>1
  <2> QED BY <2>3, <2>4, <2>5
<1> HIDE DEF p, x, q
<1>3. Append(p, x) = p \o <<x>>
  BY <1>1, AppendIsConcat
<1>4. (p \o <<x>>) \o q = p \o (<<x>> \o q)
  BY <1>1, ConcatAssociative
<1>5. Append(p, x) \o q = p \o t
  BY <1>2, <1>3, <1>4
<1> QED BY <1>5, FirstOfRow DEF p, x, q

(* An entry stands in a queue; at most once; at least twice. *)
Stands(q, x) == \E i \in 1..Len(q) : q[i] = x
Single(q, x) == \A i, j \in 1..Len(q) : q[i] = x /\ q[j] = x => i = j
Double(q, x) == \E i, j \in 1..Len(q) : i # j /\ q[i] = x /\ q[j] = x

(* An entry at the end of a queue stands behind all that were there. *)
LEMMA AtTheEnd ==
  ASSUME NEW E, NEW q \in Seq(E), NEW x \in E, NEW y \in E
  PROVE  /\ Stands(Append(q, x), y) <=> Stands(q, y) \/ y = x
         /\ Single(q, y) /\ ~(y = x /\ Stands(q, y)) => Single(Append(q, x), y)
         /\ Double(q, y) \/ (y = x /\ Stands(q, y)) => Double(Append(q, x), y)
  BY DEF Stands, Single, Double

(* The first of a queue leaves it, and the others stay. *)
LEMMA AtTheFront ==
  ASSUME NEW E, NEW q \in Seq(E), q # <<>>, NEW y \in E
  PROVE  /\ Head(q) \in E /\ Stands(q, Head(q))
         /\ Stands(Tail(q), y) => Stands(q, y)
         /\ Stands(q, y) /\ y # Head(q) => Stands(Tail(q), y)
         /\ Single(q, y) => Single(Tail(q), y)
         /\ Double(q, y) /\ y # Head(q) => Double(Tail(q), y)
         /\ Single(q, Head(q)) => ~Stands(Tail(q), Head(q))
         /\ Double(q, Head(q)) => Stands(Tail(q), Head(q))
<1> DEFINE t == Tail(q)
<1>1. /\ Len(q) \in Nat \ {0} /\ Head(q) = q[1] /\ Head(q) \in E
      /\ t \in Seq(E) /\ Len(t) = Len(q) - 1
      /\ \A i \in 1..Len(t) : i + 1 \in 1..Len(q) /\ t[i] = q[i + 1]
      /\ \A i \in 1..Len(q) : i # 1 => i - 1 \in 1..Len(t) /\ t[i - 1] = q[i]
  BY EmptySeq, HeadTailProperties
<1> HIDE DEF t
<1>2. 1 \in 1..Len(q) /\ Stands(q, Head(q))
  BY <1>1 DEF Stands
<1>3. Stands(t, y) => Stands(q, y)
  BY <1>1 DEF Stands
<1>4. Stands(q, y) /\ y # Head(q) => Stands(t, y)
  BY <1>1 DEF Stands
<1>5. Single(q, y) => Single(t, y)
  <2> SUFFICES ASSUME Single(q, y), NEW i \in 1..Len(t), NEW j \in 1..Len(t), t[i] = y, t[j] = y
               PROVE  i = j
    BY DEF Single
  <2>1. i + 1 \in 1..Len(q) /\ j + 1 \in 1..Len(q) /\ q[i + 1] = y /\ q[j + 1] = y
    BY <1>1
  <2>2. i + 1 = j + 1
    BY <2>1 DEF Single
  <2> QED BY <2>2
<1>6. Double(q, y) /\ y # Head(q) => Double(t, y)
  <2> SUFFICES ASSUME y # Head(q), NEW i \in 1..Len(q), NEW j \in 1..Len(q), i # j, q[i] = y, q[j] = y
               PROVE  Double(t, y)
    BY DEF Double
  <2>1. i # 1 /\ j # 1
    BY <1>1
  <2>2. i - 1 \in 1..Len(t) /\ j - 1 \in 1..Len(t) /\ t[i - 1] = y /\ t[j - 1] = y /\ i - 1 # j - 1
    BY <1>1, <2>1
  <2> QED BY <2>2 DEF Double
<1>7. Single(q, Head(q)) => ~Stands(t, Head(q))
  <2> SUFFICES ASSUME Single(q, Head(q)), NEW i \in 1..Len(t), t[i] = Head(q) PROVE FALSE
    BY DEF Stands
  <2>1. i + 1 \in 1..Len(q) /\ q[i + 1] = Head(q) /\ q[1] = Head(q) /\ i + 1 # 1
    BY <1>1
  <2> QED BY <2>1, <1>2 DEF Single
<1>8. Double(q, Head(q)) => Stands(t, Head(q))
  BY <1>1 DEF Double, Stands
<1> QED BY <1>1, <1>2, <1>3, <1>4, <1>5, <1>6, <1>7, <1>8 DEF t

(* A set of natural numbers has a smallest one. *)
LEMMA Smallest ==
  ASSUME NEW T \in SUBSET Nat, T # {}
  PROVE  \E m \in T : \A k \in T : m <= k
<1> DEFINE U == {0..n : n \in T}
<1>1. IsWellFoundedOn(StrictSubsetOrdering(Nat), FiniteSubsetsOf(Nat))
  BY FS_StrictSubsetOrderingWellFounded
<1>2. ASSUME NEW n \in T PROVE 0..n \in FiniteSubsetsOf(Nat)
  <2>1. IsFiniteSet(0..n)
    BY FS_Interval
  <2> QED BY <2>1 DEF FiniteSubsetsOf
<1>3. U \subseteq FiniteSubsetsOf(Nat) /\ U # {}
  BY <1>2
<1>4. PICK x \in U : \A y \in U : ~ (<<y, x>> \in StrictSubsetOrdering(Nat))
  <2> HIDE DEF U
  <2> QED BY <1>1, <1>3, WFMin
<1>5. PICK m \in T : x = 0..m
  OBVIOUS
<1>6. ASSUME NEW k \in T, k < m PROVE FALSE
  <2>1. 0..k \in U
    OBVIOUS
  <2>2. 0..k \subseteq 0..m /\ 0..k # 0..m /\ 0..k \subseteq Nat /\ 0..m \subseteq Nat
    <3>1. m \in 0..m /\ m \notin 0..k
      BY <1>6
    <3> QED BY <1>6, <3>1
  <2>3. <<0..k, x>> \in StrictSubsetOrdering(Nat)
    BY <2>2, <1>5, <1>2 DEF StrictSubsetOrdering, FiniteSubsetsOf
  <2> QED BY <2>1, <2>3, <1>4
<1> QED BY <1>6

LEMMA MinIsSmallest ==
  ASSUME NEW T \in SUBSET Nat, T # {}
  PROVE  Min(T) \in T /\ \A k \in T : Min(T) <= k
  BY Smallest DEF Min

(* An entry that is erased leaves a gap, which those behind it close.      *)
LEMMA ErasedAt ==
  ASSUME NEW E, NEW q \in Seq(E), NEW x, NEW m \in 1..Len(q), q[m] = x, Single(q, x)
  PROVE  /\ RemoveFirst(q, x) \in Seq(E) /\ Len(RemoveFirst(q, x)) = Len(q) - 1
         /\ \A i \in 1..(Len(q) - 1) : RemoveFirst(q, x)[i] = IF i < m THEN q[i] ELSE q[i + 1]
<1>0. Len(q) \in Nat /\ \A j \in 1..Len(q) : q[j] \in E
  BY ElementOfSeq, LenProperties
<1> DEFINE I == {i \in 1..Len(q) : q[i] = x}
           p == SubSeq(q, 1, m - 1)
           r == SubSeq(q, m + 1, Len(q))
           s == p \o r
<1>1. I \in SUBSET Nat /\ I # {} /\ \A i \in I : i = m
  BY <1>0 DEF Single
<1>2. Min(I) = m
  <2> HIDE DEF I
  <2> QED BY <1>1, MinIsSmallest
<1>3. RemoveFirst(q, x) = s
  BY <1>1, <1>2 DEF RemoveFirst, RemoveAt, SelectInSeq
<1> HIDE DEF I
<1>4. /\ p \in Seq(E) /\ Len(p) = m - 1 /\ \A i \in 1..(m - 1) : p[i] = q[i]
      /\ r \in Seq(E) /\ Len(r) = Len(q) - m /\ \A i \in 1..(Len(q) - m) : r[i] = q[m + i]
  BY <1>0, SubSeqProperties
<1> HIDE DEF p, r
<1>5. /\ s \in Seq(E) /\ Len(s) = Len(p) + Len(r)
      /\ \A i \in 1..(Len(p) + Len(r)) : s[i] = IF i <= Len(p) THEN p[i] ELSE r[i - Len(p)]
  BY <1>4, ConcatProperties
<1> HIDE DEF s
<1>6. ASSUME NEW i \in 1..(Len(q) - 1)
      PROVE  s[i] = IF i < m THEN q[i] ELSE q[i + 1]
  <2>1. i \in 1..(Len(p) + Len(r)) /\ s[i] = IF i <= Len(p) THEN p[i] ELSE r[i - Len(p)]
    <3>1. Len(p) + Len(r) = Len(q) - 1
      BY <1>0, <1>4
    <3>2. i \in 1..(Len(p) + Len(r))
      BY <3>1
    <3> QED BY <1>5, <3>2
  <2>2. CASE i < m
    <3>1. i \in 1..(m - 1) /\ i <= Len(p) /\ p[i] = q[i]
      BY <1>0, <1>4, <2>2
    <3> QED BY <2>1, <2>2, <3>1
  <2>3. CASE ~(i < m)
    <3> DEFINE k == i - Len(p)
    <3>1. ~(i <= Len(p)) /\ k \in 1..(Len(q) - m) /\ m + k = i + 1
      BY <1>0, <1>4, <2>3
    <3> HIDE DEF k
    <3>2. r[k] = q[m + k]
      BY <1>4, <3>1
    <3> QED BY <2>1, <2>3, <3>1, <3>2 DEF k
  <2> QED BY <2>2, <2>3
<1> QED BY <1>0, <1>3, <1>4, <1>5, <1>6

(* An entry that is erased leaves the queue, and the others stay. *)
LEMMA Erased ==
  ASSUME NEW E, NEW q \in Seq(E), NEW x, NEW y, \A z \in E : Single(q, z)
  PROVE  /\ RemoveFirst(q, x) \in Seq(E)
         /\ Stands(RemoveFirst(q, x), y) <=> Stands(q, y) /\ y # x
         /\ Single(RemoveFirst(q, x), y)
<1>0. Len(q) \in Nat /\ (\A j \in 1..Len(q) : q[j] \in E) /\ Single(q, y)
  <2>1. Len(q) \in Nat /\ \A j \in 1..Len(q) : q[j] \in E
    BY ElementOfSeq, LenProperties
  <2> QED BY <2>1 DEF Single
<1>1. CASE ~Stands(q, x)
  BY <1>0, <1>1 DEF RemoveFirst, Stands
<1>2. ASSUME NEW m \in 1..Len(q), q[m] = x
      PROVE  /\ RemoveFirst(q, x) \in Seq(E)
             /\ Stands(RemoveFirst(q, x), y) <=> Stands(q, y) /\ y # x
             /\ Single(RemoveFirst(q, x), y)
  <2> DEFINE s == RemoveFirst(q, x)
  <2>1. m \in 1..Len(q) /\ q[m] = x /\ \A i \in 1..Len(q) : q[i] = x => i = m
    BY <1>0, <1>2 DEF Single
  <2>2. /\ s \in Seq(E) /\ Len(s) = Len(q) - 1
        /\ \A i \in 1..(Len(q) - 1) : s[i] = IF i < m THEN q[i] ELSE q[i + 1]
    BY <1>0, <2>1, ErasedAt
  <2> HIDE DEF s
  <2>3. Stands(s, y) => Stands(q, y) /\ y # x
    <3> SUFFICES ASSUME NEW i \in 1..Len(s), s[i] = y PROVE Stands(q, y) /\ y # x
      BY DEF Stands
    <3>1. i \in 1..(Len(q) - 1) /\ i \in 1..Len(q) /\ i + 1 \in 1..Len(q)
      BY <1>0, <2>2
    <3>2. CASE i < m
      <4>1. q[i] = y /\ i # m
        BY <2>1, <2>2, <3>1, <3>2
      <4> QED BY <2>1, <3>1, <4>1 DEF Stands
    <3>3. CASE ~(i < m)
      <4>1. q[i + 1] = y /\ i + 1 # m
        BY <2>1, <2>2, <3>1, <3>3
      <4> QED BY <2>1, <3>1, <4>1 DEF Stands
    <3> QED BY <3>2, <3>3
  <2>4. ASSUME NEW i \in 1..Len(q), q[i] = y, y # x PROVE Stands(s, y)
    <3>1. CASE i < m
      BY <1>0, <2>1, <2>2, <2>4, <3>1 DEF Stands
    <3>2. CASE ~(i < m)
      <4>1. i # m
        BY <2>1, <2>4
      <4>2. i - 1 \in 1..(Len(q) - 1) /\ ~(i - 1 < m) /\ (i - 1) + 1 = i
        BY <1>0, <2>1, <3>2, <4>1
      <4> QED BY <2>2, <2>4, <4>2 DEF Stands
    <3> QED BY <3>1, <3>2
  <2>5. Single(s, y)
    <3> SUFFICES ASSUME NEW i \in 1..Len(s), NEW j \in 1..Len(s), s[i] = y, s[j] = y PROVE i = j
      BY DEF Single
    <3> DEFINE up(k) == IF k < m THEN k ELSE k + 1
    <3>1. up(i) \in 1..Len(q) /\ q[up(i)] = y /\ up(j) \in 1..Len(q) /\ q[up(j)] = y
      BY <1>0, <2>1, <2>2
    <3>2. up(i) = up(j)
      BY <1>0, <3>1 DEF Single
    <3> QED BY <1>0, <2>1, <2>2, <3>2
  <2> QED BY <2>2, <2>3, <2>4, <2>5 DEF Stands, s
<1> QED BY <1>1, <1>2 DEF Stands

(* The order of the entries of a queue: x stands before y.                 *)
Before(q, x, y) == \E i, j \in 1..Len(q) : i < j /\ q[i] = x /\ q[j] = y

LEMMA BeforeTheEnd ==
  ASSUME NEW E, NEW q \in Seq(E), NEW z \in E, NEW x \in E, NEW y \in E
  PROVE  Before(Append(q, z), x, y) <=> Before(q, x, y) \/ (Stands(q, x) /\ y = z)
<1> DEFINE t == Append(q, z)
<1>1. /\ Len(q) \in Nat /\ Len(t) = Len(q) + 1 /\ t[Len(q) + 1] = z
      /\ \A i \in 1..Len(q) : t[i] = q[i] /\ i \in 1..Len(t)
      /\ \A i \in 1..Len(t) : i = Len(q) + 1 \/ i \in 1..Len(q)
  BY LenProperties, AppendProperties
<1> HIDE DEF t
<1>2. ASSUME Before(t, x, y) PROVE Before(q, x, y) \/ (Stands(q, x) /\ y = z)
  <2>1. PICK i, j \in 1..Len(t) : i < j /\ t[i] = x /\ t[j] = y
    BY <1>2 DEF Before
  <2>2. i \in 1..Len(q) /\ q[i] = x
    BY <1>1, <2>1
  <2>3. CASE j \in 1..Len(q)
    BY <1>1, <2>1, <2>2, <2>3 DEF Before
  <2>4. CASE j = Len(q) + 1
    BY <1>1, <2>1, <2>2, <2>4 DEF Stands
  <2> QED BY <1>1, <2>3, <2>4
<1>3. Before(q, x, y) => Before(t, x, y)
  BY <1>1 DEF Before
<1>4. ASSUME NEW i \in 1..Len(q), q[i] = x, y = z PROVE Before(t, x, y)
  <2>1. Len(q) + 1 \in 1..Len(t) /\ i < Len(q) + 1 /\ i \in 1..Len(t) /\ t[i] = x
    BY <1>1, <1>4
  <2> QED BY <1>1, <1>4, <2>1 DEF Before
<1> QED BY <1>2, <1>3, <1>4 DEF Stands, t

LEMMA BeforeTheRest ==
  ASSUME NEW E, NEW q \in Seq(E), q # <<>>, NEW x, NEW y
  PROVE  /\ Before(q, x, y) <=> Before(Tail(q), x, y) \/ (x = Head(q) /\ Stands(Tail(q), y))
         /\ Single(q, Head(q)) => ~Before(q, x, Head(q))
<1> DEFINE t == Tail(q)
<1>1. /\ Len(q) \in Nat \ {0} /\ Head(q) = q[1] /\ Len(t) = Len(q) - 1 /\ 1 \in 1..Len(q)
      /\ \A i \in 1..Len(t) : i + 1 \in 1..Len(q) /\ t[i] = q[i + 1]
      /\ \A i \in 1..Len(q) : i # 1 => i - 1 \in 1..Len(t) /\ t[i - 1] = q[i]
  BY EmptySeq, HeadTailProperties
<1> HIDE DEF t
<1>2. ASSUME NEW i \in 1..Len(q), NEW j \in 1..Len(q), i < j, q[i] = x, q[j] = y
      PROVE  Before(t, x, y) \/ (x = Head(q) /\ Stands(t, y))
  <2>1. j - 1 \in 1..Len(t) /\ t[j - 1] = y
    BY <1>1, <1>2
  <2>2. CASE i = 1
    BY <1>1, <1>2, <2>1, <2>2 DEF Stands
  <2>3. CASE i # 1
    <3>1. i - 1 \in 1..Len(t) /\ t[i - 1] = x /\ i - 1 < j - 1
      BY <1>1, <1>2, <2>3
    <3> QED BY <2>1, <3>1 DEF Before
  <2> QED BY <2>2, <2>3
<1>3. ASSUME NEW i \in 1..Len(t), NEW j \in 1..Len(t), i < j, t[i] = x, t[j] = y
      PROVE  Before(q, x, y)
  <2>1. i + 1 \in 1..Len(q) /\ j + 1 \in 1..Len(q) /\ i + 1 < j + 1 /\ q[i + 1] = x /\ q[j + 1] = y
    BY <1>1, <1>3
  <2> QED BY <2>1 DEF Before
<1>4. ASSUME x = Head(q), NEW j \in 1..Len(t), t[j] = y PROVE Before(q, x, y)
  <2>1. j + 1 \in 1..Len(q) /\ 1 < j + 1 /\ q[j + 1] = y
    BY <1>1, <1>4
  <2> QED BY <1>1, <1>4, <2>1 DEF Before
<1>5. ASSUME Single(q, Head(q)), NEW i \in 1..Len(q), NEW j \in 1..Len(q), i < j, q[j] = Head(q)
      PROVE  FALSE
  <2>1. j = 1
    BY <1>1, <1>5 DEF Single
  <2> QED BY <1>1, <1>5, <2>1
<1> QED BY <1>2, <1>3, <1>4, <1>5 DEF Before, Stands, t

LEMMA BeforeErased ==
  ASSUME NEW E, NEW q \in Seq(E), NEW z, NEW x, NEW y, \A w \in E : Single(q, w), x # z, y # z
  PROVE  Before(RemoveFirst(q, z), x, y) <=> Before(q, x, y)
<1>0. Len(q) \in Nat /\ \A j \in 1..Len(q) : q[j] \in E
  BY ElementOfSeq, LenProperties
<1>1. CASE ~Stands(q, z)
  BY <1>0, <1>1 DEF RemoveFirst, Stands
<1>2. ASSUME NEW m \in 1..Len(q), q[m] = z
      PROVE  Before(RemoveFirst(q, z), x, y) <=> Before(q, x, y)
  <2> DEFINE s == RemoveFirst(q, z)
  <2>1. Single(q, z)
    BY <1>0, <1>2
  <2>2. /\ Len(s) = Len(q) - 1
        /\ \A i \in 1..(Len(q) - 1) : s[i] = IF i < m THEN q[i] ELSE q[i + 1]
    BY <1>0, <1>2, <2>1, ErasedAt
  <2> HIDE DEF s
  <2>3. ASSUME NEW i \in 1..Len(s), NEW j \in 1..Len(s), i < j, s[i] = x, s[j] = y
        PROVE  Before(q, x, y)
    <3> DEFINE up(k) == IF k < m THEN k ELSE k + 1
    <3>1. /\ up(i) \in 1..Len(q) /\ q[up(i)] = x /\ up(j) \in 1..Len(q) /\ q[up(j)] = y
          /\ up(i) < up(j)
      BY <1>0, <1>2, <2>2, <2>3
    <3> QED BY <3>1 DEF Before
  <2>4. ASSUME NEW i \in 1..Len(q), NEW j \in 1..Len(q), i < j, q[i] = x, q[j] = y
        PROVE  Before(s, x, y)
    <3> DEFINE down(k) == IF k < m THEN k ELSE k - 1
    <3>1. i # m /\ j # m
      BY <1>2, <2>4
    <3>2. /\ down(i) \in 1..Len(s) /\ s[down(i)] = x /\ down(j) \in 1..Len(s) /\ s[down(j)] = y
          /\ down(i) < down(j)
      <4>1. down(i) \in 1..(Len(q) - 1) /\ down(j) \in 1..(Len(q) - 1) /\ down(i) < down(j)
        BY <1>0, <1>2, <2>4, <3>1
      <4>2. /\ down(i) < m => down(i) = i
            /\ ~(down(i) < m) => down(i) + 1 = i
            /\ down(j) < m => down(j) = j
            /\ ~(down(j) < m) => down(j) + 1 = j
        BY <1>0, <1>2, <2>4, <3>1
      <4> HIDE DEF down
      <4> QED BY <2>2, <2>4, <4>1, <4>2
    <3> HIDE DEF down
    <3> QED BY <3>2 DEF Before
  <2> QED BY <2>3, <2>4 DEF Before, s
<1> QED BY <1>1, <1>2 DEF Stands
=============================================================================
