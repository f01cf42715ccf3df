------------------------------ MODULE TimerProofs ------------------------------
(***************************************************************************)
(* Proofs about Timer.tla, for any timers, due at any time.                *)
(***************************************************************************)
EXTENDS Timer, QueueLemmas

(* Where a timer can be: in the vector, in the part of it that update()    *)
(* moves, in its hand, or in the map, called by this update or not.        *)
Added == {a \in Timer : Stands(added, a)}
Moving == {a \in Timer : Stands(moving, a)}
InHand == IF upd = "moveHas" THEN {hand} ELSE {}
Later == {a \in Timer : \E i \in 1..Len(running) : i > ix /\ running[i] = a}
Behind == {a \in Timer : \E i \in 1..Len(running) : i <= ix /\ running[i] = a}

Once ==
  \A a \in Timer : Single(added, a) /\ Single(moving, a) /\ Single(running, a)

Pending == {a \in Timer : outcome[a] = "pending"}

(* A timer is in one place, and waits there; those that this update has    *)
(* called are over.                                                        *)
Places ==
  /\ Pending = Added \union Moving \union InHand \union Later
  /\ \A a \in Added : a \notin Moving /\ a \notin InHand /\ a \notin Later
  /\ \A a \in Moving : a \notin InHand /\ a \notin Later
  /\ \A a \in InHand : a \notin Later
  /\ \A a \in Behind : outcome[a] \in {"fired", "cancelled"}

Sorted == \A i, j \in 1..Len(running) : i < j => tp[running[i]] <= tp[running[j]]

(* What update() has between two of its steps. *)
Steps ==
  /\ upd = "out" => moving = <<>>
  /\ upd \notin {"due", "dueHas"} => ix = 0
  /\ upd \in {"due", "dueHas"} => moving = <<>>
  /\ hand = NoTimer <=> upd \notin {"moveHas", "dueHas"}
  /\ upd = "dueHas" =>
       ix < Len(running) /\ hand = running[ix + 1] /\ tp[hand] <= now_

(* The state of a timer says where it is, and of one that the scheduler's  *)
(* own thread has stopped, that it was: update() does not take it for one  *)
(* that may fire.                                                          *)
States ==
  /\ \A a \in Timer : st[a] = "Added" => a \in Added \union Moving \union InHand
  /\ \A a \in Timer : st[a] = "Runing" => a \in Later
  /\ \A a \in halted : st[a] = "Invalid" /\ outcome[a] # "unset"
  /\ upd = "moveHas" /\ seen = "Added" => hand \notin halted
  /\ upd = "dueHas" /\ seen # "Invalid" => hand \notin halted

(* The types, without the lists. *)
Fields ==
  /\ clock \in 0..MaxClock /\ now_ \in 0..clock
  /\ st \in [Timer -> TimerState] /\ outcome \in [Timer -> Outcome]
  /\ upd \in {"out", "move", "moveHas", "due", "dueHas"}
  /\ hand \in Timer \union {NoTimer} /\ seen \in TimerState
  /\ halted \subseteq Timer

Lists ==
  /\ added \in Seq(Timer)
  /\ moving \in Seq(Timer)
  /\ running \in Seq(Timer)
  /\ ix \in 0..Len(running)
  /\ Once

TimerInv ==
  /\ Fields
  /\ Lists
  /\ Places
  /\ Sorted
  /\ Steps
  /\ States
-----------------------------------------------------------------------------
(* What a sequence is behind its first k elements. *)
LEMMA Suffix ==
  ASSUME NEW E, NEW s \in Seq(E), NEW k \in 0..Len(s)
  PROVE  /\ SubSeq(s, k + 1, Len(s)) \in Seq(E)
         /\ Len(SubSeq(s, k + 1, Len(s))) = Len(s) - k
         /\ \A i \in 1..(Len(s) - k) : SubSeq(s, k + 1, Len(s))[i] = s[i + k] /\ i + k \in 1..Len(s)
<1>1. Len(s) \in Nat /\ k + 1 \in 1..(Len(s) + 1)
  BY LenProperties
<1>2. \A i \in (k + 1)..Len(s) : s[i] \in E
  BY <1>1, ElementOfSeq
<1> DEFINE q == SubSeq(s, k + 1, Len(s))
<1>3. /\ q \in Seq(E)
      /\ Len(q) = IF k + 1 <= Len(s) THEN Len(s) - (k + 1) + 1 ELSE 0
      /\ \A i \in 1..(Len(s) - (k + 1) + 1) : q[i] = s[k + 1 + i - 1]
  BY <1>1, <1>2, SubSeqProperties
<1> HIDE DEF q
<1>4. Len(q) = Len(s) - k
  BY <1>1, <1>3
<1>5. \A i \in 1..(Len(s) - k) : q[i] = s[i + k] /\ i + k \in 1..Len(s)
  BY <1>1, <1>3
<1> QED BY <1>3, <1>4, <1>5 DEF q

(* And with an element more at place p. *)
LEMMA Inserted ==
  ASSUME NEW E, NEW s \in Seq(E), NEW e \in E, NEW p \in 1..(Len(s) + 1)
  PROVE  /\ InsertAt(s, p, e) \in Seq(E)
         /\ Len(InsertAt(s, p, e)) = Len(s) + 1
         /\ \A i \in 1..(Len(s) + 1) :
              InsertAt(s, p, e)[i] = IF i < p THEN s[i] ELSE IF i = p THEN e ELSE s[i - 1]
<1>1. Len(s) \in Nat
  BY LenProperties
<1> DEFINE u == SubSeq(s, 1, p - 1)
           v == SubSeq(s, p, Len(s))
           w == u \o <<e>>
<1>2. u \in Seq(E) /\ Len(u) = p - 1 /\ \A i \in 1..(p - 1) : u[i] = s[i]
  <2>1. 1 \in 1..(Len(s) + 1) /\ p - 1 \in (1 - 1)..Len(s) /\ \A i \in 1..(p - 1) : s[i] \in E
    BY <1>1, ElementOfSeq
  <2>2. /\ u \in Seq(E) /\ Len(u) = IF 1 <= p - 1 THEN p - 1 - 1 + 1 ELSE 0
        /\ \A i \in 1..(p - 1 - 1 + 1) : u[i] = s[1 + i - 1]
    BY <2>1, SubSeqProperties
  <2> HIDE DEF u
  <2> QED BY <1>1, <2>2
<1>3. /\ v \in Seq(E) /\ Len(v) = Len(s) - (p - 1)
      /\ \A i \in 1..(Len(s) - (p - 1)) : v[i] = s[i + (p - 1)]
  <2>1. p - 1 \in 0..Len(s) /\ (p - 1) + 1 = p
    BY <1>1
  <2> QED BY <2>1, Suffix
<1> HIDE DEF u, v
<1>4. w \in Seq(E) /\ Len(w) = p /\ \A i \in 1..p : w[i] = IF i < p THEN s[i] ELSE e
  <2>1. <<e>> \in Seq(E) /\ Len(<<e>>) = 1 /\ <<e>>[1] = e
    OBVIOUS
  <2>2. /\ w \in Seq(E) /\ Len(w) = Len(u) + Len(<<e>>)
        /\ \A i \in 1..(Len(u) + Len(<<e>>)) :
             w[i] = IF i <= Len(u) THEN u[i] ELSE <<e>>[i - Len(u)]
    BY <1>2, <2>1, ConcatProperties
  <2> HIDE DEF w
  <2>3. Len(w) = p
    BY <1>1, <1>2, <2>1, <2>2
  <2>4. ASSUME NEW i \in 1..p PROVE w[i] = IF i < p THEN s[i] ELSE e
    <3>1. CASE i < p
      BY <1>1, <1>2, <2>1, <2>2, <3>1
    <3>2. CASE i = p
      <4>1. i - Len(u) = 1 /\ ~(i <= Len(u)) /\ i \in 1..(Len(u) + Len(<<e>>))
        BY <1>1, <1>2, <2>1, <3>2
      <4> QED BY <2>1, <2>2, <3>2, <4>1
    <3> QED BY <1>1, <3>1, <3>2
  <2> QED BY <2>2, <2>3, <2>4
<1> HIDE DEF w
<1> DEFINE q == w \o v
<1>5. /\ q \in Seq(E) /\ Len(q) = Len(w) + Len(v)
      /\ \A i \in 1..(Len(w) + Len(v)) : q[i] = IF i <= Len(w) THEN w[i] ELSE v[i - Len(w)]
  BY <1>3, <1>4, ConcatProperties
<1>6. q = InsertAt(s, p, e)
  BY DEF InsertAt, q, w, u, v
<1> HIDE DEF q
<1>7. Len(q) = Len(s) + 1
  BY <1>1, <1>3, <1>4, <1>5
<1>8. ASSUME NEW i \in 1..(Len(s) + 1)
      PROVE  q[i] = IF i < p THEN s[i] ELSE IF i = p THEN e ELSE s[i - 1]
  <2>1. CASE i <= p
    BY <1>1, <1>3, <1>4, <1>5, <2>1
  <2>2. CASE i > p
    <3>1. i \in 1..(Len(w) + Len(v)) /\ ~(i <= Len(w)) /\ i - Len(w) = i - p
      BY <1>1, <1>3, <1>4, <2>2
    <3>2. q[i] = v[i - p]
      BY <1>5, <3>1
    <3>3. i - p \in 1..(Len(s) - (p - 1)) /\ (i - p) + (p - 1) = i - 1
      BY <1>1, <2>2
    <3>4. v[i - p] = s[i - 1]
      BY <1>3, <3>3
    <3> QED BY <1>1, <2>2, <3>2, <3>4
  <2> QED BY <1>1, <2>1, <2>2
<1> QED BY <1>5, <1>6, <1>7, <1>8

(* A set of the first numbers is told by its size. *)
LEMMA Initial ==
  ASSUME NEW n \in Nat, NEW D \in SUBSET (1..n),
         \A i \in D : \A j \in 1..n : j < i => j \in D
  PROVE  Cardinality(D) \in 0..n /\ D = 1..Cardinality(D)
<1> DEFINE Out == (1..(n + 1)) \ D
<1>1. n + 1 \in Out /\ Out \in SUBSET Nat
  OBVIOUS
<1>2. PICK m \in Out : \A i \in Out : m <= i
  BY <1>1, Smallest
<1>3. m \in 1..(n + 1) /\ m \notin D /\ \A i \in 1..(n + 1) : i < m => i \in D
  BY <1>2
<1>4. \A i \in D : i < m
  <2> SUFFICES ASSUME NEW i \in D, ~(i < m) PROVE FALSE
    OBVIOUS
  <2>1. i \in 1..n /\ m \in 1..n /\ m <= i
    BY <1>3
  <2> QED BY <1>3, <2>1
<1>5. D = 1..(m - 1) /\ m - 1 \in 0..n
  <2>1. m \in Int /\ m - 1 \in 0..n
    BY <1>3
  <2>2. ASSUME NEW i \in D PROVE i \in 1..(m - 1)
    BY <1>4, <2>1
  <2>3. ASSUME NEW i \in 1..(m - 1) PROVE i \in D
    <3>1. i \in 1..(n + 1) /\ i < m
      BY <1>3
    <3> QED BY <1>3, <3>1
  <2> QED BY <2>1, <2>2, <2>3
<1>6. Cardinality(1..(m - 1)) = m - 1
  BY <1>5, FS_Interval
<1> QED BY <1>5, <1>6
-----------------------------------------------------------------------------
(* What a step does to the places. *)
Moves(inVector, inPart, inHand, inMap, called) ==
  /\ Lists'
  /\ Added' = inVector
  /\ Moving' = inPart
  /\ InHand' = inHand
  /\ Later' = inMap
  /\ Behind' = called

LEMMA Empty == \A a \in Timer : ~Stands(<<>>, a) /\ Single(<<>>, a)
  BY DEF Stands, Single

LEMMA Still ==
  ASSUME Lists, UNCHANGED <<added, moving, running, ix>>, InHand' = InHand
  PROVE  Moves(Added, Moving, InHand, Later, Behind)
  BY DEF Lists, Once, Moves, Added, Moving, Later, Behind

LEMMA AddFacts ==
  ASSUME TimerInv, NEW a \in Timer, Add(a)
  PROVE  Moves(Added \union {a}, Moving, InHand, Later, Behind)
<1>1. /\ Lists /\ a \notin Added /\ added' = Append(added, a)
      /\ UNCHANGED <<moving, running, ix>> /\ InHand' = InHand
  BY DEF TimerInv, Places, Pending, Add, update, InHand
<1>2. added' \in Seq(Timer)
  BY <1>1, AppendProperties DEF Lists
<1>3. \A b \in Timer : /\ Stands(added', b) <=> Stands(added, b) \/ b = a
                       /\ Single(added', b)
  BY <1>1, AtTheEnd DEF Lists, Once, Added
<1>4. Added' = Added \union {a} /\ Moving' = Moving /\ Later' = Later /\ Behind' = Behind
  BY <1>1, <1>3 DEF Added, Moving, Later, Behind
<1>5. Lists'
  BY <1>1, <1>2, <1>3 DEF Lists, Once
<1> QED BY <1>1, <1>4, <1>5 DEF Moves

LEMMA BeginFacts ==
  ASSUME TimerInv, UpdateBegin
  PROVE  \/ Moves({}, Added, InHand, Later, Behind)
         \/ Moves(Added, Moving, InHand, Later, Behind)
<1>1. /\ Lists /\ moving = <<>> /\ ix = 0 /\ upd = "out" /\ ix' = 0 /\ running' = running
      /\ upd' # "moveHas"
  BY DEF TimerInv, Steps, UpdateBegin, ToDue
<1>2. InHand' = InHand
  BY <1>1 DEF InHand
<1>3. CASE moving' = added /\ added' = <<>>
  <2>1. Added' = {} /\ Moving' = Added /\ Later' = Later /\ Behind' = Behind
    BY <1>1, <1>3, Empty DEF Added, Moving, Later, Behind
  <2>2. Lists'
    BY <1>1, <1>3, Empty DEF Lists, Once
  <2> QED BY <1>2, <2>1, <2>2 DEF Moves
<1>4. CASE UNCHANGED <<added, moving>>
  BY <1>1, <1>2, <1>4, Still
<1> QED BY <1>3, <1>4 DEF UpdateBegin

LEMMA LookFacts ==
  ASSUME TimerInv, MoveLook
  PROVE  /\ hand' \in Moving
         /\ Moves(Added, Moving \ {hand'}, {hand'}, Later, Behind)
<1>1. /\ Lists /\ moving # <<>> /\ hand' = Head(moving) /\ moving' = Tail(moving) /\ upd' = "moveHas"
      /\ UNCHANGED <<added, running, ix>>
  BY DEF TimerInv, MoveLook
<1>2. moving' \in Seq(Timer) /\ hand' \in Timer
  BY <1>1, HeadTailProperties DEF Lists
<1>3. ASSUME NEW b \in Timer
      PROVE  /\ Stands(moving', b) <=> Stands(moving, b) /\ b # hand'
             /\ Single(moving', b)
             /\ Stands(moving, hand')
  <2>1. Single(moving, b) /\ Single(moving, hand') /\ moving \in Seq(Timer)
    BY <1>1, <1>2 DEF Lists, Once
  <2> QED BY <1>1, <1>2, <2>1, AtTheFront
<1>4. /\ Added' = Added /\ Moving' = Moving \ {hand'} /\ Later' = Later /\ Behind' = Behind
      /\ InHand' = {hand'} /\ hand' \in Moving
  BY <1>1, <1>2, <1>3 DEF Added, Moving, Later, Behind, InHand
<1>5. Lists'
  BY <1>1, <1>2, <1>3 DEF Lists, Once
<1> QED BY <1>4, <1>5 DEF Moves

(* The place where the multimap inserts. *)
LEMMA Placed ==
  ASSUME TimerInv, NEW a \in Timer
  PROVE  /\ Place(a) \in 1..(Len(running) + 1)
         /\ \A i \in 1..Len(running) : tp[running[i]] <= tp[a] <=> i < Place(a)
<1> DEFINE n == Len(running)
           D == {i \in DOMAIN running : tp[running[i]] <= tp[a]}
<1>1. n \in Nat /\ DOMAIN running = 1..n /\ \A i \in 1..n : running[i] \in Timer
  BY ElementOfSeq DEF TimerInv, Lists
<1>2. tp \in [Timer -> 0..MaxClock] /\ MaxClock \in Nat
  BY TimeAssumption
<1>3. D \in SUBSET (1..n)
  BY <1>1
<1>4. \A i \in D : \A j \in 1..n : j < i => j \in D
  <2> SUFFICES ASSUME NEW i \in D, NEW j \in 1..n, j < i PROVE j \in D
    OBVIOUS
  <2>1. tp[running[j]] <= tp[running[i]] /\ tp[running[i]] <= tp[a] /\ i \in 1..n
    BY <1>1 DEF TimerInv, Sorted
  <2>2. running[i] \in Timer /\ running[j] \in Timer
    BY <1>1, <2>1
  <2>3. tp[running[j]] \in Int /\ tp[running[i]] \in Int /\ tp[a] \in Int
    BY <1>2, <2>2
  <2>4. tp[running[j]] <= tp[a]
    BY <2>1, <2>3
  <2> QED BY <1>1, <2>4
<1> HIDE DEF D
<1>5. Cardinality(D) \in 0..n /\ D = 1..Cardinality(D)
  BY <1>1, <1>3, <1>4, Initial
<1>6. Place(a) = 1 + Cardinality(D)
  BY DEF Place, D
<1>7. \A i \in 1..n : tp[running[i]] <= tp[a] <=> i \in D
  BY <1>1 DEF D
<1> QED BY <1>1, <1>5, <1>6, <1>7

LEMMA InsertFacts ==
  ASSUME TimerInv, MoveAct, seen = "Added"
  PROVE  Moves(Added, Moving, {}, Later \union {hand}, Behind) /\ Sorted'
<1>1. /\ Lists /\ Sorted /\ hand \in Timer /\ hand \notin Later /\ ix = 0 /\ ix' = 0 /\ upd' = "move"
      /\ running' = InsertAt(running, Place(hand), hand)
      /\ UNCHANGED <<added, moving>>
  BY SleeperAssumption DEF TimerInv, Fields, Places, Steps, InHand, MoveAct
<1> DEFINE n == Len(running)
           p == Place(hand)
<1>2. n \in Nat /\ running \in Seq(Timer) /\ \A i \in 1..n : running[i] \in Timer
  BY <1>1, ElementOfSeq DEF Lists
<1>3. p \in 1..(n + 1) /\ \A i \in 1..n : tp[running[i]] <= tp[hand] <=> i < p
  BY <1>1, Placed
<1> HIDE DEF n, p
<1>4. /\ running' \in Seq(Timer) /\ Len(running') = n + 1
      /\ \A i \in 1..(n + 1) :
           running'[i] = IF i < p THEN running[i] ELSE IF i = p THEN hand ELSE running[i - 1]
  <2>1. hand \in Timer /\ running \in Seq(Timer) /\ p \in 1..(Len(running) + 1)
    BY <1>1, <1>2, <1>3 DEF n
  <2>2. /\ InsertAt(running, p, hand) \in Seq(Timer)
        /\ Len(InsertAt(running, p, hand)) = Len(running) + 1
        /\ \A i \in 1..(Len(running) + 1) :
             InsertAt(running, p, hand)[i]
               = IF i < p THEN running[i] ELSE IF i = p THEN hand ELSE running[i - 1]
    BY <2>1, Inserted
  <2> QED BY <1>1, <2>2 DEF n, p
<1>5. \A i \in 1..n : running[i] # hand
  BY <1>1, <1>2 DEF Later, n
<1>6. \A i \in 1..(n + 1) : running'[i] # hand <=> i # p
  <2> TAKE i \in 1..(n + 1)
  <2>1. CASE i < p
    <3>1. i \in 1..n /\ i # p /\ running'[i] = running[i]
      BY <1>2, <1>3, <1>4, <2>1
    <3> QED BY <1>5, <3>1
  <2>2. CASE i = p
    BY <1>4, <2>2
  <2>3. CASE i > p
    <3>1. i - 1 \in 1..n /\ i # p /\ ~(i < p)
      BY <1>2, <1>3, <2>3
    <3>2. running'[i] = running[i - 1]
      BY <1>4, <3>1
    <3> QED BY <1>5, <3>1, <3>2
  <2> QED BY <1>2, <1>3, <2>1, <2>2, <2>3
<1>7. ASSUME NEW b \in Timer
      PROVE  Stands(running', b) <=> Stands(running, b) \/ b = hand
  <2>1. ASSUME NEW i \in 1..(n + 1), running'[i] = b, b # hand PROVE Stands(running, b)
    <3>1. CASE i < p
      BY <1>2, <1>3, <1>4, <2>1, <3>1 DEF Stands, n
    <3>2. CASE i > p
      <4>1. i - 1 \in 1..n /\ running[i - 1] = b
        BY <1>2, <1>3, <1>4, <2>1, <3>2
      <4> QED BY <4>1 DEF Stands, n
    <3>3. i # p
      BY <1>3, <1>4, <2>1
    <3> QED BY <1>3, <3>1, <3>2, <3>3
  <2>2. ASSUME NEW i \in 1..n, running[i] = b PROVE Stands(running', b)
    <3>1. CASE i < p
      <4>1. i \in 1..(n + 1) /\ running'[i] = b
        BY <1>2, <1>4, <2>2, <3>1
      <4> QED BY <1>4, <4>1 DEF Stands
    <3>2. CASE ~(i < p)
      <4>1. i + 1 \in 1..(n + 1) /\ ~(i + 1 < p) /\ i + 1 # p /\ (i + 1) - 1 = i
        BY <1>2, <1>3, <3>2
      <4>2. running'[i + 1] = b
        BY <1>4, <2>2, <4>1
      <4> QED BY <1>4, <4>1, <4>2 DEF Stands
    <3> QED BY <3>1, <3>2
  <2>3. Stands(running', hand)
    BY <1>3, <1>4 DEF Stands
  <2> QED BY <1>4, <2>1, <2>2, <2>3 DEF Stands, n
<1>8. ASSUME NEW b \in Timer PROVE Single(running', b)
  <2> SUFFICES ASSUME NEW i \in 1..(n + 1), NEW j \in 1..(n + 1), running'[i] = b, running'[j] = b
               PROVE  i = j
    BY <1>4 DEF Single
  <2>1. CASE b = hand
    BY <1>6, <2>1
  <2>2. CASE b # hand
    <3>1. i # p /\ j # p
      BY <1>6, <2>2
    <3> DEFINE k == IF i < p THEN i ELSE i - 1
               l == IF j < p THEN j ELSE j - 1
    <3>2. k \in 1..n /\ l \in 1..n
      BY <1>2, <1>3, <3>1
    <3>3. running[k] = b /\ running[l] = b
      BY <1>4, <3>1
    <3>4. k = l
      BY <1>1, <3>2, <3>3 DEF Lists, Once, Single, n
    <3> QED BY <1>2, <1>3, <3>1, <3>4
  <2> QED BY <2>1, <2>2
<1>9. Sorted'
  <2> SUFFICES ASSUME NEW i \in 1..(n + 1), NEW j \in 1..(n + 1), i < j
               PROVE  tp[running'[i]] <= tp[running'[j]]
    BY <1>4 DEF Sorted
  <2>0. /\ \A x \in Timer : tp[x] \in Int
        /\ \A x, y \in 1..n : x < y => tp[running[x]] <= tp[running[y]]
    BY <1>1, TimeAssumption DEF Sorted, n
  <2>1. CASE i = p
    <3>1. j - 1 \in 1..n /\ ~(j - 1 < p) /\ running'[j] = running[j - 1] /\ running'[i] = hand
      BY <1>2, <1>3, <1>4, <2>1
    <3>2. ~(tp[running[j - 1]] <= tp[hand]) /\ running[j - 1] \in Timer
      BY <1>2, <1>3, <3>1
    <3> QED BY <1>1, <2>0, <3>1, <3>2
  <2>2. CASE j = p
    <3>1. i \in 1..n /\ i < p /\ running'[i] = running[i] /\ running'[j] = hand
      BY <1>2, <1>3, <1>4, <2>2
    <3> QED BY <1>3, <3>1
  <2>3. CASE i # p /\ j # p
    <3> DEFINE k == IF i < p THEN i ELSE i - 1
               l == IF j < p THEN j ELSE j - 1
    <3>1. k \in 1..n /\ l \in 1..n /\ k < l
      BY <1>2, <1>3, <2>3
    <3>2. running'[i] = running[k] /\ running'[j] = running[l]
      BY <1>4, <2>3
    <3> QED BY <2>0, <3>1, <3>2
  <2> QED BY <2>1, <2>2, <2>3
<1>10. /\ Later = {b \in Timer : Stands(running, b)} /\ Behind = {}
       /\ Later' = {b \in Timer : Stands(running', b)} /\ Behind' = {}
  BY <1>1, <1>2, <1>4 DEF Later, Behind, Stands, n
<1>11. Later' = Later \union {hand} /\ Added' = Added /\ Moving' = Moving /\ InHand' = {}
  BY <1>1, <1>7, <1>10 DEF Added, Moving, InHand
<1>12. Lists'
  BY <1>1, <1>2, <1>4, <1>8 DEF Lists, Once
<1> QED BY <1>9, <1>10, <1>11, <1>12 DEF Moves

(* A callback takes its timer's result, and the states of that one and of  *)
(* what it stops.                                                          *)
LEMMA CancelFacts ==
  ASSUME TimerInv, MoveAct, seen # "Added"
  PROVE  Moves(Added, Moving, {}, Later, Behind) /\ Sorted'
  BY DEF TimerInv, Lists, Once, MoveAct, Moves, Added, Moving, InHand, Later, Behind, Sorted

LEMMA EndFacts ==
  ASSUME TimerInv, MoveEnd
  PROVE  Moves(Added, Moving, {}, Later, Behind)
<1>1. /\ Lists /\ UNCHANGED <<added, moving, running>> /\ ix = 0 /\ ix' = 0 /\ upd' # "moveHas"
  BY DEF TimerInv, Steps, MoveEnd, ToDue, lists
<1> QED BY <1>1 DEF Lists, Once, Moves, Added, Moving, InHand, Later, Behind

LEMMA DueLookFacts ==
  ASSUME TimerInv, DueLook
  PROVE  Moves(Added, Moving, {}, Later, Behind)
<1>1. /\ Lists /\ UNCHANGED <<added, moving, running, ix>> /\ upd' # "moveHas"
  BY DEF TimerInv, DueLook, lists
<1> QED BY <1>1 DEF Lists, Once, Moves, Added, Moving, InHand, Later, Behind

LEMMA DueActFacts ==
  ASSUME TimerInv, DueAct
  PROVE  /\ hand \in Later
         /\ Moves(Added, Moving, {}, Later \ {hand}, Behind \union {hand})
<1>1. /\ Lists /\ UNCHANGED <<added, moving, running>> /\ ix' = ix + 1 /\ upd' = "due"
      /\ ix < Len(running) /\ hand = running[ix + 1] /\ ix \in 0..Len(running)
      /\ Len(running) \in Nat
  BY LenProperties DEF TimerInv, Lists, Steps, DueAct, lists
<1>2. hand \in Timer /\ ix + 1 \in 1..Len(running)
  BY <1>1, ElementOfSeq DEF Lists
<1>3. \A i, j \in 1..Len(running) : running[i] = running[j] => i = j
  BY <1>1, ElementOfSeq DEF Lists, Once, Single
<1>4. Later' = Later \ {hand}
  BY <1>1, <1>2, <1>3 DEF Later
<1>5. Behind' = Behind \union {hand}
  BY <1>1, <1>2 DEF Behind
<1>6. hand \in Later /\ Added' = Added /\ Moving' = Moving /\ InHand' = {}
  BY <1>1, <1>2 DEF Later, Added, Moving, InHand
<1>7. Lists'
  BY <1>1 DEF Lists, Once
<1> QED BY <1>4, <1>5, <1>6, <1>7 DEF Moves

LEMMA DueEndFacts ==
  ASSUME TimerInv, DueEnd
  PROVE  Moves(Added, Moving, {}, Later, {}) /\ Sorted'
<1>1. /\ Lists /\ Sorted /\ UNCHANGED <<added, moving>> /\ ix' = 0 /\ upd' = "out"
      /\ running' = SubSeq(running, ix + 1, Len(running)) /\ running \in Seq(Timer)
      /\ ix \in 0..Len(running) /\ Len(running) \in Nat
  BY LenProperties DEF TimerInv, Lists, DueEnd
<1>2. /\ running' \in Seq(Timer) /\ Len(running') = Len(running) - ix
      /\ \A i \in 1..(Len(running) - ix) : running'[i] = running[i + ix] /\ i + ix \in 1..Len(running)
  BY <1>1, Suffix
<1>3. ASSUME NEW b \in Later PROVE b \in Later'
  <2>1. PICK i \in 1..Len(running) : i > ix /\ running[i] = b
    BY <1>3 DEF Later
  <2>2. i - ix \in 1..Len(running') /\ i - ix > 0 /\ (i - ix) + ix = i
    BY <1>1, <1>2, <2>1
  <2>3. running'[i - ix] = b
    BY <1>2, <2>1, <2>2
  <2> QED BY <1>1, <1>3, <2>2, <2>3 DEF Later
<1>4. ASSUME NEW b \in Later' PROVE b \in Later
  <2>1. PICK i \in 1..Len(running') : running'[i] = b
    BY <1>4 DEF Later
  <2>2. i + ix \in 1..Len(running) /\ i + ix > ix /\ running[i + ix] = b
    BY <1>1, <1>2, <2>1
  <2> QED BY <1>4, <2>2 DEF Later
<1>5. Behind' = {} /\ Added' = Added /\ Moving' = Moving /\ InHand' = {}
  BY <1>1, <1>2 DEF Behind, Added, Moving, InHand
<1>6. Sorted'
  <2> SUFFICES ASSUME NEW i \in 1..Len(running'), NEW j \in 1..Len(running'), i < j
               PROVE  tp[running'[i]] <= tp[running'[j]]
    BY DEF Sorted
  <2>1. /\ i + ix \in 1..Len(running) /\ j + ix \in 1..Len(running) /\ i + ix < j + ix
        /\ running'[i] = running[i + ix] /\ running'[j] = running[j + ix]
    BY <1>1, <1>2
  <2> QED BY <1>1, <2>1 DEF Sorted
<1>7. ASSUME NEW b \in Timer PROVE Single(running', b)
  <2> SUFFICES ASSUME NEW i \in 1..Len(running'), NEW j \in 1..Len(running'),
                      running'[i] = b, running'[j] = b
               PROVE  i = j
    BY DEF Single
  <2>1. /\ i + ix \in 1..Len(running) /\ j + ix \in 1..Len(running)
        /\ running[i + ix] = b /\ running[j + ix] = b
    BY <1>1, <1>2
  <2>2. i + ix = j + ix
    BY <1>1, <2>1 DEF Lists, Once, Single
  <2> QED BY <1>1, <2>2
<1>8. Lists'
  BY <1>1, <1>2, <1>7 DEF Lists, Once
<1> QED BY <1>3, <1>4, <1>5, <1>6, <1>8 DEF Moves

LEMMA ClearFacts ==
  ASSUME TimerInv, Clear
  PROVE  Moves({}, {}, {}, {}, {})
<1>1. /\ Lists /\ moving = <<>> /\ moving' = <<>> /\ added' = <<>> /\ running' = <<>> /\ ix' = 0
      /\ upd' = "out"
  BY DEF TimerInv, Steps, Clear, update
<1>2. Added' = {} /\ Moving' = {} /\ InHand' = {} /\ Later' = {} /\ Behind' = {}
  BY <1>1, Empty DEF Added, Moving, InHand, Later, Behind
<1>3. Lists'
  BY <1>1, Empty DEF Lists, Once
<1> QED BY <1>2, <1>3 DEF Moves

(* Clear() takes every timer that is in the vector or in the map. *)
LEMMA ClearAll ==
  ASSUME TimerInv, upd = "out"
  PROVE  /\ Moving = {} /\ InHand = {} /\ Behind = {}
         /\ ToSet(added) \union ToSet(running) = Added \union Later
<1>1. /\ Lists /\ moving = <<>> /\ ix = 0 /\ added \in Seq(Timer) /\ running \in Seq(Timer)
  BY DEF TimerInv, Lists, Steps
<1>2. Moving = {} /\ InHand = {} /\ Behind = {}
  BY <1>1, Empty DEF Moving, InHand, Behind
<1>3. ToSet(added) = Added
  BY <1>1, ElementOfSeq, LenProperties DEF ToSet, Added, Stands
<1>4. ToSet(running) = Later
  BY <1>1, ElementOfSeq, LenProperties DEF ToSet, Later
<1> QED BY <1>2, <1>3, <1>4
-----------------------------------------------------------------------------
(* The timer that is called, and those that its callback stops. *)
LEMMA CalledFacts ==
  ASSUME TimerInv, NEW a \in Timer, NEW how \in Outcome, NEW H \in Stops(a), Called(a, how, H)
  PROVE  /\ H \subseteq Timer \ {a}
         /\ \A b \in H : st[b] # "Invalid"
         /\ outcome' \in [Timer -> Outcome] /\ st' \in [Timer -> TimerState]
         /\ \A b \in Timer : /\ outcome'[b] = IF b = a THEN how ELSE outcome[b]
                             /\ st'[b] = IF b \in H \union {a} THEN "Invalid" ELSE st[b]
         /\ halted' = halted \union H
<1>1. H \subseteq Timer \ {a} /\ \A b \in H : st[b] # "Invalid"
  BY DEF Stops, Stoppable
<1>2. st \in [Timer -> TimerState] /\ outcome \in [Timer -> Outcome]
  BY DEF TimerInv, Fields
<1> QED BY <1>1, <1>2 DEF Called, TimerState

(* Only a timer that waits has a state to stop, and one that was stopped   *)
(* has none.                                                               *)
LEMMA WaitsWithState ==
  ASSUME TimerInv, NEW a \in Timer, st[a] # "Invalid"
  PROVE  outcome[a] = "pending" /\ a \notin halted
  BY DEF TimerInv, States, Fields, Places, TimerState, Pending

(* The timer in the hand is one, and waits. *)
LEMMA HandFacts ==
  ASSUME TimerInv, upd \in {"moveHas", "dueHas"}
  PROVE  hand \in Timer /\ hand \in Pending
<1>1. hand \in Timer
  BY DEF TimerInv, Fields, Steps
<1>2. CASE upd = "moveHas"
  BY <1>1, <1>2 DEF TimerInv, Places, InHand
<1>3. CASE upd = "dueHas"
  <2>1. ix < Len(running) /\ hand = running[ix + 1] /\ ix \in 0..Len(running) /\ Len(running) \in Nat
    BY <1>3, LenProperties DEF TimerInv, Lists, Steps
  <2>2. hand \in Later
    BY <1>1, <2>1 DEF Later
  <2> QED BY <1>1, <2>2 DEF TimerInv, Places
<1> QED BY <1>1, <1>2, <1>3

LEMMA NextFields ==
  ASSUME TimerInv, TimerNext
  PROVE  Fields'
<1>0. Fields /\ MaxClock \in Nat
  BY TimeAssumption DEF TimerInv
<1>1. CASE Tick
  BY <1>0, <1>1 DEF Fields, Tick, update
<1>2. CASE UpdateBegin \/ MoveEnd
  BY <1>0, <1>2 DEF Fields, UpdateBegin, MoveEnd, ToDue, lists
<1>3. CASE MoveLook
  <2>1. hand' \in Timer
    BY <1>3, LookFacts DEF Moving
  <2> QED BY <1>0, <1>3, <2>1 DEF Fields, MoveLook
<1>4. CASE MoveAct
  <2>1. hand \in Timer
    BY <1>4, HandFacts DEF MoveAct
  <2>2. CASE seen = "Added"
    BY <1>0, <1>4, <2>1, <2>2 DEF Fields, MoveAct, TimerState
  <2>3. CASE seen # "Added"
    <3>1. PICK H \in Stops(hand) : Called(hand, "cancelled", H)
      BY <1>4, <2>3 DEF MoveAct
    <3>2. H \subseteq Timer /\ outcome' \in [Timer -> Outcome] /\ st' \in [Timer -> TimerState]
          /\ halted' = halted \union H
      BY <2>1, <3>1, CalledFacts DEF Outcome
    <3> QED BY <1>0, <1>4, <3>2 DEF Fields, MoveAct
  <2> QED BY <2>2, <2>3
<1>5. CASE DueLook
  <2>1. running[ix + 1] \in Timer
    BY <1>5, ElementOfSeq, LenProperties DEF TimerInv, Lists, DueLook, IsDue
  <2> QED BY <1>0, <1>5, <2>1 DEF Fields, DueLook
<1>6. CASE DueAct
  <2>1. hand \in Timer
    BY <1>6, HandFacts DEF DueAct
  <2>2. PICK how \in Outcome : \E H \in Stops(hand) : Called(hand, how, H)
    BY <1>6 DEF DueAct, Outcome
  <2>3. PICK H \in Stops(hand) : Called(hand, how, H)
    BY <2>2
  <2>4. H \subseteq Timer /\ outcome' \in [Timer -> Outcome] /\ st' \in [Timer -> TimerState]
        /\ halted' = halted \union H
    BY <2>1, <2>3, CalledFacts
  <2> QED BY <1>0, <1>6, <2>4 DEF Fields, DueAct
<1>7. CASE DueEnd
  BY <1>0, <1>7 DEF Fields, DueEnd
<1>8. CASE Clear
  BY <1>0, <1>8 DEF Fields, Clear, update, Outcome, TimerState
<1>9. ASSUME NEW a \in Timer, Add(a) PROVE Fields'
  BY <1>0, <1>9 DEF Fields, Add, update, Outcome, TimerState
<1>10. ASSUME NEW a \in Timer, StopHere(a) PROVE Fields'
  BY <1>0, <1>10 DEF Fields, StopHere, update, TimerState
<1>11. ASSUME NEW a \in Timer, StopElsewhere(a) PROVE Fields'
  BY <1>0, <1>11 DEF Fields, StopElsewhere, update, TimerState
<1> QED BY <1>1, <1>2, <1>3, <1>4, <1>5, <1>6, <1>7, <1>8, <1>9, <1>10, <1>11 DEF TimerNext, Update

(* What a step does that leaves the lists as they are. *)
LEMMA Apart ==
  ASSUME TimerInv, \/ Tick
                   \/ \E a \in Timer : StopHere(a) \/ StopElsewhere(a)
  PROVE  /\ Moves(Added, Moving, InHand, Later, Behind)
         /\ UNCHANGED <<outcome, running, upd, hand, seen, ix, now_, moving>>
<1>1. /\ Lists /\ UNCHANGED <<added, moving, running, ix, upd, hand, outcome, seen, now_>>
  BY DEF TimerInv, Tick, StopHere, StopElsewhere, update, lists
<1>2. InHand' = InHand
  BY <1>1 DEF InHand
<1> QED BY <1>1, <1>2, Still

LEMMA NextSorted ==
  ASSUME TimerInv, TimerNext
  PROVE  Sorted'
<1>0. Sorted
  BY DEF TimerInv
<1>1. CASE UNCHANGED running
  BY <1>0, <1>1 DEF Sorted
<1>2. CASE MoveAct
  BY <1>2, InsertFacts, CancelFacts
<1>3. CASE DueEnd
  BY <1>3, DueEndFacts
<1>4. CASE Clear
  BY <1>4 DEF Clear, Sorted
<1>5. ASSUME NEW a \in Timer, Add(a) \/ StopHere(a) \/ StopElsewhere(a) PROVE UNCHANGED running
  BY <1>5 DEF Add, StopHere, StopElsewhere, lists
<1> QED
  BY <1>1, <1>2, <1>3, <1>4, <1>5
  DEF TimerNext, Update, Tick, UpdateBegin, MoveLook, MoveEnd, DueLook, DueAct, lists

LEMMA NextLists ==
  ASSUME TimerInv, TimerNext
  PROVE  Lists'
  BY Apart, AddFacts, BeginFacts, LookFacts, InsertFacts, CancelFacts, EndFacts, DueLookFacts,
     DueActFacts, DueEndFacts, ClearFacts
  DEF TimerNext, Update, Moves

LEMMA NextPlaces ==
  ASSUME TimerInv, TimerNext
  PROVE  Places'
<1>0. /\ Pending = Added \union Moving \union InHand \union Later
      /\ \A a \in Added : a \notin Moving /\ a \notin InHand /\ a \notin Later
      /\ \A a \in Moving : a \notin InHand /\ a \notin Later
      /\ \A a \in InHand : a \notin Later
      /\ \A a \in Behind : outcome[a] \in {"fired", "cancelled"}
      /\ Behind \subseteq Timer /\ outcome \in [Timer -> Outcome]
  BY DEF TimerInv, Places, Fields, Behind
<1>1. CASE Tick \/ \E a \in Timer : StopHere(a) \/ StopElsewhere(a)
  BY <1>0, <1>1, Apart DEF Moves, Places, Pending
<1>2. ASSUME NEW a \in Timer, Add(a) PROVE Places'
  <2>1. /\ Added' = Added \union {a} /\ Moving' = Moving /\ InHand' = InHand
        /\ Later' = Later /\ Behind' = Behind
    BY <1>2, AddFacts DEF Moves
  <2>2. outcome[a] = "unset" /\ a \notin Pending
    BY <1>2 DEF Add, Pending
  <2>3. \A b \in Timer : outcome'[b] = IF b = a THEN "pending" ELSE outcome[b]
    BY <1>0, <1>2 DEF Add
  <2>4. Pending' = Pending \union {a}
    BY <2>3 DEF Pending
  <2>5. \A b \in Behind' : outcome'[b] \in {"fired", "cancelled"}
    BY <1>0, <2>1, <2>2, <2>3
  <2> QED BY <1>0, <2>1, <2>2, <2>4, <2>5 DEF Places
<1>3. CASE UpdateBegin
  <2>1. UNCHANGED outcome /\ InHand = {} /\ Moving = {}
    BY <1>3, Empty DEF UpdateBegin, TimerInv, Steps, InHand, Moving
  <2> QED BY <1>0, <1>3, <2>1, BeginFacts DEF Moves, Places, Pending
<1>4. CASE MoveLook
  <2>1. UNCHANGED outcome /\ InHand = {}
    BY <1>4 DEF MoveLook, InHand
  <2> QED BY <1>0, <1>4, <2>1, LookFacts DEF Moves, Places, Pending
<1>5. CASE MoveAct
  <2>1. InHand = {hand} /\ hand \in Timer /\ hand \in Pending
    BY <1>5, HandFacts DEF MoveAct, InHand
  <2>2. CASE seen = "Added"
    <3>1. UNCHANGED outcome
      BY <1>5, <2>2 DEF MoveAct
    <3> QED BY <1>0, <1>5, <2>1, <2>2, <3>1, InsertFacts DEF Moves, Places, Pending
  <2>3. CASE seen # "Added"
    <3>1. /\ Added' = Added /\ Moving' = Moving /\ InHand' = {} /\ Later' = Later /\ Behind' = Behind
      BY <1>5, <2>3, CancelFacts DEF Moves
    <3>2. PICK H \in Stops(hand) : Called(hand, "cancelled", H)
      BY <1>5, <2>3 DEF MoveAct
    <3>3. \A b \in Timer : outcome'[b] = IF b = hand THEN "cancelled" ELSE outcome[b]
      BY <2>1, <3>2, CalledFacts DEF Outcome
    <3>4. Pending' = Pending \ {hand}
      BY <3>3 DEF Pending
    <3>5. \A b \in Behind' : outcome'[b] \in {"fired", "cancelled"}
      BY <1>0, <3>1, <3>3
    <3> QED BY <1>0, <2>1, <3>1, <3>4, <3>5 DEF Places
  <2> QED BY <2>2, <2>3
<1>6. CASE MoveEnd \/ DueLook
  <2>1. UNCHANGED outcome /\ InHand = {}
    BY <1>6 DEF MoveEnd, DueLook, InHand
  <2> QED BY <1>0, <1>6, <2>1, EndFacts, DueLookFacts DEF Moves, Places, Pending
<1>7. CASE DueAct
  <2>1. InHand = {} /\ hand \in Timer
    BY <1>7, HandFacts DEF DueAct, InHand
  <2>2. /\ hand \in Later /\ Added' = Added /\ Moving' = Moving /\ InHand' = {}
        /\ Later' = Later \ {hand} /\ Behind' = Behind \union {hand}
    BY <1>7, DueActFacts DEF Moves
  <2>3. PICK how \in {"fired", "cancelled"} : \E H \in Stops(hand) : Called(hand, how, H)
    BY <1>7 DEF DueAct
  <2>4. PICK H \in Stops(hand) : Called(hand, how, H)
    BY <2>3
  <2>5. \A b \in Timer : outcome'[b] = IF b = hand THEN how ELSE outcome[b]
    BY <2>1, <2>4, CalledFacts DEF Outcome
  <2>6. Pending' = Pending \ {hand}
    BY <2>5 DEF Pending
  <2>7. \A b \in Behind' : outcome'[b] \in {"fired", "cancelled"}
    BY <1>0, <2>1, <2>2, <2>5
  <2> QED BY <1>0, <2>1, <2>2, <2>6, <2>7 DEF Places
<1>8. CASE DueEnd
  <2>1. UNCHANGED outcome /\ InHand = {}
    BY <1>8 DEF DueEnd, InHand
  <2> QED BY <1>0, <1>8, <2>1, DueEndFacts DEF Moves, Places, Pending
<1>9. CASE Clear
  <2>1. Pending = Added \union Later
    BY <1>0, <1>9, ClearAll DEF Clear
  <2>2. \A b \in Timer : outcome'[b] = IF b \in Pending THEN "cancelled" ELSE outcome[b]
    BY <1>9, <2>1, ClearAll DEF Clear
  <2>3. Pending' = {}
    BY <2>2 DEF Pending
  <2> QED BY <1>9, <2>3, ClearFacts DEF Moves, Places
<1> QED BY <1>1, <1>2, <1>3, <1>4, <1>5, <1>6, <1>7, <1>8, <1>9 DEF TimerNext, Update

LEMMA NextSteps ==
  ASSUME TimerInv, TimerNext
  PROVE  Steps'
<1>0. /\ Steps /\ NoTimer \notin Timer /\ running \in Seq(Timer) /\ ix \in 0..Len(running)
      /\ Len(running) \in Nat
  BY SleeperAssumption, LenProperties DEF TimerInv, Lists
<1>1. CASE Tick \/ \E a \in Timer : StopHere(a) \/ StopElsewhere(a)
  BY <1>0, <1>1, Apart DEF Steps
<1>2. ASSUME NEW a \in Timer, Add(a) PROVE Steps'
  BY <1>0, <1>2 DEF Steps, Add, update
<1>3. CASE UpdateBegin \/ MoveEnd
  BY <1>0, <1>3 DEF Steps, UpdateBegin, MoveEnd, ToDue, lists
<1>4. CASE MoveLook
  <2>1. hand' \in Timer
    BY <1>4, LookFacts DEF Moving
  <2> QED BY <1>0, <1>4, <2>1 DEF Steps, MoveLook
<1>5. CASE MoveAct
  BY <1>0, <1>5 DEF Steps, MoveAct
<1>6. CASE DueLook
  <2>1. running[ix + 1] \in Timer
    BY <1>0, <1>6, ElementOfSeq DEF DueLook, IsDue
  <2>2. /\ upd' = "dueHas" /\ hand' = running[ix + 1] /\ ix < Len(running) /\ tp[running[ix + 1]] <= now_
        /\ UNCHANGED <<added, moving, running, ix, now_>> /\ moving = <<>>
    BY <1>0, <1>6 DEF DueLook, IsDue, Steps, lists
  <2> QED BY <1>0, <2>1, <2>2 DEF Steps
<1>7. CASE DueAct
  BY <1>0, <1>7 DEF Steps, DueAct, lists
<1>8. CASE DueEnd
  BY <1>0, <1>8 DEF Steps, DueEnd
<1>9. CASE Clear
  BY <1>0, <1>9 DEF Steps, Clear, update
<1> QED BY <1>1, <1>2, <1>3, <1>4, <1>5, <1>6, <1>7, <1>8, <1>9 DEF TimerNext, Update

LEMMA NextStates ==
  ASSUME TimerInv, TimerNext
  PROVE  States'
<1>0. /\ \A a \in Timer : st[a] = "Added" => a \in Added \union Moving \union InHand
      /\ \A a \in Timer : st[a] = "Runing" => a \in Later
      /\ \A a \in halted : st[a] = "Invalid" /\ outcome[a] # "unset"
      /\ upd = "moveHas" /\ seen = "Added" => hand \notin halted
      /\ upd = "dueHas" /\ seen # "Invalid" => hand \notin halted
      /\ halted \subseteq Timer /\ st \in [Timer -> TimerState]
      /\ Pending = Added \union Moving \union InHand \union Later
  BY DEF TimerInv, States, Fields, Places
<1>1. \A a \in Timer : st[a] # "Invalid" => outcome[a] = "pending"
  BY WaitsWithState
<1>2. CASE Tick
  BY <1>0, <1>2, Apart DEF States, Moves, Tick
<1>3. ASSUME NEW a \in Timer, StopHere(a) \/ StopElsewhere(a) PROVE States'
  <2>1. \A b \in Timer : st'[b] = IF b = a THEN "Invalid" ELSE st[b]
    BY <1>0, <1>3 DEF StopHere, StopElsewhere
  <2>2. /\ st[a] # "Invalid" /\ halted' \subseteq halted \union {a}
        /\ upd \in {"moveHas", "dueHas"} => halted' = halted
    BY <1>3 DEF StopHere, StopElsewhere, Stoppable
  <2>3. \A b \in halted' : st'[b] = "Invalid" /\ outcome'[b] # "unset"
    BY <1>0, <1>1, <1>3, <2>1, <2>2, Apart
  <2> QED BY <1>0, <1>3, <2>1, <2>2, <2>3, Apart DEF States, Moves
<1>4. ASSUME NEW a \in Timer, Add(a) PROVE States'
  <2>1. /\ Added' = Added \union {a} /\ Moving' = Moving /\ InHand' = InHand /\ Later' = Later
    BY <1>4, AddFacts DEF Moves
  <2>2. /\ \A b \in Timer : /\ st'[b] = IF b = a THEN "Added" ELSE st[b]
                            /\ outcome'[b] = IF b = a THEN "pending" ELSE outcome[b]
        /\ outcome[a] = "unset" /\ UNCHANGED <<upd, hand, seen, halted>>
    BY <1>0, <1>4 DEF Add, update, TimerInv, Fields
  <2>3. a \notin halted
    BY <1>0, <2>2
  <2> QED BY <1>0, <2>1, <2>2, <2>3 DEF States
<1>5. CASE UpdateBegin
  <2>1. /\ UNCHANGED <<st, outcome, halted>> /\ Moving = {} /\ upd' \notin {"moveHas", "dueHas"}
    BY <1>5, Empty DEF UpdateBegin, ToDue, TimerInv, Steps, Moving
  <2> QED BY <1>0, <1>5, <2>1, BeginFacts DEF Moves, States
<1>6. CASE MoveLook
  <2>1. /\ UNCHANGED <<st, outcome, halted>> /\ hand' = Head(moving) /\ seen' = st[hand']
        /\ upd' = "moveHas" /\ InHand = {}
    BY <1>6 DEF MoveLook, InHand
  <2> QED BY <1>0, <1>6, <2>1, LookFacts DEF Moves, States
<1>7. CASE MoveAct
  <2>1. InHand = {hand} /\ hand \in Timer /\ hand \in Pending /\ upd' = "move"
    BY <1>7, HandFacts DEF MoveAct, InHand
  <2>2. CASE seen = "Added"
    <3>1. /\ UNCHANGED <<outcome, halted>> /\ upd = "moveHas"
          /\ \A b \in Timer : st'[b] = IF b = hand THEN "Runing" ELSE st[b]
      BY <1>0, <1>7, <2>2 DEF MoveAct
    <3>2. Added' = Added /\ Moving' = Moving /\ InHand' = {} /\ Later' = Later \union {hand}
      BY <1>7, <2>2, InsertFacts DEF Moves
    <3>3. hand \notin halted
      BY <1>0, <2>2, <3>1
    <3> QED BY <1>0, <2>1, <3>1, <3>2, <3>3 DEF States
  <2>3. CASE seen # "Added"
    <3>1. Added' = Added /\ Moving' = Moving /\ InHand' = {} /\ Later' = Later
      BY <1>7, <2>3, CancelFacts DEF Moves
    <3>2. PICK H \in Stops(hand) : Called(hand, "cancelled", H)
      BY <1>7, <2>3 DEF MoveAct
    <3>3. /\ H \subseteq Timer \ {hand} /\ halted' = halted \union H
          /\ \A b \in H : st[b] # "Invalid"
          /\ \A b \in Timer : /\ outcome'[b] = IF b = hand THEN "cancelled" ELSE outcome[b]
                              /\ st'[b] = IF b \in H \union {hand} THEN "Invalid" ELSE st[b]
      BY <2>1, <3>2, CalledFacts DEF Outcome
    <3>4. \A b \in halted' : st'[b] = "Invalid" /\ outcome'[b] # "unset"
      BY <1>0, <1>1, <3>3
    <3> QED BY <1>0, <2>1, <3>1, <3>3, <3>4 DEF States
  <2> QED BY <2>2, <2>3
<1>8. CASE MoveEnd
  <2>1. /\ UNCHANGED <<st, outcome, halted>> /\ InHand = {} /\ upd' \notin {"moveHas", "dueHas"}
    BY <1>8 DEF MoveEnd, ToDue, InHand
  <2> QED BY <1>0, <1>8, <2>1, EndFacts DEF Moves, States
<1>9. CASE DueLook
  <2>1. /\ UNCHANGED <<st, outcome, halted>> /\ InHand = {} /\ upd' = "dueHas" /\ seen' = st[hand']
    BY <1>9 DEF DueLook, InHand
  <2> QED BY <1>0, <1>9, <2>1, DueLookFacts DEF Moves, States
<1>10. CASE DueAct
  <2>1. InHand = {} /\ hand \in Timer /\ upd' = "due"
    BY <1>10, HandFacts DEF DueAct, InHand
  <2>2. /\ Added' = Added /\ Moving' = Moving /\ InHand' = {} /\ Later' = Later \ {hand}
    BY <1>10, DueActFacts DEF Moves
  <2>3. PICK how \in {"fired", "cancelled"} : \E H \in Stops(hand) : Called(hand, how, H)
    BY <1>10 DEF DueAct
  <2>4. PICK H \in Stops(hand) : Called(hand, how, H)
    BY <2>3
  <2>5. /\ H \subseteq Timer \ {hand} /\ halted' = halted \union H
        /\ \A b \in H : st[b] # "Invalid"
        /\ \A b \in Timer : /\ outcome'[b] = IF b = hand THEN how ELSE outcome[b]
                            /\ st'[b] = IF b \in H \union {hand} THEN "Invalid" ELSE st[b]
    BY <2>1, <2>4, CalledFacts DEF Outcome
  <2>6. \A b \in halted' : st'[b] = "Invalid" /\ outcome'[b] # "unset"
    BY <1>0, <1>1, <2>5
  <2> QED BY <1>0, <2>1, <2>2, <2>5, <2>6 DEF States
<1>11. CASE DueEnd
  <2>1. /\ UNCHANGED <<st, outcome, halted>> /\ InHand = {} /\ upd' = "out"
    BY <1>11 DEF DueEnd, InHand
  <2> QED BY <1>0, <1>11, <2>1, DueEndFacts DEF Moves, States
<1>12. CASE Clear
  <2>1. Moving = {} /\ InHand = {} /\ ToSet(added) \union ToSet(running) = Added \union Later
    BY <1>12, ClearAll DEF Clear
  <2>2. /\ UNCHANGED <<upd, hand, seen, halted>> /\ upd = "out"
        /\ \A b \in Timer : /\ st'[b] = IF b \in Added \union Later THEN "Invalid" ELSE st[b]
                            /\ outcome'[b] = IF b \in Added \union Later THEN "cancelled" ELSE outcome[b]
    BY <1>12, <2>1 DEF Clear, update
  <2>3. \A b \in Timer : st'[b] = "Invalid"
    BY <1>0, <2>1, <2>2 DEF TimerState
  <2>4. \A b \in halted' : st'[b] = "Invalid" /\ outcome'[b] # "unset"
    BY <1>0, <2>2, <2>3
  <2> QED BY <2>2, <2>3, <2>4 DEF States
<1> QED
  BY <1>2, <1>3, <1>4, <1>5, <1>6, <1>7, <1>8, <1>9, <1>10, <1>11, <1>12 DEF TimerNext, Update

LEMMA TimerNextInv ==
  ASSUME TimerInv, TimerNext
  PROVE  TimerInv'
  BY NextFields, NextLists, NextPlaces, NextSorted, NextSteps, NextStates DEF TimerInv

LEMMA TimerInitInv == TimerInit => TimerInv
<1> SUFFICES ASSUME TimerInit PROVE TimerInv
  OBVIOUS
<1>1. added = <<>> /\ moving = <<>> /\ running = <<>> /\ Len(running) = 0 /\ ix = 0 /\ upd = "out"
  BY DEF TimerInit
<1>2. Fields
  BY TimeAssumption DEF TimerInit, Fields, TimerState, Outcome
<1>3. Lists
  BY <1>1, Empty DEF Lists, Once
<1>4. Added = {} /\ Moving = {} /\ InHand = {} /\ Later = {} /\ Behind = {}
  BY <1>1, Empty DEF Added, Moving, InHand, Later, Behind
<1>5. Places /\ States
  BY <1>1, <1>4 DEF TimerInit, Places, States, Pending
<1>6. Sorted /\ Steps
  BY <1>1, SleeperAssumption DEF TimerInit, Sorted, Steps
<1> QED BY <1>2, <1>3, <1>5, <1>6 DEF TimerInv

LEMMA TimerStutterInv ==
  ASSUME TimerInv, UNCHANGED timerVars
  PROVE  TimerInv'
<1>1. InHand' = InHand /\ Added' = Added /\ Moving' = Moving /\ Later' = Later /\ Behind' = Behind
  BY DEF timerVars, lists, update, InHand, Added, Moving, Later, Behind
<1>2. Fields' /\ Lists' /\ Sorted' /\ Steps'
  BY DEF TimerInv, timerVars, lists, update, Fields, Lists, Once, Sorted, Steps
<1>3. Places' /\ States'
  BY <1>1 DEF TimerInv, timerVars, lists, update, Places, States, Pending
<1> QED BY <1>2, <1>3 DEF TimerInv

(* TimerSpec without its fairness, which is what is proved about: any      *)
(* program whose steps are steps of timers behaves so.                     *)
TimerSafety == TimerInit /\ [][TimerNext]_timerVars

LEMMA TimerInvariance == TimerSafety => []TimerInv
<1>1. TimerInv /\ [TimerNext]_timerVars => TimerInv'
  BY TimerNextInv, TimerStutterInv
<1> QED BY <1>1, TimerInitInv, PTL DEF TimerSafety
-----------------------------------------------------------------------------
(* Two queues that have nothing in common, one behind the other. *)
LEMMA Joined ==
  ASSUME NEW E, NEW s \in Seq(E), NEW t \in Seq(E),
         \A x \in E : Single(s, x) /\ Single(t, x) /\ ~(Stands(s, x) /\ Stands(t, x))
  PROVE  /\ s \o t \in Seq(E)
         /\ \A x \in E : Single(s \o t, x) /\ (Stands(s \o t, x) <=> Stands(s, x) \/ Stands(t, x))
<1> DEFINE q == s \o t
<1>1. /\ q \in Seq(E) /\ Len(q) = Len(s) + Len(t) /\ Len(s) \in Nat /\ Len(t) \in Nat
      /\ \A i \in 1..(Len(s) + Len(t)) : q[i] = IF i <= Len(s) THEN s[i] ELSE t[i - Len(s)]
  BY ConcatProperties, LenProperties
<1> HIDE DEF q
<1>2. \A i \in 1..Len(s) : i \in 1..Len(q) /\ q[i] = s[i]
  BY <1>1
<1>3. \A i \in 1..Len(t) : i + Len(s) \in 1..Len(q) /\ q[i + Len(s)] = t[i]
  <2> TAKE i \in 1..Len(t)
  <2>1. i + Len(s) \in 1..(Len(s) + Len(t)) /\ ~(i + Len(s) <= Len(s)) /\ (i + Len(s)) - Len(s) = i
    BY <1>1
  <2> QED BY <1>1, <2>1
<1>4. \A i \in 1..Len(q) : \/ i \in 1..Len(s) /\ q[i] = s[i]
                           \/ ~(i \in 1..Len(s)) /\ i - Len(s) \in 1..Len(t) /\ q[i] = t[i - Len(s)]
  BY <1>1
<1>5. ASSUME NEW x \in E PROVE Stands(q, x) <=> Stands(s, x) \/ Stands(t, x)
  <2>1. ASSUME NEW i \in 1..Len(q), q[i] = x PROVE Stands(s, x) \/ Stands(t, x)
    BY <1>4, <2>1 DEF Stands
  <2>2. ASSUME NEW i \in 1..Len(s), s[i] = x PROVE Stands(q, x)
    BY <1>2, <2>2 DEF Stands
  <2>3. ASSUME NEW i \in 1..Len(t), t[i] = x PROVE Stands(q, x)
    BY <1>3, <2>3 DEF Stands
  <2> QED BY <2>1, <2>2, <2>3 DEF Stands
<1>6. ASSUME NEW x \in E PROVE Single(q, x)
  <2> SUFFICES ASSUME NEW i \in 1..Len(q), NEW j \in 1..Len(q), q[i] = x, q[j] = x PROVE i = j
    BY DEF Single
  <2>1. CASE i \in 1..Len(s) /\ j \in 1..Len(s)
    BY <1>4, <2>1 DEF Single
  <2>2. CASE ~(i \in 1..Len(s)) /\ ~(j \in 1..Len(s))
    <3>1. /\ i - Len(s) \in 1..Len(t) /\ t[i - Len(s)] = x
          /\ j - Len(s) \in 1..Len(t) /\ t[j - Len(s)] = x
      BY <1>4, <2>2
    <3>2. i - Len(s) = j - Len(s)
      BY <3>1 DEF Single
    <3> QED BY <1>1, <3>2
  <2>3. CASE i \in 1..Len(s) /\ ~(j \in 1..Len(s))
    BY <1>4, <2>3 DEF Stands
  <2>4. CASE ~(i \in 1..Len(s)) /\ j \in 1..Len(s)
    BY <1>4, <2>4 DEF Stands
  <2> QED BY <2>1, <2>2, <2>3, <2>4
<1> QED BY <1>1, <1>5, <1>6 DEF q

(* The lists as sets. *)
LEMMA ListSets ==
  ASSUME TimerInv
  PROVE  /\ ToSet(added) = Added /\ ToSet(moving) = Moving
         /\ ToSet(SubSeq(running, ix + 1, Len(running))) = Later
         /\ added \o moving \in Seq(Timer)
         /\ ToSet(added \o moving) = Added \union Moving
         /\ IsInjective(added \o moving \o running)
<1>0. /\ added \in Seq(Timer) /\ moving \in Seq(Timer) /\ running \in Seq(Timer)
      /\ ix \in 0..Len(running) /\ Len(running) \in Nat /\ Once
  BY LenProperties DEF TimerInv, Lists
<1>1. ASSUME NEW q \in Seq(Timer)
      PROVE  /\ ToSet(q) = {a \in Timer : Stands(q, a)} /\ DOMAIN q = 1..Len(q)
             /\ \A i \in 1..Len(q) : q[i] \in Timer
  BY <1>1, ElementOfSeq, LenProperties DEF ToSet, Stands
<1>2. ToSet(added) = Added /\ ToSet(moving) = Moving
  BY <1>0, <1>1 DEF Added, Moving
<1> DEFINE rest == SubSeq(running, ix + 1, Len(running))
<1>3. /\ rest \in Seq(Timer) /\ Len(rest) = Len(running) - ix
      /\ \A i \in 1..(Len(running) - ix) : rest[i] = running[i + ix] /\ i + ix \in 1..Len(running)
  BY <1>0, Suffix
<1> HIDE DEF rest
<1>4. ToSet(rest) = Later
  <2>1. ASSUME NEW a \in Timer, Stands(rest, a) PROVE a \in Later
    <3>1. PICK i \in 1..(Len(running) - ix) : rest[i] = a
      BY <1>3, <2>1 DEF Stands
    <3>2. i + ix \in 1..Len(running) /\ i + ix > ix /\ running[i + ix] = a
      BY <1>0, <1>3, <3>1
    <3> QED BY <3>2 DEF Later
  <2>2. ASSUME NEW a \in Later PROVE Stands(rest, a)
    <3>1. PICK i \in 1..Len(running) : i > ix /\ running[i] = a
      BY <2>2 DEF Later
    <3>2. i - ix \in 1..(Len(running) - ix) /\ (i - ix) + ix = i
      BY <1>0, <3>1
    <3>3. rest[i - ix] = a
      BY <1>3, <3>1, <3>2
    <3> QED BY <1>3, <3>2, <3>3 DEF Stands
  <2>3. Later \subseteq Timer
    BY DEF Later
  <2> QED BY <1>1, <1>3, <2>1, <2>2, <2>3
<1> DEFINE two == added \o moving
<1>5. \A a \in Timer : /\ ~(Stands(added, a) /\ Stands(moving, a))
                       /\ ~(Stands(added, a) /\ Stands(running, a))
                       /\ ~(Stands(moving, a) /\ Stands(running, a))
  <2> TAKE a \in Timer
  <2>1. Stands(running, a) => a \in Later \union Behind
    BY <1>0 DEF Stands, Later, Behind
  <2>2. a \in Behind => a \notin Added /\ a \notin Moving
    BY DEF TimerInv, Places, Pending
  <2> QED BY <2>1, <2>2 DEF TimerInv, Places, Added, Moving
<1>6. /\ two \in Seq(Timer)
      /\ \A a \in Timer : /\ Single(two, a)
                          /\ Stands(two, a) <=> Stands(added, a) \/ Stands(moving, a)
  BY <1>0, <1>5, Joined DEF Once
<1> HIDE DEF two
<1>7. ToSet(two) = Added \union Moving
  BY <1>1, <1>6 DEF Added, Moving
<1>8. IsInjective(two \o running)
  <2>1. /\ two \o running \in Seq(Timer) /\ \A a \in Timer : Single(two \o running, a)
    BY <1>0, <1>5, <1>6, Joined DEF Once
  <2> QED BY <1>1, <2>1 DEF IsInjective, Single
<1> QED BY <1>2, <1>4, <1>6, <1>7, <1>8 DEF rest, two

(* The variables of the timers have their types, nothing is left over      *)
(* between two calls of update(), and the state of a timer says in which   *)
(* list it is.                                                             *)
THEOREM TimerTypeCorrect == TimerSafety => []TimerTypeOK
<1>1. ASSUME TimerInv PROVE TimerTypeOK
  <2>1. /\ Fields /\ Lists
        /\ upd = "out" => moving = <<>> /\ ix = 0 /\ hand = NoTimer
    BY <1>1 DEF TimerInv, Steps
  <2>2. /\ \A a \in Timer : st[a] = "Added" => a \in Added \union Moving \union InHand
        /\ \A a \in Timer : st[a] = "Runing" => a \in Later
        /\ InHand \subseteq {hand}
    BY <1>1 DEF TimerInv, States, InHand
  <2>3. /\ ToSet(SubSeq(running, ix + 1, Len(running))) = Later
        /\ ToSet(added \o moving) = Added \union Moving
    BY <1>1, ListSets
  <2> QED BY <2>1, <2>2, <2>3 DEF TimerTypeOK, Fields, Lists
<1> QED BY <1>1, TimerInvariance, PTL

(* No timer is lost between the two lists of update() and none is called   *)
(* twice, whatever threads and callbacks add and stop meanwhile; those     *)
(* that wait in the map are in the order of their time.                    *)
THEOREM NoTimerIsLost == TimerSafety => []NoTimerLost
<1>1. ASSUME TimerInv PROVE NoTimerLost
  <2>1. /\ ToSet(added) = Added /\ ToSet(moving) = Moving
        /\ ToSet(SubSeq(running, ix + 1, Len(running))) = Later
        /\ IsInjective(added \o moving \o running)
    BY <1>1, ListSets
  <2>2. {hand} \ {NoTimer} \subseteq InHand \union Later /\ InHand \subseteq {hand} \ {NoTimer}
    <3>1. CASE upd = "moveHas"
      <4>1. hand # NoTimer /\ InHand = {hand}
        BY <1>1, <3>1 DEF TimerInv, Steps, InHand
      <4> QED BY <4>1
    <3>2. CASE upd = "dueHas"
      <4>1. /\ hand \in Timer /\ hand = running[ix + 1] /\ ix < Len(running) /\ ix \in 0..Len(running)
            /\ Len(running) \in Nat
        BY <1>1, <3>2, HandFacts, LenProperties DEF TimerInv, Steps, Lists
      <4> QED BY <3>2, <4>1 DEF Later, InHand
    <3>3. CASE upd \notin {"moveHas", "dueHas"}
      BY <1>1, <3>3 DEF TimerInv, Steps, InHand
    <3> QED BY <3>1, <3>2, <3>3
  <2>3. Waiting = Pending
    BY <1>1, <2>1, <2>2 DEF Waiting, TimerInv, Places
  <2>4. DOMAIN running = 1..Len(running)
    BY <1>1, LenProperties DEF TimerInv, Lists
  <2>5. \A i, j \in DOMAIN running : i < j => tp[running[i]] <= tp[running[j]]
    BY <1>1, <2>4 DEF TimerInv, Sorted
  <2> QED BY <2>1, <2>3, <2>5 DEF NoTimerLost, Pending
<1> QED BY <1>1, TimerInvariance, PTL
-----------------------------------------------------------------------------
(* The timer of the abstract specification. *)
Moods == [a \in Timer |-> Mood(a)]

LEMMA MoodIs ==
  ASSUME NEW a \in Timer
  PROVE  /\ Moods[a] = IF outcome[a] = "unset" THEN "idle"
                       ELSE IF outcome[a] = "pending" THEN IF a \in halted THEN "halted" ELSE "set"
                       ELSE outcome[a]
         /\ Moods'[a] = IF outcome'[a] = "unset" THEN "idle"
                        ELSE IF outcome'[a] = "pending"
                        THEN IF a \in halted' THEN "halted" ELSE "set"
                        ELSE outcome'[a]
  BY DEF Moods, Mood

LEMMA SameMoods ==
  ASSUME \A a \in Timer : Moods'[a] = Moods[a]
  PROVE  Moods' = Moods
  BY DEF Moods

(* A timer that is turned from one mood to another. *)
LEMMA TurnFacts ==
  ASSUME NEW a \in Timer, NEW from, NEW to, UNCHANGED clock, Moods[a] = from, Moods'[a] = to,
         \A b \in Timer \ {a} : Moods'[b] = Moods[b]
  PROVE  A!Turn(a, from, to)
<1>1. Moods' = [Moods EXCEPT ![a] = to]
  BY DEF Moods
<1> QED BY <1>1 DEF A!Turn, Moods

(* What update() calls, in the abstract specification. *)
LEMMA CallFacts ==
  ASSUME TimerInv, upd \in {"moveHas", "dueHas"}, UNCHANGED clock,
         NEW how \in {"fired", "cancelled"}, NEW H \in Stops(hand), Called(hand, how, H),
         how = "fired" => hand \notin halted /\ tp[hand] <= clock
  PROVE  A!Call(hand, how)
<1>1. hand \in Timer /\ outcome[hand] = "pending"
  BY HandFacts DEF Pending
<1>2. /\ H \subseteq Timer \ {hand} /\ halted' = halted \union H
      /\ \A b \in H : st[b] # "Invalid"
      /\ \A b \in Timer : outcome'[b] = IF b = hand THEN how ELSE outcome[b]
  BY <1>1, CalledFacts DEF Outcome
<1>3. Moods[hand] \in IF how = "fired" THEN {"set"} ELSE {"set", "halted"}
  BY <1>1, MoodIs
<1>4. Moods'[hand] = how
  BY <1>1, <1>2, MoodIs
<1>5. ASSUME NEW b \in Timer \ {hand}
      PROVE  Moods'[b] = Moods[b] \/ (Moods[b] = "set" /\ Moods'[b] = "halted")
  <2>1. outcome'[b] = outcome[b] /\ (b \in halted' <=> b \in halted \/ b \in H)
    BY <1>2
  <2>2. b \in H => outcome[b] = "pending" /\ b \notin halted
    BY <1>2, WaitsWithState
  <2> QED BY <2>1, <2>2, MoodIs
<1>6. how = "fired" => clock >= tp[hand]
  <2>1. clock \in Int /\ tp[hand] \in Int
    BY <1>1, TimeAssumption DEF TimerInv, Fields
  <2> QED BY <2>1
<1> QED BY <1>3, <1>4, <1>5, <1>6 DEF A!Call, Moods

LEMMA StepRefines ==
  ASSUME TimerInv, TimerNext
  PROVE  A!Next \/ UNCHANGED <<clock, Moods>>
<1>0. /\ outcome \in [Timer -> Outcome] /\ halted \subseteq Timer
      /\ \A a \in halted : outcome[a] # "unset" /\ st[a] = "Invalid"
      /\ clock \in Int
  BY TimeAssumption DEF TimerInv, Fields, States
<1>1. CASE Tick
  <2>1. Moods' = Moods /\ clock' > clock
    BY <1>0, <1>1, MoodIs, SameMoods DEF Tick
  <2> QED BY <2>1 DEF A!Next, A!Pass, Moods
<1>2. CASE UNCHANGED <<clock, outcome, halted>>
  BY <1>2, MoodIs, SameMoods
<1>3. ASSUME NEW a \in Timer, Add(a) PROVE A!Next
  <2>1. /\ UNCHANGED <<clock, halted>> /\ outcome[a] = "unset"
        /\ \A b \in Timer : outcome'[b] = IF b = a THEN "pending" ELSE outcome[b]
    BY <1>0, <1>3 DEF Add
  <2>2. Moods[a] = "idle" /\ Moods'[a] = "set" /\ \A b \in Timer \ {a} : Moods'[b] = Moods[b]
    BY <1>0, <2>1, MoodIs
  <2> QED BY <2>1, <2>2, TurnFacts DEF A!Next
<1>4. ASSUME NEW a \in Timer, StopHere(a) PROVE A!Next
  <2>1. UNCHANGED <<clock, outcome>> /\ halted' = halted \union {a} /\ st[a] # "Invalid"
    BY <1>4 DEF StopHere, Stoppable
  <2>2. outcome[a] = "pending" /\ a \notin halted
    BY <2>1, WaitsWithState
  <2>3. Moods[a] = "set" /\ Moods'[a] = "halted" /\ \A b \in Timer \ {a} : Moods'[b] = Moods[b]
    BY <2>1, <2>2, MoodIs
  <2> QED BY <2>1, <2>3, TurnFacts DEF A!Next
<1>5. CASE MoveAct
  <2>1. CASE seen = "Added"
    BY <1>2, <1>5, <2>1 DEF MoveAct
  <2>2. CASE seen # "Added"
    <3>1. PICK H \in Stops(hand) : Called(hand, "cancelled", H)
      BY <1>5, <2>2 DEF MoveAct
    <3>2. A!Call(hand, "cancelled") /\ hand \in Timer
      BY <1>5, <3>1, CallFacts, HandFacts DEF MoveAct
    <3> QED BY <3>2 DEF A!Next
  <2> QED BY <2>1, <2>2
<1>6. CASE DueAct
  <2> DEFINE how == IF seen = "Invalid" THEN "cancelled" ELSE "fired"
  <2>1. /\ upd = "dueHas" /\ UNCHANGED clock /\ hand \in Timer
        /\ how = "fired" => hand \notin halted /\ tp[hand] <= clock
    <3>1. upd = "dueHas" /\ UNCHANGED clock /\ hand \in Timer
      BY <1>6, HandFacts DEF DueAct
    <3>2. /\ seen # "Invalid" => hand \notin halted
          /\ tp[hand] <= now_ /\ now_ \in 0..clock /\ clock \in 0..MaxClock
      BY <3>1 DEF TimerInv, States, Steps, Fields
    <3>3. tp[hand] \in Int
      BY <3>1, TimeAssumption
    <3> QED BY <1>0, <3>1, <3>2, <3>3
  <2>2. PICK H \in Stops(hand) : Called(hand, how, H)
    BY <1>6 DEF DueAct
  <2>3. how \in {"fired", "cancelled"}
    OBVIOUS
  <2> HIDE DEF how
  <2>4. A!Call(hand, how)
    BY <2>1, <2>2, <2>3, CallFacts
  <2> QED BY <2>1, <2>3, <2>4 DEF A!Next
<1>7. CASE Clear
  <2>1. Pending = Added \union Later
    BY <1>7, ClearAll DEF Clear, TimerInv, Places
  <2>2. /\ UNCHANGED <<clock, halted>>
        /\ \A b \in Timer : outcome'[b] = IF b \in Pending THEN "cancelled" ELSE outcome[b]
    BY <1>7, <2>1, ClearAll DEF Clear, update
  <2>3. ASSUME NEW b \in Timer
        PROVE  Moods'[b] = Moods[b] \/ (Moods[b] \in {"set", "halted"} /\ Moods'[b] = "cancelled")
    <3>1. CASE outcome[b] = "pending"
      BY <2>2, <3>1, MoodIs DEF Pending
    <3>2. CASE outcome[b] # "pending"
      BY <2>2, <3>2, MoodIs DEF Pending
    <3> QED BY <3>1, <3>2
  <2> QED BY <2>2, <2>3 DEF A!Next, A!CancelAll, Moods
<1>8. ASSUME NEW a \in Timer, StopElsewhere(a) PROVE UNCHANGED <<clock, outcome, halted>>
  BY <1>8 DEF StopElsewhere
<1> QED
  BY <1>1, <1>2, <1>3, <1>4, <1>5, <1>6, <1>7, <1>8
  DEF TimerNext, Update, UpdateBegin, MoveLook, MoveEnd, DueLook, DueEnd, lists

(* The timer manager keeps what a timer promises: each is called at most   *)
(* once, as fired, not before its time, or as cancelled, and one that its  *)
(* own thread has stopped does not fire.                                   *)
THEOREM RefinesAlarms == TimerSafety => ImplementsAlarms
<1>1. TimerInit => A!Init
  BY DEF TimerInit, A!Init, Mood
<1>2. TimerInv /\ [TimerNext]_timerVars => [A!Next]_<<clock, Moods>>
  <2> SUFFICES ASSUME TimerInv, [TimerNext]_timerVars PROVE [A!Next]_<<clock, Moods>>
    OBVIOUS
  <2>1. CASE UNCHANGED timerVars
    BY <2>1, MoodIs, SameMoods DEF timerVars
  <2> QED BY <2>1, StepRefines
<1>3. TimerInv /\ [TimerNext]_timerVars => [A!Next]_<<clock, [a \in Timer |-> Mood(a)]>>
  BY <1>2 DEF Moods
<1> QED BY <1>1, <1>3, TimerInvariance, PTL DEF ImplementsAlarms, A!Spec, TimerSafety
==============================================================================
