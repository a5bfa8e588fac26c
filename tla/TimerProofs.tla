---------------------------- MODULE TimerProofs ----------------------------
(***************************************************************************)
(* What is proved of Timer for every number of slots, owners and delays:   *)
(* no slot of the wheel is ever in two places or forgotten, and the timer  *)
(* id a player remembers is that player's own timer, still to fire.  The   *)
(* first part is about the sifts of the heap: they move slots along one    *)
(* path and neither lose nor double any.                                   *)
(***************************************************************************)
EXTENDS Timer, FiniteSetTheorems, WellFoundedInduction, TLAPS

-----------------------------------------------------------------------------
(* Induction, as facts about sets *)

(* A set of naturals that is not empty has a least element. *)
LEMMA LeastExists ==
  ASSUME NEW T, T \subseteq Nat, T # {}
  PROVE  \E x \in T : \A y \in T : x <= y
  <1> DEFINE R == {p \in Nat \X Nat : p[1] < p[2]}
  <1>0. IsWellFoundedOn(R, Nat)
    BY NatLessThanWellFounded DEF OpToRel
  <1>1. PICK x \in T : \A y \in T : <<y, x>> \notin R
    BY <1>0, WFMin
  <1>2. ASSUME NEW y \in T
        PROVE  x <= y
    <2>1. x \in Nat /\ y \in Nat /\ ~(y < x)
      BY <1>1
    <2>2. QED
      BY <2>1
  <1>3. QED
    BY <1>2

(* A set of numbers up to N that is not empty has a greatest element. *)
LEMMA GreatestExists ==
  ASSUME NEW N \in Nat, NEW T \in SUBSET (0 .. N), T # {}
  PROVE  \E x \in T : \A y \in T : y <= x
  <1> DEFINE R == {N - x : x \in T}
  <1>1. R \subseteq Nat /\ R # {}
    <2>1. \A x \in T : N - x \in Nat
      OBVIOUS
    <2>2. QED
      BY <2>1
  <1>2. PICK r \in R : \A s \in R : r <= s
    BY <1>1, LeastExists
  <1>3. PICK x \in T : r = N - x
    BY <1>2
  <1>4. ASSUME NEW y \in T
        PROVE  y <= x
    <2>1. N - x <= N - y
      BY <1>2, <1>3
    <2>2. QED
      BY <2>1
  <1>5. QED
    BY <1>4

(* A set of naturals with 0 and the successors of its elements has them all. *)
LEMMA NatSets ==
  ASSUME NEW T \in SUBSET Nat, 0 \in T, \A n \in T : n + 1 \in T
  PROVE  T = Nat
  <1>1. SUFFICES ASSUME Nat \ T # {} PROVE FALSE
    OBVIOUS
  <1>2. PICK x \in Nat \ T : \A y \in Nat \ T : x <= y
    BY <1>1, LeastExists, Nat \ T \subseteq Nat
  <1>3. x - 1 \in Nat /\ ~(x <= x - 1) /\ (x - 1) + 1 = x
    BY <1>2
  <1>4. QED
    BY <1>2, <1>3

-----------------------------------------------------------------------------
(* Paths of the heap *)

IsPaths(f, N) == f = [p \in 1 .. N |-> {p} \cup (IF p = 1 THEN {} ELSE f[p \div 2])]

LEMMA Half ==
  ASSUME NEW N \in Nat, NEW p \in 1 .. N, p # 1
  PROVE  p \div 2 \in 1 .. N /\ p \div 2 < p
  OBVIOUS

LEMMA PathsExist ==
  ASSUME NEW N \in Nat
  PROVE  \E f : IsPaths(f, N)
  <1> DEFINE T == {k \in Nat : \E f : IsPaths(f, k)}
  <1>1. 0 \in T
    <2>1. IsPaths([p \in 1 .. 0 |-> {}], 0)
      BY DEF IsPaths
    <2>2. QED
      BY <2>1
  <1>2. ASSUME NEW k \in T PROVE k + 1 \in T
    <2>1. PICK f : IsPaths(f, k)
      OBVIOUS
    <2>2. k \in Nat
      OBVIOUS
    <2> DEFINE h == [p \in 1 .. k + 1 |-> {p} \cup (IF p = 1 THEN {} ELSE f[p \div 2])]
    <2>3. ASSUME NEW p \in 1 .. k
          PROVE  h[p] = f[p]
      <3>1. f[p] = {p} \cup (IF p = 1 THEN {} ELSE f[p \div 2])
        BY <2>1 DEF IsPaths
      <3>2. p \in 1 .. k + 1
        BY <2>2
      <3>3. QED
        BY <3>1, <3>2
    <2>4. \A p \in 1 .. k + 1 : p # 1 => p \div 2 \in 1 .. k
      BY <2>2
    <2>5. h = [p \in 1 .. k + 1 |-> {p} \cup (IF p = 1 THEN {} ELSE h[p \div 2])]
      BY <2>3, <2>4
    <2>6. IsPaths(h, k + 1)
      BY <2>5 DEF IsPaths
    <2>7. QED
      BY <2>2, <2>6
  <1> HIDE DEF T
  <1>3. T = Nat
    <2>1. T \in SUBSET Nat
      BY DEF T
    <2>2. QED
      BY <1>1, <1>2, <2>1, NatSets
  <1>4. QED
    BY <1>3 DEF T

LEMMA PathFromIs ==
  ASSUME NEW p \in 1 .. NumSlots
  PROVE  PathFrom[p] = {p} \cup (IF p = 1 THEN {} ELSE PathFrom[p \div 2])
  <1>1. NumSlots \in Nat
    BY TimerAssumption
  <1>2. PICK f : f = CHOOSE g : IsPaths(g, NumSlots)
    OBVIOUS
  <1>3. IsPaths(f, NumSlots)
    BY <1>1, <1>2, PathsExist
  <1>4. PathFrom = f
    BY <1>2 DEF PathFrom, IsPaths
  <1>5. QED
    BY <1>3, <1>4 DEF IsPaths

(* A path leads from a position down to 1, halving. *)
LEMMA PathShape ==
  ASSUME NEW p \in 1 .. NumSlots
  PROVE  /\ p \in PathFrom[p] /\ 1 \in PathFrom[p] /\ PathFrom[p] \subseteq 1 .. p
         /\ \A q \in PathFrom[p] : q # 1 => q \div 2 \in PathFrom[p]
         /\ \A q, r \in PathFrom[p] : q < r => q <= r \div 2
  <1> DEFINE Shaped(k) == /\ k \in PathFrom[k] /\ 1 \in PathFrom[k] /\ PathFrom[k] \subseteq 1 .. k
                          /\ \A q \in PathFrom[k] : q # 1 => q \div 2 \in PathFrom[k]
                          /\ \A q, r \in PathFrom[k] : q < r => q <= r \div 2
             T == {k \in 1 .. NumSlots : ~Shaped(k)}
  <1>1. NumSlots \in Nat
    BY TimerAssumption
  <1> SUFFICES ASSUME T # {} PROVE FALSE
    OBVIOUS
  <1>2. T \subseteq Nat
    BY <1>1
  <1> HIDE DEF T
  <1>3. PICK k \in T : \A j \in T : k <= j
    BY <1>2, LeastExists
  <1>4. k \in 1 .. NumSlots
    BY <1>3 DEF T
  <1>5. CASE k = 1
    <2>1. PathFrom[k] = {1}
      BY <1>4, <1>5, PathFromIs
    <2>2. Shaped(k)
      BY <2>1, <1>5
    <2>3. QED
      BY <2>2, <1>3 DEF T
  <1>6. CASE k # 1
    <2>1. k \div 2 \in 1 .. NumSlots /\ k \div 2 < k
      BY <1>1, <1>4, <1>6, Half
    <2>2. PICK h \in 1 .. NumSlots : h = k \div 2
      BY <2>1
    <2>3. h < k /\ h \notin T
      BY <2>1, <2>2, <1>3, <1>4
    <2>4. Shaped(h)
      BY <2>3 DEF T
    <2>5. PathFrom[k] = {k} \cup PathFrom[h]
      BY <1>4, <1>6, <2>2, PathFromIs
    <2>6. PathFrom[h] \subseteq 1 .. h /\ h \in PathFrom[h] /\ 1 \in PathFrom[h]
      BY <2>4
    <2>7. PathFrom[k] \subseteq 1 .. k
      BY <2>5, <2>6, <2>3, <1>4
    <2>8. \A q \in PathFrom[k] : q # 1 => q \div 2 \in PathFrom[k]
      BY <2>2, <2>4, <2>5
    <2>9. ASSUME NEW q \in PathFrom[k], NEW r \in PathFrom[k], q < r
          PROVE  q <= r \div 2
      <3>1. CASE r = k
        <4>1. q # k /\ q \in 1 .. h
          BY <2>5, <2>6, <2>9, <3>1, <1>4
        <4>2. QED
          BY <4>1, <3>1, <2>2
      <3>2. CASE r # k
        <4>1. r \in PathFrom[h] /\ r <= h /\ r \in 1 .. h
          BY <3>2, <2>5, <2>6
        <4>2. q # k
          BY <4>1, <2>9, <2>3, <1>4
        <4>3. q \in PathFrom[h]
          BY <4>2, <2>5
        <4>4. QED
          BY <4>1, <4>3, <2>4, <2>9
      <3>3. QED
        BY <3>1, <3>2
    <2>10. Shaped(k)
      BY <2>5, <2>6, <2>7, <2>8, <2>9
    <2>11. QED
      BY <2>10, <1>3 DEF T
  <1>7. QED
    BY <1>5, <1>6

(* What is on the way up from a position has its own way up along the same
   path. *)
LEMMA PathOn ==
  ASSUME NEW p \in 1 .. NumSlots, NEW x \in PathFrom[p]
  PROVE  PathFrom[x] \subseteq PathFrom[p]
  <1> DEFINE T == {k \in 1 .. NumSlots : \E y \in PathFrom[k] : ~(PathFrom[y] \subseteq PathFrom[k])}
  <1>1. NumSlots \in Nat
    BY TimerAssumption
  <1> SUFFICES ASSUME T # {} PROVE FALSE
    OBVIOUS
  <1>2. T \subseteq Nat
    BY <1>1
  <1> HIDE DEF T
  <1>3. PICK k \in T : \A j \in T : k <= j
    BY <1>2, LeastExists
  <1>4. k \in 1 .. NumSlots
    BY <1>3 DEF T
  <1>5. PICK y \in PathFrom[k] : ~(PathFrom[y] \subseteq PathFrom[k])
    BY <1>3 DEF T
  <1>6. CASE k = 1 \/ y = k
    BY <1>4, <1>5, <1>6, PathFromIs
  <1>7. CASE k # 1 /\ y # k
    <2>1. PathFrom[k] = {k} \cup PathFrom[k \div 2]
      BY <1>4, <1>7, PathFromIs
    <2>2. k \div 2 \in 1 .. NumSlots /\ k \div 2 < k
      BY <1>1, <1>4, <1>7, Half
    <2>3. k \div 2 \notin T
      BY <1>3, <1>4, <2>2
    <2>4. y \in PathFrom[k \div 2]
      BY <1>5, <1>7, <2>1
    <2>5. PathFrom[y] \subseteq PathFrom[k \div 2]
      BY <2>2, <2>3, <2>4 DEF T
    <2>6. QED
      BY <1>5, <2>1, <2>5
  <1>8. QED
    BY <1>6, <1>7

-----------------------------------------------------------------------------
(* Sequences without repetition *)

Distinct(h) == \A i, j \in DOMAIN h : h[i] = h[j] => i = j

LEMMA LargestIs ==
  ASSUME NEW N \in Nat, NEW T \in SUBSET (0 .. N), T # {}
  PROVE  Largest(T) \in T /\ \A y \in T : y <= Largest(T)
  BY GreatestExists DEF Largest

(* The entries of a sequence of slots are as many as its length when no slot
   comes twice, and only then. *)
LEMMA DistinctCount ==
  ASSUME NEW h \in Seq(Slots)
  PROVE  /\ IsFiniteSet(SeqRange(h)) /\ SeqRange(h) \subseteq Slots
         /\ Distinct(h) <=> Cardinality(SeqRange(h)) = Len(h)
  <1>1. PICK n \in Nat : n = Len(h)
    OBVIOUS
  <1>2. IsFiniteSet(1 .. n) /\ Cardinality(1 .. n) = n /\ DOMAIN h = 1 .. n
    <2>1. IsFiniteSet(1 .. n) /\ Cardinality(1 .. n) = IF 1 > n THEN 0 ELSE n - 1 + 1
      BY FS_Interval
    <2>2. QED
      BY <1>1, <2>1
  <1>3. h \in Surjection(DOMAIN h, SeqRange(h))
    BY DEF Surjection, SeqRange
  <1>4. /\ IsFiniteSet(SeqRange(h))
        /\ Cardinality(SeqRange(h)) = n <=> h \in Injection(DOMAIN h, SeqRange(h))
    BY <1>2, <1>3, FS_Surjection
  <1>5. h \in Injection(DOMAIN h, SeqRange(h)) <=> Distinct(h)
    BY <1>3 DEF Injection, IsInjective, Surjection, Distinct
  <1>6. SeqRange(h) \subseteq Slots
    BY DEF SeqRange
  <1>7. QED
    BY <1>1, <1>4, <1>5, <1>6

LEMMA SlotsFinite == IsFiniteSet(Slots) /\ Cardinality(Slots) = NumSlots /\ NumSlots \in Nat \ {0}
  <1>1. NumSlots \in Nat \ {0}
    BY TimerAssumption
  <1>2. QED
    BY <1>1, FS_Interval DEF Slots

(* There is room for a slot that is not there yet. *)
LEMMA RoomLeft ==
  ASSUME NEW h \in Seq(Slots), Distinct(h), NEW s \in Slots, s \notin SeqRange(h)
  PROVE  Len(h) + 1 <= NumSlots
  <1>1. IsFiniteSet(SeqRange(h)) /\ SeqRange(h) \subseteq Slots /\ Cardinality(SeqRange(h)) = Len(h)
    BY DistinctCount
  <1>2. IsFiniteSet(SeqRange(h) \cup {s}) /\ Cardinality(SeqRange(h) \cup {s}) = Len(h) + 1
    BY <1>1, FS_AddElement
  <1>3. SeqRange(h) \cup {s} \in SUBSET Slots
    BY <1>1
  <1>4. Cardinality(SeqRange(h) \cup {s}) <= NumSlots
    BY <1>3, SlotsFinite, FS_Subset
  <1>5. QED
    BY <1>2, <1>4

(* A sequence without repetition whose entries all lie in a set as large as
   it is long has the whole set. *)
LEMMA AllOfThem ==
  ASSUME NEW h \in Seq(Slots), Distinct(h), NEW S, IsFiniteSet(S), SeqRange(h) \subseteq S,
         Cardinality(S) = Len(h)
  PROVE  SeqRange(h) = S
  <1>1. Cardinality(SeqRange(h)) = Len(h)
    BY DistinctCount
  <1>2. SeqRange(h) \in SUBSET S
    OBVIOUS
  <1>3. QED
    BY <1>1, <1>2, FS_Subset

-----------------------------------------------------------------------------
(* add_timer puts its slot into the heap and keeps what is there, each once:
   whatever the ticks, the sift-up moves the slots of one path by one place. *)
LEMMA PushKeeps ==
  ASSUME NEW heap \in Seq(Slots), Distinct(heap), NEW s \in Slots, s \notin SeqRange(heap), NEW data
  PROVE  LET h == push_timer_heap(heap, data, s)
         IN  h \in Seq(Slots) /\ Distinct(h) /\ SeqRange(h) = SeqRange(heap) \cup {s}
  <1> DEFINE Later(p) == DIFF_TICK(data[s].tick, data[heap[p \div 2]].tick) < 0
  <1>1. PICK n \in Nat : n = Len(heap) + 1
    OBVIOUS
  <1>2. n \in 1 .. NumSlots /\ n >= 1
    BY <1>1, RoomLeft
  <1>3. PICK P : P = PathFrom[n]
    OBVIOUS
  <1>4. /\ n \in P /\ 1 \in P /\ P \subseteq 1 .. n
        /\ \A q \in P : q # 1 => q \div 2 \in P
        /\ \A q, r \in P : q < r => q <= r \div 2
    BY <1>2, <1>3, PathShape
  <1>5. PICK T : T = {p \in P : p = 1 \/ ~Later(p)}
    OBVIOUS
  <1>6. PICK stop : stop = Largest(T)
    OBVIOUS
  <1>7. stop \in P
    <2>1. T \in SUBSET (0 .. n) /\ T # {}
      <3>1. P \subseteq 0 .. n /\ 1 \in T
        BY <1>2, <1>4, <1>5
      <3>2. QED
        BY <3>1, <1>5
    <2>2. Largest(T) \in T
      BY <2>1, LargestIs
    <2>3. QED
      BY <1>5, <1>6, <2>2
  <1>8. PICK h : h = [p \in 1 .. n |-> IF p = stop THEN s
                                       ELSE IF p \in P /\ p > stop THEN heap[p \div 2] ELSE heap[p]]
    OBVIOUS
  <1>9. push_timer_heap(heap, data, s) = h
    <2>1. {p \in 1 .. n : IsAbove(p, n)} = P
      BY <1>3, <1>4 DEF IsAbove
    <2>2. push_timer_heap(heap, data, s) =
            LET Path == P
                st   == Largest({p \in Path : p = 1 \/ ~Later(p)})
            IN [p \in 1 .. n |-> IF p = st THEN s
                                 ELSE IF p \in Path /\ p > st THEN heap[p \div 2] ELSE heap[p]]
      BY <1>1, <2>1 DEF push_timer_heap
    <2>3. QED
      BY <1>5, <1>6, <1>8, <2>2
  (* Where an entry comes from. *)
  <1> DEFINE From(p) == IF p \in P /\ p > stop THEN p \div 2 ELSE p
  <1>10. ASSUME NEW p \in 1 .. n, p # stop
         PROVE  From(p) \in DOMAIN heap /\ h[p] = heap[From(p)]
    <2>1. h[p] = heap[From(p)]
      BY <1>8, <1>10
    <2>2. stop \in 1 .. n
      BY <1>4, <1>7
    <2>3. CASE p \in P /\ p > stop
      <3>1. p \div 2 \in 1 .. n - 1
        BY <2>2, <2>3, <1>2
      <3>2. QED
        BY <2>1, <2>3, <3>1, <1>1
    <2>4. CASE ~(p \in P /\ p > stop)
      <3>1. p # n
        BY <2>2, <2>4, <1>4, <1>10
      <3>2. p \in 1 .. n - 1
        BY <3>1
      <3>3. QED
        BY <2>1, <2>4, <3>2, <1>1
    <2>5. QED
      BY <2>3, <2>4
  <1>11. ASSUME NEW p \in 1 .. n, NEW q \in 1 .. n, p # stop, q # stop, From(p) = From(q)
         PROVE  p = q
    <2>1. stop \in 1 .. n
      BY <1>4, <1>7
    <2>2. CASE p \in P /\ p > stop /\ q \in P /\ q > stop
      <3>1. p \div 2 = q \div 2
        BY <1>11, <2>2
      <3>2. ~(p < q) /\ ~(q < p)
        BY <1>4, <2>1, <2>2, <3>1
      <3>3. QED
        BY <3>2
    <2>3. CASE p \in P /\ p > stop /\ ~(q \in P /\ q > stop)
      <3>1. p \div 2 = q
        BY <1>11, <2>3
      <3>2. p # 1 /\ stop < p
        BY <2>1, <2>3
      <3>3. p \div 2 \in P /\ stop <= p \div 2
        BY <1>4, <1>7, <2>3, <3>2
      <3>4. q \in P /\ stop <= q
        BY ONLY <3>1, <3>3
      <3>5. QED
        BY <3>4, <2>3, <2>1, <1>11
    <2>4. CASE ~(p \in P /\ p > stop) /\ q \in P /\ q > stop
      <3>1. q \div 2 = p
        BY <1>11, <2>4
      <3>2. q # 1 /\ stop < q
        BY <2>1, <2>4
      <3>3. q \div 2 \in P /\ stop <= q \div 2
        BY <1>4, <1>7, <2>4, <3>2
      <3>4. p \in P /\ stop <= p
        BY ONLY <3>1, <3>3
      <3>5. QED
        BY <3>4, <2>4, <2>1, <1>11
    <2>5. CASE ~(p \in P /\ p > stop) /\ ~(q \in P /\ q > stop)
      BY <1>11, <2>5
    <2>6. QED
      BY <2>2, <2>3, <2>4, <2>5
  <1> HIDE DEF From
  <1>12. stop \in 1 .. n /\ h[stop] = s /\ DOMAIN h = 1 .. n
    BY <1>4, <1>7, <1>8
  <1>13. ASSUME NEW p \in 1 .. n, p # stop
         PROVE  h[p] \in SeqRange(heap)
    BY <1>10, <1>13 DEF SeqRange
  <1>14. h \in Seq(Slots) /\ Len(h) = n /\ SeqRange(h) \subseteq SeqRange(heap) \cup {s}
    <2>1. SeqRange(heap) \subseteq Slots
      BY DistinctCount
    <2>2. \A p \in 1 .. n : h[p] \in Slots /\ h[p] \in SeqRange(heap) \cup {s}
      BY <1>12, <1>13, <2>1
    <2>3. h \in [1 .. n -> Slots]
      BY <1>8, <2>2
    <2>4. h \in Seq(Slots) /\ Len(h) = n
      BY <2>3
    <2>5. QED
      BY <2>2, <2>4, <1>12 DEF SeqRange
  <1>15. Distinct(h)
    <2>1. ASSUME NEW p \in 1 .. n, NEW q \in 1 .. n, h[p] = h[q]
          PROVE  p = q
      <3>1. CASE p = stop
        BY <1>12, <1>13, <2>1, <3>1
      <3>2. CASE q = stop
        BY <1>12, <1>13, <2>1, <3>2
      <3>3. CASE p # stop /\ q # stop
        <4>1. From(p) = From(q)
          BY <1>10, <2>1, <3>3 DEF Distinct
        <4>2. QED
          BY <1>11, <3>3, <4>1
      <3>4. QED
        BY <3>1, <3>2, <3>3
    <2>2. QED
      BY <1>12, <2>1 DEF Distinct
  <1>16. SeqRange(h) = SeqRange(heap) \cup {s}
    <2>1. IsFiniteSet(SeqRange(heap)) /\ Cardinality(SeqRange(heap)) = Len(heap)
      BY DistinctCount
    <2>2. IsFiniteSet(SeqRange(heap) \cup {s}) /\ Cardinality(SeqRange(heap) \cup {s}) = n
      BY <1>1, <2>1, FS_AddElement
    <2>3. QED
      BY <1>14, <1>15, <2>2, AllOfThem
  <1>17. QED
    BY <1>9, <1>14, <1>15, <1>16

(* A way down through a heap of n places: what leads up from its places lies
   on it, and no two of its places have the same parent.  Of two places one is
   then above the other. *)
Descends(H, n) ==
  /\ n \in 1 .. NumSlots /\ H \subseteq 1 .. n /\ 1 \in H
  /\ \A p \in H : PathFrom[p] \subseteq H
  /\ \A p, q \in H \ {1} : p \div 2 = q \div 2 => p = q

LEMMA OneBranch ==
  ASSUME NEW H, NEW n, Descends(H, n), NEW p \in H, NEW q \in H, p < q
  PROVE  p <= q \div 2
  <1> DEFINE T == {r \in H : \E o \in H : o < r /\ ~(o <= r \div 2)}
  <1>1. n \in 1 .. NumSlots /\ NumSlots \in Nat /\ H \subseteq 1 .. n
    BY TimerAssumption DEF Descends
  <1> SUFFICES ASSUME T # {} PROVE FALSE
    OBVIOUS
  <1>2. T \subseteq Nat
    <2>1. H \subseteq Nat
      BY <1>1
    <2>2. QED
      BY <2>1
  <1> HIDE DEF T
  <1>3. PICK r \in T : \A j \in T : r <= j
    BY <1>2, LeastExists
  <1>4. PICK o \in H : o < r /\ ~(o <= r \div 2)
    BY <1>3 DEF T
  <1>5. r \in H /\ r \in 1 .. NumSlots /\ o \in 1 .. NumSlots /\ r # 1
    BY <1>1, <1>3, <1>4 DEF T
  <1>6. r \div 2 \in H
    <2>1. r \div 2 \in PathFrom[r]
      BY <1>5, PathShape
    <2>2. QED
      BY <2>1, <1>5 DEF Descends
  <1>7. o # 1
    BY <1>4, <1>5
  <1>8. o \div 2 \in H
    <2>1. o \div 2 \in PathFrom[o]
      BY <1>5, <1>7, PathShape
    <2>2. QED
      BY <2>1 DEF Descends
  <1>9. o \div 2 # r \div 2
    BY <1>4, <1>5, <1>7 DEF Descends
  <1>10. o \div 2 < r \div 2 /\ r \div 2 < o /\ ~(r \div 2 <= o \div 2)
    BY <1>4, <1>5, <1>9
  <1>11. CASE o \in T
    BY <1>3, <1>4, <1>5, <1>11
  <1>12. CASE o \notin T
    <2>1. \A x \in H : x < o => x <= o \div 2
      BY <1>12 DEF T
    <2>2. QED
      BY <2>1, <1>6, <1>10
  <1>13. QED
    BY <1>11, <1>12

(* The next place on the way down, from each but the one it is followed to. *)
LEMMA NextDown ==
  ASSUME NEW H, NEW n, Descends(H, n), NEW p \in H, NEW stop \in H, p < stop
  PROVE  LET b == CHOOSE q \in H : q \div 2 = p
         IN  b \in H /\ b \div 2 = p /\ b <= stop /\ b # 1
  <1>1. n \in 1 .. NumSlots /\ NumSlots \in Nat /\ H \subseteq 1 .. n /\ stop \in 1 .. NumSlots /\ p \in 1 .. n
    BY TimerAssumption DEF Descends
  <1> DEFINE T == {x \in PathFrom[stop] : p < x}
  <1>2. T \subseteq Nat /\ T # {}
    BY <1>1, PathShape
  <1> HIDE DEF T
  <1>3. PICK q \in T : \A y \in T : q <= y
    BY <1>2, LeastExists
  <1>4. q \in PathFrom[stop] /\ p < q
    BY <1>3 DEF T
  <1>5. q \in H /\ q <= stop /\ q \in 1 .. NumSlots /\ q # 1
    <2>1. q \in 1 .. stop
      BY <1>1, <1>4, PathShape
    <2>2. q \in H
      BY <1>4 DEF Descends
    <2>3. QED
      BY <2>1, <2>2, <1>1, <1>4
  <1>6. q \div 2 = p
    <2>1. q \div 2 \in PathFrom[stop]
      BY <1>1, <1>4, <1>5, PathShape
    <2>2. q \div 2 \notin T
      BY <1>3, <1>5
    <2>3. q \div 2 <= p
      BY <1>1, <1>5, <2>1, <2>2 DEF T
    <2>4. p <= q \div 2
      BY <1>4, <1>5, OneBranch
    <2>5. QED
      BY <2>3, <2>4, <1>1, <1>5
  <1>7. PICK b : b = CHOOSE x \in H : x \div 2 = p
    OBVIOUS
  <1>8. b \in H /\ b \div 2 = p
    BY <1>5, <1>6, <1>7
  <1>9. b # 1
    BY <1>1, <1>8
  <1>10. b = q
    BY <1>5, <1>6, <1>8, <1>9 DEF Descends
  <1>11. QED
    BY <1>5, <1>7, <1>8, <1>9, <1>10

(* do_timer takes the root out of the heap and keeps all else, each once: the
   hole it leaves moves down along the earlier children, and one slot, the
   last, goes to where that way is left. *)
LEMMA PopKeeps ==
  ASSUME NEW heap \in Seq(Slots), Distinct(heap), heap # <<>>,
         NEW data, \A s \in Slots : data[s].tick \in Int
  PROVE  LET h == pop_timer_heap(heap, data)
         IN  h \in Seq(Slots) /\ Distinct(h) /\ SeqRange(h) = SeqRange(heap) \ {heap[1]}
                /\ Len(h) = Len(heap) - 1
  <1> DEFINE T(p) == data[heap[p]].tick
             Earlier(p, n) == IF p % 2 = 0 THEN p = n \/ DIFF_TICK(T(p + 1), T(p)) > 0
                              ELSE DIFF_TICK(T(p), T(p - 1)) <= 0
  <1>1. PICK n \in Nat : n = Len(heap) - 1
    BY Len(heap) # 0
  <1>2. PICK last : last = heap[n + 1]
    OBVIOUS
  <1>3. PICK Picked : Picked = [p \in 2 .. n |-> Earlier(p, n)]
    OBVIOUS
  <1>4. PICK H : H = {p \in 1 .. n : \A q \in 2 .. n : q \in PathFrom[p] => Picked[q]}
    OBVIOUS
  <1>5. PICK stop : stop = Largest({p \in H : p = 1 \/ DIFF_TICK(T(p), data[last].tick) <= 0})
    OBVIOUS
  <1>6. PICK h : h = [p \in 1 .. n |-> IF p = stop THEN last
                                       ELSE IF p \in H /\ p < stop THEN heap[CHOOSE q \in H : q \div 2 = p]
                                       ELSE heap[p]]
    OBVIOUS
  <1>7. pop_timer_heap(heap, data) = h
    <2>1. H = {p \in 1 .. n : \A q \in 2 .. n : q \in PathFrom[p] => Earlier(q, n)}
      BY <1>3, <1>4
    <2>2. pop_timer_heap(heap, data) =
            LET Hole == {p \in 1 .. n : \A q \in 2 .. n : IsAbove(q, p) => Earlier(q, n)}
                Below(p) == CHOOSE q \in Hole : q \div 2 = p
                st   == Largest({p \in Hole : p = 1 \/ DIFF_TICK(T(p), data[last].tick) <= 0})
            IN [p \in 1 .. n |-> IF p = st THEN last
                                 ELSE IF p \in Hole /\ p < st THEN heap[Below(p)] ELSE heap[p]]
      BY <1>1, <1>2 DEF pop_timer_heap
    <2>3. QED
      BY <1>5, <1>6, <2>1, <2>2 DEF IsAbove
  <1>8. CASE n = 0
    <2>1. h = <<>>
      BY <1>6, <1>8
    <2>2. SeqRange(heap) = {heap[1]}
      BY <1>1, <1>8 DEF SeqRange
    <2>3. SeqRange(h) = {} /\ Distinct(h)
      BY <2>1 DEF SeqRange, Distinct
    <2>4. h \in Seq(Slots) /\ Len(h) = 0
      BY <2>1
    <2>5. SeqRange(h) = SeqRange(heap) \ {heap[1]} /\ Len(heap) - 1 = 0
      BY <1>1, <1>8, <2>2, <2>3
    <2>6. QED
      BY <1>7, <2>3, <2>4, <2>5
  <1>9. CASE n # 0
    <2>1. n + 1 <= NumSlots /\ n \in 1 .. NumSlots /\ NumSlots \in Nat
      <3>1. Cardinality(SeqRange(heap)) = n + 1 /\ SeqRange(heap) \in SUBSET Slots
        BY <1>1, DistinctCount
      <3>2. Cardinality(SeqRange(heap)) <= NumSlots
        BY <3>1, SlotsFinite, FS_Subset
      <3>3. QED
        BY <1>9, <3>1, <3>2, SlotsFinite
    <2>2. ASSUME NEW p \in 2 .. n, NEW q \in 2 .. n, p \div 2 = q \div 2, q < p
          PROVE  ~(Picked[p] /\ Picked[q])
      <3>1. p = q + 1 /\ q % 2 = 0 /\ p % 2 = 1 /\ q # n
        BY <2>2, <2>1
      <3>2. DIFF_TICK(T(p), T(q)) \in Int
        <4>1. heap[p] \in Slots /\ heap[q] \in Slots
          BY <1>1, <2>1
        <4>2. T(p) \in Int /\ T(q) \in Int /\ Cycle \in Nat \ {0}
          BY <4>1, TimerAssumption
        <4>3. QED
          BY <4>2 DEF DIFF_TICK
      <3>3. Picked[q] => DIFF_TICK(T(p), T(q)) > 0
        BY <1>3, <3>1
      <3>4. Picked[p] => DIFF_TICK(T(p), T(q)) <= 0
        <4>1. p - 1 = q /\ p % 2 # 0
          BY <3>1, <2>1
        <4>2. QED
          BY <1>3, <4>1
      <3>5. QED
        BY <3>2, <3>3, <3>4
    <2>3. Descends(H, n)
      <3>1. 1 \in H
        <4>1. PathFrom[1] = {1} /\ 1 \in 1 .. n
          BY <2>1, PathFromIs
        <4>2. QED
          BY <1>4, <4>1
      <3>2. ASSUME NEW p \in H
            PROVE  PathFrom[p] \subseteq H
        <4>1. p \in 1 .. n /\ p \in 1 .. NumSlots
          BY <1>4, <2>1
        <4>2. ASSUME NEW x \in PathFrom[p]
              PROVE  x \in H
          <5>1. x \in 1 .. n
            <6>1. x \in 1 .. p
              BY <4>1, <4>2, PathShape
            <6>2. QED
              BY <6>1, <4>1, <2>1
          <5>2. PathFrom[x] \subseteq PathFrom[p]
            BY <4>1, <4>2, PathOn
          <5>3. QED
            BY <1>4, <3>2, <5>1, <5>2
        <4>3. QED
          BY <4>2
      <3>3. ASSUME NEW p \in H \ {1}, NEW q \in H \ {1}, p \div 2 = q \div 2
            PROVE  p = q
        <4>1. p \in 2 .. n /\ q \in 2 .. n /\ p \in 1 .. NumSlots /\ q \in 1 .. NumSlots
          BY <1>4, <2>1
        <4>2. Picked[p] /\ Picked[q]
          <5>1. p \in PathFrom[p] /\ q \in PathFrom[q]
            BY <4>1, PathShape
          <5>2. QED
            BY <1>4, <4>1, <5>1
        <4>3. ~(p < q) /\ ~(q < p)
          BY <2>2, <3>3, <4>1, <4>2
        <4>4. QED
          BY <4>1, <4>3
      <3>4. QED
        BY <1>4, <2>1, <3>1, <3>2, <3>3 DEF Descends
    <2>4. stop \in H
      <3>1. PICK S : S = {p \in H : p = 1 \/ DIFF_TICK(T(p), data[last].tick) <= 0}
        OBVIOUS
      <3>2. 1 \in H /\ H \subseteq 0 .. n
        BY <1>4, <2>3 DEF Descends
      <3>3. S \in SUBSET (0 .. n) /\ S # {}
        BY <3>1, <3>2
      <3>4. Largest(S) \in S
        BY <3>3, LargestIs
      <3>5. QED
        BY <1>5, <3>1, <3>4
    (* Where an entry comes from. *)
    <2> DEFINE Below(p) == CHOOSE q \in H : q \div 2 = p
               From(p) == IF p = stop THEN n + 1 ELSE IF p \in H /\ p < stop THEN Below(p) ELSE p
    <2>5. ASSUME NEW p \in H, p < stop
          PROVE  Below(p) \in H /\ Below(p) \div 2 = p /\ Below(p) <= stop /\ Below(p) # 1
      BY <2>3, <2>4, <2>5, NextDown
    <2> HIDE DEF Below
    <2>6. H \subseteq 1 .. n /\ stop \in 1 .. n /\ 1 \in H
      BY <2>3, <2>4 DEF Descends
    <2>7. ASSUME NEW p \in 1 .. n
          PROVE  From(p) \in 2 .. n + 1 /\ h[p] = heap[From(p)]
      <3>1. h[p] = heap[From(p)]
        BY <1>2, <1>6 DEF Below
      <3>2. CASE p = stop
        BY <2>1, <3>1, <3>2
      <3>3. CASE p # stop /\ p \in H /\ p < stop
        <4>1. Below(p) \in 1 .. n /\ Below(p) # 1
          BY <2>5, <2>6, <3>3
        <4>2. Below(p) \in 2 .. n + 1
          BY <4>1, <2>1
        <4>3. QED
          BY <3>1, <3>3, <4>2
      <3>4. CASE p # stop /\ ~(p \in H /\ p < stop)
        <4>1. p # 1
          BY <2>6, <3>4
        <4>2. QED
          BY <4>1, <3>1, <3>4, <2>1
      <3>5. QED
        BY <3>2, <3>3, <3>4
    <2>8. ASSUME NEW p \in 1 .. n, NEW q \in 1 .. n, From(p) = From(q), p # q
          PROVE  FALSE
      <3>1. ASSUME NEW x \in 1 .. n, x \in H, x < stop
            PROVE  Below(x) \in H /\ Below(x) \div 2 = x /\ Below(x) <= stop /\ Below(x) < n + 1
        <4>1. Below(x) \in H /\ Below(x) \div 2 = x /\ Below(x) <= stop
          BY <2>5, <3>1
        <4>2. Below(x) \in 1 .. n
          BY <2>6, <4>1
        <4>3. QED
          BY <4>1, <4>2, <2>1
      <3>2. n < n + 1 /\ p < n + 1 /\ q < n + 1 /\ n + 1 # p /\ n + 1 # q
        BY <2>1
      <3>3. CASE p = stop
        BY <2>8, <3>1, <3>2, <3>3
      <3>4. CASE q = stop
        BY <2>8, <3>1, <3>2, <3>4
      <3>5. CASE p # stop /\ q # stop /\ p \in H /\ p < stop
        <4>1. CASE q \in H /\ q < stop
          BY <2>8, <3>1, <3>5, <4>1
        <4>2. CASE ~(q \in H /\ q < stop)
          <5>1. q = Below(p)
            BY <2>8, <3>5, <4>2
          <5>2. q \in H /\ q <= stop
            BY <3>1, <3>5, <5>1
          <5>3. QED
            BY <5>2, <3>5, <4>2, <2>6
        <4>3. QED
          BY <4>1, <4>2
      <3>6. CASE p # stop /\ q # stop /\ ~(p \in H /\ p < stop)
        <4>1. CASE q \in H /\ q < stop
          <5>1. p = Below(q)
            BY <2>8, <3>6, <4>1
          <5>2. p \in H /\ p <= stop
            BY <3>1, <4>1, <5>1
          <5>3. QED
            BY <5>2, <3>6, <2>6
        <4>2. CASE ~(q \in H /\ q < stop)
          BY <2>8, <3>6, <4>2
        <4>3. QED
          BY <4>1, <4>2
      <3>7. QED
        BY <3>3, <3>4, <3>5, <3>6
    <2> HIDE DEF From
    <2>9. DOMAIN h = 1 .. n /\ DOMAIN heap = 1 .. n + 1
      BY <1>1, <1>6
    <2>10. ASSUME NEW p \in 1 .. n
           PROVE  h[p] \in SeqRange(heap) \ {heap[1]}
      <3>1. From(p) \in DOMAIN heap /\ From(p) # 1 /\ 1 \in DOMAIN heap
        BY <2>7, <2>9
      <3>2. heap[From(p)] # heap[1]
        BY <3>1 DEF Distinct
      <3>3. QED
        BY <2>7, <3>1, <3>2 DEF SeqRange
    <2>11. h \in Seq(Slots) /\ Len(h) = n /\ SeqRange(h) \subseteq SeqRange(heap) \ {heap[1]}
      <3>1. SeqRange(heap) \subseteq Slots
        BY DistinctCount
      <3>2. \A p \in 1 .. n : h[p] \in Slots
        BY <2>10, <3>1
      <3>3. h \in [1 .. n -> Slots]
        BY <1>6, <3>2
      <3>4. h \in Seq(Slots) /\ Len(h) = n
        BY <3>3
      <3>5. QED
        BY <2>10, <3>4, <2>9 DEF SeqRange
    <2>12. Distinct(h)
      <3>1. ASSUME NEW p \in 1 .. n, NEW q \in 1 .. n, h[p] = h[q]
            PROVE  p = q
        <4>1. From(p) \in DOMAIN heap /\ From(q) \in DOMAIN heap /\ heap[From(p)] = heap[From(q)]
          BY <2>7, <2>9, <3>1
        <4>2. From(p) = From(q)
          BY <4>1 DEF Distinct
        <4>3. QED
          BY <2>8, <4>2
      <3>2. QED
        BY <2>9, <3>1 DEF Distinct
    <2>13. SeqRange(h) = SeqRange(heap) \ {heap[1]}
      <3>1. IsFiniteSet(SeqRange(heap)) /\ Cardinality(SeqRange(heap)) = n + 1
        BY <1>1, DistinctCount
      <3>2. heap[1] \in SeqRange(heap)
        BY <2>9 DEF SeqRange
      <3>3. IsFiniteSet(SeqRange(heap) \ {heap[1]}) /\ Cardinality(SeqRange(heap) \ {heap[1]}) = n
        <4>1. PICK r : r = heap[1]
          OBVIOUS
        <4>2. PICK S : S = SeqRange(heap)
          OBVIOUS
        <4>3. IsFiniteSet(S) /\ Cardinality(S) = n + 1 /\ r \in S
          BY <3>1, <3>2, <4>1, <4>2
        <4>4. IsFiniteSet(S \ {r}) /\ Cardinality(S \ {r}) = Cardinality(S) - 1
          BY ONLY <4>3, FS_RemoveElement
        <4>5. QED
          BY <4>1, <4>2, <4>3, <4>4
      <3>4. QED
        BY <2>11, <2>12, <3>3, AllOfThem
    <2>14. QED
      BY <1>1, <1>7, <2>11, <2>12, <2>13
  <1>10. QED
    BY <1>8, <1>9

-----------------------------------------------------------------------------
(* The inductive invariant *)

Event == {"pc_eventtimer", "npc_event_timer"}
Cells == [tick : 0 .. Cycle - 1, func : Funcs, id : Owners \cup {System}, type : {0, 1, 2, 17, 18}]

(* Every slot is in one place, as SlotPartition says it. *)
Placed(s) ==
  /\ ~(Queued(s) /\ Free(s)) /\ (s = cur => ~Queued(s) /\ ~Free(s))
  /\ ~Used(s) => ~Queued(s) /\ ~Free(s) /\ s # cur
  /\ Lost(s) => timer_data[s].func = "NULL" /\ timer_data[s].id \in Players

(* What do_timer goes by when a callback returns.  A slot in the heap carries
   no mark; the slot that runs carries one until its callback deletes it, which
   only the script of a player can do; the interval timer is nobody's to
   delete. *)
Labelled(s) ==
  /\ Queued(s) => timer_data[s].type \in {TIMER_ONCE_AUTODEL, TIMER_INTERVAL}
  /\ (Queued(s) \/ s = cur) /\ timer_data[s].type \in {TIMER_INTERVAL, TIMER_REMOVE_HEAP + TIMER_INTERVAL}
     => timer_data[s].func = "interval"
  /\ s = cur => \/ timer_data[s].type \in {TIMER_REMOVE_HEAP + TIMER_ONCE_AUTODEL,
                                           TIMER_REMOVE_HEAP + TIMER_INTERVAL}
                \/ /\ timer_data[s].type = TIMER_ONCE_AUTODEL
                   /\ timer_data[s].func = "NULL" /\ timer_data[s].id \in Players
  /\ timer_data[s].func \in Event => timer_data[s].id \in Owners

TimerInv ==
  /\ TypeOK
  /\ Distinct(timer_heap) /\ Distinct(free_timer_list)
  /\ phase = "call" <=> cur # NoTimer
  /\ \A s \in Slots : Placed(s) /\ Labelled(s)
  /\ PlayerTimerValid

LEMMA InvPartition == TimerInv => SlotPartition /\ PlayerTimerValid
  BY DistinctCount DEF TimerInv, SlotPartition, TypeOK, Placed

LEMMA TypeParts ==
  TypeOK <=> /\ timer_data \in [Slots -> Cells]
             /\ timer_heap \in Seq(Slots) /\ free_timer_list \in Seq(Slots)
             /\ timer_data_num \in 0 .. NumSlots
             /\ tick \in 0 .. Cycle - 1
             /\ phase \in {"idle", "pass", "call"} /\ cur \in Slots \cup {NoTimer}
             /\ eventtimer \in [Owners -> Slots \cup {NoTimer}]
             /\ postponed \in BOOLEAN
  BY DEF TypeOK, Cells

LEMMA InTheCycle ==
  ASSUME NEW x \in Int
  PROVE  x % Cycle \in 0 .. Cycle - 1
  <1>1. Cycle \in Nat \ {0}
    BY TimerAssumption
  <1>2. QED
    BY <1>1

LEMMA SlotsAreNat == Slots \subseteq Nat /\ NoTimer \notin Slots /\ NoTimer \in Int
  BY TimerAssumption DEF Slots, NoTimer

LEMMA InitTimer == Init => TimerInv
  <1> SUFFICES ASSUME Init PROVE TimerInv
    OBVIOUS
  <1>1. Cycle \in Nat \ {0} /\ NumSlots \in Nat \ {0} /\ Interval \in Nat
    BY TimerAssumption
  <1>2. Interval % Cycle \in 0 .. Cycle - 1 /\ 0 \in 0 .. Cycle - 1
    BY <1>1, InTheCycle
  <1>3. 0 \in Slots /\ Slots \subseteq Nat
    BY <1>1 DEF Slots
  <1>4. TypeOK
    <2>1. timer_data \in [Slots -> Cells]
      BY <1>2 DEF Init, Cells, Funcs, TIMER_INTERVAL
    <2>2. timer_heap \in Seq(Slots) /\ free_timer_list \in Seq(Slots)
      BY <1>3 DEF Init
    <2>3. eventtimer \in [Owners -> Slots \cup {NoTimer}]
      BY DEF Init
    <2>4. timer_data_num \in 0 .. NumSlots /\ tick \in 0 .. Cycle - 1
      BY <1>1 DEF Init
    <2>5. phase = "idle" /\ cur = NoTimer /\ postponed = FALSE
      BY DEF Init
    <2>6. QED
      BY <2>1, <2>2, <2>3, <2>4, <2>5, TypeParts
  <1>5. Distinct(timer_heap) /\ Distinct(free_timer_list)
    BY DEF Init, Distinct
  <1>6. SeqRange(timer_heap) = {0} /\ SeqRange(free_timer_list) = {}
    BY DEF Init, SeqRange
  <1>7. ASSUME NEW s \in Slots
        PROVE  Placed(s) /\ Labelled(s)
    <2>1. cur \notin Slots /\ timer_data_num = 1
      BY SlotsAreNat DEF Init
    <2>2. Queued(s) <=> s = 0
      BY <1>6 DEF Queued
    <2>3. ~Free(s)
      BY <1>6 DEF Free
    <2>4. Used(s) <=> s = 0
      BY <1>3, <2>1 DEF Used
    <2>5. Placed(s)
      BY <2>1, <2>2, <2>3, <2>4 DEF Placed, Lost
    <2>6. timer_data[s].func \notin Event /\ (s = 0 => timer_data[s].type = TIMER_INTERVAL /\ timer_data[s].func = "interval")
      BY DEF Init, Event
    <2>7. Labelled(s)
      BY <2>1, <2>2, <2>6 DEF Labelled, TIMER_INTERVAL, TIMER_ONCE_AUTODEL
    <2>8. QED
      BY <2>5, <2>7
  <1>8. PlayerTimerValid
    BY DEF Init, PlayerTimerValid, Owners
  <1>9. phase = "call" <=> cur # NoTimer
    BY DEF Init
  <1>10. QED
    BY <1>4, <1>5, <1>7, <1>8, <1>9 DEF TimerInv

-----------------------------------------------------------------------------
(* Adding and deleting timers *)

(* One slot rewritten. *)
LEMMA Rewritten ==
  ASSUME NEW x \in Slots, NEW c \in Cells, timer_data \in [Slots -> Cells],
         timer_data' = [timer_data EXCEPT ![x] = c]
  PROVE  /\ timer_data' \in [Slots -> Cells] /\ timer_data'[x] = c
         /\ \A s \in Slots : s # x => timer_data'[s] = timer_data[s]
  OBVIOUS

(* The recycling stack gives its top away and grows at the top. *)
LEMMA Popped ==
  ASSUME NEW l \in Seq(Slots), l # <<>>, Distinct(l)
  PROVE  LET r == SubSeq(l, 1, Len(l) - 1)
         IN  /\ r \in Seq(Slots) /\ Distinct(r) /\ SeqRange(r) = SeqRange(l) \ {l[Len(l)]}
             /\ l[Len(l)] \in SeqRange(l)
  <1>1. PICK n \in Nat : Len(l) = n + 1
    BY Len(l) # 0, Len(l) - 1 \in Nat
  <1>2. PICK r : r = SubSeq(l, 1, Len(l) - 1)
    OBVIOUS
  <1>3. r \in Seq(Slots) /\ Len(r) = n /\ DOMAIN r = 1 .. n /\ DOMAIN l = 1 .. n + 1
        /\ \A i \in 1 .. n : r[i] = l[i]
    BY <1>1, <1>2
  <1>4. \A i \in 1 .. n : i \in 1 .. n + 1 /\ i # n + 1
    OBVIOUS
  <1>5. Distinct(r)
    BY <1>3, <1>4 DEF Distinct
  <1>6. n + 1 \in DOMAIN l
    BY <1>3
  <1>7. \A i \in 1 .. n + 1 : i # n + 1 => i \in 1 .. n
    OBVIOUS
  <1>8. SeqRange(r) = SeqRange(l) \ {l[n + 1]}
    <2>1. ASSUME NEW x \in SeqRange(r)
          PROVE  x \in SeqRange(l) \ {l[n + 1]}
      <3>1. PICK i \in 1 .. n : x = r[i]
        BY <1>3 DEF SeqRange
      <3>2. x = l[i] /\ i \in DOMAIN l /\ i # n + 1
        BY <1>3, <1>4, <3>1
      <3>3. l[i] # l[n + 1]
        BY <1>6, <3>2 DEF Distinct
      <3>4. QED
        BY <3>2, <3>3 DEF SeqRange
    <2>2. ASSUME NEW x \in SeqRange(l) \ {l[n + 1]}
          PROVE  x \in SeqRange(r)
      <3>1. PICK i \in DOMAIN l : x = l[i]
        BY DEF SeqRange
      <3>2. i # n + 1
        BY <3>1
      <3>3. i \in DOMAIN r /\ x = r[i]
        BY <1>3, <1>7, <3>1, <3>2
      <3>4. QED
        BY <3>3 DEF SeqRange
    <2>3. QED
      BY <2>1, <2>2
  <1>9. l[n + 1] \in SeqRange(l)
    BY <1>6 DEF SeqRange
  <1>10. QED
    BY <1>1, <1>2, <1>3, <1>5, <1>8, <1>9

LEMMA Pushed ==
  ASSUME NEW l \in Seq(Slots), Distinct(l), NEW s \in Slots, s \notin SeqRange(l)
  PROVE  LET r == Append(l, s)
         IN  r \in Seq(Slots) /\ Distinct(r) /\ SeqRange(r) = SeqRange(l) \cup {s}
  <1>1. PICK n \in Nat : n = Len(l)
    OBVIOUS
  <1>2. PICK r : r = Append(l, s)
    OBVIOUS
  <1>3. r \in Seq(Slots) /\ DOMAIN r = 1 .. n + 1 /\ DOMAIN l = 1 .. n
        /\ r[n + 1] = s /\ \A i \in 1 .. n : r[i] = l[i]
    BY <1>1, <1>2
  <1>4. \A i \in 1 .. n + 1 : i = n + 1 \/ i \in 1 .. n
    OBVIOUS
  <1>5. \A i \in 1 .. n : i \in 1 .. n + 1
    OBVIOUS
  <1>6. \A i \in 1 .. n : l[i] \in SeqRange(l)
    BY <1>3 DEF SeqRange
  <1>7. Distinct(r)
    BY <1>3, <1>4, <1>6 DEF Distinct
  <1>8. SeqRange(r) = SeqRange(l) \cup {s}
    <2>1. ASSUME NEW x \in SeqRange(r)
          PROVE  x \in SeqRange(l) \cup {s}
      BY <1>3, <1>4, <1>6 DEF SeqRange
    <2>2. ASSUME NEW x \in SeqRange(l) \cup {s}
          PROVE  x \in SeqRange(r)
      <3>1. n + 1 \in DOMAIN r
        BY <1>3
      <3>2. QED
        BY <1>3, <1>5, <3>1 DEF SeqRange
    <2>3. QED
      BY <2>1, <2>2
  <1>9. QED
    BY <1>2, <1>3, <1>7, <1>8

(* What add_timer takes is neither in the heap nor running, and goes into the
   heap; the rest of the wheel stays as it is. *)
Added(x, c) ==
  /\ x \in Slots /\ x \notin SeqRange(timer_heap) /\ x # cur
  /\ timer_data' \in [Slots -> Cells] /\ timer_data'[x] = c
  /\ \A s \in Slots : s # x => timer_data'[s] = timer_data[s]
  /\ timer_heap' \in Seq(Slots) /\ Distinct(timer_heap')
  /\ SeqRange(timer_heap') = SeqRange(timer_heap) \cup {x}
  /\ free_timer_list' \in Seq(Slots) /\ Distinct(free_timer_list')
  /\ SeqRange(free_timer_list') = SeqRange(free_timer_list) \ {x}
  /\ timer_data_num' \in 0 .. NumSlots
  /\ \A s \in Slots : s < timer_data_num' <=> s < timer_data_num \/ s = x

LEMMA AddAdds ==
  ASSUME TimerInv, NEW delay \in Nat, NEW func \in Event, NEW id \in Owners, add_timer(delay, func, id)
  PROVE  Added(NewSlot, [tick |-> (tick + delay) % Cycle, func |-> func, id |-> id,
                         type |-> TIMER_ONCE_AUTODEL])
  <1>1. PICK x : x = NewSlot
    OBVIOUS
  <1>2. PICK c : c = [tick |-> (tick + delay) % Cycle, func |-> func, id |-> id, type |-> TIMER_ONCE_AUTODEL]
    OBVIOUS
  <1>3. /\ timer_data \in [Slots -> Cells] /\ timer_heap \in Seq(Slots) /\ free_timer_list \in Seq(Slots)
        /\ timer_data_num \in 0 .. NumSlots /\ tick \in 0 .. Cycle - 1
        /\ Distinct(timer_heap) /\ Distinct(free_timer_list)
    BY TypeParts DEF TimerInv
  <1>4. ASSUME NEW s \in Slots
        PROVE  Placed(s)
    BY DEF TimerInv
  <1>5. NumSlots \in Nat \ {0} /\ Cycle \in Nat \ {0} /\ Slots \subseteq Nat
    BY TimerAssumption, SlotsAreNat
  <1>6. c \in Cells
    <2>1. tick + delay \in Int
      BY <1>3, <1>5
    <2>2. (tick + delay) % Cycle \in 0 .. Cycle - 1
      BY <2>1, InTheCycle
    <2>3. func \in Funcs
      BY DEF Event, Funcs
    <2>4. QED
      BY <1>2, <2>2, <2>3 DEF Cells, TIMER_ONCE_AUTODEL
  <1>7. CASE free_timer_list # <<>>
    <2>1. x = free_timer_list[Len(free_timer_list)]
      BY <1>1, <1>7 DEF NewSlot
    <2>2. /\ x \in SeqRange(free_timer_list)
          /\ free_timer_list' \in Seq(Slots) /\ Distinct(free_timer_list')
          /\ SeqRange(free_timer_list') = SeqRange(free_timer_list) \ {x}
      <3>1. free_timer_list' = SubSeq(free_timer_list, 1, Len(free_timer_list) - 1)
        BY <1>7 DEF add_timer
      <3>2. QED
        BY <1>3, <1>7, <2>1, <3>1, Popped
    <2>3. x \in Slots /\ Free(x)
      BY <1>3, <2>2, DistinctCount DEF Free
    <2>4. ~Queued(x) /\ x # cur /\ Used(x)
      BY <1>4, <2>3 DEF Placed
    <2>5. timer_data_num' = timer_data_num
      BY <1>7 DEF add_timer
    <2>6. \A s \in Slots : s < timer_data_num' <=> s < timer_data_num \/ s = x
      BY <2>4, <2>5 DEF Used
    <2>7. timer_data' = [timer_data EXCEPT ![x] = c] /\ timer_heap' = push_timer_heap(timer_heap, timer_data', x)
      BY <1>1, <1>2 DEF add_timer
    <2>8. timer_heap' \in Seq(Slots) /\ Distinct(timer_heap') /\ SeqRange(timer_heap') = SeqRange(timer_heap) \cup {x}
      BY <1>3, <2>3, <2>4, <2>7, PushKeeps DEF Queued
    <2>9. timer_data' \in [Slots -> Cells] /\ timer_data'[x] = c
          /\ \A s \in Slots : s # x => timer_data'[s] = timer_data[s]
      BY <1>3, <1>6, <2>3, <2>7, Rewritten
    <2>10. Added(x, c)
      BY <1>3, <2>2, <2>3, <2>4, <2>5, <2>6, <2>8, <2>9 DEF Added, Queued
    <2>11. QED
      BY <1>1, <1>2, <2>10
  <1>8. CASE free_timer_list = <<>>
    <2>1. x = timer_data_num /\ timer_data_num < NumSlots
      BY <1>1, <1>8 DEF NewSlot, add_timer, HasSlot
    <2>2. x \in Slots
      BY <1>3, <1>5, <2>1 DEF Slots
    <2>3. ~Queued(x) /\ ~Free(x) /\ x # cur
      <3>1. ~Used(x)
        BY <1>5, <2>1, <2>2 DEF Used
      <3>2. QED
        BY <1>4, <2>2, <3>1 DEF Placed
    <2>4. free_timer_list' = free_timer_list /\ timer_data_num' = timer_data_num + 1
      BY <1>8 DEF add_timer
    <2>5. SeqRange(free_timer_list') = SeqRange(free_timer_list) \ {x}
      BY <2>3, <2>4 DEF Free
    <2>6. timer_data_num' \in 0 .. NumSlots /\ \A s \in Slots : s < timer_data_num' <=> s < timer_data_num \/ s = x
      <3>1. timer_data_num \in Nat /\ timer_data_num + 1 \in 0 .. NumSlots
        BY <1>3, <1>5, <2>1
      <3>2. \A s \in Nat : s < timer_data_num + 1 <=> s < timer_data_num \/ s = timer_data_num
        BY <3>1
      <3>3. QED
        BY <1>5, <2>1, <2>4, <3>1, <3>2
    <2>7. timer_data' = [timer_data EXCEPT ![x] = c] /\ timer_heap' = push_timer_heap(timer_heap, timer_data', x)
      BY <1>1, <1>2 DEF add_timer
    <2>8. timer_heap' \in Seq(Slots) /\ Distinct(timer_heap') /\ SeqRange(timer_heap') = SeqRange(timer_heap) \cup {x}
      BY <1>3, <2>2, <2>3, <2>7, PushKeeps DEF Queued
    <2>9. timer_data' \in [Slots -> Cells] /\ timer_data'[x] = c
          /\ \A s \in Slots : s # x => timer_data'[s] = timer_data[s]
      BY <1>3, <1>6, <2>2, <2>7, Rewritten
    <2>10. Added(x, c)
      BY <1>3, <2>2, <2>3, <2>4, <2>5, <2>6, <2>8, <2>9 DEF Added, Queued
    <2>11. QED
      BY <1>1, <1>2, <2>10
  <1>9. QED
    BY <1>7, <1>8

(* So the slots are in order after add_timer, for any caller. *)
LEMMA AddKeepsSlots ==
  ASSUME TimerInv, NEW x, NEW c \in Cells, Added(x, c), UNCHANGED cur,
         c.func \in Event, c.id \in Owners, c.type = TIMER_ONCE_AUTODEL
  PROVE  \A s \in Slots : Placed(s)' /\ Labelled(s)'
  <1> SUFFICES ASSUME NEW s \in Slots PROVE Placed(s)' /\ Labelled(s)'
    OBVIOUS
  <1>1. Placed(s) /\ Labelled(s)
    BY DEF TimerInv
  <1>2. /\ Queued(s)' <=> Queued(s) \/ s = x
        /\ Free(s)' <=> Free(s) /\ s # x
        /\ Used(s)' <=> Used(s) \/ s = x
        /\ cur' = cur /\ x # cur /\ x \in Slots
    BY DEF Added, Queued, Free, Used
  <1>3. Lost(s)' => Lost(s) /\ s # x
    BY <1>2 DEF Lost
  <1>4. s # x => timer_data'[s] = timer_data[s]
    BY DEF Added
  <1>5. timer_data'[x] = c
    BY DEF Added
  <1>6. Placed(s)'
    <2>1. Lost(s)' => timer_data'[s].func = "NULL" /\ timer_data'[s].id \in Players
      BY <1>1, <1>3, <1>4 DEF Placed
    <2>2. QED
      BY <1>1, <1>2, <2>1 DEF Placed
  <1>7. Labelled(s)'
    <2>1. CASE s # x
      BY <1>1, <1>2, <1>4, <2>1 DEF Labelled
    <2>2. CASE s = x
      <3>1. timer_data'[s].type = TIMER_ONCE_AUTODEL /\ timer_data'[s].id \in Owners /\ cur' # s
        BY <1>2, <1>5, <2>2
      <3>2. QED
        BY <3>1 DEF Labelled, TIMER_ONCE_AUTODEL, TIMER_INTERVAL, TIMER_REMOVE_HEAP
    <2>3. QED
      BY <2>1, <2>2
  <1>8. QED
    BY <1>6, <1>7

-----------------------------------------------------------------------------
(* The steps *)

LEMMA FuncIsEvent ==
  ASSUME NEW o \in Owners
  PROVE  FuncOf(o) \in Event /\ (o \in Players <=> FuncOf(o) = "pc_eventtimer")
  BY DEF FuncOf, Event, Owners

(* A timer id that names a player's own timer. *)
Names(p, s, heap, data) == s \in SeqRange(heap) /\ data[s].id = p /\ data[s].func = "pc_eventtimer"

LEMMA PlayerTimers ==
  ASSUME PlayerTimerValid, NEW p \in Players, eventtimer[p] # NoTimer
  PROVE  Names(p, eventtimer[p], timer_heap, timer_data)
  BY DEF PlayerTimerValid, Names, Queued

LEMMA PlayerTimersNext ==
  ASSUME \A p \in Players : eventtimer'[p] # NoTimer => Names(p, eventtimer'[p], timer_heap', timer_data')
  PROVE  PlayerTimerValid'
  BY DEF PlayerTimerValid, Names, Queued

(* Players keep their timers when those are left alone. *)
LEMMA AddKeepsPlayers ==
  ASSUME TimerInv, NEW x, NEW c, Added(x, c), NEW p \in Players,
         eventtimer'[p] = eventtimer[p], eventtimer'[p] # NoTimer
  PROVE  Names(p, eventtimer'[p], timer_heap', timer_data')
  <1>1. PICK s : s = eventtimer[p]
    OBVIOUS
  <1>2. s \in Slots
    BY <1>1, TypeParts DEF TimerInv, Owners
  <1>3. Queued(s) /\ timer_data[s].id = p /\ timer_data[s].func = "pc_eventtimer"
    BY <1>1 DEF TimerInv, PlayerTimerValid
  <1>4. s # x /\ s \in SeqRange(timer_heap')
    BY <1>3 DEF Added, Queued
  <1>5. timer_data'[s] = timer_data[s]
    BY <1>2, <1>4 DEF Added
  <1>6. QED
    BY <1>1, <1>3, <1>4, <1>5 DEF Names

LEMMA AddEventTimerKeeps ==
  ASSUME TimerInv, NEW o \in Owners, NEW d \in Delays, AddEventTimer(o, d)
  PROVE  TimerInv'
  <1>1. PICK x : x = NewSlot
    OBVIOUS
  <1>2. PICK c : c = [tick |-> (tick + d) % Cycle, func |-> FuncOf(o), id |-> o, type |-> TIMER_ONCE_AUTODEL]
    OBVIOUS
  <1>3. FuncOf(o) \in Event /\ d \in Nat
    BY FuncIsEvent, TimerAssumption
  <1>4. Added(x, c)
    BY <1>1, <1>2, <1>3, AddAdds DEF AddEventTimer
  <1>5. c \in Cells /\ x \in Slots
    BY <1>4 DEF Added
  <1>6. UNCHANGED <<tick, phase, cur, postponed>> /\ eventtimer' = [eventtimer EXCEPT ![o] = x]
    BY <1>1 DEF AddEventTimer
  <1>7. \A s \in Slots : Placed(s)' /\ Labelled(s)'
    <2>1. c.func \in Event /\ c.id \in Owners /\ c.type = TIMER_ONCE_AUTODEL
      BY <1>2, <1>3
    <2>2. QED
      BY <1>4, <1>5, <1>6, <2>1, AddKeepsSlots
  <1>8. eventtimer' \in [Owners -> Slots \cup {NoTimer}]
    BY <1>5, <1>6, TypeParts DEF TimerInv
  <1>9. TypeOK'
    BY <1>4, <1>6, <1>8, TypeParts DEF TimerInv, Added, TypeOK, Cells
  <1>10. PlayerTimerValid'
    <2> SUFFICES ASSUME NEW p \in Players, eventtimer'[p] # NoTimer
                 PROVE  Names(p, eventtimer'[p], timer_heap', timer_data')
      BY PlayerTimersNext
    <2>1. CASE p = o
      <3>1. eventtimer'[p] = x
        BY <1>6, <2>1, TypeParts DEF TimerInv
      <3>2. timer_data'[x] = c /\ x \in SeqRange(timer_heap')
        BY <1>4 DEF Added
      <3>3. c.id = p /\ c.func = "pc_eventtimer"
        BY <1>2, <2>1, FuncIsEvent
      <3>4. QED
        BY <3>1, <3>2, <3>3 DEF Names
    <2>2. CASE p # o
      <3>1. eventtimer'[p] = eventtimer[p]
        BY <1>6, <2>2, TypeParts DEF TimerInv, Owners
      <3>2. QED
        BY <1>4, <3>1, AddKeepsPlayers
    <2>3. QED
      BY <2>1, <2>2
  <1>11. Distinct(timer_heap') /\ Distinct(free_timer_list')
    BY <1>4 DEF Added
  <1>12. QED
    BY <1>6, <1>7, <1>9, <1>10, <1>11 DEF TimerInv

LEMMA DequeueKeeps ==
  ASSUME TimerInv, NEW p \in Players, npc_event_dequeue(p)
  PROVE  TimerInv'
  <1>1. PICK x : x = NewSlot
    OBVIOUS
  <1>2. PICK c : c = [tick |-> (tick + QueueDelay) % Cycle, func |-> "npc_event_timer", id |-> p,
                      type |-> TIMER_ONCE_AUTODEL]
    OBVIOUS
  <1>3. "npc_event_timer" \in Event /\ QueueDelay \in Nat /\ p \in Owners
    BY TimerAssumption DEF Event, Owners
  <1>4. Added(x, c)
    BY <1>1, <1>2, <1>3, AddAdds DEF npc_event_dequeue
  <1>5. c \in Cells /\ x \in Slots
    BY <1>4 DEF Added
  <1>6. UNCHANGED <<tick, phase, cur, eventtimer, postponed>>
    BY DEF npc_event_dequeue
  <1>7. \A s \in Slots : Placed(s)' /\ Labelled(s)'
    <2>1. c.func \in Event /\ c.id \in Owners /\ c.type = TIMER_ONCE_AUTODEL
      BY <1>2, <1>3
    <2>2. QED
      BY <1>4, <1>5, <1>6, <2>1, AddKeepsSlots
  <1>8. TypeOK'
    BY <1>4, <1>6, TypeParts DEF TimerInv, Added, TypeOK, Cells
  <1>9. PlayerTimerValid'
    <2>1. ASSUME NEW q \in Players, eventtimer'[q] # NoTimer
          PROVE  Names(q, eventtimer'[q], timer_heap', timer_data')
      <3>1. eventtimer'[q] = eventtimer[q]
        BY <1>6
      <3>2. QED
        BY <1>4, <2>1, <3>1, AddKeepsPlayers
    <2>2. QED
      BY <2>1, PlayerTimersNext
  <1>10. Distinct(timer_heap') /\ Distinct(free_timer_list')
    BY <1>4 DEF Added
  <1>11. QED
    BY <1>6, <1>7, <1>8, <1>9, <1>10 DEF TimerInv

(* The timer a player remembers is no other owner's: a delete by the function
   of another kind of owner is refused, and another player remembers a timer
   that carries another id. *)
LEMMA DelEventTimerKeeps ==
  ASSUME TimerInv, NEW o \in Owners, DelEventTimer(o)
  PROVE  TimerInv'
  <1>1. PICK t : t = eventtimer[o]
    OBVIOUS
  <1>2. /\ timer_data \in [Slots -> Cells] /\ timer_data_num \in 0 .. NumSlots
        /\ tick \in 0 .. Cycle - 1 /\ cur \in Slots \cup {NoTimer}
        /\ eventtimer \in [Owners -> Slots \cup {NoTimer}]
    BY TypeParts DEF TimerInv
  <1>3. /\ UNCHANGED <<timer_heap, free_timer_list, timer_data_num, tick, phase, cur, postponed>>
        /\ eventtimer' = [eventtimer EXCEPT ![o] = NoTimer] /\ t # NoTimer
        /\ delete_timer(t, FuncOf(o)) /\ ScriptRuns
    BY <1>1 DEF DelEventTimer
  <1>4. t \in Slots
    BY <1>1, <1>2, <1>3
  <1>5. \A s : (Queued(s)' <=> Queued(s)) /\ (Free(s)' <=> Free(s)) /\ (Used(s)' <=> Used(s))
    BY <1>3 DEF Queued, Free, Used
  <1>6. \A s : Lost(s)' <=> Lost(s)
    BY <1>3, <1>5 DEF Lost
  <1>7. ASSUME NEW s \in Slots
        PROVE  Placed(s) /\ Labelled(s)
    BY DEF TimerInv
  <1>8. CASE ~CanDelete(t, FuncOf(o))
    <2>1. timer_data' = timer_data
      BY <1>3, <1>8 DEF delete_timer
    <2>2. TypeOK'
      <3>1. eventtimer' \in [Owners -> Slots \cup {NoTimer}]
        BY <1>2, <1>3
      <3>2. QED
        BY <1>3, <2>1, <3>1 DEF TimerInv, TypeOK
    <2>3. ASSUME NEW s \in Slots
          PROVE  Placed(s)' /\ Labelled(s)'
      BY <1>3, <1>5, <1>6, <1>7, <2>1 DEF Placed, Labelled
    <2>4. PlayerTimerValid'
      BY <1>2, <1>3, <1>5, <2>1 DEF TimerInv, PlayerTimerValid, Owners
    <2>5. QED
      BY <1>3, <2>2, <2>3, <2>4 DEF TimerInv
  <1>9. CASE CanDelete(t, FuncOf(o))
    <2>1. PICK c : c = [timer_data[t] EXCEPT !.func = "NULL", !.type = TIMER_ONCE_AUTODEL,
                                             !.tick = (timer_data[t].tick - Hour) % Cycle]
      OBVIOUS
    <2>2. timer_data' = [timer_data EXCEPT ![t] = c]
      BY <1>2, <1>3, <1>4, <1>9, <2>1 DEF delete_timer
    <2>3. c \in Cells /\ c.func = "NULL" /\ c.type = TIMER_ONCE_AUTODEL /\ c.id = timer_data[t].id
      <3>1. timer_data[t].tick - Hour \in Int
        BY <1>2, <1>4, TimerAssumption DEF Cells
      <3>2. (timer_data[t].tick - Hour) % Cycle \in 0 .. Cycle - 1
        BY <3>1, InTheCycle
      <3>3. timer_data[t] \in Cells /\ "NULL" \in Funcs /\ TIMER_ONCE_AUTODEL \in {0, 1, 2, 17, 18}
        BY <1>2, <1>4 DEF Funcs, TIMER_ONCE_AUTODEL
      <3>4. QED
        BY <2>1, <3>2, <3>3 DEF Cells
    <2>4. timer_data' \in [Slots -> Cells] /\ timer_data'[t] = c
          /\ \A s \in Slots : s # t => timer_data'[s] = timer_data[s]
      BY <1>2, <1>4, <2>2, <2>3, Rewritten
    <2>5. timer_data[t].func = FuncOf(o) /\ timer_data[t].func \in Event
      BY <1>9, FuncIsEvent DEF CanDelete
    <2>6. t = cur => timer_data[t].id \in Players
      <3>1. t = cur => phase = "call"
        BY <1>3 DEF TimerInv
      <3>2. t = cur => timer_data[t].id \notin Npcs
        BY <1>3, <3>1 DEF ScriptRuns
      <3>3. timer_data[t].id \in Owners
        BY <1>4, <1>7, <2>5 DEF Labelled
      <3>4. QED
        BY <3>2, <3>3 DEF Owners
    <2>7. TypeOK'
      <3>1. eventtimer' \in [Owners -> Slots \cup {NoTimer}]
        BY <1>2, <1>3
      <3>2. QED
        BY <1>3, <2>4, <3>1 DEF TimerInv, TypeOK, Cells
    <2>8. ASSUME NEW s \in Slots
          PROVE  Placed(s)' /\ Labelled(s)'
      <3>1. CASE s # t
        <4>1. timer_data'[s] = timer_data[s]
          BY <2>4, <3>1
        <4>2. QED
          BY <1>3, <1>5, <1>6, <1>7, <4>1 DEF Placed, Labelled
      <3>2. CASE s = t
        <4>1. timer_data'[s].func = "NULL" /\ timer_data'[s].type = TIMER_ONCE_AUTODEL
              /\ timer_data'[s].id = timer_data[s].id
          BY <2>3, <2>4, <3>2
        <4>2. ~Lost(s)
          BY <1>4, <1>7, <2>5, <3>2 DEF Placed, Event
        <4>3. Placed(s)'
          BY <1>3, <1>5, <1>6, <1>7, <4>2 DEF Placed
        <4>4. Labelled(s)'
          BY <1>3, <2>6, <3>2, <4>1 DEF Labelled, Event, TIMER_ONCE_AUTODEL, TIMER_INTERVAL, TIMER_REMOVE_HEAP
        <4>5. QED
          BY <4>3, <4>4
      <3>3. QED
        BY <3>1, <3>2
    <2>9. PlayerTimerValid'
      <3> SUFFICES ASSUME NEW p \in Players, eventtimer'[p] # NoTimer
                   PROVE  Names(p, eventtimer'[p], timer_heap', timer_data')
        BY PlayerTimersNext
      <3>1. p # o /\ eventtimer'[p] = eventtimer[p]
        BY <1>2, <1>3 DEF Owners
      <3>2. PICK s : s = eventtimer[p]
        OBVIOUS
      <3>3. s \in Slots /\ Queued(s) /\ timer_data[s].id = p /\ timer_data[s].func = "pc_eventtimer"
        BY <1>2, <3>1, <3>2 DEF TimerInv, PlayerTimerValid, Owners
      <3>4. s # t
        <4>1. CASE o \in Players
          <5>1. timer_data[t].id = o
            BY <1>1, <1>3, <4>1 DEF TimerInv, PlayerTimerValid
          <5>2. QED
            BY <3>1, <3>3, <5>1
        <4>2. CASE o \notin Players
          BY <2>5, <3>3, <4>2, FuncIsEvent
        <4>3. QED
          BY <4>1, <4>2
      <3>5. timer_data'[s] = timer_data[s]
        BY <2>4, <3>3, <3>4
      <3>6. QED
        BY <1>3, <3>1, <3>2, <3>3, <3>5 DEF Names, Queued
    <2>10. QED
      BY <1>3, <2>7, <2>8, <2>9 DEF TimerInv
  <1>10. QED
    BY <1>8, <1>9

(* Only the tick of one slot changes. *)
LEMMA AddEventTimerCountKeeps ==
  ASSUME TimerInv, NEW o \in Owners, AddEventTimerCount(o)
  PROVE  TimerInv'
  <1>1. PICK t : t = eventtimer[o]
    OBVIOUS
  <1>2. timer_data \in [Slots -> Cells] /\ eventtimer \in [Owners -> Slots \cup {NoTimer}]
    BY TypeParts DEF TimerInv
  <1>3. /\ UNCHANGED <<timer_heap, free_timer_list, timer_data_num, tick, phase, cur, eventtimer>>
        /\ t # NoTimer /\ postponed' = TRUE
        /\ timer_data' = [timer_data EXCEPT ![t].tick = (@ + Stretch) % Cycle]
    BY <1>1 DEF AddEventTimerCount
  <1>4. t \in Slots
    BY <1>1, <1>2, <1>3
  <1>5. PICK c : c = [timer_data[t] EXCEPT !.tick = (timer_data[t].tick + Stretch) % Cycle]
    OBVIOUS
  <1>6. timer_data' = [timer_data EXCEPT ![t] = c]
    BY <1>2, <1>3, <1>4, <1>5
  <1>7. c \in Cells /\ c.func = timer_data[t].func /\ c.id = timer_data[t].id /\ c.type = timer_data[t].type
    <2>1. timer_data[t].tick + Stretch \in Int
      BY <1>2, <1>4, TimerAssumption DEF Cells
    <2>2. (timer_data[t].tick + Stretch) % Cycle \in 0 .. Cycle - 1
      BY <2>1, InTheCycle
    <2>3. timer_data[t] \in Cells
      BY <1>2, <1>4
    <2>4. QED
      BY <1>5, <2>2, <2>3 DEF Cells
  <1>8. timer_data' \in [Slots -> Cells] /\ timer_data'[t] = c
        /\ \A s \in Slots : s # t => timer_data'[s] = timer_data[s]
    BY <1>2, <1>4, <1>6, <1>7, Rewritten
  <1>9. ASSUME NEW s \in Slots
        PROVE  /\ timer_data'[s].func = timer_data[s].func /\ timer_data'[s].id = timer_data[s].id
               /\ timer_data'[s].type = timer_data[s].type
    BY <1>7, <1>8
  <1>10. TypeOK'
    BY <1>3, <1>8 DEF TimerInv, TypeOK, Cells
  <1>11. ASSUME NEW s \in Slots
         PROVE  Placed(s)' /\ Labelled(s)'
    <2>1. Placed(s) /\ Labelled(s)
      BY DEF TimerInv
    <2>2. (Queued(s)' <=> Queued(s)) /\ (Free(s)' <=> Free(s)) /\ (Used(s)' <=> Used(s)) /\ (Lost(s)' <=> Lost(s))
      BY <1>3 DEF Queued, Free, Used, Lost
    <2>3. Placed(s)'
      BY <1>3, <1>9, <2>1, <2>2 DEF Placed
    <2>4. Labelled(s)'
      BY <1>3, <1>9, <2>1, <2>2 DEF Labelled
    <2>5. QED
      BY <2>3, <2>4
  <1>12. PlayerTimerValid'
    <2> SUFFICES ASSUME NEW p \in Players, eventtimer'[p] # NoTimer
                 PROVE  Names(p, eventtimer'[p], timer_heap', timer_data')
      BY PlayerTimersNext
    <2>1. Names(p, eventtimer[p], timer_heap, timer_data) /\ eventtimer[p] \in Slots
      BY <1>2, <1>3, PlayerTimers DEF TimerInv, Owners
    <2>2. QED
      BY <1>3, <1>9, <2>1 DEF Names
  <1>13. QED
    BY <1>3, <1>10, <1>11, <1>12 DEF TimerInv

(* The clock and the phase alone change. *)
LEMMA PassKeeps ==
  ASSUME TimerInv, UNCHANGED <<timer_data, timer_heap, free_timer_list, timer_data_num, cur, eventtimer, postponed>>,
         tick' \in 0 .. Cycle - 1, phase # "call", phase' \in {"idle", "pass"}
  PROVE  TimerInv'
  <1>1. TypeOK'
    BY DEF TimerInv, TypeOK
  <1>2. ASSUME NEW s \in Slots
        PROVE  Placed(s)' /\ Labelled(s)'
    <2>1. Placed(s) /\ Labelled(s)
      BY DEF TimerInv
    <2>2. (Queued(s)' <=> Queued(s)) /\ (Free(s)' <=> Free(s)) /\ (Used(s)' <=> Used(s)) /\ (Lost(s)' <=> Lost(s))
      BY DEF Queued, Free, Used, Lost
    <2>3. QED
      BY <2>1, <2>2 DEF Placed, Labelled
  <1>3. PlayerTimerValid'
    BY DEF TimerInv, PlayerTimerValid, Queued
  <1>4. QED
    BY <1>1, <1>2, <1>3 DEF TimerInv

LEMMA ExpireKeeps ==
  ASSUME TimerInv, Expire
  PROVE  TimerInv'
  <1>1. PICK s : s = timer_heap[1]
    OBVIOUS
  <1>2. /\ timer_data \in [Slots -> Cells] /\ timer_heap \in Seq(Slots) /\ free_timer_list \in Seq(Slots)
        /\ timer_data_num \in 0 .. NumSlots /\ tick \in 0 .. Cycle - 1
        /\ cur \in Slots \cup {NoTimer} /\ postponed \in BOOLEAN
        /\ eventtimer \in [Owners -> Slots \cup {NoTimer}]
        /\ Distinct(timer_heap) /\ Distinct(free_timer_list)
    BY TypeParts DEF TimerInv
  <1>3. phase = "pass" /\ timer_heap # <<>> /\ UNCHANGED <<timer_data_num, tick>>
        /\ timer_heap' = pop_timer_heap(timer_heap, timer_data)
        /\ postponed' = (postponed /\ Len(timer_heap') > 1)
    BY DEF Expire
  <1>4. cur = NoTimer /\ cur \notin Slots
    BY <1>2, <1>3, SlotsAreNat DEF TimerInv
  <1>5. s \in SeqRange(timer_heap) /\ s \in Slots
    <2>1. Len(timer_heap) \in Nat /\ Len(timer_heap) # 0
      BY <1>2, <1>3
    <2>2. 1 \in DOMAIN timer_heap
      BY <1>2, <2>1
    <2>3. QED
      BY <1>1, <1>2, <2>2 DEF SeqRange
  <1>6. timer_heap' \in Seq(Slots) /\ Distinct(timer_heap') /\ SeqRange(timer_heap') = SeqRange(timer_heap) \ {s}
    <2>1. \A x \in Slots : timer_data[x].tick \in Int
      BY <1>2, TimerAssumption DEF Cells
    <2>2. QED
      BY <1>1, <1>2, <1>3, <2>1, PopKeeps
  <1>7. ASSUME NEW x \in Slots
        PROVE  /\ Placed(x) /\ Labelled(x)
               /\ Queued(x)' <=> Queued(x) /\ x # s
               /\ Used(x)' <=> Used(x)
    BY <1>3, <1>6 DEF TimerInv, Queued, Used
  <1>8. Queued(s) /\ ~Free(s) /\ Used(s) /\ timer_data[s].type \in {TIMER_ONCE_AUTODEL, TIMER_INTERVAL}
    BY <1>5, <1>7 DEF Queued, Placed, Labelled
  <1>9. postponed' \in BOOLEAN
    BY <1>2, <1>3
  <1>10. ASSUME NEW p \in Players, eventtimer'[p] # NoTimer, eventtimer'[p] = eventtimer[p],
                \A x \in Slots : x # s => timer_data'[x] = timer_data[x]
         PROVE  eventtimer[p] = s \/ Names(p, eventtimer'[p], timer_heap', timer_data')
    <2>1. Names(p, eventtimer[p], timer_heap, timer_data) /\ eventtimer[p] \in Slots
      BY <1>2, <1>10, PlayerTimers DEF TimerInv, Owners
    <2>2. QED
      BY <1>6, <1>10, <2>1 DEF Names
  (* An emptied slot goes to the recycling stack. *)
  <1>11. CASE timer_data[s].func = "NULL"
    <2>1. /\ timer_data' = [timer_data EXCEPT ![s].type = 0]
          /\ free_timer_list' = Append(free_timer_list, s)
          /\ UNCHANGED <<phase, cur, eventtimer>>
      BY <1>1, <1>11 DEF Expire
    <2>2. PICK c : c = [timer_data[s] EXCEPT !.type = 0]
      OBVIOUS
    <2>3. timer_data' = [timer_data EXCEPT ![s] = c]
      BY <1>2, <1>5, <2>1, <2>2
    <2>4. timer_data[s] \in Cells
      BY <1>2, <1>5
    <2>5. c \in Cells /\ c.type = 0 /\ c.func = timer_data[s].func /\ c.id = timer_data[s].id
      BY <2>2, <2>4 DEF Cells
    <2>6. timer_data' \in [Slots -> Cells] /\ timer_data'[s] = c
          /\ \A x \in Slots : x # s => timer_data'[x] = timer_data[x]
      BY <1>2, <1>5, <2>3, <2>5, Rewritten
    <2>7. free_timer_list' \in Seq(Slots) /\ Distinct(free_timer_list')
          /\ SeqRange(free_timer_list') = SeqRange(free_timer_list) \cup {s}
      BY <1>2, <1>5, <1>8, <2>1, Pushed DEF Free
    <2>8. TypeOK'
      BY <1>2, <1>3, <1>6, <1>9, <2>1, <2>6, <2>7 DEF TimerInv, TypeOK, Cells
    <2>9. ASSUME NEW x \in Slots
          PROVE  Placed(x)' /\ Labelled(x)'
      <3>1. Free(x)' <=> Free(x) \/ x = s
        BY <2>7 DEF Free
      <3>2. cur' = cur /\ x # cur
        BY <1>4, <2>1
      <3>3. Lost(x)' => Lost(x) /\ x # s
        BY <1>7, <3>1, <3>2 DEF Lost
      <3>4. Placed(x)'
        <4>1. CASE x # s
          BY <1>7, <2>6, <3>1, <3>2, <3>3, <4>1 DEF Placed
        <4>2. CASE x = s
          BY <1>7, <1>8, <3>1, <3>2, <3>3, <4>2 DEF Placed
        <4>3. QED
          BY <4>1, <4>2
      <3>5. Labelled(x)'
        <4>1. CASE x # s
          BY <1>7, <2>6, <3>2, <4>1 DEF Labelled
        <4>2. CASE x = s
          BY <1>7, <1>11, <2>5, <2>6, <3>2, <4>2 DEF Labelled, Event
        <4>3. QED
          BY <4>1, <4>2
      <3>6. QED
        BY <3>4, <3>5
    <2>10. PlayerTimerValid'
      <3> SUFFICES ASSUME NEW p \in Players, eventtimer'[p] # NoTimer
                   PROVE  Names(p, eventtimer'[p], timer_heap', timer_data')
        BY PlayerTimersNext
      <3>1. eventtimer[p] # s
        BY <1>11, <2>1, PlayerTimers DEF TimerInv, Names
      <3>2. QED
        BY <1>10, <2>1, <2>6, <3>1
    <2>11. QED
      BY <1>3, <1>4, <1>6, <2>1, <2>7, <2>8, <2>9, <2>10 DEF TimerInv
  (* Any other is marked and its callback runs. *)
  <1>12. CASE timer_data[s].func # "NULL"
    <2>1. /\ timer_data' = [timer_data EXCEPT ![s].type = @ + TIMER_REMOVE_HEAP]
          /\ phase' = "call" /\ cur' = s /\ UNCHANGED free_timer_list
          /\ eventtimer' = [o \in Owners |->
               IF timer_data[s].func = "pc_eventtimer" /\ timer_data[s].id = o /\ eventtimer[o] = s
               THEN NoTimer ELSE eventtimer[o]]
      BY <1>1, <1>12 DEF Expire
    <2>2. PICK c : c = [timer_data[s] EXCEPT !.type = timer_data[s].type + TIMER_REMOVE_HEAP]
      OBVIOUS
    <2>3. timer_data' = [timer_data EXCEPT ![s] = c]
      BY <1>2, <1>5, <2>1, <2>2
    <2>4. timer_data[s] \in Cells
      BY <1>2, <1>5
    <2>5. c \in Cells /\ c.func = timer_data[s].func /\ c.id = timer_data[s].id
          /\ c.type = timer_data[s].type + TIMER_REMOVE_HEAP
      <3>1. timer_data[s].type + TIMER_REMOVE_HEAP \in {17, 18}
        BY <1>8 DEF TIMER_REMOVE_HEAP, TIMER_ONCE_AUTODEL, TIMER_INTERVAL
      <3>2. QED
        BY <2>2, <2>4, <3>1 DEF Cells
    <2>6. timer_data' \in [Slots -> Cells] /\ timer_data'[s] = c
          /\ \A x \in Slots : x # s => timer_data'[x] = timer_data[x]
      BY <1>2, <1>5, <2>3, <2>5, Rewritten
    <2>7. eventtimer' \in [Owners -> Slots \cup {NoTimer}]
      BY <1>2, <2>1
    <2>8. TypeOK'
      BY <1>2, <1>3, <1>5, <1>6, <1>9, <2>1, <2>6, <2>7 DEF TimerInv, TypeOK, Cells
    <2>9. ASSUME NEW x \in Slots
          PROVE  Placed(x)' /\ Labelled(x)'
      <3>1. Free(x)' <=> Free(x)
        BY <2>1 DEF Free
      <3>2. x # cur /\ (x = cur' <=> x = s)
        BY <1>4, <2>1
      <3>3. Lost(x)' => Lost(x) /\ x # s
        BY <1>7, <3>1, <3>2 DEF Lost
      <3>4. Placed(x)'
        <4>1. CASE x # s
          BY <1>7, <2>6, <3>1, <3>2, <3>3, <4>1 DEF Placed
        <4>2. CASE x = s
          BY <1>7, <1>8, <3>1, <3>2, <3>3, <4>2 DEF Placed
        <4>3. QED
          BY <4>1, <4>2
      <3>5. Labelled(x)'
        <4>1. CASE x # s
          BY <1>7, <2>6, <3>2, <4>1 DEF Labelled
        <4>2. CASE x = s
          <5>1. timer_data[x].type = TIMER_INTERVAL => timer_data[x].func = "interval"
            BY <1>7, <1>8, <4>2 DEF Labelled
          <5>2. timer_data[x].func \in Event => timer_data[x].id \in Owners
            BY <1>7 DEF Labelled
          <5>3. timer_data'[x].func = timer_data[x].func /\ timer_data'[x].id = timer_data[x].id
                /\ timer_data'[x].type = timer_data[x].type + TIMER_REMOVE_HEAP
            BY <2>5, <2>6, <4>2
          <5>4. ~Queued(x)'
            BY <1>7, <4>2
          <5>5. timer_data[x].type \in {TIMER_ONCE_AUTODEL, TIMER_INTERVAL}
            BY <1>8, <4>2
          <5>6. QED
            BY <5>1, <5>2, <5>3, <5>4, <5>5
               DEF Labelled, TIMER_REMOVE_HEAP, TIMER_ONCE_AUTODEL, TIMER_INTERVAL
        <4>3. QED
          BY <4>1, <4>2
      <3>6. QED
        BY <3>4, <3>5
    <2>10. PlayerTimerValid'
      <3> SUFFICES ASSUME NEW p \in Players, eventtimer'[p] # NoTimer
                   PROVE  Names(p, eventtimer'[p], timer_heap', timer_data')
        BY PlayerTimersNext
      <3>1. p \in Owners
        BY DEF Owners
      <3>2. eventtimer'[p] = eventtimer[p]
        BY <2>1, <3>1
      <3>3. eventtimer[p] # s
        <4>1. Names(p, eventtimer[p], timer_heap, timer_data)
          BY <3>2, PlayerTimers DEF TimerInv
        <4>2. QED
          BY <2>1, <3>1, <4>1 DEF Names
      <3>4. QED
        BY <1>10, <2>6, <3>2, <3>3
    <2>11. phase' = "call" <=> cur' # NoTimer
      BY <1>5, <2>1, SlotsAreNat
    <2>12. QED
      BY <1>2, <1>6, <2>1, <2>8, <2>9, <2>10, <2>11 DEF TimerInv
  <1>13. QED
    BY <1>11, <1>12

LEMMA CallbackReturnsKeeps ==
  ASSUME TimerInv, CallbackReturns
  PROVE  TimerInv'
  <1>1. PICK s : s = cur
    OBVIOUS
  <1>2. /\ timer_data \in [Slots -> Cells] /\ timer_heap \in Seq(Slots) /\ free_timer_list \in Seq(Slots)
        /\ timer_data_num \in 0 .. NumSlots /\ tick \in 0 .. Cycle - 1
        /\ cur \in Slots \cup {NoTimer} /\ postponed \in BOOLEAN
        /\ eventtimer \in [Owners -> Slots \cup {NoTimer}]
        /\ Distinct(timer_heap) /\ Distinct(free_timer_list)
    BY TypeParts DEF TimerInv
  <1>3. phase = "call" /\ phase' = "pass" /\ cur' = NoTimer /\ UNCHANGED <<timer_data_num, tick, eventtimer, postponed>>
    BY DEF CallbackReturns
  <1>4. s \in Slots /\ cur' \notin Slots
    BY <1>1, <1>2, <1>3, SlotsAreNat DEF TimerInv
  <1>5. ASSUME NEW x \in Slots
        PROVE  Placed(x) /\ Labelled(x) /\ (Used(x)' <=> Used(x))
    BY <1>3 DEF TimerInv, Used
  <1>6. Used(s) /\ ~Queued(s) /\ ~Free(s)
    BY <1>1, <1>4, <1>5 DEF Placed
  <1>7. timer_data[s] \in Cells
    BY <1>2, <1>4
  <1>8. ASSUME NEW p \in Players, eventtimer'[p] # NoTimer,
               \A x \in Slots : x # s => timer_data'[x] = timer_data[x],
               SeqRange(timer_heap) \subseteq SeqRange(timer_heap')
        PROVE  Names(p, eventtimer'[p], timer_heap', timer_data')
    <2>1. Names(p, eventtimer[p], timer_heap, timer_data) /\ eventtimer[p] \in Slots
      BY <1>2, <1>3, <1>8, PlayerTimers DEF TimerInv, Owners
    <2>2. eventtimer[p] # s
      BY <1>6, <2>1 DEF Names, Queued
    <2>3. QED
      BY <1>3, <1>8, <2>1, <2>2 DEF Names
  (* A one-shot timer: its slot is recycled. *)
  <1>9. CASE timer_data[s].type = TIMER_REMOVE_HEAP + TIMER_ONCE_AUTODEL
    <2>1. /\ timer_data' = [timer_data EXCEPT ![s].type = 0]
          /\ free_timer_list' = Append(free_timer_list, s) /\ UNCHANGED timer_heap
      BY <1>1, <1>9 DEF CallbackReturns, TIMER_REMOVE_HEAP, TIMER_ONCE_AUTODEL, TIMER_INTERVAL
    <2>2. PICK c : c = [timer_data[s] EXCEPT !.type = 0]
      OBVIOUS
    <2>3. timer_data' = [timer_data EXCEPT ![s] = c]
      BY <1>2, <1>4, <2>1, <2>2
    <2>4. c \in Cells /\ c.type = 0 /\ c.func = timer_data[s].func /\ c.id = timer_data[s].id
      BY <1>7, <2>2 DEF Cells
    <2>5. timer_data' \in [Slots -> Cells] /\ timer_data'[s] = c
          /\ \A x \in Slots : x # s => timer_data'[x] = timer_data[x]
      BY <1>2, <1>4, <2>3, <2>4, Rewritten
    <2>6. free_timer_list' \in Seq(Slots) /\ Distinct(free_timer_list')
          /\ SeqRange(free_timer_list') = SeqRange(free_timer_list) \cup {s}
      BY <1>2, <1>4, <1>6, <2>1, Pushed DEF Free
    <2>7. TypeOK'
      BY <1>2, <1>3, <2>1, <2>5, <2>6 DEF TypeOK, Cells
    <2>8. ASSUME NEW x \in Slots
          PROVE  Placed(x)' /\ Labelled(x)'
      <3>1. (Free(x)' <=> Free(x) \/ x = s) /\ (Queued(x)' <=> Queued(x))
        BY <2>1, <2>6 DEF Free, Queued
      <3>2. x # cur' /\ (x = cur <=> x = s)
        BY <1>1, <1>4
      <3>3. Lost(x)' => Lost(x) /\ x # s
        BY <1>5, <3>1, <3>2 DEF Lost
      <3>4. Placed(x)'
        <4>1. CASE x # s
          BY <1>5, <2>5, <3>1, <3>2, <3>3, <4>1 DEF Placed
        <4>2. CASE x = s
          BY <1>5, <1>6, <3>1, <3>2, <3>3, <4>2 DEF Placed
        <4>3. QED
          BY <4>1, <4>2
      <3>5. Labelled(x)'
        <4>1. CASE x # s
          BY <1>5, <2>5, <3>1, <3>2, <4>1 DEF Labelled
        <4>2. CASE x = s
          BY <1>5, <1>6, <2>4, <2>5, <3>1, <3>2, <4>2 DEF Labelled
        <4>3. QED
          BY <4>1, <4>2
      <3>6. QED
        BY <3>4, <3>5
    <2>9. PlayerTimerValid'
      BY <1>8, <2>1, <2>5, PlayerTimersNext
    <2>10. QED
      BY <1>2, <1>3, <2>1, <2>6, <2>7, <2>8, <2>9 DEF TimerInv
  (* The interval timer goes into the heap again. *)
  <1>10. CASE timer_data[s].type = TIMER_REMOVE_HEAP + TIMER_INTERVAL
    <2>1. PICK base : base = IF DIFF_TICK(timer_data[s].tick, tick) < -Late THEN tick ELSE timer_data[s].tick
      OBVIOUS
    <2>2. PICK c : c = [timer_data[s] EXCEPT !.tick = (base + Interval) % Cycle, !.type = TIMER_INTERVAL]
      OBVIOUS
    <2>3. timer_data' = [timer_data EXCEPT ![s].tick = (base + Interval) % Cycle, ![s].type = TIMER_INTERVAL]
          /\ timer_heap' = push_timer_heap(timer_heap, timer_data', s) /\ UNCHANGED free_timer_list
      BY <1>1, <1>10, <2>1 DEF CallbackReturns, TIMER_REMOVE_HEAP, TIMER_ONCE_AUTODEL, TIMER_INTERVAL
    <2>4. timer_data' = [timer_data EXCEPT ![s] = c]
      BY <1>2, <1>4, <2>2, <2>3
    <2>5. c \in Cells /\ c.type = TIMER_INTERVAL /\ c.func = timer_data[s].func /\ c.id = timer_data[s].id
      <3>1. base \in Int
        BY <1>2, <1>7, <2>1, TimerAssumption DEF Cells
      <3>2. base + Interval \in Int
        BY <3>1, TimerAssumption
      <3>3. (base + Interval) % Cycle \in 0 .. Cycle - 1
        BY <3>2, InTheCycle
      <3>4. QED
        BY <1>7, <2>2, <3>3 DEF Cells, TIMER_INTERVAL
    <2>6. timer_data' \in [Slots -> Cells] /\ timer_data'[s] = c
          /\ \A x \in Slots : x # s => timer_data'[x] = timer_data[x]
      BY <1>2, <1>4, <2>4, <2>5, Rewritten
    <2>7. timer_heap' \in Seq(Slots) /\ Distinct(timer_heap')
          /\ SeqRange(timer_heap') = SeqRange(timer_heap) \cup {s}
      BY <1>2, <1>4, <1>6, <2>3, PushKeeps DEF Queued
    <2>8. TypeOK'
      BY <1>2, <1>3, <2>3, <2>6, <2>7 DEF TypeOK, Cells
    <2>9. ASSUME NEW x \in Slots
          PROVE  Placed(x)' /\ Labelled(x)'
      <3>1. (Free(x)' <=> Free(x)) /\ (Queued(x)' <=> Queued(x) \/ x = s)
        BY <2>3, <2>7 DEF Free, Queued
      <3>2. x # cur' /\ (x = cur <=> x = s)
        BY <1>1, <1>4
      <3>3. Lost(x)' => Lost(x) /\ x # s
        BY <1>5, <3>1, <3>2 DEF Lost
      <3>4. Placed(x)'
        <4>1. CASE x # s
          BY <1>5, <2>6, <3>1, <3>2, <3>3, <4>1 DEF Placed
        <4>2. CASE x = s
          BY <1>5, <1>6, <3>1, <3>2, <3>3, <4>2 DEF Placed
        <4>3. QED
          BY <4>1, <4>2
      <3>5. Labelled(x)'
        <4>1. CASE x # s
          BY <1>5, <2>6, <3>1, <3>2, <4>1 DEF Labelled
        <4>2. CASE x = s
          <5>1. timer_data[x].func = "interval"
            BY <1>5, <1>10, <3>2, <4>2 DEF Labelled
          <5>2. timer_data'[x].func = "interval" /\ timer_data'[x].type = TIMER_INTERVAL
            BY <2>5, <2>6, <4>2, <5>1
          <5>3. QED
            BY <3>2, <5>2 DEF Labelled, Event
        <4>3. QED
          BY <4>1, <4>2
      <3>6. QED
        BY <3>4, <3>5
    <2>10. PlayerTimerValid'
      BY <1>8, <2>6, <2>7, PlayerTimersNext
    <2>11. QED
      BY <1>2, <1>3, <2>3, <2>7, <2>8, <2>9, <2>10 DEF TimerInv
  (* A timer its own callback deleted: the slot stays out of everything. *)
  <1>11. CASE timer_data[s].type = TIMER_ONCE_AUTODEL /\ timer_data[s].func = "NULL" /\ timer_data[s].id \in Players
    <2>1. UNCHANGED <<timer_data, timer_heap, free_timer_list>>
      BY <1>1, <1>11 DEF CallbackReturns, TIMER_REMOVE_HEAP, TIMER_ONCE_AUTODEL, TIMER_INTERVAL
    <2>2. TypeOK'
      BY <1>2, <1>3, <2>1 DEF TypeOK, Cells
    <2>3. ASSUME NEW x \in Slots
          PROVE  Placed(x)' /\ Labelled(x)'
      <3>1. (Free(x)' <=> Free(x)) /\ (Queued(x)' <=> Queued(x))
        BY <2>1 DEF Free, Queued
      <3>2. x # cur' /\ (x = cur <=> x = s)
        BY <1>1, <1>4
      <3>3. Lost(x)' => Lost(x) \/ x = s
        BY <1>5, <3>1, <3>2 DEF Lost
      <3>4. Placed(x)'
        BY <1>5, <1>6, <1>11, <2>1, <3>1, <3>2, <3>3 DEF Placed
      <3>5. Labelled(x)'
        BY <1>5, <2>1, <3>1, <3>2 DEF Labelled
      <3>6. QED
        BY <3>4, <3>5
    <2>4. PlayerTimerValid'
      BY <1>8, <2>1, PlayerTimersNext
    <2>5. QED
      BY <1>2, <1>3, <2>1, <2>2, <2>3, <2>4 DEF TimerInv
  <1>12. QED
    <2>1. Labelled(s)
      BY <1>4, <1>5
    <2>2. QED
      BY <1>1, <1>9, <1>10, <1>11, <2>1 DEF Labelled

LEMMA NextTimer ==
  ASSUME TimerInv, [Next]_vars
  PROVE  TimerInv'
  <1>1. ASSUME NEW o \in Owners, NEW d \in Delays, AddEventTimer(o, d)
        PROVE  TimerInv'
    BY <1>1, AddEventTimerKeeps
  <1>2. ASSUME NEW o \in Owners, DelEventTimer(o)
        PROVE  TimerInv'
    BY <1>2, DelEventTimerKeeps
  <1>3. ASSUME NEW o \in Players, AddEventTimerCount(o)
        PROVE  TimerInv'
    BY <1>3, AddEventTimerCountKeeps DEF Owners
  <1>4. ASSUME NEW p \in Players, npc_event_dequeue(p)
        PROVE  TimerInv'
    BY <1>4, DequeueKeeps
  <1>5. ASSUME NEW dt \in Steps, StartPass(dt)
        PROVE  TimerInv'
    <2>1. tick + dt \in Int
      BY TypeParts, TimerAssumption DEF TimerInv
    <2>2. tick' \in 0 .. Cycle - 1
      BY <1>5, <2>1, InTheCycle DEF StartPass
    <2>3. QED
      BY <1>5, <2>2, PassKeeps DEF StartPass
  <1>6. CASE Expire
    BY <1>6, ExpireKeeps
  <1>7. CASE CallbackReturns
    BY <1>7, CallbackReturnsKeeps
  <1>8. CASE EndPass
    <2>1. tick' \in 0 .. Cycle - 1
      BY <1>8, TypeParts DEF TimerInv, EndPass
    <2>2. QED
      BY <1>8, <2>1, PassKeeps DEF EndPass
  <1>9. CASE UNCHANGED vars
    BY <1>9 DEF vars, TimerInv, TypeOK, Placed, Labelled, PlayerTimerValid, Queued, Free, Used, Lost
  <1>10. QED
    BY <1>1, <1>2, <1>3, <1>4, <1>5, <1>6, <1>7, <1>8, <1>9 DEF Next, LoopStep

LEMMA TimerInvariant == Spec => []TimerInv
  <1>1. Init => TimerInv
    BY InitTimer
  <1>2. TimerInv /\ [Next]_vars => TimerInv'
    BY NextTimer
  <1>3. QED
    BY <1>1, <1>2, PTL DEF Spec

(* add_timer, delete_timer and do_timer keep every slot of the wheel in one
   place, whatever the number of slots, owners and delays, and whatever ticks
   the sifts of the heap compare: queued once, recycled once, running, or lost
   to a callback that deleted its own timer. *)
THEOREM SlotsPartitioned == Spec => []SlotPartition
  <1>1. TimerInv => SlotPartition
    BY InvPartition
  <1>2. QED
    BY <1>1, TimerInvariant, PTL

(* The timer id that pc_addeventtimer stored for a player is that player's own
   timer, still in the heap, until it fires or the player deletes it: no stale
   id of an NPC, no recycled slot and no other player's delete ever comes in
   between. *)
THEOREM PlayerTimersValid == Spec => []PlayerTimerValid
  <1>1. TimerInv => PlayerTimerValid
    BY InvPartition
  <1>2. QED
    BY <1>1, TimerInvariant, PTL
=============================================================================
