-------------------------- MODULE InventoryProofs --------------------------
(***************************************************************************)
(* What the operations on carried goods do, for any number of slots and    *)
(* any amounts: they keep the types, the weight kept beside an inventory   *)
(* never understates what is in it nor exceeds the limit, and an item is   *)
(* added or taken in the amount they say.                                  *)
(***************************************************************************)
EXTENDS Inventory, FiniteSets, Functions, FiniteSetTheorems, WellFoundedInduction, TLAPS

-----------------------------------------------------------------------------
(* Induction, as facts about sets, and sums *)

(* A set of naturals that is not empty has a least element. *)
LEMMA LeastExists ==
  ASSUME NEW T, T \subseteq Nat, T # {}
  PROVE  \E x \in T : \A y \in T : x <= y
  <1> DEFINE R == {p \in Nat \X Nat : p[1] < p[2]}
  <1>0. IsWellFoundedOn(R, Nat)
    BY NatLessThanWellFounded DEF OpToRel
  <1>1. PICK x \in T : \A y \in T : <<y, x>> \notin R
    BY <1>0, WFMin
  <1>2. ASSUME NEW y \in T
        PROVE  x <= y
    <2>1. x \in Nat /\ y \in Nat /\ ~(y < x)
      BY <1>1
    <2>2. QED
      BY <2>1
  <1>3. QED
    BY <1>2

(* A set of numbers up to N that is not empty has a greatest element. *)
LEMMA GreatestExists ==
  ASSUME NEW N \in Nat, NEW T \in SUBSET (0 .. N), T # {}
  PROVE  \E x \in T : \A y \in T : y <= x
  <1> DEFINE R == {N - x : x \in T}
  <1>1. R \subseteq Nat /\ R # {}
    <2>1. \A x \in T : N - x \in Nat
      OBVIOUS
    <2>2. QED
      BY <2>1
  <1>2. PICK r \in R : \A s \in R : r <= s
    BY <1>1, LeastExists
  <1>3. PICK x \in T : r = N - x
    BY <1>2
  <1>4. ASSUME NEW y \in T
        PROVE  y <= x
    <2>1. N - x <= N - y
      BY <1>2, <1>3
    <2>2. QED
      BY <2>1
  <1>5. QED
    BY <1>4

(* A set of naturals with 0 and the successors of its elements has them all. *)
LEMMA NatSets ==
  ASSUME NEW T \in SUBSET Nat, 0 \in T, \A n \in T : n + 1 \in T
  PROVE  T = Nat
  <1>1. SUFFICES ASSUME Nat \ T # {} PROVE FALSE
    OBVIOUS
  <1>2. PICK x \in Nat \ T : \A y \in Nat \ T : x <= y
    BY <1>1, LeastExists, Nat \ T \subseteq Nat
  <1>3. x - 1 \in Nat /\ ~(x <= x - 1) /\ (x - 1) + 1 = x
    BY <1>2
  <1>4. QED
    BY <1>2, <1>3

(* Sums of a function over finite sets, as the community modules take
   them: an element at a time, AnyOf(s) first.  IsLoop says that g has the sum
   of f over every subset of S. *)
AnyOf(s) == CHOOSE x \in s : TRUE
Looped(f, F, g) == [s \in F |-> IF s = {} THEN 0 ELSE f[AnyOf(s)] + g[s \ {AnyOf(s)}]]
IsLoop(f, S, g) == g = Looped(f, SUBSET S, g)
SubsetsUpTo(S, n) == {s \in SUBSET S : Cardinality(s) <= n}

LEMMA TakenOut ==
  ASSUME NEW s, IsFiniteSet(s), s # {}
  PROVE  /\ AnyOf(s) \in s /\ IsFiniteSet(s \ {AnyOf(s)})
         /\ Cardinality(s) \in Nat \ {0}
         /\ Cardinality(s \ {AnyOf(s)}) = Cardinality(s) - 1
  <1>1. AnyOf(s) \in s
    BY DEF AnyOf
  <1>2. Cardinality(s) \in Nat /\ Cardinality(s) # 0
    BY FS_CardinalityType, FS_EmptySet
  <1>3. QED
    BY <1>1, <1>2, FS_RemoveElement

LEMMA LoopExists ==
  ASSUME NEW f, NEW S, IsFiniteSet(S)
  PROVE  \E g : IsLoop(f, S, g)
  <1> DEFINE T == {n \in Nat : \E g : g = Looped(f, SubsetsUpTo(S, n), g)}
  <1>0. \A s \in SUBSET S : IsFiniteSet(s) /\ Cardinality(s) \in Nat /\ (Cardinality(s) = 0 <=> s = {})
    BY FS_Subset, FS_CardinalityType, FS_EmptySet
  <1>1. 0 \in T
    <2> DEFINE g == [s \in SubsetsUpTo(S, 0) |-> 0]
    <2>1. \A s \in SubsetsUpTo(S, 0) : s = {}
      BY <1>0 DEF SubsetsUpTo
    <2>2. g = Looped(f, SubsetsUpTo(S, 0), g)
      BY <2>1 DEF Looped
    <2>3. QED
      BY <2>2
  <1>2. ASSUME NEW n \in T PROVE n + 1 \in T
    <2>1. PICK g : g = Looped(f, SubsetsUpTo(S, n), g)
      OBVIOUS
    <2> DEFINE h == Looped(f, SubsetsUpTo(S, n + 1), g)
    <2>2. n \in Nat /\ SubsetsUpTo(S, n) \subseteq SubsetsUpTo(S, n + 1)
      BY <1>0 DEF SubsetsUpTo
    <2>3. ASSUME NEW s \in SubsetsUpTo(S, n) PROVE h[s] = g[s]
      <3>1. g[s] = IF s = {} THEN 0 ELSE f[AnyOf(s)] + g[s \ {AnyOf(s)}]
        BY <2>1 DEF Looped
      <3>2. QED
        BY <2>2, <3>1 DEF Looped
    <2>4. ASSUME NEW s \in SubsetsUpTo(S, n + 1), s # {} PROVE s \ {AnyOf(s)} \in SubsetsUpTo(S, n)
      BY <1>0, <2>2, <2>4, TakenOut DEF SubsetsUpTo
    <2>5. h = Looped(f, SubsetsUpTo(S, n + 1), h)
      BY <2>3, <2>4 DEF Looped
    <2>6. QED
      BY <2>2, <2>5
  <1> HIDE DEF T
  <1>3. T = Nat
    <2>1. T \in SUBSET Nat
      BY DEF T
    <2>2. QED
      BY <1>1, <1>2, <2>1, NatSets
  <1>4. SubsetsUpTo(S, Cardinality(S)) = SUBSET S /\ Cardinality(S) \in Nat
    BY <1>0, FS_Subset DEF SubsetsUpTo
  <1>5. QED
    BY <1>3, <1>4 DEF T, IsLoop

LEMMA LoopsAgree ==
  ASSUME NEW f, NEW S, IsFiniteSet(S), NEW g, IsLoop(f, S, g),
         NEW R \in SUBSET S, NEW h, IsLoop(f, R, h)
  PROVE  \A s \in SUBSET R : g[s] = h[s]
  <1> DEFINE T == {n \in Nat : \A s \in SubsetsUpTo(R, n) : g[s] = h[s]}
  <1>0. \A s \in SUBSET R : /\ s \in SUBSET S /\ IsFiniteSet(s) /\ Cardinality(s) \in Nat
                            /\ (Cardinality(s) = 0 <=> s = {})
    BY FS_Subset, FS_CardinalityType, FS_EmptySet
  <1>1. ASSUME NEW s \in SUBSET R
        PROVE  /\ g[s] = IF s = {} THEN 0 ELSE f[AnyOf(s)] + g[s \ {AnyOf(s)}]
               /\ h[s] = IF s = {} THEN 0 ELSE f[AnyOf(s)] + h[s \ {AnyOf(s)}]
    <2>1. s \in SUBSET S
      BY <1>0
    <2>2. g[s] = Looped(f, SUBSET S, g)[s] /\ h[s] = Looped(f, SUBSET R, h)[s]
      BY DEF IsLoop
    <2>3. QED
      BY <2>1, <2>2 DEF Looped
  <1>2. 0 \in T
    <2>1. ASSUME NEW s \in SubsetsUpTo(R, 0)
          PROVE  g[s] = h[s]
      <3>1. s \in SUBSET R /\ s = {}
        BY <1>0 DEF SubsetsUpTo
      <3>2. QED
        BY <1>1, <3>1
    <2>2. QED
      BY <2>1
  <1>3. ASSUME NEW n \in T PROVE n + 1 \in T
    <2>1. n \in Nat
      OBVIOUS
    <2>2. ASSUME NEW s \in SubsetsUpTo(R, n + 1)
          PROVE  g[s] = h[s]
      <3>1. s \in SUBSET R /\ Cardinality(s) <= n + 1
        BY DEF SubsetsUpTo
      <3>2. CASE s = {}
        BY <1>1, <3>1, <3>2
      <3>3. CASE s # {}
        <4>1. s \ {AnyOf(s)} \in SubsetsUpTo(R, n)
          BY <1>0, <2>1, <3>1, <3>3, TakenOut DEF SubsetsUpTo
        <4>2. g[s \ {AnyOf(s)}] = h[s \ {AnyOf(s)}]
          BY <4>1
        <4>3. QED
          BY <1>1, <3>1, <3>3, <4>2
      <3>4. QED
        BY <3>2, <3>3
    <2>4. QED
      BY <2>1, <2>2
  <1> HIDE DEF T
  <1>4. T = Nat
    <2>1. T \in SUBSET Nat
      BY DEF T
    <2>2. QED
      BY <1>2, <1>3, <2>1, NatSets
  <1>5. \A s \in SUBSET R : s \in SubsetsUpTo(R, Cardinality(s))
    BY <1>0 DEF SubsetsUpTo
  <1>6. QED
    BY <1>0, <1>4, <1>5 DEF T

LEMMA SumIsLoop ==
  ASSUME NEW f, NEW S
  PROVE  SumFunctionOnSet(f, S) = (CHOOSE g : IsLoop(f, S, g))[S]
  BY DEF SumFunctionOnSet, FoldFunctionOnSet, MapThenFoldSet, IsLoop, Looped, AnyOf

LEMMA SumIsOfLoop ==
  ASSUME NEW f, NEW S, IsFiniteSet(S)
  PROVE  \E g : IsLoop(f, S, g) /\ SumFunctionOnSet(f, S) = g[S]
  <1>1. PICK g : g = (CHOOSE x : IsLoop(f, S, x))
    OBVIOUS
  <1>2. IsLoop(f, S, g)
    BY <1>1, LoopExists
  <1>3. QED
    BY <1>1, <1>2, SumIsLoop

LEMMA SumTaken ==
  ASSUME NEW f, NEW S, IsFiniteSet(S)
  PROVE  /\ S = {} => SumFunctionOnSet(f, S) = 0
         /\ S # {} => SumFunctionOnSet(f, S) = f[AnyOf(S)] + SumFunctionOnSet(f, S \ {AnyOf(S)})
  <1>1. PICK R : R = S \ {AnyOf(S)}
    OBVIOUS
  <1>2. IsFiniteSet(R) /\ R \in SUBSET S
    BY <1>1, FS_Subset
  <1>3. PICK g : IsLoop(f, S, g) /\ SumFunctionOnSet(f, S) = g[S]
    BY SumIsOfLoop
  <1>4. PICK h : IsLoop(f, R, h) /\ SumFunctionOnSet(f, R) = h[R]
    BY <1>2, SumIsOfLoop
  <1>5. \A s \in SUBSET R : g[s] = h[s]
    BY <1>2, <1>3, <1>4, LoopsAgree
  <1>6. g[S] = Looped(f, SUBSET S, g)[S]
    BY <1>3 DEF IsLoop
  <1>7. g[S] = IF S = {} THEN 0 ELSE f[AnyOf(S)] + g[R]
    BY <1>1, <1>6 DEF Looped
  <1>8. QED
    BY <1>1, <1>3, <1>4, <1>5, <1>7

(* A sum of naturals is one, and no smaller than each of them. *)
LEMMA SumNat ==
  ASSUME NEW f, NEW S, IsFiniteSet(S), \A x \in S : f[x] \in Nat
  PROVE  /\ SumFunctionOnSet(f, S) \in Nat
         /\ \A x \in S : f[x] <= SumFunctionOnSet(f, S)
  <1> DEFINE Sum(s) == SumFunctionOnSet(f, s)
             Fine(s) == Sum(s) \in Nat /\ \A x \in s : f[x] <= Sum(s)
             T == {n \in Nat : \A s \in SubsetsUpTo(S, n) : Fine(s)}
  <1>0. \A s \in SUBSET S : /\ IsFiniteSet(s) /\ Cardinality(s) \in Nat
                            /\ (Cardinality(s) = 0 <=> s = {})
    BY FS_Subset, FS_CardinalityType, FS_EmptySet
  <1>1. 0 \in T
    <2>1. ASSUME NEW s \in SubsetsUpTo(S, 0)
          PROVE  Fine(s)
      <3>1. IsFiniteSet(s) /\ s = {}
        BY <1>0 DEF SubsetsUpTo
      <3>2. Sum(s) = 0
        BY <3>1, SumTaken
      <3> HIDE DEF Sum
      <3>3. QED
        BY <3>1, <3>2
    <2>2. QED
      BY <2>1
  <1>2. ASSUME NEW n \in T PROVE n + 1 \in T
    <2>1. n \in Nat
      OBVIOUS
    <2>2. ASSUME NEW s \in SubsetsUpTo(S, n + 1), s # {}
          PROVE  Fine(s)
      <3>1. s \in SUBSET S /\ IsFiniteSet(s) /\ Cardinality(s) <= n + 1
        BY <1>0 DEF SubsetsUpTo
      <3>2. /\ AnyOf(s) \in s /\ IsFiniteSet(s \ {AnyOf(s)})
            /\ Cardinality(s) \in Nat \ {0}
            /\ Cardinality(s \ {AnyOf(s)}) = Cardinality(s) - 1
        BY <2>2, <3>1, TakenOut
      <3>3. s \ {AnyOf(s)} \in SubsetsUpTo(S, n)
        BY <2>1, <3>1, <3>2 DEF SubsetsUpTo
      <3>4. Fine(s \ {AnyOf(s)})
        BY <3>3
      <3>5. Sum(s) = f[AnyOf(s)] + Sum(s \ {AnyOf(s)})
        BY <2>2, <3>1, SumTaken
      <3>6. f[AnyOf(s)] \in Nat /\ \A x \in s : f[x] \in Nat
        BY <3>1, <3>2
      <3> HIDE DEF Sum
      <3>7. Sum(s) \in Nat /\ f[AnyOf(s)] <= Sum(s) /\ Sum(s \ {AnyOf(s)}) <= Sum(s)
        BY <3>2, <3>4, <3>5, <3>6
      <3>8. ASSUME NEW x \in s, x # AnyOf(s)
            PROVE  f[x] <= Sum(s)
        <4>1. f[x] <= Sum(s \ {AnyOf(s)})
          BY <3>4, <3>8
        <4>2. QED
          BY <3>4, <3>6, <3>7, <4>1
      <3>9. QED
        BY <3>7, <3>8
    <2>3. ASSUME NEW s \in SubsetsUpTo(S, n + 1), s = {}
          PROVE  Fine(s)
      BY <2>3, <1>0, SumTaken DEF SubsetsUpTo
    <2>4. QED
      BY <2>1, <2>2, <2>3
  <1> HIDE DEF T
  <1>3. T = Nat
    <2>1. T \in SUBSET Nat
      BY DEF T
    <2>2. QED
      BY <1>1, <1>2, <2>1, NatSets
  <1>4. S \in SubsetsUpTo(S, Cardinality(S))
    BY <1>0 DEF SubsetsUpTo
  <1>5. QED
    BY <1>0, <1>3, <1>4 DEF T

(* A sum of noughts. *)
LEMMA SumZero ==
  ASSUME NEW f, NEW S, IsFiniteSet(S), \A x \in S : f[x] = 0
  PROVE  SumFunctionOnSet(f, S) = 0
  <1> DEFINE T == {n \in Nat : \A s \in SubsetsUpTo(S, n) : SumFunctionOnSet(f, s) = 0}
  <1>0. \A s \in SUBSET S : /\ IsFiniteSet(s) /\ Cardinality(s) \in Nat
                            /\ (Cardinality(s) = 0 <=> s = {})
    BY FS_Subset, FS_CardinalityType, FS_EmptySet
  <1>1. 0 \in T
    <2>1. ASSUME NEW s \in SubsetsUpTo(S, 0)
          PROVE  SumFunctionOnSet(f, s) = 0
      BY <1>0, SumTaken DEF SubsetsUpTo
    <2>2. QED
      BY <2>1
  <1>2. ASSUME NEW n \in T PROVE n + 1 \in T
    <2>1. n \in Nat
      OBVIOUS
    <2>2. ASSUME NEW s \in SubsetsUpTo(S, n + 1), s # {}
          PROVE  SumFunctionOnSet(f, s) = 0
      <3>1. s \in SUBSET S /\ IsFiniteSet(s) /\ Cardinality(s) <= n + 1
        BY <1>0 DEF SubsetsUpTo
      <3>2. /\ AnyOf(s) \in s /\ IsFiniteSet(s \ {AnyOf(s)})
            /\ Cardinality(s) \in Nat \ {0}
            /\ Cardinality(s \ {AnyOf(s)}) = Cardinality(s) - 1
        BY <2>2, <3>1, TakenOut
      <3>3. s \ {AnyOf(s)} \in SubsetsUpTo(S, n)
        BY <2>1, <3>1, <3>2 DEF SubsetsUpTo
      <3>4. SumFunctionOnSet(f, s \ {AnyOf(s)}) = 0
        BY <3>3
      <3>5. SumFunctionOnSet(f, s) = f[AnyOf(s)] + SumFunctionOnSet(f, s \ {AnyOf(s)})
        BY <2>2, <3>1, SumTaken
      <3>6. QED
        BY <3>1, <3>2, <3>4, <3>5
    <2>3. ASSUME NEW s \in SubsetsUpTo(S, n + 1), s = {}
          PROVE  SumFunctionOnSet(f, s) = 0
      BY <2>3, <1>0, SumTaken DEF SubsetsUpTo
    <2>4. QED
      BY <2>1, <2>2, <2>3
  <1> HIDE DEF T
  <1>3. T = Nat
    <2>1. T \in SUBSET Nat
      BY DEF T
    <2>2. QED
      BY <1>1, <1>2, <2>1, NatSets
  <1>4. S \in SubsetsUpTo(S, Cardinality(S))
    BY <1>0 DEF SubsetsUpTo
  <1>5. QED
    BY <1>0, <1>3, <1>4 DEF T

(* Two functions to the naturals that are the same on S, but at y. *)
AgreeBut(f, h, S, y) ==
  \A x \in S : f[x] \in Nat /\ h[x] \in Nat /\ (x # y => h[x] = f[x])

(* A sum changes by as much as the one of its terms that changes. *)
LEMMA SumChanged ==
  ASSUME NEW S, IsFiniteSet(S), NEW f, NEW h, NEW y,
         AgreeBut(f, h, S, y)
  PROVE  SumFunctionOnSet(h, S) =
           SumFunctionOnSet(f, S) + (IF y \in S THEN h[y] - f[y] ELSE 0)
  <1> DEFINE F(s) == SumFunctionOnSet(f, s)
             H(s) == SumFunctionOnSet(h, s)
             Fine(s) == F(s) \in Nat /\ H(s) \in Nat
                        /\ H(s) = F(s) + (IF y \in s THEN h[y] - f[y] ELSE 0)
             T == {n \in Nat : \A s \in SubsetsUpTo(S, n) : Fine(s)}
  <1>0. \A s \in SUBSET S : /\ IsFiniteSet(s) /\ Cardinality(s) \in Nat
                            /\ (Cardinality(s) = 0 <=> s = {})
                            /\ F(s) \in Nat /\ H(s) \in Nat
    BY FS_Subset, FS_CardinalityType, FS_EmptySet, SumNat DEF AgreeBut
  <1>1. 0 \in T
    <2>1. ASSUME NEW s \in SubsetsUpTo(S, 0)
          PROVE  Fine(s)
      <3>1. IsFiniteSet(s) /\ s = {}
        BY <1>0 DEF SubsetsUpTo
      <3>2. F(s) = 0 /\ H(s) = 0
        BY <3>1, SumTaken
      <3> HIDE DEF F, H
      <3>3. QED
        BY <3>1, <3>2
    <2>2. QED
      BY <2>1
  <1>2. ASSUME NEW n \in T PROVE n + 1 \in T
    <2>1. n \in Nat
      OBVIOUS
    <2>2. ASSUME NEW s \in SubsetsUpTo(S, n + 1), s # {}
          PROVE  Fine(s)
      <3>1. s \in SUBSET S /\ IsFiniteSet(s) /\ Cardinality(s) <= n + 1
        BY <1>0 DEF SubsetsUpTo
      <3>2. /\ AnyOf(s) \in s /\ IsFiniteSet(s \ {AnyOf(s)})
            /\ Cardinality(s) \in Nat \ {0}
            /\ Cardinality(s \ {AnyOf(s)}) = Cardinality(s) - 1
        BY <2>2, <3>1, TakenOut
      <3>3. s \ {AnyOf(s)} \in SubsetsUpTo(S, n)
        BY <2>1, <3>1, <3>2 DEF SubsetsUpTo
      <3>4. Fine(s \ {AnyOf(s)})
        BY <3>3
      <3>5. F(s) = f[AnyOf(s)] + F(s \ {AnyOf(s)}) /\ H(s) = h[AnyOf(s)] + H(s \ {AnyOf(s)})
        BY <2>2, <3>1, SumTaken
      <3>6. \A x \in s : f[x] \in Nat /\ h[x] \in Nat /\ (x # y => h[x] = f[x])
        BY <3>1 DEF AgreeBut
      <3>7. y \in s <=> y = AnyOf(s) \/ y \in s \ {AnyOf(s)}
        BY <3>2
      <3> HIDE DEF F, H
      <3>8. QED
        BY <3>2, <3>4, <3>5, <3>6, <3>7
    <2>3. ASSUME NEW s \in SubsetsUpTo(S, n + 1), s = {}
          PROVE  Fine(s)
      BY <2>3, <1>0, SumTaken DEF SubsetsUpTo
    <2>4. QED
      BY <2>1, <2>2, <2>3
  <1> HIDE DEF T
  <1>3. T = Nat
    <2>1. T \in SUBSET Nat
      BY DEF T
    <2>2. QED
      BY <1>1, <1>2, <2>1, NatSets
  <1>4. S \in SubsetsUpTo(S, Cardinality(S))
    BY <1>0 DEF SubsetsUpTo
  <1>5. QED
    BY <1>0, <1>3, <1>4 DEF T

-----------------------------------------------------------------------------
(* Carried goods *)

WeighsRight(g) == ActualWeight(g) <= g.weight /\ g.weight <= MaxWeight
SoundGoods == {g \in Goods : WeighsRight(g)}

LEMMA SlotsFinite == IsFiniteSet(InvSlots) /\ InvSlots \subseteq Nat /\ 0 \notin InvSlots
  BY FS_Interval, InventoryAssumption DEF InvSlots

LEMMA GoodsAre ==
  ASSUME NEW g \in Goods
  PROVE  /\ g = [inv |-> g.inv, weight |-> g.weight]
         /\ g.inv \in [InvSlots -> Cells] /\ g.weight \in Nat
  BY DEF Goods, Cells

(* Weights are naturals, and distribute over amounts. *)
LEMMA WeightsAre ==
  ASSUME NEW id \in Items \cup {None}
  PROVE  /\ itemdb_weight(id) \in Nat
         /\ \A x, y \in Nat : /\ itemdb_weight(id) * x \in Nat
                              /\ itemdb_weight(id) * (x + y)
                                   = itemdb_weight(id) * x + itemdb_weight(id) * y
  <1>1. itemdb_weight(id) \in Nat
    BY InventoryAssumption DEF itemdb_weight
  <1>2. ASSUME NEW w \in Nat, NEW x \in Nat, NEW y \in Nat
        PROVE  w * x \in Nat /\ w * (x + y) = w * x + w * y
    OBVIOUS
  <1>3. QED
    BY <1>1, <1>2

LEMMA LowestIs ==
  ASSUME NEW S \in SUBSET InvSlots, S # {}
  PROVE  Lowest(S) \in S
  BY LeastExists, SlotsFinite DEF Lowest

(* A search finds a slot of the item, or 0. *)
LEMMA SearchIs ==
  ASSUME NEW inv, NEW id, pc_search_inventory(inv, id) # 0
  PROVE  pc_search_inventory(inv, id) \in InvSlots /\ inv[pc_search_inventory(inv, id)].nameid = id
  BY LowestIs DEF pc_search_inventory

(* What one slot adds to the weight, and to the amount of an item. *)
Weighs(cell)     == IF cell.nameid = None THEN 0 ELSE itemdb_weight(cell.nameid) * cell.amount
Counts(cell, id) == IF cell.nameid = id THEN cell.amount ELSE 0

LEMMA CellsAre ==
  ASSUME NEW cell \in Cells
  PROVE  /\ cell.nameid \in Items \cup {None} /\ cell.amount \in Nat
         /\ cell = [nameid |-> cell.nameid, amount |-> cell.amount]
         /\ Weighs(cell) \in Nat
         /\ \A id : Counts(cell, id) \in Nat
  <1>1. /\ cell.nameid \in Items \cup {None} /\ cell.amount \in Nat
        /\ cell = [nameid |-> cell.nameid, amount |-> cell.amount]
    BY InventoryAssumption DEF Cells
  <1>2. QED
    BY <1>1, WeightsAre DEF Weighs, Counts

LEMMA SlotsWeigh ==
  ASSUME NEW D, IsFiniteSet(D), NEW slots \in [D -> Cells]
  PROVE  /\ WeightIn(slots) \in Nat
         /\ \A n \in D : Weighs(slots[n]) \in Nat /\ Weighs(slots[n]) <= WeightIn(slots)
         /\ \A id : AmountIn(slots, id) \in Nat
                    /\ \A n \in D : Counts(slots[n], id) <= AmountIn(slots, id)
  <1>1. \A n \in D : Heaviness(slots)[n] = Weighs(slots[n]) /\ Heaviness(slots)[n] \in Nat
    BY CellsAre DEF Heaviness, Weighs
  <1>2. PICK f : f = Heaviness(slots)
    OBVIOUS
  <1>3. \A n \in D : f[n] \in Nat
    BY <1>1, <1>2
  <1>4. /\ SumFunctionOnSet(f, D) \in Nat
        /\ \A n \in D : f[n] <= SumFunctionOnSet(f, D)
    BY <1>3, SumNat
  <1>5. WeightIn(slots) = SumFunctionOnSet(f, D)
    BY <1>2 DEF WeightIn
  <1>6. ASSUME NEW id
        PROVE  AmountIn(slots, id) \in Nat
               /\ \A n \in D : Counts(slots[n], id) <= AmountIn(slots, id)
    <2>1. PICK g : g = [n \in D |-> Counts(slots[n], id)]
      OBVIOUS
    <2>2. \A n \in D : g[n] \in Nat /\ g[n] = Counts(slots[n], id)
      BY <2>1, CellsAre
    <2>3. /\ SumFunctionOnSet(g, D) \in Nat
          /\ \A n \in D : g[n] <= SumFunctionOnSet(g, D)
      BY <2>2, SumNat
    <2>4. AmountIn(slots, id) = SumFunctionOnSet(g, D)
      BY <2>1 DEF AmountIn, Counts
    <2>5. QED
      BY <2>2, <2>3, <2>4
  <1>7. QED
    BY <1>1, <1>2, <1>4, <1>5, <1>6

(* Slots that differ in one weigh and hold as much more as that one does. *)
SameBut(D, slots, s, new) ==
  /\ slots \in [D -> Cells] /\ new \in [D -> Cells] /\ s \in D
  /\ \A n \in D : n # s => new[n] = slots[n]

LEMMA OneSlot ==
  ASSUME NEW D, IsFiniteSet(D), NEW slots, NEW s, NEW new, SameBut(D, slots, s, new)
  PROVE  /\ WeightIn(new) \in Nat /\ WeightIn(slots) \in Nat
         /\ WeightIn(new) = WeightIn(slots) + Weighs(new[s]) - Weighs(slots[s])
         /\ \A id : /\ AmountIn(new, id) \in Nat /\ AmountIn(slots, id) \in Nat
                    /\ AmountIn(new, id)
                         = AmountIn(slots, id) + Counts(new[s], id) - Counts(slots[s], id)
  <1> DEFINE cell == new[s]
  <1>1. /\ slots \in [D -> Cells] /\ new \in [D -> Cells] /\ s \in D
        /\ \A n \in D : n # s => new[n] = slots[n]
    BY DEF SameBut
  <1>2. WeightIn(slots) \in Nat /\ WeightIn(new) \in Nat
        /\ \A id : AmountIn(slots, id) \in Nat /\ AmountIn(new, id) \in Nat
    BY <1>1, SlotsWeigh
  <1>3. \A n \in D : /\ Weighs(slots[n]) \in Nat /\ Weighs(new[n]) \in Nat
                     /\ \A id : Counts(slots[n], id) \in Nat /\ Counts(new[n], id) \in Nat
    BY <1>1, CellsAre
  <1>4. WeightIn(new) = WeightIn(slots) + Weighs(cell) - Weighs(slots[s])
    <2>1. PICK f : f = [n \in D |-> Weighs(slots[n])]
      OBVIOUS
    <2>2. PICK h : h = [n \in D |-> Weighs(new[n])]
      OBVIOUS
    <2>3. AgreeBut(f, h, D, s)
      BY <1>1, <1>3, <2>1, <2>2 DEF AgreeBut
    <2>4. SumFunctionOnSet(h, D) = SumFunctionOnSet(f, D) + (IF s \in D THEN h[s] - f[s] ELSE 0)
      BY <2>3, SumChanged
    <2>5. WeightIn(slots) = SumFunctionOnSet(f, D)
      BY <1>1, <2>1 DEF WeightIn, Heaviness, Weighs
    <2>6. WeightIn(new) = SumFunctionOnSet(h, D)
      BY <1>1, <2>2 DEF WeightIn, Heaviness, Weighs
    <2>7. f[s] = Weighs(slots[s]) /\ h[s] = Weighs(cell) /\ f[s] \in Nat /\ h[s] \in Nat
      BY <1>1, <1>3, <2>1, <2>2
    <2>8. QED
      BY <1>1, <1>2, <2>4, <2>5, <2>6, <2>7
  <1>5. ASSUME NEW id
        PROVE  AmountIn(new, id) = AmountIn(slots, id) + Counts(cell, id) - Counts(slots[s], id)
    <2>1. PICK f : f = [n \in D |-> Counts(slots[n], id)]
      OBVIOUS
    <2>2. PICK h : h = [n \in D |-> Counts(new[n], id)]
      OBVIOUS
    <2>3. AgreeBut(f, h, D, s)
      BY <1>1, <1>3, <2>1, <2>2 DEF AgreeBut
    <2>4. SumFunctionOnSet(h, D) = SumFunctionOnSet(f, D) + (IF s \in D THEN h[s] - f[s] ELSE 0)
      BY <2>3, SumChanged
    <2>5. AmountIn(slots, id) = SumFunctionOnSet(f, D)
      BY <1>1, <2>1 DEF AmountIn, Counts
    <2>6. AmountIn(new, id) = SumFunctionOnSet(h, D)
      BY <1>1, <2>2 DEF AmountIn, Counts
    <2>7. f[s] = Counts(slots[s], id) /\ h[s] = Counts(cell, id) /\ f[s] \in Nat /\ h[s] \in Nat
      BY <1>1, <1>3, <2>1, <2>2
    <2>8. QED
      BY <1>1, <1>2, <2>4, <2>5, <2>6, <2>7
  <1>6. QED
    BY <1>1, <1>2, <1>4, <1>5

(* pc_additem: one slot, which was empty or had some of the item, has as much
   more as is added. *)
LEMMA AddIs ==
  ASSUME NEW g \in Goods, NEW id \in Items \cup {None}, NEW amount \in 0 .. MAX_AMOUNT,
         AddRefused(g, id, amount) = 0
  PROVE  \E s \in InvSlots, cell \in Cells :
           /\ pc_additem(g, id, amount)
                = [inv |-> [g.inv EXCEPT ![s] = cell],
                   weight |-> g.weight + itemdb_weight(id) * amount]
           /\ cell.nameid = id
           /\ \/ g.inv[s].nameid = id /\ cell.amount = g.inv[s].amount + amount
              \/ g.inv[s].nameid = None /\ cell.amount = amount
  <1> DEFINE s == StackSlot(g, id)
             e == pc_search_inventory(g.inv, None)
  <1>0. g.inv \in [InvSlots -> Cells]
    BY GoodsAre
  <1>1. /\ amount \in Nat /\ amount > 0
        /\ s # 0 => ~(g.inv[s].amount + amount > MAX_AMOUNT)
        /\ s = 0 => e # 0
    BY InventoryAssumption DEF AddRefused
  <1>3. CASE s # 0
    <2> DEFINE cell == [nameid |-> id, amount |-> g.inv[s].amount + amount]
    <2>1. s \in InvSlots /\ g.inv[s].nameid = id /\ g.inv[s] \in Cells
      BY <1>0, <1>3, SearchIs DEF StackSlot
    <2>2. g.inv[s].amount \in Nat /\ cell \in Cells
      BY <1>1, <1>3, <2>1, InventoryAssumption DEF Cells
    <2>3. [g.inv[s] EXCEPT !.amount = @ + amount] = cell
      BY <2>1 DEF Cells
    <2>4. pc_additem(g, id, amount)
            = [inv |-> [g.inv EXCEPT ![s] = cell], weight |-> g.weight + itemdb_weight(id) * amount]
      BY <1>0, <1>3, <2>1, <2>3 DEF pc_additem
    <2>5. QED
      BY <2>1, <2>2, <2>4
  <1>4. CASE s = 0
    <2> DEFINE cell == [nameid |-> id, amount |-> amount]
    <2>1. e \in InvSlots /\ g.inv[e].nameid = None /\ cell \in Cells
      BY <1>0, <1>1, <1>4, SearchIs, InventoryAssumption DEF Cells
    <2>2. pc_additem(g, id, amount)
            = [inv |-> [g.inv EXCEPT ![e] = cell], weight |-> g.weight + itemdb_weight(id) * amount]
      BY <1>4 DEF pc_additem
    <2>3. QED
      BY <2>1, <2>2
  <1>5. QED
    BY <1>3, <1>4

(* pc_additem: the slot gets no heavier than the weight that is added; no slot
   gets more than fits, if the amount does; and there is so much more of the
   item. *)
LEMMA AddKeeps ==
  ASSUME NEW g \in SoundGoods, NEW id \in Items \cup {None}, NEW amount \in 0 .. MAX_AMOUNT
  PROVE  /\ pc_additem(g, id, amount) \in SoundGoods
         /\ \A j \in Items : Total(g, j) \in Nat
         /\ AddRefused(g, id, amount) = 0 =>
              \A j \in Items : Total(pc_additem(g, id, amount), j)
                                 = Total(g, j) + (IF j = id THEN amount ELSE 0)
  <1>0. /\ g \in Goods /\ g.inv \in [InvSlots -> Cells] /\ g.weight \in Nat
        /\ WeightIn(g.inv) <= g.weight /\ g.weight <= MaxWeight
    BY GoodsAre DEF SoundGoods, WeighsRight, ActualWeight
  <1>1. \A j \in Items : Total(g, j) \in Nat
    BY <1>0, SlotsFinite, SlotsWeigh DEF Total
  <1>2. CASE AddRefused(g, id, amount) # 0
    BY <1>1, <1>2 DEF pc_additem
  <1>3. CASE AddRefused(g, id, amount) = 0
    <2> DEFINE h == pc_additem(g, id, amount)
    <2>1. PICK s \in InvSlots, cell \in Cells :
            /\ h = [inv |-> [g.inv EXCEPT ![s] = cell],
                    weight |-> g.weight + itemdb_weight(id) * amount]
            /\ cell.nameid = id
            /\ \/ g.inv[s].nameid = id /\ cell.amount = g.inv[s].amount + amount
               \/ g.inv[s].nameid = None /\ cell.amount = amount
      BY <1>0, <1>3, AddIs
    <2> HIDE DEF h
    <2>2. PICK k : k = itemdb_weight(id) * amount
      OBVIOUS
    <2>3. amount \in Nat /\ k \in Nat
      <3>1. amount \in Nat
        BY InventoryAssumption
      <3>2. QED
        BY <2>2, <3>1, WeightsAre
    <2>4. h.weight = g.weight + k /\ ~(k + g.weight > MaxWeight)
      BY <1>3, <2>1, <2>2, <2>3 DEF AddRefused
    <2>5. /\ h.inv \in [InvSlots -> Cells] /\ WeightIn(h.inv) \in Nat /\ WeightIn(g.inv) \in Nat
          /\ WeightIn(h.inv) = WeightIn(g.inv) + Weighs(cell) - Weighs(g.inv[s])
          /\ \A j : /\ AmountIn(h.inv, j) \in Nat /\ AmountIn(g.inv, j) \in Nat
                    /\ AmountIn(h.inv, j)
                         = AmountIn(g.inv, j) + Counts(cell, j) - Counts(g.inv[s], j)
      <3>1. /\ SameBut(InvSlots, g.inv, s, h.inv) /\ h.inv[s] = cell
            /\ h.inv \in [InvSlots -> Cells]
        BY <1>0, <2>1 DEF SameBut
      <3>2. QED
        BY <3>1, SlotsFinite, OneSlot
    <2>6. g.inv[s] \in Cells /\ g.inv[s].amount \in Nat
      BY <1>0, CellsAre
    <2>7. /\ Weighs(cell) \in Nat /\ Weighs(g.inv[s]) \in Nat
          /\ Weighs(cell) <= Weighs(g.inv[s]) + k
      <3>1. CASE g.inv[s].nameid = id /\ cell.amount = g.inv[s].amount + amount
        <4>1. /\ itemdb_weight(id) * (g.inv[s].amount + amount)
                   = itemdb_weight(id) * g.inv[s].amount + k
              /\ itemdb_weight(id) * g.inv[s].amount \in Nat
          BY <2>2, <2>3, <2>6, WeightsAre
        <4>2. \/ id = None /\ Weighs(cell) = 0 /\ Weighs(g.inv[s]) = 0
              \/ /\ Weighs(g.inv[s]) = itemdb_weight(id) * g.inv[s].amount
                 /\ Weighs(cell) = itemdb_weight(id) * (g.inv[s].amount + amount)
          BY <2>1, <3>1 DEF Weighs
        <4>3. QED
          BY <2>3, <4>1, <4>2
      <3>2. CASE g.inv[s].nameid = None /\ cell.amount = amount
        <4>1. Weighs(g.inv[s]) = 0 /\ (Weighs(cell) = 0 \/ Weighs(cell) = k)
          BY <2>1, <2>2, <3>2 DEF Weighs
        <4>2. QED
          BY <2>3, <4>1
      <3>3. QED
        BY <2>1, <3>1, <3>2
    <2>8. ASSUME NEW j \in Items
          PROVE  Total(h, j) = Total(g, j) + (IF j = id THEN amount ELSE 0)
      <3>1. j # None
        BY InventoryAssumption
      <3>2. Counts(cell, j) = Counts(g.inv[s], j) + (IF j = id THEN amount ELSE 0)
        BY <2>1, <2>3, <2>6, <3>1 DEF Counts
      <3>3. Counts(g.inv[s], j) \in Nat
        BY <2>6, CellsAre
      <3>4. QED
        BY <2>3, <2>5, <3>2, <3>3 DEF Total
    <2>9. h \in SoundGoods
      <3>1. h.weight \in Nat /\ h = [inv |-> h.inv, weight |-> h.weight]
        BY <1>0, <2>1, <2>3, <2>4
      <3>2. h \in Goods
        BY <2>5, <3>1 DEF Goods
      <3>3. WeightIn(h.inv) <= h.weight /\ h.weight <= MaxWeight
        BY <1>0, <2>3, <2>4, <2>5, <2>7, InventoryAssumption
      <3>4. QED
        BY <3>2, <3>3 DEF SoundGoods, WeighsRight, ActualWeight
    <2>10. QED
      BY <1>1, <2>8, <2>9 DEF h
  <1>4. QED
    BY <1>2, <1>3

(* pc_delitem: the slot gets lighter by as much as the weight does, so the
   weight does not fall below what is left; there is so much less of the item. *)
LEMMA DelKeeps ==
  ASSUME NEW g \in SoundGoods, NEW n \in InvSlots, NEW amount \in Nat
  PROVE  /\ pc_delitem(g, n, amount) \in SoundGoods
         /\ \A j \in Items : Total(g, j) \in Nat
         /\ ~DelRefused(g, n, amount) =>
              \A j \in Items : Total(pc_delitem(g, n, amount), j)
                                 = Total(g, j) - (IF j = g.inv[n].nameid THEN amount ELSE 0)
  <1> DEFINE id == g.inv[n].nameid
             had == g.inv[n].amount
             h == pc_delitem(g, n, amount)
  <1>0. /\ g \in Goods /\ g.inv \in [InvSlots -> Cells] /\ g.weight \in Nat
        /\ WeightIn(g.inv) <= g.weight /\ g.weight <= MaxWeight
        /\ WeightIn(g.inv) \in Nat /\ Weighs(g.inv[n]) <= WeightIn(g.inv)
    BY GoodsAre, SlotsFinite, SlotsWeigh DEF SoundGoods, WeighsRight, ActualWeight
  <1>1. \A j \in Items : Total(g, j) \in Nat
    BY <1>0, SlotsFinite, SlotsWeigh DEF Total
  <1>2. CASE DelRefused(g, n, amount)
    BY <1>1, <1>2 DEF pc_delitem
  <1>3. CASE ~DelRefused(g, n, amount)
    <2> DEFINE cell == IF had = amount THEN Empty ELSE [nameid |-> id, amount |-> had - amount]
    <2>1. /\ id # None /\ id \in Items \cup {None} /\ g.inv[n] = [nameid |-> id, amount |-> had]
          /\ had \in 0 .. MAX_AMOUNT /\ amount <= had
      BY <1>0, <1>3 DEF DelRefused, Cells
    <2>2. h = [inv |-> [g.inv EXCEPT ![n] = cell], weight |-> g.weight - itemdb_weight(id) * amount]
      <3>1. [g.inv EXCEPT ![n] = IF @.amount = amount THEN Empty
                                 ELSE [nameid |-> @.nameid, amount |-> @.amount - amount]]
              = [g.inv EXCEPT ![n] = cell]
        BY <1>0, <2>1
      <3>2. QED
        BY <1>3, <3>1 DEF pc_delitem
    <2>3. PICK rest : rest = had - amount
      OBVIOUS
    <2>4. rest \in Nat /\ had \in Nat /\ had = amount + rest /\ cell \in Cells
      BY <2>1, <2>3, InventoryAssumption DEF Cells, Empty
    <2>5. \/ cell.nameid = None /\ rest = 0 /\ cell.amount = 0
          \/ cell.nameid = id /\ cell.amount = rest
      BY <2>1, <2>3 DEF Empty
    <2>6. PICK k : k = itemdb_weight(id) * amount
      OBVIOUS
    <2>7. PICK left : left = itemdb_weight(id) * rest
      OBVIOUS
    <2>8. /\ k \in Nat /\ left \in Nat
          /\ itemdb_weight(id) * (amount + rest) = k + left
          /\ rest = 0 => left = 0
      <3>1. itemdb_weight(id) \in Nat
        BY <2>1, WeightsAre
      <3>2. rest = 0 => left = 0
        BY <2>7, <3>1
      <3>3. QED
        BY <2>1, <2>4, <2>6, <2>7, <3>2, WeightsAre
    <2> HIDE DEF h, cell
    <2>9. /\ h.inv \in [InvSlots -> Cells] /\ WeightIn(h.inv) \in Nat
          /\ WeightIn(h.inv) = WeightIn(g.inv) + Weighs(cell) - Weighs(g.inv[n])
          /\ \A j : /\ AmountIn(h.inv, j) \in Nat /\ AmountIn(g.inv, j) \in Nat
                    /\ AmountIn(h.inv, j)
                         = AmountIn(g.inv, j) + Counts(cell, j) - Counts(g.inv[n], j)
      <3>1. /\ SameBut(InvSlots, g.inv, n, h.inv) /\ h.inv[n] = cell
            /\ h.inv \in [InvSlots -> Cells]
        BY <1>0, <2>2, <2>4 DEF SameBut
      <3>2. QED
        BY <3>1, SlotsFinite, OneSlot
    <2>10. Weighs(g.inv[n]) = k + left /\ Weighs(cell) = left
      BY <2>1, <2>4, <2>5, <2>7, <2>8 DEF Weighs
    <2>11. h.weight = g.weight - k /\ h = [inv |-> h.inv, weight |-> h.weight]
      BY <2>2, <2>6
    <2>12. h \in SoundGoods
      <3>1. /\ h.weight \in Nat /\ WeightIn(h.inv) <= h.weight /\ h.weight <= MaxWeight
        BY <1>0, <2>8, <2>9, <2>10, <2>11, InventoryAssumption
      <3>2. QED
        BY <2>9, <2>11, <3>1 DEF Goods, SoundGoods, WeighsRight, ActualWeight
    <2>13. ASSUME NEW j \in Items
           PROVE  Total(h, j) = Total(g, j) - (IF j = id THEN amount ELSE 0)
      <3>1. j # None
        BY InventoryAssumption
      <3>2. /\ Counts(g.inv[n], j) = IF j = id THEN amount + rest ELSE 0
            /\ Counts(cell, j) = IF j = id THEN rest ELSE 0
        BY <2>1, <2>4, <2>5, <3>1 DEF Counts
      <3>3. QED
        BY <2>4, <2>9, <3>2 DEF Total
    <2>14. QED
      BY <1>1, <2>12, <2>13 DEF h
  <1>4. QED
    BY <1>2, <1>3

(* pc_delitem: one slot, with so much less of its item, or empty. *)
LEMMA DelIs ==
  ASSUME NEW g \in Goods, NEW n \in InvSlots, NEW amount \in Nat, ~DelRefused(g, n, amount)
  PROVE  \E cell \in Cells, k \in Nat :
           /\ pc_delitem(g, n, amount) = [inv |-> [g.inv EXCEPT ![n] = cell], weight |-> g.weight - k]
           /\ g.inv[n].amount = amount => cell = Empty
           /\ g.inv[n].amount # amount =>
                cell.nameid = g.inv[n].nameid /\ cell.amount = g.inv[n].amount - amount
  <1> DEFINE id == g.inv[n].nameid
             had == g.inv[n].amount
             cell == IF had = amount THEN Empty ELSE [nameid |-> id, amount |-> had - amount]
  <1>1. /\ id # None /\ id \in Items \cup {None} /\ g.inv[n] = [nameid |-> id, amount |-> had]
        /\ had \in 0 .. MAX_AMOUNT /\ amount <= had /\ g.inv \in [InvSlots -> Cells]
    BY GoodsAre DEF DelRefused, Cells
  <1>2. cell \in Cells
    BY <1>1, InventoryAssumption DEF Cells, Empty
  <1>3. PICK k : k = itemdb_weight(id) * amount
    OBVIOUS
  <1>4. k \in Nat
    BY <1>1, <1>3, WeightsAre
  <1>5. [g.inv EXCEPT ![n] = IF @.amount = amount THEN Empty
                             ELSE [nameid |-> @.nameid, amount |-> @.amount - amount]]
          = [g.inv EXCEPT ![n] = cell]
    BY <1>1
  <1>6. pc_delitem(g, n, amount) = [inv |-> [g.inv EXCEPT ![n] = cell], weight |-> g.weight - k]
    BY <1>3, <1>5 DEF pc_delitem
  <1>7. QED
    BY <1>2, <1>4, <1>6

(* Of slots that differ in one, at most one is no longer empty; none, if it
   was not empty. *)
LEMMA BlanksKept ==
  ASSUME NEW inv, NEW new, NEW s \in InvSlots,
         \A n \in InvSlots : n # s => new[n] = inv[n]
  PROVE  /\ pc_inventoryblank(inv) \in Nat /\ pc_inventoryblank(new) \in Nat
         /\ pc_inventoryblank(inv) <= pc_inventoryblank(new) + 1
         /\ inv[s].nameid # None => pc_inventoryblank(inv) <= pc_inventoryblank(new)
  <1> DEFINE B == {n \in InvSlots : inv[n].nameid = None}
             N == {n \in InvSlots : new[n].nameid = None}
  <1>1. IsFiniteSet(B) /\ IsFiniteSet(N) /\ IsFiniteSet(N \cup {s})
    BY SlotsFinite, FS_Subset, FS_AddElement
  <1>2. B \subseteq N \cup {s} /\ (inv[s].nameid # None => B \subseteq N)
    OBVIOUS
  <1>3. /\ Cardinality(B) \in Nat /\ Cardinality(N) \in Nat /\ Cardinality(N \cup {s}) \in Nat
        /\ Cardinality(N \cup {s}) <= Cardinality(N) + 1
    <2>1. Cardinality(N \cup {s}) = Cardinality(N) \/ Cardinality(N \cup {s}) = Cardinality(N) + 1
      BY <1>1, FS_AddElement
    <2>2. QED
      BY <1>1, <2>1, FS_CardinalityType
  <1>4. /\ Cardinality(B) <= Cardinality(N \cup {s})
        /\ inv[s].nameid # None => Cardinality(B) <= Cardinality(N)
    BY <1>1, <1>2, FS_Subset
  <1> HIDE DEF B, N
  <1>5. Cardinality(B) <= Cardinality(N) + 1
    BY <1>3, <1>4
  <1>6. QED
    BY <1>3, <1>4, <1>5 DEF pc_inventoryblank, B, N
=============================================================================
