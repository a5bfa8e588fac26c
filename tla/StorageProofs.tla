--------------------------- MODULE StorageProofs ---------------------------
(***************************************************************************)
(* The Kafra storage, for any number of accounts and map servers, queues   *)
(* of any length and boxes of any size: every copy keeps its count and its *)
(* kinds apart, and no item is lost or doubled between storage, inventory  *)
(* and cart.                                                               *)
(***************************************************************************)
EXTENDS Storage, InventoryProofs, TLAPS

(***************************************************************************)
(* Boxes.                                                                  *)
(***************************************************************************)
SoundBoxes(size) == {b \in Boxes(size) : InOrder(b)}

LEMMA BoxesAre ==
  ASSUME NEW size \in Nat, NEW b \in SoundBoxes(size)
  PROVE  /\ b = [slots |-> b.slots, num |-> b.num]
         /\ b.slots \in [1 .. size -> Cells] /\ b.num \in Nat
         /\ IsFiniteSet(1 .. size)
         /\ Used(b) = {n \in 1 .. size : b.slots[n].nameid # None}
         /\ b.num = Cardinality(Used(b)) /\ IsFiniteSet(Used(b))
         /\ \A n \in Used(b) : b.slots[n].amount \in 1 .. MAX_AMOUNT
         /\ \A n, k \in Used(b) :
              n # k /\ b.slots[n].nameid \notin Equips => b.slots[n].nameid # b.slots[k].nameid
         /\ \A id : BoxTotal(b, id) \in Nat
         /\ BoxWeight(b) \in Nat
  <1>1. /\ b = [slots |-> b.slots, num |-> b.num]
        /\ b.slots \in [1 .. size -> Cells] /\ b.num \in Nat /\ InOrder(b)
    BY DEF SoundBoxes, Boxes
  <1>2. IsFiniteSet(1 .. size)
    BY FS_Interval
  <1>3. Used(b) = {n \in 1 .. size : b.slots[n].nameid # None}
    BY <1>1 DEF Used
  <1>4. IsFiniteSet(Used(b))
    BY <1>2, <1>3, FS_Subset
  <1>5. (\A id : BoxTotal(b, id) \in Nat) /\ BoxWeight(b) \in Nat
    BY <1>1, <1>2, SlotsWeigh DEF BoxTotal, BoxWeight
  <1>6. QED
    BY <1>1, <1>2, <1>3, <1>4, <1>5 DEF InOrder

LEMMA StackIs ==
  ASSUME NEW size \in Nat, NEW b \in SoundBoxes(size), NEW id \in Items
  PROVE  /\ BoxStack(b, id) # 0 =>
              BoxStack(b, id) \in 1 .. size /\ b.slots[BoxStack(b, id)].nameid = id
         /\ BoxStack(b, id) = 0 /\ id \notin Equips =>
              \A n \in 1 .. size : b.slots[n].nameid # id
  <1> DEFINE found == {n \in 1 .. size : b.slots[n].nameid = id}
  <1>1. BoxStack(b, id) = IF id \in Equips \/ found = {} THEN 0 ELSE Lowest(found)
    BY BoxesAre DEF BoxStack
  <1>2. found # {} => Lowest(found) \in found
    <2>1. found \subseteq Nat
      OBVIOUS
    <2>2. QED
      BY <2>1, LeastExists DEF Lowest
  <1>3. QED
    BY <1>1, <1>2

LEMMA FreeIs ==
  ASSUME NEW size \in Nat, NEW b \in SoundBoxes(size), BoxFree(b) # 0
  PROVE  BoxFree(b) \in 1 .. size /\ b.slots[BoxFree(b)].nameid = None
  <1> DEFINE free == {n \in 1 .. size : /\ b.slots[n].nameid = None
                                        /\ n = 1 \/ b.slots[n - 1].nameid # None}
  <1>1. BoxFree(b) = IF free = {} THEN 0 ELSE CHOOSE n \in free : \A k \in free : k <= n
    <2>1. DOMAIN b.slots = 1 .. size
      BY BoxesAre
    <2>2. free = {n \in DOMAIN b.slots : /\ b.slots[n].nameid = None
                                         /\ n = 1 \/ b.slots[n - 1].nameid # None}
      BY <2>1
    <2> HIDE DEF free
    <2>3. QED
      BY <2>2 DEF BoxFree
  <1>2. free \in SUBSET (0 .. size)
    OBVIOUS
  <1> HIDE DEF free
  <1>3. free # {} => BoxFree(b) \in free
    BY <1>1, <1>2, GreatestExists
  <1>4. QED
    BY <1>1, <1>3 DEF free

(* A box one slot of which changed is in order if the slot and the count are. *)
LEMMA BoxChanged ==
  ASSUME NEW size \in Nat, NEW b \in SoundBoxes(size), NEW s \in 1 .. size, NEW cell \in Cells,
         NEW c, c = [slots |-> [b.slots EXCEPT ![s] = cell], num |-> c.num],
         c.num = b.num + (IF cell.nameid = None THEN 0 ELSE 1)
                       - (IF b.slots[s].nameid = None THEN 0 ELSE 1),
         cell.nameid # None => cell.amount \in 1 .. MAX_AMOUNT,
         cell.nameid \notin Equips \cup {None} =>
           \A n \in 1 .. size : n # s => b.slots[n].nameid # cell.nameid
  PROVE  /\ c \in SoundBoxes(size)
         /\ BoxWeight(c) = BoxWeight(b) + Weighs(cell) - Weighs(b.slots[s])
         /\ \A j : BoxTotal(c, j) = BoxTotal(b, j) + Counts(cell, j) - Counts(b.slots[s], j)
  <1>1. /\ c.slots \in [1 .. size -> Cells] /\ c.slots[s] = cell
        /\ \A n \in 1 .. size : n # s => c.slots[n] = b.slots[n]
        /\ b.slots \in [1 .. size -> Cells]
    BY BoxesAre
  <1>2. SameBut(1 .. size, b.slots, s, c.slots)
    BY <1>1 DEF SameBut
  <1>3. /\ BoxWeight(c) = BoxWeight(b) + Weighs(cell) - Weighs(b.slots[s])
        /\ \A j : BoxTotal(c, j) = BoxTotal(b, j) + Counts(cell, j) - Counts(b.slots[s], j)
    BY <1>1, <1>2, BoxesAre, OneSlot DEF BoxTotal, BoxWeight
  <1>4. Used(c) = {n \in 1 .. size : c.slots[n].nameid # None}
    BY <1>1 DEF Used
  <1>5. Used(b) = {n \in 1 .. size : b.slots[n].nameid # None} /\ IsFiniteSet(Used(b))
        /\ b.num = Cardinality(Used(b)) /\ b.num \in Nat
    BY BoxesAre
  <1>6. c.num = Cardinality(Used(c)) /\ c.num \in Nat
    <2>1. CASE cell.nameid # None /\ b.slots[s].nameid # None
      <3>1. Used(c) = Used(b)
        BY <1>1, <1>4, <1>5, <2>1
      <3>2. QED
        BY <1>5, <2>1, <3>1
    <2>2. CASE cell.nameid # None /\ b.slots[s].nameid = None
      <3>1. Used(c) = Used(b) \cup {s} /\ s \notin Used(b)
        BY <1>1, <1>4, <1>5, <2>2
      <3>2. Cardinality(Used(b) \cup {s}) = Cardinality(Used(b)) + 1
        BY <1>5, <3>1, FS_AddElement
      <3>3. QED
        BY <1>5, <2>2, <3>1, <3>2
    <2>3. CASE cell.nameid = None /\ b.slots[s].nameid # None
      <3>1. Used(c) = Used(b) \ {s} /\ s \in Used(b)
        BY <1>1, <1>4, <1>5, <2>3
      <3>2. Cardinality(Used(b) \ {s}) = Cardinality(Used(b)) - 1 /\ IsFiniteSet(Used(b) \ {s})
        BY <1>5, <3>1, FS_RemoveElement
      <3>3. Cardinality(Used(b) \ {s}) \in Nat
        BY <3>2, FS_CardinalityType
      <3>4. QED
        BY <1>5, <2>3, <3>1, <3>2, <3>3
    <2>4. CASE cell.nameid = None /\ b.slots[s].nameid = None
      <3>1. Used(c) = Used(b)
        BY <1>1, <1>4, <1>5, <2>4
      <3>2. QED
        BY <1>5, <2>4, <3>1
    <2>5. QED
      BY <2>1, <2>2, <2>3, <2>4
  <1>7. \A n \in Used(c) : c.slots[n].amount \in 1 .. MAX_AMOUNT
    BY <1>1, <1>4, <1>5, BoxesAre
  <1>8. ASSUME NEW n \in Used(c), NEW k \in Used(c), n # k, c.slots[n].nameid \notin Equips
        PROVE  c.slots[n].nameid # c.slots[k].nameid
    <2>1. n \in 1 .. size /\ k \in 1 .. size
          /\ c.slots[n].nameid # None /\ c.slots[k].nameid # None
      BY <1>4
    <2>2. CASE n # s /\ k # s
      <3>1. n \in Used(b) /\ k \in Used(b) /\ c.slots[n] = b.slots[n] /\ c.slots[k] = b.slots[k]
        BY <1>1, <1>5, <2>1, <2>2
      <3>2. QED
        BY <1>8, <3>1, BoxesAre
    <2>3. CASE n = s
      BY <1>1, <1>8, <2>1, <2>3
    <2>4. CASE k = s
      BY <1>1, <1>8, <2>1, <2>4
    <2>5. QED
      BY <2>2, <2>3, <2>4
  <1>9. c \in Boxes(size)
    BY <1>1, <1>6 DEF Boxes
  <1>10. InOrder(c)
    BY <1>6, <1>7, <1>8 DEF InOrder
  <1>11. QED
    BY <1>3, <1>9, <1>10 DEF SoundBoxes

(* What is added is there, and a box stays in order. *)
LEMMA BoxAddIs ==
  ASSUME NEW size \in Nat, NEW b \in SoundBoxes(size), NEW id \in Items,
         NEW amount \in 1 .. MAX_AMOUNT, ~BoxRefused(b, id, amount)
  PROVE  /\ BoxAdd(b, id, amount) \in SoundBoxes(size)
         /\ BoxWeight(BoxAdd(b, id, amount)) = BoxWeight(b) + itemdb_weight(id) * amount
         /\ \A j \in Items : BoxTotal(BoxAdd(b, id, amount), j)
                               = BoxTotal(b, j) + (IF j = id THEN amount ELSE 0)
  <1> DEFINE s == BoxStack(b, id)
             e == BoxFree(b)
  <1>0. id # None /\ amount \in Nat /\ MAX_AMOUNT \in Nat
    BY InventoryAssumption
  <1>1. PICK c : c = BoxAdd(b, id, amount)
    OBVIOUS
  <1>2. CASE s # 0
    <2>1. s \in 1 .. size /\ b.slots[s].nameid = id /\ b.slots[s] \in Cells /\ s \in Used(b)
      BY <1>0, <1>2, StackIs, BoxesAre
    <2>2. PICK had : had = b.slots[s].amount
      OBVIOUS
    <2>3. /\ had \in 1 .. MAX_AMOUNT /\ ~(had + amount > MAX_AMOUNT)
          /\ b.slots[s] = [nameid |-> id, amount |-> had]
      BY <1>2, <2>1, <2>2, BoxesAre, CellsAre DEF BoxRefused
    <2>4. PICK cell : cell = [nameid |-> id, amount |-> had + amount]
      OBVIOUS
    <2>5. had + amount \in 1 .. MAX_AMOUNT
      BY <1>0, <2>3
    <2>6. cell \in Cells
      BY <2>4, <2>5 DEF Cells
    <2>7. c = [slots |-> [b.slots EXCEPT ![s] = cell], num |-> b.num]
      <3>1. [b.slots EXCEPT ![s].amount = @ + amount] = [b.slots EXCEPT ![s] = cell]
        BY <2>1, <2>3, <2>4, BoxesAre
      <3>2. QED
        BY <1>1, <1>2, <3>1 DEF BoxAdd, NewCount
    <2>8. \A n \in 1 .. size : id \notin Equips /\ n # s => b.slots[n].nameid # id
      BY <1>0, <2>1, BoxesAre
    <2>9. b.num \in Nat
      BY BoxesAre
    <2> HIDE DEF s
    <2>10. /\ c \in SoundBoxes(size)
           /\ BoxWeight(c) = BoxWeight(b) + Weighs(cell) - Weighs(b.slots[s])
           /\ \A j : BoxTotal(c, j) = BoxTotal(b, j) + Counts(cell, j) - Counts(b.slots[s], j)
      BY <1>0, <2>1, <2>4, <2>5, <2>6, <2>7, <2>8, <2>9, BoxChanged
    <2>11. /\ Weighs(cell) = itemdb_weight(id) * (had + amount)
           /\ Weighs(b.slots[s]) = itemdb_weight(id) * had
      BY <1>0, <2>3, <2>4 DEF Weighs
    <2>12. /\ itemdb_weight(id) * (had + amount) = itemdb_weight(id) * had + itemdb_weight(id) * amount
           /\ itemdb_weight(id) * had \in Nat /\ itemdb_weight(id) * amount \in Nat
      BY <1>0, <2>3, WeightsAre
    <2>13. BoxWeight(b) \in Nat /\ \A j : BoxTotal(b, j) \in Nat
      BY BoxesAre
    <2>14. BoxWeight(c) = BoxWeight(b) + itemdb_weight(id) * amount
      BY <2>10, <2>11, <2>12, <2>13
    <2>15. ASSUME NEW j \in Items
           PROVE  BoxTotal(c, j) = BoxTotal(b, j) + (IF j = id THEN amount ELSE 0)
      <3>1. /\ Counts(cell, j) = IF j = id THEN had + amount ELSE 0
            /\ Counts(b.slots[s], j) = IF j = id THEN had ELSE 0
        BY <2>3, <2>4 DEF Counts
      <3>2. QED
        BY <1>0, <2>3, <2>10, <2>13, <3>1
    <2>16. QED
      BY <1>1, <2>10, <2>14, <2>15
  <1>3. CASE s = 0
    <2>1. e \in 1 .. size /\ b.slots[e].nameid = None
      BY <1>3, FreeIs DEF BoxRefused
    <2>2. PICK cell : cell = [nameid |-> id, amount |-> amount]
      OBVIOUS
    <2>3. cell \in Cells
      BY <1>0, <2>2 DEF Cells
    <2>4. c = [slots |-> [b.slots EXCEPT ![e] = cell], num |-> b.num + 1]
      BY <1>1, <1>3, <2>2 DEF BoxAdd, NewCount
    <2>5. id \notin Equips => \A n \in 1 .. size : b.slots[n].nameid # id
      BY <1>3, StackIs
    <2>6. b.num \in Nat /\ BoxWeight(b) \in Nat /\ \A j : BoxTotal(b, j) \in Nat
      BY BoxesAre
    <2> HIDE DEF e
    <2>7. /\ c \in SoundBoxes(size)
          /\ BoxWeight(c) = BoxWeight(b) + Weighs(cell) - Weighs(b.slots[e])
          /\ \A j : BoxTotal(c, j) = BoxTotal(b, j) + Counts(cell, j) - Counts(b.slots[e], j)
      BY <1>0, <2>1, <2>2, <2>3, <2>4, <2>5, <2>6, BoxChanged
    <2>8. Weighs(cell) = itemdb_weight(id) * amount /\ Weighs(b.slots[e]) = 0
      BY <1>0, <2>1, <2>2 DEF Weighs
    <2>9. itemdb_weight(id) * amount \in Nat
      BY <1>0, WeightsAre
    <2>10. ASSUME NEW j \in Items
           PROVE  BoxTotal(c, j) = BoxTotal(b, j) + (IF j = id THEN amount ELSE 0)
      <3>1. /\ Counts(cell, j) = IF j = id THEN amount ELSE 0
            /\ Counts(b.slots[e], j) = 0
        BY <2>1, <2>2, InventoryAssumption DEF Counts
      <3>2. QED
        BY <1>0, <2>6, <2>7, <3>1
    <2>11. QED
      BY <1>1, <2>6, <2>7, <2>8, <2>9, <2>10
  <1>4. QED
    BY <1>2, <1>3

(* What is taken is no longer there. *)
LEMMA BoxDelIs ==
  ASSUME NEW size \in Nat, NEW b \in SoundBoxes(size), NEW n \in 1 .. size,
         b.slots[n].nameid # None, NEW amount \in Nat \ {0}, amount <= b.slots[n].amount
  PROVE  /\ BoxDel(b, n, amount) \in SoundBoxes(size)
         /\ BoxWeight(BoxDel(b, n, amount))
              = BoxWeight(b) - itemdb_weight(b.slots[n].nameid) * amount
         /\ itemdb_weight(b.slots[n].nameid) * amount \in Nat
         /\ amount \in 1 .. MAX_AMOUNT /\ b.slots[n].nameid \in Items
         /\ \A j \in Items : BoxTotal(BoxDel(b, n, amount), j)
                               = BoxTotal(b, j) - (IF j = b.slots[n].nameid THEN amount ELSE 0)
  <1>0. PICK id, had : id = b.slots[n].nameid /\ had = b.slots[n].amount
    OBVIOUS
  <1>1. PICK c : c = BoxDel(b, n, amount)
    OBVIOUS
  <1>2. /\ n \in Used(b) /\ b.slots[n] \in Cells /\ b.slots[n] = [nameid |-> id, amount |-> had]
        /\ id \in Items /\ id # None /\ had \in 1 .. MAX_AMOUNT /\ amount \in 1 .. MAX_AMOUNT
    BY <1>0, BoxesAre, CellsAre, InventoryAssumption
  <1>3. PICK rest : rest = had - amount
    OBVIOUS
  <1>4. rest \in Nat /\ had = amount + rest /\ rest <= MAX_AMOUNT /\ MAX_AMOUNT \in Nat
    BY <1>0, <1>2, <1>3, InventoryAssumption
  <1>5. PICK cell : cell = IF rest = 0 THEN Empty ELSE [nameid |-> id, amount |-> rest]
    OBVIOUS
  <1>6. /\ cell \in Cells
        /\ cell.nameid = IF rest = 0 THEN None ELSE id
        /\ cell.nameid # None => cell.amount = rest /\ cell.amount \in 1 .. MAX_AMOUNT
    BY <1>2, <1>4, <1>5 DEF Cells, Empty
  <1>7. b.num \in Nat /\ BoxWeight(b) \in Nat /\ (\A j : BoxTotal(b, j) \in Nat)
        /\ b = [slots |-> b.slots, num |-> b.num] /\ b.slots \in [1 .. size -> Cells]
    BY BoxesAre
  <1>8. c = [slots |-> [b.slots EXCEPT ![n] = cell],
             num |-> b.num + (IF cell.nameid = None THEN 0 ELSE 1) - 1]
    <2>1. CASE rest = 0
      <3>1. c = [slots |-> [b.slots EXCEPT ![n] = Empty], num |-> b.num - 1]
        <4>1. b.slots[n].amount = amount
          BY <1>0, <1>4, <2>1
        <4>2. QED
          BY <1>1, <4>1 DEF BoxDel
      <3>2. cell = Empty /\ cell.nameid = None
        BY <1>5, <1>6, <2>1
      <3>3. b.num + (IF cell.nameid = None THEN 0 ELSE 1) - 1 = b.num - 1
        BY <1>7, <3>2
      <3>4. QED
        BY <3>1, <3>2, <3>3
    <2>2. CASE rest # 0
      <3>1. c = [b EXCEPT !.slots[n].amount = @ - amount]
        BY <1>0, <1>1, <1>4, <2>2 DEF BoxDel
      <3>2. [b.slots EXCEPT ![n].amount = @ - amount] = [b.slots EXCEPT ![n] = cell]
        BY <1>0, <1>2, <1>3, <1>5, <1>7, <2>2
      <3>3. c = [slots |-> [b.slots EXCEPT ![n].amount = @ - amount], num |-> b.num]
        BY <1>7, <3>1
      <3>4. cell.nameid # None
        BY <1>2, <1>6, <2>2
      <3>5. b.num + (IF cell.nameid = None THEN 0 ELSE 1) - 1 = b.num
        BY <1>7, <3>4
      <3>6. QED
        BY <3>2, <3>3, <3>5
    <2>3. QED
      BY <2>1, <2>2
  <1>9. \A k \in 1 .. size : id \notin Equips /\ k # n => b.slots[k].nameid # id
    BY <1>0, <1>2, BoxesAre
  <1>10. /\ c \in SoundBoxes(size)
         /\ BoxWeight(c) = BoxWeight(b) + Weighs(cell) - Weighs(b.slots[n])
         /\ \A j : BoxTotal(c, j) = BoxTotal(b, j) + Counts(cell, j) - Counts(b.slots[n], j)
    <2>1. /\ c = [slots |-> [b.slots EXCEPT ![n] = cell], num |-> c.num]
          /\ c.num = b.num + (IF cell.nameid = None THEN 0 ELSE 1)
                            - (IF b.slots[n].nameid = None THEN 0 ELSE 1)
      BY <1>0, <1>2, <1>7, <1>8
    <2>2. cell.nameid \notin Equips \cup {None} =>
            \A k \in 1 .. size : k # n => b.slots[k].nameid # cell.nameid
      BY <1>6, <1>9
    <2>3. QED
      BY <1>6, <2>1, <2>2, BoxChanged
  <1>11. PICK k, left : k = itemdb_weight(id) * amount /\ left = itemdb_weight(id) * rest
    OBVIOUS
  <1>12. /\ k \in Nat /\ left \in Nat /\ itemdb_weight(id) * (amount + rest) = k + left
         /\ rest = 0 => left = 0
    <2>1. itemdb_weight(id) \in Nat
      BY <1>2, WeightsAre
    <2>2. rest = 0 => left = 0
      BY <1>11, <2>1
    <2>3. QED
      BY <1>2, <1>4, <1>11, <2>2, WeightsAre
  <1>13. Weighs(cell) = left /\ Weighs(b.slots[n]) = k + left
    BY <1>2, <1>4, <1>6, <1>11, <1>12 DEF Weighs
  <1>14. ASSUME NEW j \in Items
         PROVE  BoxTotal(c, j) = BoxTotal(b, j) - (IF j = id THEN amount ELSE 0)
    <2>1. /\ Counts(cell, j) = IF j = id THEN rest ELSE 0
          /\ Counts(b.slots[n], j) = IF j = id THEN amount + rest ELSE 0
      BY <1>2, <1>4, <1>6, InventoryAssumption DEF Counts
    <2>2. QED
      BY <1>4, <1>7, <1>10, <2>1
  <1>15. QED
    BY <1>0, <1>1, <1>2, <1>7, <1>10, <1>11, <1>12, <1>13, <1>14

(***************************************************************************)
(* Items that move: what leaves one place is in the other.                 *)
(***************************************************************************)
SoundCarts ==
  {c \in [box : SoundBoxes(MAX_CART), weight : Nat] :
     c.weight = BoxWeight(c.box) /\ c.weight <= CartMaxWeight}

LEMMA SizesAre == MAX_STORAGE \in Nat /\ MAX_CART \in Nat /\ CartMaxWeight \in Nat
  BY BoxAssumption

LEMMA CartsAre ==
  ASSUME NEW c \in SoundCarts
  PROVE  /\ c = [box |-> c.box, weight |-> c.weight]
         /\ c.box \in SoundBoxes(MAX_CART) /\ c.weight \in Nat
         /\ c.weight = BoxWeight(c.box) /\ c.weight <= CartMaxWeight
  BY DEF SoundCarts

LEMMA CartAddIs ==
  ASSUME NEW c \in SoundCarts, NEW id \in Items, NEW amount \in 1 .. MAX_AMOUNT,
         ~CartRefused(c, id, amount)
  PROVE  /\ pc_cart_additem(c, id, amount) \in SoundCarts
         /\ \A j \in Items : BoxTotal(pc_cart_additem(c, id, amount).box, j)
                               = BoxTotal(c.box, j) + (IF j = id THEN amount ELSE 0)
  <1>1. PICK k : k = itemdb_weight(id) * amount
    OBVIOUS
  <1>2. amount \in Nat
    BY InventoryAssumption
  <1>3. k \in Nat
    BY <1>1, <1>2, WeightsAre
  <1>4. ~(k + c.weight > CartMaxWeight) /\ ~BoxRefused(c.box, id, amount)
    BY <1>1 DEF CartRefused
  <1>5. PICK b : b = BoxAdd(c.box, id, amount)
    OBVIOUS
  <1>6. /\ b \in SoundBoxes(MAX_CART) /\ BoxWeight(b) = BoxWeight(c.box) + k
        /\ \A j \in Items : BoxTotal(b, j) = BoxTotal(c.box, j) + (IF j = id THEN amount ELSE 0)
    BY <1>1, <1>4, <1>5, CartsAre, SizesAre, BoxAddIs
  <1>7. pc_cart_additem(c, id, amount) = [box |-> b, weight |-> c.weight + k]
    BY <1>1, <1>5 DEF pc_cart_additem
  <1>8. c.weight + k \in Nat /\ c.weight + k = BoxWeight(b) /\ c.weight + k <= CartMaxWeight
    BY <1>3, <1>4, <1>6, CartsAre, SizesAre
  <1>9. QED
    BY <1>6, <1>7, <1>8 DEF SoundCarts

LEMMA CartDelIs ==
  ASSUME NEW c \in SoundCarts, NEW n \in 1 .. MAX_CART, c.box.slots[n].nameid # None,
         NEW amount \in Nat \ {0}, amount <= c.box.slots[n].amount
  PROVE  /\ pc_cart_delitem(c, n, amount) \in SoundCarts
         /\ amount \in 1 .. MAX_AMOUNT /\ c.box.slots[n].nameid \in Items
         /\ \A j \in Items : BoxTotal(pc_cart_delitem(c, n, amount).box, j)
              = BoxTotal(c.box, j) - (IF j = c.box.slots[n].nameid THEN amount ELSE 0)
  <1>1. PICK k : k = itemdb_weight(c.box.slots[n].nameid) * amount
    OBVIOUS
  <1>2. PICK b : b = BoxDel(c.box, n, amount)
    OBVIOUS
  <1>3. /\ b \in SoundBoxes(MAX_CART) /\ BoxWeight(b) = BoxWeight(c.box) - k /\ k \in Nat
        /\ amount \in 1 .. MAX_AMOUNT /\ c.box.slots[n].nameid \in Items
        /\ \A j \in Items : BoxTotal(b, j)
             = BoxTotal(c.box, j) - (IF j = c.box.slots[n].nameid THEN amount ELSE 0)
    BY <1>1, <1>2, CartsAre, SizesAre, BoxDelIs
  <1>4. pc_cart_delitem(c, n, amount) = [box |-> b, weight |-> c.weight - k]
    BY <1>1, <1>2 DEF pc_cart_delitem
  <1>5. BoxWeight(b) \in Nat
    BY <1>3, SizesAre, BoxesAre
  <1>6. c.weight - k \in Nat /\ c.weight - k = BoxWeight(b) /\ c.weight - k <= CartMaxWeight
    BY <1>3, <1>5, CartsAre, SizesAre
  <1>7. QED
    BY <1>3, <1>4, <1>6 DEF SoundCarts

(* What a character gives up and what it takes. *)
LEMMA GiveIs ==
  ASSUME NEW g \in SoundGoods, NEW n \in InvSlots, g.inv[n].nameid # None,
         NEW amount \in Nat \ {0}, amount <= g.inv[n].amount
  PROVE  /\ pc_delitem(g, n, amount) \in SoundGoods
         /\ amount \in 1 .. MAX_AMOUNT /\ g.inv[n].nameid \in Items
         /\ \A j \in Items : Total(pc_delitem(g, n, amount), j)
                               = Total(g, j) - (IF j = g.inv[n].nameid THEN amount ELSE 0)
  <1>1. g.inv[n] \in Cells
    BY GoodsAre DEF SoundGoods
  <1>2. amount \in 1 .. MAX_AMOUNT /\ g.inv[n].nameid \in Items
    BY <1>1, InventoryAssumption DEF Cells
  <1>3. ~DelRefused(g, n, amount)
    BY <1>1, InventoryAssumption DEF DelRefused, Cells
  <1>4. QED
    BY <1>2, <1>3, DelKeeps

LEMMA TakeIs ==
  ASSUME NEW g \in SoundGoods, NEW id \in Items, NEW amount \in 1 .. MAX_AMOUNT,
         AddRefused(g, id, amount) = 0
  PROVE  /\ pc_additem(g, id, amount) \in SoundGoods
         /\ \A j \in Items : Total(pc_additem(g, id, amount), j)
                               = Total(g, j) + (IF j = id THEN amount ELSE 0)
  <1>1. amount \in 0 .. MAX_AMOUNT
    BY InventoryAssumption
  <1>2. QED
    BY <1>1, AddKeeps

LEMMA TotalsAre ==
  /\ \A g \in SoundGoods, j \in Items : Total(g, j) \in Nat
  /\ \A b \in SoundBoxes(MAX_STORAGE) \cup SoundBoxes(MAX_CART), j \in Items : BoxTotal(b, j) \in Nat
  <1>1. ASSUME NEW g \in SoundGoods, NEW j \in Items
        PROVE  Total(g, j) \in Nat
    <2>1. 0 \in 0 .. MAX_AMOUNT
      BY InventoryAssumption
    <2>2. QED
      BY <2>1, AddKeeps
  <1>2. QED
    BY <1>1, SizesAre, BoxesAre

(***************************************************************************)
(* Types: every copy there is, on a server or under way, is in order.      *)
(***************************************************************************)
Copies   == [status : {-1, 0, 1}, box : SoundBoxes(MAX_STORAGE)]
Loads    == [kind : {"load"}, account : Accounts]
SavesOf  == [kind : {"save"}, account : Accounts, box : SoundBoxes(MAX_STORAGE)]
Datas    == [kind : {"data"}, account : Accounts, box : SoundBoxes(MAX_STORAGE)]

Typed ==
  /\ storage \in [Maps -> [Accounts -> Copies]]
  /\ char_storage \in [Accounts -> SoundBoxes(MAX_STORAGE)]
  /\ toChar \in [Maps -> Seq(Loads \cup SavesOf)]
  /\ toMap \in [Maps -> Seq(Datas)]
  /\ \A m \in Maps : Len(toChar[m]) <= MaxQueue /\ Len(toMap[m]) <= MaxQueue
  /\ present \in [Maps -> SUBSET Accounts]
  /\ at \in [Accounts -> Maps \cup {Nowhere}]
  /\ \A a \in Accounts : at[a] # Nowhere => a \in present[at[a]]
  /\ goods \in [Accounts -> SoundGoods]
  /\ cart \in [Accounts -> SoundCarts]
  /\ home \in [Accounts -> Maps \cup {Nowhere}]
  /\ upset \subseteq Accounts

LEMMA EmptyIsSound ==
  ASSUME NEW size \in Nat
  PROVE  EmptyBox(size) \in SoundBoxes(size) /\ BoxWeight(EmptyBox(size)) = 0
  <1>1. PICK b : b = EmptyBox(size)
    OBVIOUS
  <1>2. /\ b.slots \in [1 .. size -> Cells] /\ \A n \in 1 .. size : b.slots[n] = Empty
        /\ b.num = 0 /\ b \in Boxes(size)
    BY <1>1, InventoryAssumption DEF EmptyBox, Boxes, Cells, Empty
  <1>3. Used(b) = {}
    BY <1>2 DEF Used, Empty
  <1>4. InOrder(b)
    BY <1>2, <1>3, FS_EmptySet DEF InOrder
  <1>5. IsFiniteSet(1 .. size)
    BY FS_Interval
  <1>6. \A n \in 1 .. size : Heaviness(b.slots)[n] = 0
    BY <1>2 DEF Heaviness, Empty
  <1>7. PICK f : f = Heaviness(b.slots)
    OBVIOUS
  <1>8. SumFunctionOnSet(f, 1 .. size) = 0
    BY <1>5, <1>6, <1>7, SumZero
  <1>9. BoxWeight(b) = 0
    BY <1>2, <1>7, <1>8 DEF BoxWeight, WeightIn
  <1>10. QED
    BY <1>1, <1>2, <1>4, <1>9 DEF SoundBoxes

LEMMA EmptyCounts ==
  ASSUME NEW size \in Nat, NEW id \in Items
  PROVE  BoxTotal(EmptyBox(size), id) = 0
  <1>1. PICK slots : slots = EmptyBox(size).slots
    OBVIOUS
  <1>2. slots \in [1 .. size -> Cells] /\ \A n \in 1 .. size : slots[n].nameid = None
    BY <1>1, InventoryAssumption DEF EmptyBox, Cells, Empty
  <1>3. PICK f : f = [n \in 1 .. size |-> IF slots[n].nameid = id THEN slots[n].amount ELSE 0]
    OBVIOUS
  <1>4. id # None /\ IsFiniteSet(1 .. size)
    BY InventoryAssumption, FS_Interval
  <1>5. SumFunctionOnSet(f, 1 .. size) = 0
    BY <1>2, <1>3, <1>4, SumZero
  <1>6. QED
    BY <1>1, <1>2, <1>3, <1>5 DEF BoxTotal, AmountIn

LEMMA CopiesAre ==
  ASSUME NEW c \in Copies
  PROVE  c = [status |-> c.status, box |-> c.box] /\ c.box \in SoundBoxes(MAX_STORAGE)
         /\ Shut(c) \in Copies /\ Shut(c).box = c.box /\ Shut(c).status \in {-1, 0}
         /\ (Shut(c).status = -1 <=> c.status = -1)
  BY DEF Copies, Shut

LEMMA BlankIs == NoCopy \in Copies /\ Blank \in Copies
  BY EmptyIsSound, SizesAre DEF NoCopy, Blank, Copies

LEMMA TypedInit == Init => Typed
  <1> SUFFICES ASSUME Init PROVE Typed
    OBVIOUS
  <1> USE StorageAssumption DEF Init
  <1>1. storage \in [Maps -> [Accounts -> Copies]]
    BY BlankIs
  <1>2. char_storage \in [Accounts -> SoundBoxes(MAX_STORAGE)]
    BY DEF SoundBoxes
  <1>3. goods \in [Accounts -> SoundGoods]
    BY DEF SoundGoods, WeighsRight
  <1>4. [box |-> EmptyBox(MAX_CART), weight |-> 0] \in SoundCarts
    BY EmptyIsSound, SizesAre DEF SoundCarts
  <1>5. cart \in [Accounts -> SoundCarts]
    BY <1>4
  <1>6. toChar \in [Maps -> Seq(Loads \cup SavesOf)] /\ toMap \in [Maps -> Seq(Datas)]
        /\ \A m \in Maps : Len(toChar[m]) <= MaxQueue /\ Len(toMap[m]) <= MaxQueue
    OBVIOUS
  <1>7. QED
    BY <1>1, <1>2, <1>3, <1>5, <1>6 DEF Typed

(* A packet that is sent, and one that is read. *)
Queues(S, q)         == q \in [Maps -> Seq(S)] /\ \A k \in Maps : Len(q[k]) <= MaxQueue
SentOn(q, m, x, new) == new = [q EXCEPT ![m] = Append(@, x)]
ReadOn(q, m, p, new) == q[m] # <<>> /\ p = Head(q[m]) /\ new = [q EXCEPT ![m] = Tail(@)]

LEMMA Sent ==
  ASSUME NEW S, NEW q, Queues(S, q), NEW x \in S, NEW m \in Maps, Len(q[m]) < MaxQueue,
         NEW new, SentOn(q, m, x, new)
  PROVE  Queues(S, new)
  <1>1. /\ q \in [Maps -> Seq(S)] /\ \A k \in Maps : Len(q[k]) <= MaxQueue
        /\ new = [q EXCEPT ![m] = Append(@, x)]
    BY DEF Queues, SentOn
  <1>2. Append(q[m], x) \in Seq(S) /\ Len(Append(q[m], x)) = Len(q[m]) + 1 /\ Len(q[m]) \in Nat
    BY <1>1
  <1>3. QED
    BY <1>1, <1>2, StorageAssumption DEF Queues

LEMMA Received ==
  ASSUME NEW S, NEW q, Queues(S, q), NEW m \in Maps, NEW p, NEW new,
         ReadOn(q, m, p, new)
  PROVE  Queues(S, new) /\ p \in S
  <1>1. /\ q \in [Maps -> Seq(S)] /\ \A k \in Maps : Len(q[k]) <= MaxQueue
        /\ q[m] # <<>> /\ p = Head(q[m]) /\ new = [q EXCEPT ![m] = Tail(@)]
    BY DEF Queues, ReadOn
  <1>2. Tail(q[m]) \in Seq(S) /\ Len(Tail(q[m])) = Len(q[m]) - 1 /\ Len(q[m]) \in Nat
        /\ Head(q[m]) \in S
    BY <1>1
  <1>3. QED
    BY <1>1, <1>2, StorageAssumption DEF Queues

(* Steps that move an item: of one account, and of its copy where it plays. *)
Moved(a, box, g, c) ==
  LET m == at[a] IN
  /\ m # Nowhere
  /\ storage' = [storage EXCEPT ![m][a].box = box]
  /\ goods' = [goods EXCEPT ![a] = g] /\ cart' = [cart EXCEPT ![a] = c]
  /\ UNCHANGED <<char_storage, netVars, present, at, home, upset>>
  /\ box \in SoundBoxes(MAX_STORAGE) /\ g \in SoundGoods /\ c \in SoundCarts
  /\ \A j \in Items : Total(g, j) + BoxTotal(c.box, j) + BoxTotal(box, j)
                      = Held(a, j) + BoxTotal(storage[m][a].box, j)
  /\ IsOpen(a, m) \/ box = storage[m][a].box

MoveStep(a, amount) ==
  \/ \E n \in InvSlots : storage_storageadd(a, n, amount) \/ pc_putitemtocart(a, n, amount)
  \/ \E n \in 1 .. MAX_STORAGE : storage_storageget(a, n, amount) \/ storage_storagegettocart(a, n, amount)
  \/ \E n \in 1 .. MAX_CART : storage_storageaddfromcart(a, n, amount) \/ pc_getitemfromcart(a, n, amount)

LEMMA MovesAre ==
  ASSUME Typed, NEW a \in Accounts, NEW amount \in Amounts, MoveStep(a, amount)
  PROVE  \E box, g, c : Moved(a, box, g, c)
  <1> DEFINE m == at[a]
  <1>0. amount \in Nat \ {0} /\ amount \in Nat
    BY StorageAssumption
  <1>1. m \in Maps
    BY StorageAssumption
    DEF Typed, MoveStep, storage_storageadd, pc_putitemtocart, storage_storageget,
        storage_storagegettocart, storage_storageaddfromcart, pc_getitemfromcart
  <1>2. PICK b, g, c : b = storage[m][a].box /\ g = goods[a] /\ c = cart[a]
    OBVIOUS
  <1>3. /\ b \in SoundBoxes(MAX_STORAGE) /\ g \in SoundGoods /\ c \in SoundCarts
        /\ c.box \in SoundBoxes(MAX_CART) /\ m # Nowhere
        /\ storage \in [Maps -> [Accounts -> Copies]] /\ storage[m][a] \in Copies
        /\ goods \in [Accounts -> SoundGoods] /\ cart \in [Accounts -> SoundCarts]
    BY <1>1, <1>2, CopiesAre, CartsAre, StorageAssumption DEF Typed
  <1>4. \A j \in Items : /\ Held(a, j) = Total(g, j) + BoxTotal(c.box, j)
                         /\ Total(g, j) \in Nat /\ BoxTotal(c.box, j) \in Nat
                         /\ BoxTotal(b, j) \in Nat
    BY <1>2, <1>3, TotalsAre DEF Held
  <1>5. /\ storage = [storage EXCEPT ![m][a].box = b]
        /\ goods = [goods EXCEPT ![a] = g] /\ cart = [cart EXCEPT ![a] = c]
    <2>1. storage[m][a] = [storage[m][a] EXCEPT !.box = b]
      BY <1>2, <1>3, CopiesAre
    <2>2. QED
      BY <1>1, <1>2, <1>3, <2>1
  <1> HIDE DEF m
  <1>6. ASSUME NEW n \in InvSlots, storage_storageadd(a, n, amount)
        PROVE  \E x, y, z : Moved(a, x, y, z)
    <2>1. PICK id : id = g.inv[n].nameid
      OBVIOUS
    <2>2. /\ IsOpen(a, m) /\ id # None /\ amount <= g.inv[n].amount /\ ~BoxRefused(b, id, amount)
          /\ storage' = [storage EXCEPT ![m][a].box = BoxAdd(b, id, amount)]
          /\ goods' = [goods EXCEPT ![a] = pc_delitem(g, n, amount)]
          /\ UNCHANGED <<char_storage, netVars, present, at, cart, home, upset>>
      BY <1>2, <1>6, <2>1 DEF storage_storageadd, AddRefusedByStorage, m
    <2>3. PICK y : y = pc_delitem(g, n, amount)
      OBVIOUS
    <2>4. PICK x : x = BoxAdd(b, id, amount)
      OBVIOUS
    <2>5. /\ y \in SoundGoods /\ amount \in 1 .. MAX_AMOUNT /\ id \in Items
          /\ \A j \in Items : Total(y, j) = Total(g, j) - (IF j = id THEN amount ELSE 0)
      BY <1>0, <1>3, <2>1, <2>2, <2>3, GiveIs
    <2>6. /\ x \in SoundBoxes(MAX_STORAGE)
          /\ \A j \in Items : BoxTotal(x, j) = BoxTotal(b, j) + (IF j = id THEN amount ELSE 0)
      BY <1>3, <2>2, <2>4, <2>5, SizesAre, BoxAddIs
    <2>7. \A j \in Items : Total(y, j) + BoxTotal(c.box, j) + BoxTotal(x, j)
                           = Held(a, j) + BoxTotal(b, j)
      BY <1>0, <1>4, <2>5, <2>6
    <2>8. Moved(a, x, y, c)
      BY <1>2, <1>3, <1>5, <2>2, <2>3, <2>4, <2>5, <2>6, <2>7 DEF Moved, m
    <2>9. QED
      BY <2>8
  <1>7. ASSUME NEW n \in InvSlots, pc_putitemtocart(a, n, amount)
        PROVE  \E x, y, z : Moved(a, x, y, z)
    <2>1. PICK id : id = g.inv[n].nameid
      OBVIOUS
    <2>2. /\ id # None /\ amount <= g.inv[n].amount /\ ~CartRefused(c, id, amount)
          /\ cart' = [cart EXCEPT ![a] = pc_cart_additem(c, id, amount)]
          /\ goods' = [goods EXCEPT ![a] = pc_delitem(g, n, amount)]
          /\ UNCHANGED <<storage, char_storage, netVars, present, at, home, upset>>
      BY <1>2, <1>7, <2>1 DEF pc_putitemtocart
    <2>3. PICK y : y = pc_delitem(g, n, amount)
      OBVIOUS
    <2>4. PICK z : z = pc_cart_additem(c, id, amount)
      OBVIOUS
    <2>5. /\ y \in SoundGoods /\ amount \in 1 .. MAX_AMOUNT /\ id \in Items
          /\ \A j \in Items : Total(y, j) = Total(g, j) - (IF j = id THEN amount ELSE 0)
      BY <1>0, <1>3, <2>1, <2>2, <2>3, GiveIs
    <2>6. /\ z \in SoundCarts
          /\ \A j \in Items : BoxTotal(z.box, j) = BoxTotal(c.box, j) + (IF j = id THEN amount ELSE 0)
      BY <1>3, <2>2, <2>4, <2>5, CartAddIs
    <2>7. \A j \in Items : Total(y, j) + BoxTotal(z.box, j) + BoxTotal(b, j)
                           = Held(a, j) + BoxTotal(b, j)
      BY <1>0, <1>4, <2>5, <2>6
    <2>8. Moved(a, b, y, z)
      BY <1>2, <1>3, <1>5, <2>2, <2>3, <2>4, <2>5, <2>6, <2>7 DEF Moved, m
    <2>9. QED
      BY <2>8
  <1>8. ASSUME NEW n \in 1 .. MAX_STORAGE, storage_storageget(a, n, amount)
        PROVE  \E x, y, z : Moved(a, x, y, z)
    <2>1. PICK id : id = b.slots[n].nameid
      OBVIOUS
    <2>2. /\ IsOpen(a, m) /\ id # None /\ amount <= b.slots[n].amount /\ AddRefused(g, id, amount) = 0
          /\ storage' = [storage EXCEPT ![m][a].box = BoxDel(b, n, amount)]
          /\ goods' = [goods EXCEPT ![a] = pc_additem(g, id, amount)]
          /\ UNCHANGED <<char_storage, netVars, present, at, cart, home, upset>>
      BY <1>2, <1>8, <2>1 DEF storage_storageget, m
    <2>3. PICK y : y = pc_additem(g, id, amount)
      OBVIOUS
    <2>4. PICK x : x = BoxDel(b, n, amount)
      OBVIOUS
    <2>5. /\ x \in SoundBoxes(MAX_STORAGE) /\ amount \in 1 .. MAX_AMOUNT /\ id \in Items
          /\ \A j \in Items : BoxTotal(x, j) = BoxTotal(b, j) - (IF j = id THEN amount ELSE 0)
      BY <1>0, <1>3, <2>1, <2>2, <2>4, SizesAre, BoxDelIs
    <2>6. /\ y \in SoundGoods
          /\ \A j \in Items : Total(y, j) = Total(g, j) + (IF j = id THEN amount ELSE 0)
      BY <1>3, <2>2, <2>3, <2>5, TakeIs
    <2>7. \A j \in Items : Total(y, j) + BoxTotal(c.box, j) + BoxTotal(x, j)
                           = Held(a, j) + BoxTotal(b, j)
      BY <1>0, <1>4, <2>5, <2>6
    <2>8. Moved(a, x, y, c)
      BY <1>2, <1>3, <1>5, <2>2, <2>3, <2>4, <2>5, <2>6, <2>7 DEF Moved, m
    <2>9. QED
      BY <2>8
  <1>9. ASSUME NEW n \in 1 .. MAX_STORAGE, storage_storagegettocart(a, n, amount)
        PROVE  \E x, y, z : Moved(a, x, y, z)
    <2>1. PICK id : id = b.slots[n].nameid
      OBVIOUS
    <2>2. /\ IsOpen(a, m) /\ id # None /\ amount <= b.slots[n].amount /\ ~CartRefused(c, id, amount)
          /\ storage' = [storage EXCEPT ![m][a].box = BoxDel(b, n, amount)]
          /\ cart' = [cart EXCEPT ![a] = pc_cart_additem(c, id, amount)]
          /\ UNCHANGED <<char_storage, netVars, present, at, goods, home, upset>>
      BY <1>2, <1>9, <2>1 DEF storage_storagegettocart, m
    <2>3. PICK z : z = pc_cart_additem(c, id, amount)
      OBVIOUS
    <2>4. PICK x : x = BoxDel(b, n, amount)
      OBVIOUS
    <2>5. /\ x \in SoundBoxes(MAX_STORAGE) /\ amount \in 1 .. MAX_AMOUNT /\ id \in Items
          /\ \A j \in Items : BoxTotal(x, j) = BoxTotal(b, j) - (IF j = id THEN amount ELSE 0)
      BY <1>0, <1>3, <2>1, <2>2, <2>4, SizesAre, BoxDelIs
    <2>6. /\ z \in SoundCarts
          /\ \A j \in Items : BoxTotal(z.box, j) = BoxTotal(c.box, j) + (IF j = id THEN amount ELSE 0)
      BY <1>3, <2>2, <2>3, <2>5, CartAddIs
    <2>7. \A j \in Items : Total(g, j) + BoxTotal(z.box, j) + BoxTotal(x, j)
                           = Held(a, j) + BoxTotal(b, j)
      BY <1>0, <1>4, <2>5, <2>6
    <2>8. Moved(a, x, g, z)
      BY <1>2, <1>3, <1>5, <2>2, <2>3, <2>4, <2>5, <2>6, <2>7 DEF Moved, m
    <2>9. QED
      BY <2>8
  <1>10. ASSUME NEW n \in 1 .. MAX_CART, storage_storageaddfromcart(a, n, amount)
         PROVE  \E x, y, z : Moved(a, x, y, z)
    <2>1. PICK id : id = c.box.slots[n].nameid
      OBVIOUS
    <2>2. /\ IsOpen(a, m) /\ id # None /\ amount <= c.box.slots[n].amount /\ ~BoxRefused(b, id, amount)
          /\ storage' = [storage EXCEPT ![m][a].box = BoxAdd(b, id, amount)]
          /\ cart' = [cart EXCEPT ![a] = pc_cart_delitem(c, n, amount)]
          /\ UNCHANGED <<char_storage, netVars, present, at, goods, home, upset>>
      BY <1>2, <1>10, <2>1 DEF storage_storageaddfromcart, AddRefusedByStorage, m
    <2>3. PICK z : z = pc_cart_delitem(c, n, amount)
      OBVIOUS
    <2>4. PICK x : x = BoxAdd(b, id, amount)
      OBVIOUS
    <2>5. /\ z \in SoundCarts /\ amount \in 1 .. MAX_AMOUNT /\ id \in Items
          /\ \A j \in Items : BoxTotal(z.box, j) = BoxTotal(c.box, j) - (IF j = id THEN amount ELSE 0)
      BY <1>0, <1>3, <2>1, <2>2, <2>3, CartDelIs
    <2>6. /\ x \in SoundBoxes(MAX_STORAGE)
          /\ \A j \in Items : BoxTotal(x, j) = BoxTotal(b, j) + (IF j = id THEN amount ELSE 0)
      BY <1>3, <2>2, <2>4, <2>5, SizesAre, BoxAddIs
    <2>7. \A j \in Items : Total(g, j) + BoxTotal(z.box, j) + BoxTotal(x, j)
                           = Held(a, j) + BoxTotal(b, j)
      BY <1>0, <1>4, <2>5, <2>6
    <2>8. Moved(a, x, g, z)
      BY <1>2, <1>3, <1>5, <2>2, <2>3, <2>4, <2>5, <2>6, <2>7 DEF Moved, m
    <2>9. QED
      BY <2>8
  <1>11. ASSUME NEW n \in 1 .. MAX_CART, pc_getitemfromcart(a, n, amount)
         PROVE  \E x, y, z : Moved(a, x, y, z)
    <2>1. PICK id : id = c.box.slots[n].nameid
      OBVIOUS
    <2>2. /\ id # None /\ amount <= c.box.slots[n].amount /\ AddRefused(g, id, amount) = 0
          /\ goods' = [goods EXCEPT ![a] = pc_additem(g, id, amount)]
          /\ cart' = [cart EXCEPT ![a] = pc_cart_delitem(c, n, amount)]
          /\ UNCHANGED <<storage, char_storage, netVars, present, at, home, upset>>
      BY <1>2, <1>11, <2>1 DEF pc_getitemfromcart
    <2>3. PICK z : z = pc_cart_delitem(c, n, amount)
      OBVIOUS
    <2>4. PICK y : y = pc_additem(g, id, amount)
      OBVIOUS
    <2>5. /\ z \in SoundCarts /\ amount \in 1 .. MAX_AMOUNT /\ id \in Items
          /\ \A j \in Items : BoxTotal(z.box, j) = BoxTotal(c.box, j) - (IF j = id THEN amount ELSE 0)
      BY <1>0, <1>3, <2>1, <2>2, <2>3, CartDelIs
    <2>6. /\ y \in SoundGoods
          /\ \A j \in Items : Total(y, j) = Total(g, j) + (IF j = id THEN amount ELSE 0)
      BY <1>3, <2>2, <2>4, <2>5, TakeIs
    <2>7. \A j \in Items : Total(y, j) + BoxTotal(z.box, j) + BoxTotal(b, j)
                           = Held(a, j) + BoxTotal(b, j)
      BY <1>0, <1>4, <2>5, <2>6
    <2>8. Moved(a, b, y, z)
      BY <1>2, <1>3, <1>5, <2>2, <2>3, <2>4, <2>5, <2>6, <2>7 DEF Moved, m
    <2>9. QED
      BY <2>8
  <1>12. QED
    BY <1>6, <1>7, <1>8, <1>9, <1>10, <1>11 DEF MoveStep

(* What is sent of a copy there is. *)
LEMMA SavedIs ==
  ASSUME Typed, NEW a \in Accounts, NEW m \in Maps, NEW copy \in Copies,
         Len(toChar[m]) < MaxQueue, storage_storage_save(a, m, copy)
  PROVE  /\ toChar' \in [Maps -> Seq(Loads \cup SavesOf)]
         /\ \A k \in Maps : Len(toChar'[k]) <= MaxQueue
  <1>1. PICK x : x = [kind |-> "save", account |-> a, box |-> copy.box]
    OBVIOUS
  <1>2. x \in Loads \cup SavesOf
    BY <1>1, CopiesAre DEF SavesOf
  <1>3. toChar' = toChar \/ toChar' = [toChar EXCEPT ![m] = Append(@, x)]
    BY <1>1 DEF storage_storage_save
  <1>4. CASE toChar' = toChar
    BY <1>4 DEF Typed
  <1>5. CASE toChar' = [toChar EXCEPT ![m] = Append(@, x)]
    <2>1. Queues(Loads \cup SavesOf, toChar) /\ SentOn(toChar, m, x, toChar')
      BY <1>5 DEF Typed, Queues, SentOn
    <2>2. Queues(Loads \cup SavesOf, toChar')
      BY <1>2, <2>1, Sent
    <2>3. QED
      BY <2>2 DEF Queues
  <1>6. QED
    BY <1>3, <1>4, <1>5

LEMMA TypedNext == Typed /\ [Next]_vars => Typed'
  <1> SUFFICES ASSUME Typed, [Next]_vars PROVE Typed'
    OBVIOUS
  <1> USE DEF netVars
  <1>1. ASSUME NEW a \in Accounts, NEW m \in Maps, Enter(a, m)
        PROVE  Typed'
    <2>1. /\ storage' = storage /\ char_storage' = char_storage /\ toChar' = toChar /\ toMap' = toMap
          /\ goods' = goods /\ cart' = cart /\ home' = home /\ upset' = upset
          /\ at' = [at EXCEPT ![a] = m] /\ present' = [present EXCEPT ![m] = @ \cup {a}]
      BY <1>1 DEF Enter
    <2>2. present' \in [Maps -> SUBSET Accounts] /\ at' \in [Accounts -> Maps \cup {Nowhere}]
      BY <2>1 DEF Typed
    <2>3. \A c \in Accounts : at'[c] # Nowhere => c \in present'[at'[c]]
      BY <2>1 DEF Typed
    <2>4. QED
      BY <2>1, <2>2, <2>3 DEF Typed
  <1>2. ASSUME NEW a \in Accounts, NEW m \in Maps, PutAway(a, m)
        PROVE  /\ storage' \in [Maps -> [Accounts -> Copies]] /\ upset' \subseteq Accounts
               /\ toChar' \in [Maps -> Seq(Loads \cup SavesOf)]
               /\ \A k \in Maps : Len(toChar'[k]) <= MaxQueue
               /\ UNCHANGED <<char_storage, toMap, goods, cart, home>>
    <2>1. PICK copy : copy = Shut(storage[m][a])
      OBVIOUS
    <2>2. storage \in [Maps -> [Accounts -> Copies]] /\ storage[m][a] \in Copies
      BY DEF Typed
    <2>3. copy \in Copies
      BY <2>1, <2>2, CopiesAre
    <2>4. storage' = [storage EXCEPT ![m][a] = copy] /\ storage_storage_save(a, m, copy)
          /\ Len(toChar[m]) < MaxQueue /\ (upset' = upset \/ upset' = upset \cup {a})
          /\ UNCHANGED <<char_storage, toMap, goods, cart, home>>
      BY <1>2, <2>1 DEF PutAway
    <2>5. storage' \in [Maps -> [Accounts -> Copies]]
      BY <2>2, <2>3, <2>4
    <2>6. QED
      BY <2>3, <2>4, <2>5, SavedIs DEF Typed
  <1>3. ASSUME NEW a \in Accounts, pc_setpos(a)
        PROVE  Typed'
    <2>1. at[a] \in Maps /\ PutAway(a, at[a]) /\ at' = [at EXCEPT ![a] = Nowhere] /\ present' = present
      BY <1>3 DEF pc_setpos, Typed
    <2>2. at' \in [Accounts -> Maps \cup {Nowhere}]
          /\ \A c \in Accounts : at'[c] # Nowhere => c \in present'[at'[c]]
      BY <2>1 DEF Typed
    <2>3. QED
      BY <1>2, <2>1, <2>2 DEF Typed
  <1>4. ASSUME NEW a \in Accounts, NEW m \in Maps, map_quit(a, m)
        PROVE  Typed'
    <2>1. PutAway(a, m) /\ at' = (IF at[a] = m THEN [at EXCEPT ![a] = Nowhere] ELSE at)
          /\ present' = [present EXCEPT ![m] = @ \ {a}]
      BY <1>4 DEF map_quit
    <2>2. at' \in [Accounts -> Maps \cup {Nowhere}] /\ present' \in [Maps -> SUBSET Accounts]
      BY <2>1 DEF Typed
    <2>3. \A c \in Accounts : at'[c] # Nowhere => c \in present'[at'[c]]
      BY <2>1 DEF Typed
    <2>4. QED
      BY <1>2, <2>1, <2>2, <2>3 DEF Typed
  <1>5. ASSUME NEW a \in Accounts, NEW m \in Maps, pc_autosave(a, m)
        PROVE  Typed'
    <2>1. storage[m][a] \in Copies
      BY DEF Typed
    <2>2. /\ toChar' \in [Maps -> Seq(Loads \cup SavesOf)]
          /\ \A k \in Maps : Len(toChar'[k]) <= MaxQueue
      BY <1>5, <2>1, SavedIs DEF pc_autosave
    <2>3. QED
      BY <1>5, <2>2 DEF pc_autosave, Typed
  <1>6. ASSUME NEW a \in Accounts, storage_storageopen(a)
        PROVE  Typed'
    <2>1. at[a] \in Maps /\ storage \in [Maps -> [Accounts -> Copies]] /\ storage[at[a]][a] \in Copies
      BY <1>6 DEF storage_storageopen, Typed
    <2>2. UNCHANGED <<char_storage, toMap, present, at, goods, cart, home>> /\ upset' \subseteq Accounts
      BY <1>6 DEF storage_storageopen, Typed
    <2>3. CASE storage' = [storage EXCEPT ![at[a]][a].status = 1] /\ UNCHANGED toChar
      <3>1. [storage[at[a]][a] EXCEPT !.status = 1] \in Copies
        BY <2>1 DEF Copies
      <3>2. storage' \in [Maps -> [Accounts -> Copies]]
        BY <2>1, <2>3, <3>1
      <3>3. QED
        BY <2>2, <2>3, <3>2 DEF Typed
    <2>4. CASE UNCHANGED storage /\ Len(toChar[at[a]]) < MaxQueue
               /\ toChar' = [toChar EXCEPT ![at[a]] = Append(@, [kind |-> "load", account |-> a])]
      <3>1. [kind |-> "load", account |-> a] \in Loads \cup SavesOf
        BY DEF Loads
      <3>2. PICK x : x = [kind |-> "load", account |-> a]
        OBVIOUS
      <3>3. Queues(Loads \cup SavesOf, toChar) /\ SentOn(toChar, at[a], x, toChar')
        BY <2>4, <3>2 DEF Typed, Queues, SentOn
      <3>4. Queues(Loads \cup SavesOf, toChar')
        BY <2>1, <2>4, <3>1, <3>2, <3>3, Sent
      <3>5. QED
        BY <2>2, <2>4, <3>4 DEF Typed, Queues
    <2>5. QED
      BY <1>6, <2>3, <2>4 DEF storage_storageopen
  <1>7. ASSUME NEW m \in Maps, NEW p, ReadOn(toChar, m, p, toChar')
        PROVE  /\ p \in Loads \cup SavesOf /\ p.account \in Accounts
               /\ toChar' \in [Maps -> Seq(Loads \cup SavesOf)]
               /\ \A k \in Maps : Len(toChar'[k]) <= MaxQueue
    <2>1. Queues(Loads \cup SavesOf, toChar)
      BY DEF Typed, Queues
    <2>2. Queues(Loads \cup SavesOf, toChar') /\ p \in Loads \cup SavesOf
      BY <1>7, <2>1, Received
    <2>3. QED
      BY <2>2 DEF Loads, SavesOf, Queues
  <1>8. ASSUME NEW m \in Maps, LoadStorage(m)
        PROVE  Typed'
    <2>1. PICK p : p = Head(toChar[m])
      OBVIOUS
    <2>2. /\ toChar[m] # <<>> /\ p.kind = "load" /\ Len(toMap[m]) < MaxQueue
          /\ toMap' = [toMap EXCEPT ![m] =
               Append(@, [kind |-> "data", account |-> p.account, box |-> char_storage[p.account]])]
          /\ toChar' = [toChar EXCEPT ![m] = Tail(@)]
          /\ upset' = upset \/ upset' = upset \cup {p.account}
          /\ UNCHANGED <<storage, char_storage, present, at, goods, cart, home>>
      BY <1>8, <2>1 DEF LoadStorage
    <2>3. p.account \in Accounts
      BY <1>7, <2>1, <2>2 DEF ReadOn
    <2>4. PICK x : x = [kind |-> "data", account |-> p.account, box |-> char_storage[p.account]]
      OBVIOUS
    <2>5. x \in Datas
      BY <2>3, <2>4 DEF Datas, Typed
    <2>6. /\ toMap' \in [Maps -> Seq(Datas)]
          /\ \A k \in Maps : Len(toMap'[k]) <= MaxQueue
      <3>1. Queues(Datas, toMap) /\ SentOn(toMap, m, x, toMap')
        BY <2>2, <2>4 DEF Typed, Queues, SentOn
      <3>2. Queues(Datas, toMap')
        BY <2>2, <2>5, <3>1, Sent
      <3>3. QED
        BY <3>2 DEF Queues
    <2>7. /\ toChar' \in [Maps -> Seq(Loads \cup SavesOf)]
          /\ \A k \in Maps : Len(toChar'[k]) <= MaxQueue
      BY <1>7, <2>1, <2>2 DEF ReadOn
    <2>8. QED
      BY <2>2, <2>3, <2>6, <2>7 DEF Typed
  <1>9. ASSUME NEW m \in Maps, SaveStorage(m)
        PROVE  Typed'
    <2>1. PICK p : p = Head(toChar[m])
      OBVIOUS
    <2>2. /\ toChar[m] # <<>> /\ p.kind = "save"
          /\ char_storage' = [char_storage EXCEPT ![p.account] = p.box]
          /\ toChar' = [toChar EXCEPT ![m] = Tail(@)]
          /\ upset' = upset \/ upset' = upset \cup {p.account}
          /\ UNCHANGED <<storage, toMap, present, at, goods, cart, home>>
      BY <1>9, <2>1 DEF SaveStorage
    <2>3. p.account \in Accounts /\ p.box \in SoundBoxes(MAX_STORAGE)
      <3>1. p \in Loads \cup SavesOf /\ p.account \in Accounts
        BY <1>7, <2>1, <2>2 DEF ReadOn
      <3>2. QED
        BY <2>2, <3>1 DEF Loads, SavesOf
    <2>4. char_storage' \in [Accounts -> SoundBoxes(MAX_STORAGE)]
      BY <2>2, <2>3 DEF Typed
    <2>5. /\ toChar' \in [Maps -> Seq(Loads \cup SavesOf)]
          /\ \A k \in Maps : Len(toChar'[k]) <= MaxQueue
      BY <1>7, <2>1, <2>2 DEF ReadOn
    <2>6. QED
      BY <2>2, <2>3, <2>4, <2>5 DEF Typed
  <1>10. ASSUME NEW m \in Maps, intif_parse_LoadStorage(m)
         PROVE  Typed'
    <2>1. PICK p : p = Head(toMap[m])
      OBVIOUS
    <2>2. /\ toMap[m] # <<>>
          /\ storage' = [storage EXCEPT ![m][p.account] = Loaded(p.account, m, p.box)]
          /\ home' = [home EXCEPT ![p.account] = IF p.account \in present[m] THEN m ELSE @]
          /\ toMap' = [toMap EXCEPT ![m] = Tail(@)]
          /\ UNCHANGED <<char_storage, toChar, present, at, goods, cart, upset>>
      BY <1>10, <2>1 DEF intif_parse_LoadStorage
    <2>3. /\ toMap' \in [Maps -> Seq(Datas)] /\ p \in Datas
          /\ \A k \in Maps : Len(toMap'[k]) <= MaxQueue
      <3>1. Queues(Datas, toMap) /\ ReadOn(toMap, m, p, toMap')
        BY <2>1, <2>2 DEF Typed, Queues, ReadOn
      <3>2. Queues(Datas, toMap') /\ p \in Datas
        BY <2>1, <2>2, <3>1, Received
      <3>3. QED
        BY <3>2 DEF Queues
    <2>4. p.account \in Accounts /\ p.box \in SoundBoxes(MAX_STORAGE)
      BY <2>3 DEF Datas
    <2>5. Loaded(p.account, m, p.box) \in Copies
      <3>1. [status |-> 1, box |-> p.box] \in Copies
        BY <2>4 DEF Copies
      <3>2. storage[m][p.account] \in Copies
        BY <2>4 DEF Typed
      <3>3. QED
        BY <3>1, <3>2, BlankIs DEF Loaded
    <2>6. storage' \in [Maps -> [Accounts -> Copies]] /\ home' \in [Accounts -> Maps \cup {Nowhere}]
      BY <2>2, <2>4, <2>5 DEF Typed
    <2>7. QED
      BY <2>2, <2>3, <2>6 DEF Typed
  <1>11. ASSUME NEW a \in Accounts, storage_storageclose(a)
         PROVE  Typed'
    <2>1. at[a] \in Maps /\ storage \in [Maps -> [Accounts -> Copies]] /\ storage[at[a]][a] \in Copies
      BY <1>11 DEF storage_storageclose, Typed
    <2>2. [storage[at[a]][a] EXCEPT !.status = 0] \in Copies
      BY <2>1 DEF Copies
    <2>3. storage' \in [Maps -> [Accounts -> Copies]]
      BY <1>11, <2>1, <2>2 DEF storage_storageclose
    <2>4. QED
      BY <1>11, <2>3 DEF storage_storageclose, Typed
  <1>12. ASSUME NEW a \in Accounts, NEW amount \in Amounts, MoveStep(a, amount)
         PROVE  Typed'
    <2>1. PICK box, g, c : Moved(a, box, g, c)
      BY <1>12, MovesAre
    <2>2. at[a] \in Maps /\ storage \in [Maps -> [Accounts -> Copies]] /\ storage[at[a]][a] \in Copies
      BY <2>1 DEF Moved, Typed
    <2>3. [storage[at[a]][a] EXCEPT !.box = box] \in Copies
      BY <2>1, <2>2 DEF Copies, Moved
    <2>4. storage' \in [Maps -> [Accounts -> Copies]]
      BY <2>1, <2>2, <2>3 DEF Moved
    <2>5. goods' \in [Accounts -> SoundGoods] /\ cart' \in [Accounts -> SoundCarts]
      BY <2>1 DEF Moved, Typed
    <2>6. QED
      BY <2>1, <2>4, <2>5 DEF Moved, Typed
  <1>13. CASE UNCHANGED vars
    BY <1>13 DEF vars, Typed
  <1>14. QED
    BY <1>1, <1>3, <1>4, <1>5, <1>6, <1>8, <1>9, <1>10, <1>11, <1>12, <1>13 DEF Next, MoveStep

(***************************************************************************)
(* The packets of one account and kind on a link: how many there are, what *)
(* they carry, and what the last of them carries.                          *)
(***************************************************************************)
Single(q, a, kind)    == \A i, j \in Packets(q, a, kind) : i = j
Shows(q, a, kind, v)  == \A i \in Packets(q, a, kind) : q[i].box = v
EndsIn(q, a, kind, v) == \A i \in Packets(q, a, kind) :
                           (\A j \in Packets(q, a, kind) : j <= i) => q[i].box = v

Alike(q, new, a, kind) ==
  /\ Packets(new, a, kind) = {} <=> Packets(q, a, kind) = {}
  /\ Single(q, a, kind) => Single(new, a, kind)
  /\ \A v : /\ Shows(q, a, kind, v) => Shows(new, a, kind, v)
            /\ EndsIn(q, a, kind, v) => EndsIn(new, a, kind, v)

IsMine(x, a, kind) == x.account = a /\ x.kind = kind
Sends(S, q, x, new) == q \in Seq(S) /\ new = Append(q, x)
Reads(S, q, new)    == q \in Seq(S) /\ q # <<>> /\ new = Tail(q)

LEMMA AlikeSame == \A q, a, kind : Alike(q, q, a, kind)
  BY DEF Alike

LEMMA AlikeSent ==
  ASSUME NEW S, NEW q, NEW x, NEW new, Sends(S, q, x, new), NEW a, NEW kind,
         ~IsMine(x, a, kind)
  PROVE  Alike(q, new, a, kind)
  <1>1. Len(q) \in Nat /\ DOMAIN q = 1 .. Len(q) /\ DOMAIN new = 1 .. (Len(q) + 1)
        /\ new[Len(q) + 1] = x /\ \A i \in DOMAIN q : new[i] = q[i]
    BY DEF Sends
  <1>2. Packets(new, a, kind) = Packets(q, a, kind)
    BY <1>1 DEF Packets, IsMine
  <1>3. \A i \in Packets(q, a, kind) : new[i] = q[i]
    BY <1>1 DEF Packets
  <1>4. QED
    BY <1>2, <1>3 DEF Alike, Single, Shows, EndsIn

LEMMA SentMine ==
  ASSUME NEW S, NEW q, NEW x, NEW new, Sends(S, q, x, new), NEW a, NEW kind,
         IsMine(x, a, kind)
  PROVE  /\ Packets(new, a, kind) # {} /\ EndsIn(new, a, kind, x.box)
         /\ Packets(q, a, kind) = {} => Single(new, a, kind) /\ Shows(new, a, kind, x.box)
  <1>1. Len(q) \in Nat /\ DOMAIN q = 1 .. Len(q) /\ DOMAIN new = 1 .. (Len(q) + 1)
        /\ new[Len(q) + 1] = x /\ \A i \in DOMAIN q : new[i] = q[i]
    BY DEF Sends
  <1>2. Packets(new, a, kind) = Packets(q, a, kind) \cup {Len(q) + 1}
    BY <1>1 DEF Packets, IsMine
  <1>3. \A i \in Packets(q, a, kind) : i \in Nat /\ i < Len(q) + 1
    BY <1>1 DEF Packets
  <1>4. ASSUME NEW i \in Packets(new, a, kind), \A j \in Packets(new, a, kind) : j <= i
        PROVE  new[i].box = x.box
    <2>1. Len(q) + 1 <= i /\ (i = Len(q) + 1 \/ i < Len(q) + 1) /\ i \in Nat
      BY <1>1, <1>2, <1>3, <1>4
    <2>2. i = Len(q) + 1
      BY <1>1, <2>1
    <2>3. QED
      BY <1>1, <2>2
  <1>5. EndsIn(new, a, kind, x.box)
    BY <1>4 DEF EndsIn
  <1>6. Packets(q, a, kind) = {} => Single(new, a, kind) /\ Shows(new, a, kind, x.box)
    BY <1>1, <1>2 DEF Single, Shows
  <1>7. QED
    BY <1>2, <1>5, <1>6

(* Reading the first packet moves the others down by one. *)
LEMMA ReadMoves ==
  ASSUME NEW S, NEW q, NEW new, Reads(S, q, new), NEW a, NEW kind
  PROVE  /\ \A i \in Packets(new, a, kind) :
              /\ i \in Nat /\ i >= 1 /\ i + 1 \in Packets(q, a, kind) /\ new[i] = q[i + 1]
         /\ \A i \in Packets(q, a, kind) :
              /\ i \in Nat /\ i >= 1 /\ (i # 1 => i - 1 \in Packets(new, a, kind))
         /\ 1 \in Packets(q, a, kind) <=> IsMine(Head(q), a, kind)
  <1>1. Len(q) \in Nat /\ Len(q) > 0 /\ DOMAIN q = 1 .. Len(q) /\ DOMAIN new = 1 .. (Len(q) - 1)
        /\ Head(q) = q[1] /\ \A i \in 1 .. (Len(q) - 1) : new[i] = q[i + 1]
    BY DEF Reads
  <1>2. QED
    BY <1>1 DEF Packets, IsMine

LEMMA AlikeRead ==
  ASSUME NEW S, NEW q, NEW new, Reads(S, q, new), NEW a, NEW kind,
         ~IsMine(Head(q), a, kind)
  PROVE  Alike(q, new, a, kind)
  <1>1. /\ \A i \in Packets(new, a, kind) :
              /\ i \in Nat /\ i >= 1 /\ i + 1 \in Packets(q, a, kind) /\ new[i] = q[i + 1]
        /\ \A i \in Packets(q, a, kind) :
              /\ i \in Nat /\ i >= 1 /\ i - 1 \in Packets(new, a, kind)
    <2>1. /\ \A i \in Packets(new, a, kind) :
               /\ i \in Nat /\ i >= 1 /\ i + 1 \in Packets(q, a, kind) /\ new[i] = q[i + 1]
          /\ \A i \in Packets(q, a, kind) :
               /\ i \in Nat /\ i >= 1 /\ (i # 1 => i - 1 \in Packets(new, a, kind))
          /\ 1 \in Packets(q, a, kind) <=> IsMine(Head(q), a, kind)
      BY ReadMoves
    <2>2. QED
      BY <2>1
  <1>2. Packets(new, a, kind) = {} <=> Packets(q, a, kind) = {}
    BY <1>1
  <1>3. Single(q, a, kind) => Single(new, a, kind)
    BY <1>1 DEF Single
  <1>4. ASSUME NEW v, EndsIn(q, a, kind, v)
        PROVE  EndsIn(new, a, kind, v)
    <2>1. ASSUME NEW i \in Packets(new, a, kind), \A j \in Packets(new, a, kind) : j <= i
          PROVE  new[i].box = v
      <3>1. ASSUME NEW j \in Packets(q, a, kind)
            PROVE  j <= i + 1
        <4>1. i \in Nat /\ i >= 1 /\ j \in Nat /\ j >= 1 /\ (j # 1 => j - 1 <= i)
          BY <1>1, <2>1
        <4>2. QED
          BY <4>1
      <3>2. QED
        BY <1>1, <1>4, <3>1 DEF EndsIn
    <2>2. QED
      BY <2>1 DEF EndsIn
  <1>5. \A v : Shows(q, a, kind, v) => Shows(new, a, kind, v)
    BY <1>1 DEF Shows
  <1>6. QED
    BY <1>2, <1>3, <1>4, <1>5 DEF Alike

LEMMA ReadMine ==
  ASSUME NEW S, NEW q, NEW new, Reads(S, q, new), NEW a, NEW kind,
         IsMine(Head(q), a, kind)
  PROVE  /\ Packets(q, a, kind) # {}
         /\ Single(q, a, kind) => Packets(new, a, kind) = {}
         /\ \A v : /\ Shows(q, a, kind, v) => Head(q).box = v
                   /\ EndsIn(q, a, kind, v) => EndsIn(new, a, kind, v)
                   /\ EndsIn(q, a, kind, v) /\ Packets(new, a, kind) = {} => Head(q).box = v
  <1>1. /\ \A i \in Packets(new, a, kind) :
              /\ i \in Nat /\ i >= 1 /\ i + 1 \in Packets(q, a, kind) /\ new[i] = q[i + 1]
        /\ \A i \in Packets(q, a, kind) :
              /\ i \in Nat /\ i >= 1 /\ (i # 1 => i - 1 \in Packets(new, a, kind))
        /\ 1 \in Packets(q, a, kind) /\ Head(q) = q[1]
    <2>1. Head(q) = q[1]
      BY DEF Reads
    <2>2. QED
      BY <2>1, ReadMoves
  <1>2. Single(q, a, kind) => Packets(new, a, kind) = {}
    BY <1>1 DEF Single
  <1>3. ASSUME NEW v, EndsIn(q, a, kind, v)
        PROVE  EndsIn(new, a, kind, v)
    <2>1. ASSUME NEW i \in Packets(new, a, kind), \A j \in Packets(new, a, kind) : j <= i
          PROVE  new[i].box = v
      <3>1. ASSUME NEW j \in Packets(q, a, kind)
            PROVE  j <= i + 1
        <4>1. i \in Nat /\ i >= 1 /\ j \in Nat /\ j >= 1 /\ (j # 1 => j - 1 <= i)
          BY <1>1, <2>1
        <4>2. QED
          BY <4>1
      <3>2. QED
        BY <1>1, <1>3, <3>1 DEF EndsIn
    <2>2. QED
      BY <2>1 DEF EndsIn
  <1>4. ASSUME NEW v, EndsIn(q, a, kind, v), Packets(new, a, kind) = {}
        PROVE  Head(q).box = v
    <2>1. ASSUME NEW j \in Packets(q, a, kind)
          PROVE  j <= 1
      <3>1. j = 1
        BY <1>1, <1>4
      <3>2. QED
        BY <3>1
    <2>2. QED
      BY <1>1, <1>4, <2>1 DEF EndsIn
  <1>5. \A v : Shows(q, a, kind, v) => Head(q).box = v
    BY <1>1 DEF Shows
  <1>6. QED
    BY <1>1, <1>2, <1>3, <1>4, <1>5

LEMMA LinksSent ==
  ASSUME NEW S, NEW q, Queues(S, q), NEW m \in Maps, NEW x, NEW new, SentOn(q, m, x, new),
         NEW a, NEW kind
  PROVE  /\ \A k \in Maps : k # m \/ ~IsMine(x, a, kind) => Alike(q[k], new[k], a, kind)
         /\ IsMine(x, a, kind) =>
              /\ Packets(new[m], a, kind) # {} /\ EndsIn(new[m], a, kind, x.box)
              /\ Packets(q[m], a, kind) = {} =>
                   Single(new[m], a, kind) /\ Shows(new[m], a, kind, x.box)
  <1>1. /\ q \in [Maps -> Seq(S)] /\ Sends(S, q[m], x, new[m])
        /\ \A k \in Maps : k # m => new[k] = q[k]
    BY DEF Queues, SentOn, Sends
  <1>2. QED
    BY <1>1, AlikeSame, AlikeSent, SentMine

LEMMA LinksRead ==
  ASSUME NEW S, NEW q, Queues(S, q), NEW m \in Maps, NEW p, NEW new,
         ReadOn(q, m, p, new), NEW a, NEW kind
  PROVE  /\ \A k \in Maps : k # m \/ ~IsMine(p, a, kind) => Alike(q[k], new[k], a, kind)
         /\ IsMine(p, a, kind) =>
              /\ Packets(q[m], a, kind) # {}
              /\ Single(q[m], a, kind) => Packets(new[m], a, kind) = {}
              /\ \A v : /\ Shows(q[m], a, kind, v) => p.box = v
                        /\ EndsIn(q[m], a, kind, v) => EndsIn(new[m], a, kind, v)
                        /\ EndsIn(q[m], a, kind, v) /\ Packets(new[m], a, kind) = {}
                             => p.box = v
  <1>1. /\ q \in [Maps -> Seq(S)] /\ Reads(S, q[m], new[m]) /\ p = Head(q[m])
        /\ \A k \in Maps : k # m => new[k] = q[k]
    BY DEF Queues, ReadOn, Reads
  <1>2. QED
    BY <1>1, AlikeSame, AlikeRead, ReadMine

(***************************************************************************)
(* What holds of an account the promise covers.  It has one question under *)
(* way at most, on the link of the server it plays on, which has no copy;  *)
(* the answer is the storage it has.  A copy is open only where it plays,  *)
(* and there it is the one the account has.  The server that took the      *)
(* storage keeps its copy, and once the account plays elsewhere the last   *)
(* save on that link is that copy - or, with none under way, the char      *)
(* server's storage is.                                                    *)
(***************************************************************************)
Asks(a, m) ==
  /\ Asked(a, m) => at[a] = m /\ ~Cached(a, m)
  /\ Single(toChar[m], a, "load") /\ Single(toMap[m], a, "data")
  /\ Packets(toChar[m], a, "load") = {} \/ Packets(toMap[m], a, "data") = {}
  /\ Shows(toMap[m], a, "data", Current(a))

Opens(a, m) == storage[m][a].status = 1 => at[a] = m /\ home[a] = m

Saved(a, m) == /\ Packets(toChar[m], a, "save") = {} => char_storage[a] = Current(a)
               /\ EndsIn(toChar[m], a, "save", Current(a))

Saves(a) == home[a] # Nowhere => /\ Cached(a, home[a])
                                 /\ at[a] # home[a] => Saved(a, home[a])

Kept(a) == \A id \in Items : Held(a, id) + BoxTotal(Current(a), id)
                             = Total(InitGoods[a], id) + BoxTotal(InitStorage[a], id)

Covered(a) == (\A m \in Maps : Asks(a, m) /\ Opens(a, m)) /\ Saves(a) /\ Kept(a)

CoveredAll == \A a \in Accounts \ upset : Covered(a)

(* A step in which only packets of the account, or nothing of it, move. *)
AlikeLinks(a, kind) ==
  \A k \in Maps : IF kind = "data" THEN Alike(toMap[k], toMap'[k], a, kind)
                  ELSE Alike(toChar[k], toChar'[k], a, kind)

Unseen(a) ==
  /\ \A k \in Maps : storage'[k][a] = storage[k][a]
  /\ char_storage'[a] = char_storage[a] /\ at'[a] = at[a] /\ home'[a] = home[a]
  /\ goods'[a] = goods[a] /\ cart'[a] = cart[a]
  /\ AlikeLinks(a, "load") /\ AlikeLinks(a, "save") /\ AlikeLinks(a, "data")

LEMMA UnseenKeeps ==
  ASSUME Typed, NEW a \in Accounts, Covered(a), Unseen(a)
  PROVE  Covered(a)'
  <1>1. home[a] \in Maps \cup {Nowhere} /\ home'[a] = home[a]
    BY DEF Typed, Unseen
  <1>2. Current(a)' = Current(a) /\ Kept(a)'
    BY <1>1 DEF Unseen, Current, Held, Covered, Kept
  <1>3. ASSUME NEW m \in Maps
        PROVE  Asks(a, m)' /\ Opens(a, m)'
    <2>1. /\ Asks(a, m) /\ Opens(a, m) /\ storage'[m][a] = storage[m][a] /\ at'[a] = at[a]
          /\ Alike(toChar[m], toChar'[m], a, "load") /\ Alike(toMap[m], toMap'[m], a, "data")
      BY DEF Covered, Unseen, AlikeLinks
    <2>2. Opens(a, m)'
      BY <1>1, <2>1 DEF Opens
    <2>3. Asked(a, m)' <=> Asked(a, m)
      BY <2>1 DEF Asked, Alike
    <2>4. Shows(toMap[m], a, "data", Current(a))'
      BY <1>2, <2>1 DEF Asks, Alike
    <2>5. Asks(a, m)'
      BY <2>1, <2>3, <2>4 DEF Asks, Alike, Cached
    <2>6. QED
      BY <2>2, <2>5
  <1>4. Saves(a)'
    <2>1. ASSUME home[a] # Nowhere, at[a] # home[a]
          PROVE  Saved(a, home[a])'
      <3>1. PICK h \in Maps : h = home[a] /\ h = home'[a]
        BY <1>1, <2>1
      <3>2. Saved(a, h) /\ Alike(toChar[h], toChar'[h], a, "save")
        BY <2>1, <3>1 DEF Covered, Saves, Unseen, AlikeLinks
      <3>3. EndsIn(toChar[h], a, "save", Current(a))'
        BY <1>2, <3>2 DEF Saved, Alike
      <3>4. QED
        BY <1>1, <1>2, <3>1, <3>2, <3>3 DEF Saved, Alike, Unseen
    <2>2. QED
      BY <1>1, <2>1 DEF Covered, Saves, Unseen, Cached
  <1>5. QED
    BY <1>2, <1>3, <1>4 DEF Covered

LEMMA LinksStay ==
  ASSUME NEW a
  PROVE  /\ toChar' = toChar => AlikeLinks(a, "load") /\ AlikeLinks(a, "save")
         /\ toMap' = toMap => AlikeLinks(a, "data")
  BY AlikeSame DEF AlikeLinks

(* As long as no box changes, the account keeps what it has. *)
SameBoxes(a) ==
  /\ \A k \in Maps : storage'[k][a].box = storage[k][a].box
  /\ home'[a] = home[a] /\ (home[a] = Nowhere => char_storage'[a] = char_storage[a])
  /\ goods'[a] = goods[a] /\ cart'[a] = cart[a]

LEMMA BoxesKeep ==
  ASSUME Typed, NEW a \in Accounts, Covered(a), SameBoxes(a)
  PROVE  Current(a)' = Current(a) /\ Kept(a)'
  <1>1. home[a] \in Maps \cup {Nowhere}
    BY DEF Typed
  <1>2. Current(a)' = Current(a)
    BY <1>1 DEF Current, SameBoxes
  <1>3. QED
    BY <1>2 DEF Kept, Held, Covered, SameBoxes

(* A copy that is sent is the last on its link, and nothing else moves there. *)
LEMMA SavesSent ==
  ASSUME Typed, NEW c \in Accounts, NEW m \in Maps, NEW copy \in Copies,
         storage_storage_save(c, m, copy), NEW a \in Accounts
  PROVE  /\ AlikeLinks(a, "load")
         /\ \A k \in Maps : a # c \/ k # m \/ copy.status = -1
                             => Alike(toChar[k], toChar'[k], a, "save")
         /\ a = c /\ copy.status # -1 => /\ Packets(toChar'[m], a, "save") # {}
                                         /\ EndsIn(toChar'[m], a, "save", copy.box)
  <1>1. CASE copy.status = -1
    BY <1>1, AlikeSame DEF storage_storage_save, AlikeLinks
  <1>2. CASE copy.status # -1
    <2>1. PICK x : x = [kind |-> "save", account |-> c, box |-> copy.box]
      OBVIOUS
    <2>2. SentOn(toChar, m, x, toChar') /\ Queues(Loads \cup SavesOf, toChar)
      BY <1>2, <2>1 DEF storage_storage_save, SentOn, Typed, Queues
    <2>3. /\ \A kind : IsMine(x, a, kind) <=> a = c /\ kind = "save"
          /\ x.box = copy.box
      BY <2>1 DEF IsMine
    <2>4. \A k \in Maps : Alike(toChar[k], toChar'[k], a, "load")
      BY <2>2, <2>3, LinksSent
    <2>5. /\ \A k \in Maps : k # m \/ a # c => Alike(toChar[k], toChar'[k], a, "save")
          /\ a = c => /\ Packets(toChar'[m], a, "save") # {}
                      /\ EndsIn(toChar'[m], a, "save", copy.box)
      BY <2>2, <2>3, LinksSent
    <2>6. QED
      BY <1>2, <2>4, <2>5 DEF AlikeLinks
  <1>3. QED
    BY <1>1, <1>2

(***************************************************************************)
(* One lemma for each action: an account it leaves covered stays as above. *)
(***************************************************************************)
LEMMA EnterCovers ==
  ASSUME Typed, NEW c \in Accounts, NEW m \in Maps, Enter(c, m), NEW a \in Accounts, Covered(a)
  PROVE  Covered(a)'
  <1>1. /\ storage' = storage /\ char_storage' = char_storage /\ toChar' = toChar /\ toMap' = toMap
        /\ goods' = goods /\ cart' = cart /\ home' = home /\ at[c] = Nowhere
        /\ at' = [at EXCEPT ![c] = m] /\ at \in [Accounts -> Maps \cup {Nowhere}]
    BY DEF Enter, netVars, Typed
  <1>2. CASE a # c
    <2>1. Unseen(a)
      BY <1>1, <1>2, LinksStay DEF Unseen
    <2>2. QED
      BY <2>1, UnseenKeeps
  <1>3. CASE a = c
    <2>1. Current(a)' = Current(a) /\ Kept(a)'
      BY <1>1, BoxesKeep DEF SameBoxes
    <2>2. ASSUME NEW k \in Maps
          PROVE  Asks(a, k)' /\ Opens(a, k)'
      <3>1. Asks(a, k) /\ Opens(a, k) /\ at[a] # k
        BY <1>1, <1>3, StorageAssumption DEF Covered
      <3>2. ~Asked(a, k) /\ storage[k][a].status # 1
        BY <3>1 DEF Asks, Opens
      <3>3. QED
        BY <1>1, <2>1, <3>1, <3>2 DEF Asks, Opens, Asked
    <2>3. Saves(a)'
      BY <1>1, <1>3, <2>1 DEF Covered, Saves, Saved, Cached
    <2>4. QED
      BY <2>1, <2>2, <2>3 DEF Covered
  <1>4. QED
    BY <1>2, <1>3

LEMMA PutAwayCovers ==
  ASSUME Typed, NEW c \in Accounts, NEW m \in Maps, PutAway(c, m),
         at' = (IF at[c] = m THEN [at EXCEPT ![c] = Nowhere] ELSE at),
         NEW a \in Accounts \ upset', Covered(a)
  PROVE  Covered(a)'
  <1>1. PICK copy : copy = Shut(storage[m][c])
    OBVIOUS
  <1>2. /\ storage \in [Maps -> [Accounts -> Copies]] /\ storage[m][c] \in Copies
        /\ at \in [Accounts -> Maps \cup {Nowhere}] /\ home[a] \in Maps \cup {Nowhere}
    BY DEF Typed
  <1>3. /\ copy \in Copies /\ copy.box = storage[m][c].box /\ copy.status \in {-1, 0}
        /\ (copy.status = -1 <=> storage[m][c].status = -1)
    BY <1>1, <1>2, CopiesAre
  <1>4. /\ storage' = [storage EXCEPT ![m][c] = copy] /\ storage_storage_save(c, m, copy)
        /\ upset' = (IF Asked(c, m) THEN upset \cup {c} ELSE upset)
        /\ char_storage' = char_storage /\ toMap' = toMap
        /\ goods' = goods /\ cart' = cart /\ home' = home
    BY <1>1 DEF PutAway
  <1>5. /\ AlikeLinks(a, "load") /\ AlikeLinks(a, "data")
        /\ \A k \in Maps : a # c \/ k # m \/ copy.status = -1
                            => Alike(toChar[k], toChar'[k], a, "save")
        /\ a = c /\ copy.status # -1 => /\ Packets(toChar'[m], a, "save") # {}
                                        /\ EndsIn(toChar'[m], a, "save", copy.box)
    BY <1>3, <1>4, SavesSent, LinksStay
  <1>6. CASE a # c
    <2>1. AlikeLinks(a, "save")
      BY <1>5, <1>6 DEF AlikeLinks
    <2>2. at'[a] = at[a] /\ \A k \in Maps : storage'[k][a] = storage[k][a]
      BY <1>2, <1>4, <1>6
    <2>3. Unseen(a)
      BY <1>4, <1>5, <2>1, <2>2 DEF Unseen
    <2>4. QED
      BY <2>3, UnseenKeeps
  <1>7. CASE a = c
    <2>1. /\ storage'[m][a] = copy /\ \A k \in Maps : k # m => storage'[k][a] = storage[k][a]
          /\ at'[a] = (IF at[a] = m THEN Nowhere ELSE at[a]) /\ ~Asked(a, m)
      BY <1>2, <1>4, <1>7
    <2>2. Current(a)' = Current(a) /\ Kept(a)'
      BY <1>3, <1>4, <1>7, <2>1, BoxesKeep DEF SameBoxes
    <2>3. ASSUME NEW k \in Maps
          PROVE  Asks(a, k)' /\ Opens(a, k)'
      <3>1. /\ Asks(a, k) /\ Opens(a, k) /\ Alike(toChar[k], toChar'[k], a, "load")
            /\ Alike(toMap[k], toMap'[k], a, "data")
        BY <1>5 DEF Covered, AlikeLinks
      <3>2. Asked(a, k)' => k # m /\ at[a] = k /\ storage[k][a].status = -1
        BY <2>1, <3>1 DEF Asked, Alike, Asks, Cached
      <3>3. Asked(a, k)' => at'[a] = k /\ ~Cached(a, k)'
        BY <2>1, <3>2 DEF Cached
      <3>4. Shows(toMap[k], a, "data", Current(a))'
        BY <2>2, <3>1 DEF Asks, Alike
      <3>5. Asks(a, k)'
        BY <3>1, <3>3, <3>4 DEF Asks, Alike
      <3>6. Opens(a, k)'
        BY <1>3, <1>4, <2>1, <3>1, StorageAssumption DEF Opens
      <3>7. QED
        BY <3>5, <3>6
    <2>4. ASSUME home[a] # Nowhere
          PROVE  Cached(a, home[a])' /\ (at'[a] # home[a] => Saved(a, home[a])')
      <3>1. PICK h \in Maps : h = home[a]
        BY <1>2, <2>4
      <3>2. Cached(a, h) /\ (at[a] # h => Saved(a, h))
        BY <2>4, <3>1 DEF Covered, Saves
      <3>3. Cached(a, h)' /\ home'[a] = h
        BY <1>3, <1>4, <1>7, <2>1, <3>1, <3>2 DEF Cached
      <3>4. CASE h = m
        <4>1. copy.status # -1 /\ copy.box = Current(a)
          BY <1>2, <1>3, <1>7, <3>1, <3>2, <3>4, StorageAssumption DEF Cached, Current
        <4>2. Saved(a, h)'
          BY <1>5, <1>7, <2>2, <3>4, <4>1 DEF Saved
        <4>3. QED
          BY <3>1, <3>3, <4>2
      <3>5. CASE h # m
        <4>1. Alike(toChar[h], toChar'[h], a, "save")
          BY <1>5, <3>5
        <4>2. at[a] # h => Saved(a, h)'
          BY <1>4, <2>2, <3>2, <4>1 DEF Saved, Alike
        <4>3. at'[a] # h => at[a] # h
          BY <2>1, <3>5
        <4>4. QED
          BY <3>1, <3>3, <4>2, <4>3
      <3>6. QED
        BY <3>4, <3>5
    <2>5. Saves(a)'
      BY <1>4, <2>4 DEF Saves
    <2>6. QED
      BY <2>2, <2>3, <2>5 DEF Covered
  <1>8. QED
    BY <1>6, <1>7

LEMMA AutosaveCovers ==
  ASSUME Typed, NEW c \in Accounts, NEW m \in Maps, pc_autosave(c, m), NEW a \in Accounts, Covered(a)
  PROVE  Covered(a)'
  <1>1. PICK copy : copy = storage[m][c]
    OBVIOUS
  <1>2. /\ copy \in Copies /\ copy.status # -1 /\ storage_storage_save(c, m, copy)
        /\ storage' = storage /\ char_storage' = char_storage /\ toMap' = toMap /\ at' = at
        /\ goods' = goods /\ cart' = cart /\ home' = home /\ home[a] \in Maps \cup {Nowhere}
    BY <1>1 DEF pc_autosave, Cached, Typed
  <1>3. /\ AlikeLinks(a, "load") /\ AlikeLinks(a, "data")
        /\ \A k \in Maps : a # c \/ k # m => Alike(toChar[k], toChar'[k], a, "save")
        /\ a = c => /\ Packets(toChar'[m], a, "save") # {}
                    /\ EndsIn(toChar'[m], a, "save", copy.box)
    BY <1>2, SavesSent, LinksStay
  <1>4. CASE a # c
    <2>1. AlikeLinks(a, "save")
      BY <1>3, <1>4 DEF AlikeLinks
    <2>2. Unseen(a)
      BY <1>2, <1>3, <2>1 DEF Unseen
    <2>3. QED
      BY <2>2, UnseenKeeps
  <1>5. CASE a = c
    <2>1. Current(a)' = Current(a) /\ Kept(a)'
      BY <1>2, BoxesKeep DEF SameBoxes
    <2>2. ASSUME NEW k \in Maps
          PROVE  Asks(a, k)' /\ Opens(a, k)'
      <3>1. /\ Asks(a, k) /\ Opens(a, k) /\ Alike(toChar[k], toChar'[k], a, "load")
            /\ Alike(toMap[k], toMap'[k], a, "data")
        BY <1>3 DEF Covered, AlikeLinks
      <3>2. Asked(a, k)' => at'[a] = k /\ ~Cached(a, k)'
        BY <1>2, <3>1 DEF Asked, Alike, Asks, Cached
      <3>3. Shows(toMap[k], a, "data", Current(a))'
        BY <2>1, <3>1 DEF Asks, Alike
      <3>4. QED
        BY <1>2, <3>1, <3>2, <3>3 DEF Asks, Alike, Opens
    <2>3. ASSUME home[a] # Nowhere
          PROVE  Cached(a, home[a])' /\ (at'[a] # home[a] => Saved(a, home[a])')
      <3>1. PICK h \in Maps : h = home[a]
        BY <1>2, <2>3
      <3>2. Cached(a, h) /\ (at[a] # h => Saved(a, h)) /\ Cached(a, h)'
        BY <1>2, <2>3, <3>1 DEF Covered, Saves, Cached
      <3>3. CASE h = m
        <4>1. copy.box = Current(a)
          BY <1>1, <1>5, <3>1, <3>3, StorageAssumption DEF Current
        <4>2. Saved(a, h)'
          BY <1>3, <1>5, <2>1, <3>3, <4>1 DEF Saved
        <4>3. QED
          BY <1>2, <3>1, <3>2, <4>2
      <3>4. CASE h # m
        <4>1. Alike(toChar[h], toChar'[h], a, "save")
          BY <1>3, <3>4
        <4>2. at[a] # h => Saved(a, h)'
          BY <1>2, <2>1, <3>2, <4>1 DEF Saved, Alike
        <4>3. QED
          BY <1>2, <3>1, <3>2, <4>2
      <3>5. QED
        BY <3>3, <3>4
    <2>4. Saves(a)'
      BY <1>2, <2>3 DEF Saves
    <2>5. QED
      BY <2>1, <2>2, <2>4 DEF Covered
  <1>6. QED
    BY <1>4, <1>5

LEMMA OpenCovers ==
  ASSUME Typed, NEW c \in Accounts, storage_storageopen(c),
         NEW a \in Accounts \ upset', Covered(a)
  PROVE  Covered(a)'
  <1>1. PICK m \in Maps : m = at[c]
    BY DEF storage_storageopen, Typed
  <1>2. /\ char_storage' = char_storage /\ toMap' = toMap /\ at' = at /\ goods' = goods
        /\ cart' = cart /\ home' = home /\ AlikeLinks(a, "data") /\ storage[m][c] \in Copies
        /\ storage \in [Maps -> [Accounts -> Copies]]
    BY LinksStay DEF storage_storageopen, Typed
  <1>3. CASE /\ Cached(c, m) /\ storage' = [storage EXCEPT ![m][c].status = 1] /\ toChar' = toChar
             /\ upset' = IF home[c] # m THEN upset \cup {c} ELSE upset
    <2>1. AlikeLinks(a, "load") /\ AlikeLinks(a, "save")
      BY <1>3, LinksStay
    <2>2. /\ storage'[m][c].status = 1 /\ storage'[m][c].box = storage[m][c].box
          /\ \A k \in Maps : k # m \/ a # c => storage'[k][a] = storage[k][a]
      BY <1>2, <1>3 DEF Copies
    <2>3. CASE a # c
      <3>1. Unseen(a)
        BY <1>2, <2>1, <2>2, <2>3 DEF Unseen
      <3>2. QED
        BY <3>1, UnseenKeeps
    <2>4. CASE a = c
      <3>1. home[a] = m /\ at[a] = m
        BY <1>1, <1>3, <2>4
      <3>2. Current(a)' = Current(a) /\ Kept(a)'
        BY <1>2, <2>2, <2>4, BoxesKeep DEF SameBoxes
      <3>3. ASSUME NEW k \in Maps
            PROVE  Asks(a, k)' /\ Opens(a, k)'
        <4>1. Asks(a, k) /\ Opens(a, k) /\ ~Asked(a, k)
          BY <1>3, <2>4, <3>1 DEF Covered, Asks
        <4>2. ~Asked(a, k)'
          BY <1>2, <1>3, <4>1 DEF Asked
        <4>3. Opens(a, k)'
          BY <1>2, <2>2, <2>4, <3>1, <4>1 DEF Opens
        <4>4. Asks(a, k)'
          BY <1>2, <1>3, <3>2, <4>1, <4>2 DEF Asks
        <4>5. QED
          BY <4>3, <4>4
      <3>4. Saves(a)'
        BY <1>2, <2>2, <2>4, <3>1 DEF Saves, Cached
      <3>5. QED
        BY <3>2, <3>3, <3>4 DEF Covered
    <2>5. QED
      BY <2>3, <2>4
  <1>4. CASE /\ ~Cached(c, m) /\ storage' = storage
             /\ toChar' = [toChar EXCEPT ![m] = Append(@, [kind |-> "load", account |-> c])]
             /\ upset' = IF Asked(c, m) THEN upset \cup {c} ELSE upset
    <2>1. PICK x : x = [kind |-> "load", account |-> c]
      OBVIOUS
    <2>2. SentOn(toChar, m, x, toChar') /\ Queues(Loads \cup SavesOf, toChar)
      BY <1>4, <2>1 DEF SentOn, Typed, Queues
    <2>3. \A kind : IsMine(x, a, kind) <=> a = c /\ kind = "load"
      BY <2>1 DEF IsMine
    <2>4. AlikeLinks(a, "save")
      BY <2>2, <2>3, LinksSent DEF AlikeLinks
    <2>5. /\ \A k \in Maps : k # m \/ a # c => Alike(toChar[k], toChar'[k], a, "load")
          /\ a = c /\ Packets(toChar[m], a, "load") = {} => Single(toChar'[m], a, "load")
      BY <2>2, <2>3, LinksSent
    <2>6. CASE a # c
      <3>1. AlikeLinks(a, "load")
        BY <2>5, <2>6 DEF AlikeLinks
      <3>2. Unseen(a)
        BY <1>2, <1>4, <2>4, <3>1 DEF Unseen
      <3>3. QED
        BY <3>2, UnseenKeeps
    <2>7. CASE a = c
      <3>1. Current(a)' = Current(a) /\ Kept(a)'
        BY <1>2, <1>4, BoxesKeep DEF SameBoxes
      <3>2. /\ ~Asked(a, m) /\ at[a] = m /\ Packets(toChar[m], a, "load") = {}
            /\ Packets(toMap[m], a, "data") = {}
        BY <1>1, <1>4, <2>7 DEF Asked
      <3>3. ASSUME NEW k \in Maps
            PROVE  Asks(a, k)' /\ Opens(a, k)'
        <4>1. Asks(a, k) /\ Opens(a, k)
          BY DEF Covered
        <4>2. Opens(a, k)'
          BY <1>2, <1>4, <4>1 DEF Opens
        <4>3. Shows(toMap[k], a, "data", Current(a))'
          BY <1>2, <3>1, <4>1 DEF Asks
        <4>4. CASE k = m
          BY <1>2, <1>4, <2>5, <2>7, <3>2, <4>1, <4>2, <4>3, <4>4 DEF Asks, Asked, Cached
        <4>5. CASE k # m
          <5>1. Alike(toChar[k], toChar'[k], a, "load")
            BY <2>5, <4>5
          <5>2. QED
            BY <1>2, <1>4, <4>1, <4>2, <4>3, <5>1 DEF Asks, Alike, Asked, Cached
        <4>6. QED
          BY <4>4, <4>5
      <3>4. Saves(a)'
        <4>1. ASSUME home[a] # Nowhere, at[a] # home[a]
              PROVE  Saved(a, home[a])'
          <5>1. PICK h \in Maps : h = home[a]
            BY <4>1 DEF Typed
          <5>2. Saved(a, h) /\ Alike(toChar[h], toChar'[h], a, "save")
            BY <2>4, <4>1, <5>1 DEF Covered, Saves, AlikeLinks
          <5>3. QED
            BY <1>2, <3>1, <5>1, <5>2 DEF Saved, Alike
        <4>2. QED
          BY <1>2, <1>4, <4>1 DEF Covered, Saves, Cached
      <3>5. QED
        BY <3>1, <3>3, <3>4 DEF Covered
    <2>8. QED
      BY <2>6, <2>7
  <1>5. QED
    BY <1>1, <1>3, <1>4 DEF storage_storageopen

LEMMA CloseCovers ==
  ASSUME Typed, NEW c \in Accounts, storage_storageclose(c), NEW a \in Accounts, Covered(a)
  PROVE  Covered(a)'
  <1>1. PICK m \in Maps : m = at[c]
    BY DEF storage_storageclose, Typed
  <1>2. /\ storage' = [storage EXCEPT ![m][c].status = 0] /\ IsOpen(c, m)
        /\ char_storage' = char_storage /\ toChar' = toChar /\ toMap' = toMap /\ at' = at
        /\ goods' = goods /\ cart' = cart /\ home' = home
    BY <1>1 DEF storage_storageclose, netVars
  <1>3. AlikeLinks(a, "load") /\ AlikeLinks(a, "save") /\ AlikeLinks(a, "data")
    BY <1>2, LinksStay
  <1>4. storage[m][c] \in Copies /\ storage \in [Maps -> [Accounts -> Copies]]
    BY DEF Typed
  <1>5. /\ storage'[m][c].status = 0 /\ storage'[m][c].box = storage[m][c].box
        /\ \A k \in Maps : k # m \/ a # c => storage'[k][a] = storage[k][a]
    BY <1>2, <1>4 DEF Copies
  <1>6. CASE a # c
    <2>1. Unseen(a)
      BY <1>2, <1>3, <1>5, <1>6 DEF Unseen
    <2>2. QED
      BY <2>1, UnseenKeeps
  <1>7. CASE a = c
    <2>1. Current(a)' = Current(a) /\ Kept(a)'
      BY <1>2, <1>5, <1>7, BoxesKeep DEF SameBoxes
    <2>2. home[a] = m /\ at[a] = m /\ storage[m][a].status = 1
      BY <1>2, <1>7 DEF IsOpen, Covered, Opens
    <2>3. ASSUME NEW k \in Maps
          PROVE  Asks(a, k)' /\ Opens(a, k)'
      <3>1. Asks(a, k) /\ Opens(a, k) /\ ~Asked(a, k)
        BY <2>2 DEF Covered, Asks, Cached
      <3>2. ~Asked(a, k)'
        BY <1>2, <3>1 DEF Asked
      <3>3. Opens(a, k)'
        BY <1>2, <1>5, <1>7, <3>1 DEF Opens
      <3>4. QED
        BY <1>2, <2>1, <3>1, <3>2, <3>3 DEF Asks
    <2>4. Saves(a)'
      BY <1>2, <1>5, <1>7, <2>2 DEF Saves, Cached
    <2>5. QED
      BY <2>1, <2>3, <2>4 DEF Covered
  <1>8. QED
    BY <1>6, <1>7

LEMMA MoveCovers ==
  ASSUME Typed, NEW c \in Accounts, NEW amount \in Amounts, MoveStep(c, amount),
         NEW a \in Accounts, Covered(a)
  PROVE  Covered(a)'
  <1>1. PICK box, g, k : Moved(c, box, g, k)
    BY MovesAre
  <1>2. PICK m \in Maps : m = at[c]
    BY <1>1 DEF Moved, Typed
  <1>3. /\ storage' = [storage EXCEPT ![m][c].box = box]
        /\ goods' = [goods EXCEPT ![c] = g] /\ cart' = [cart EXCEPT ![c] = k]
        /\ char_storage' = char_storage /\ toChar' = toChar /\ toMap' = toMap /\ at' = at
        /\ home' = home /\ (IsOpen(c, m) \/ box = storage[m][c].box)
        /\ \A j \in Items : Total(g, j) + BoxTotal(k.box, j) + BoxTotal(box, j)
                            = Held(c, j) + BoxTotal(storage[m][c].box, j)
        /\ g \in SoundGoods /\ k \in SoundCarts /\ box \in SoundBoxes(MAX_STORAGE)
    BY <1>1, <1>2 DEF Moved, netVars
  <1>4. AlikeLinks(a, "load") /\ AlikeLinks(a, "save") /\ AlikeLinks(a, "data")
    BY <1>3, LinksStay
  <1>5. /\ storage[m][c] \in Copies /\ storage \in [Maps -> [Accounts -> Copies]]
        /\ goods \in [Accounts -> SoundGoods] /\ cart \in [Accounts -> SoundCarts]
        /\ home[a] \in Maps \cup {Nowhere}
    BY DEF Typed
  <1>6. /\ storage'[m][c].status = storage[m][c].status /\ storage'[m][c].box = box
        /\ \A n \in Maps : n # m \/ a # c => storage'[n][a] = storage[n][a]
    BY <1>3, <1>5 DEF Copies
  <1>7. CASE a # c
    <2>1. Unseen(a)
      BY <1>3, <1>4, <1>5, <1>6, <1>7 DEF Unseen
    <2>2. QED
      BY <2>1, UnseenKeeps
  <1>8. CASE a = c
    <2>1. goods'[a] = g /\ cart'[a] = k
      BY <1>3, <1>5, <1>8
    <2>2. \A j \in Items : Held(a, j)' = Total(g, j) + BoxTotal(k.box, j)
      BY <2>1 DEF Held
    <2>3. \A j \in Items : /\ Total(g, j) \in Nat /\ BoxTotal(k.box, j) \in Nat
                           /\ BoxTotal(box, j) \in Nat /\ BoxTotal(storage[m][a].box, j) \in Nat
                           /\ BoxTotal(Current(a), j) \in Nat /\ Held(a, j) \in Nat
      <3>1. /\ Current(a) \in SoundBoxes(MAX_STORAGE) /\ storage[m][a].box \in SoundBoxes(MAX_STORAGE)
            /\ k.box \in SoundBoxes(MAX_CART) /\ cart[a].box \in SoundBoxes(MAX_CART)
            /\ goods[a] \in SoundGoods
        BY <1>3, CartsAre, CopiesAre DEF Typed, Current
      <3>2. QED
        BY <1>3, <3>1, TotalsAre DEF Held
    <2>4. CASE IsOpen(a, m)
      <3>1. home[a] = m /\ at[a] = m /\ storage[m][a].status = 1
        BY <2>4 DEF IsOpen, Covered, Opens
      <3>2. Current(a) = storage[m][a].box /\ Current(a)' = box
        BY <1>3, <1>6, <1>8, <3>1, StorageAssumption DEF Current
      <3>3. ASSUME NEW j \in Items
            PROVE  Held(a, j)' + BoxTotal(Current(a)', j)
                     = Total(InitGoods[a], j) + BoxTotal(InitStorage[a], j)
        <4>1. Held(a, j) + BoxTotal(Current(a), j) = Total(InitGoods[a], j) + BoxTotal(InitStorage[a], j)
          BY DEF Covered, Kept
        <4>2. QED
          BY <1>3, <1>8, <2>2, <2>3, <3>2, <4>1
      <3>4. ASSUME NEW n \in Maps
            PROVE  Asks(a, n)' /\ Opens(a, n)'
        <4>1. Asks(a, n) /\ Opens(a, n) /\ ~Asked(a, n)
          BY <3>1 DEF Covered, Asks, Cached
        <4>2. ~Asked(a, n)' /\ Packets(toMap[n], a, "data")' = {}
          BY <1>3, <4>1 DEF Asked
        <4>3. Opens(a, n)'
          BY <1>3, <1>6, <1>8, <4>1 DEF Opens
        <4>4. QED
          BY <1>3, <4>1, <4>2, <4>3 DEF Asks, Shows
      <3>5. Saves(a)'
        BY <1>3, <1>6, <1>8, <3>1 DEF Saves, Cached
      <3>6. QED
        BY <3>3, <3>4, <3>5 DEF Covered, Kept
    <2>5. CASE box = storage[m][a].box
      <3>1. /\ \A n \in Maps : /\ storage'[n][a].status = storage[n][a].status
                              /\ storage'[n][a].box = storage[n][a].box
        BY <1>6, <1>8, <2>5
      <3>2. Current(a)' = Current(a)
        BY <1>3, <1>5, <3>1 DEF Current
      <3>3. ASSUME NEW j \in Items
            PROVE  Held(a, j)' + BoxTotal(Current(a)', j)
                     = Total(InitGoods[a], j) + BoxTotal(InitStorage[a], j)
        <4>1. Held(a, j) + BoxTotal(Current(a), j) = Total(InitGoods[a], j) + BoxTotal(InitStorage[a], j)
          BY DEF Covered, Kept
        <4>2. Held(a, j)' = Held(a, j)
          BY <1>3, <1>8, <2>2, <2>3, <2>5
        <4>3. QED
          BY <3>2, <4>1, <4>2
      <3>4. ASSUME NEW n \in Maps
            PROVE  Asks(a, n)' /\ Opens(a, n)'
        <4>1. Asks(a, n) /\ Opens(a, n)
          BY DEF Covered
        <4>2. QED
          BY <1>3, <3>1, <3>2, <4>1 DEF Asks, Opens, Asked, Cached
      <3>5. Saves(a)'
        BY <1>3, <1>5, <3>1, <3>2 DEF Covered, Saves, Saved, Cached
      <3>6. QED
        BY <3>3, <3>4, <3>5 DEF Covered, Kept
    <2>6. QED
      BY <1>3, <1>8, <2>4, <2>5
  <1>9. QED
    BY <1>7, <1>8

LEMMA LoadCovers ==
  ASSUME Typed, NEW m \in Maps, LoadStorage(m), NEW a \in Accounts \ upset', Covered(a)
  PROVE  Covered(a)'
  <1>1. PICK p : p = Head(toChar[m])
    OBVIOUS
  <1>2. PICK x : x = [kind |-> "data", account |-> p.account, box |-> char_storage[p.account]]
    OBVIOUS
  <1>3. /\ toChar[m] # <<>> /\ p.kind = "load" /\ ReadOn(toChar, m, p, toChar')
        /\ SentOn(toMap, m, x, toMap')
        /\ upset' = (IF \E k \in Maps \ {m} : Packets(toChar[k], p.account, "save") # {}
                     THEN upset \cup {p.account} ELSE upset)
        /\ storage' = storage /\ char_storage' = char_storage /\ at' = at /\ goods' = goods
        /\ cart' = cart /\ home' = home
    BY <1>1, <1>2 DEF LoadStorage, ReadOn, SentOn
  <1>4. Queues(Loads \cup SavesOf, toChar) /\ Queues(Datas, toMap) /\ home[a] \in Maps \cup {Nowhere}
    BY DEF Typed, Queues
  <1>5. /\ \A kind : IsMine(p, a, kind) <=> a = p.account /\ kind = "load"
        /\ \A kind : IsMine(x, a, kind) <=> a = p.account /\ kind = "data"
        /\ x.box = char_storage[p.account]
    BY <1>2, <1>3 DEF IsMine
  <1>read. /\ ReadOn(toChar, m, p, toChar') /\ Queues(Loads \cup SavesOf, toChar)
           /\ ~IsMine(p, a, "save") /\ (IsMine(p, a, "load") <=> a = p.account)
    BY <1>3, <1>4, <1>5
  <1>6. AlikeLinks(a, "save")
    <2>1. \A k \in Maps : Alike(toChar[k], toChar'[k], a, "save")
      BY <1>read, LinksRead
    <2>2. QED
      BY <2>1 DEF AlikeLinks
  <1>7. \A k \in Maps : k # m \/ a # p.account => /\ Alike(toChar[k], toChar'[k], a, "load")
                                                /\ Alike(toMap[k], toMap'[k], a, "data")
    <2>1. \A k \in Maps : k # m \/ a # p.account => Alike(toChar[k], toChar'[k], a, "load")
      BY <1>read, LinksRead
    <2>2. \A k \in Maps : k # m \/ a # p.account => Alike(toMap[k], toMap'[k], a, "data")
      BY <1>3, <1>4, <1>5, LinksSent
    <2>3. QED
      BY <2>1, <2>2
  <1>8. CASE a # p.account
    <2>1. AlikeLinks(a, "load") /\ AlikeLinks(a, "data")
      BY <1>7, <1>8 DEF AlikeLinks
    <2>2. Unseen(a)
      BY <1>3, <1>6, <2>1 DEF Unseen
    <2>3. QED
      BY <2>2, UnseenKeeps
  <1>9. CASE a = p.account
    <2>1. /\ Packets(toChar[m], a, "load") # {}
          /\ Single(toChar[m], a, "load") => Packets(toChar'[m], a, "load") = {}
      BY <1>read, <1>9, LinksRead
    <2>2. /\ Packets(toMap[m], a, "data") = {} => /\ Single(toMap'[m], a, "data")
                                                 /\ Shows(toMap'[m], a, "data", char_storage[a])
      BY <1>3, <1>4, <1>5, <1>9, LinksSent
    <2>3. Current(a)' = Current(a) /\ Kept(a)'
      BY <1>3, BoxesKeep DEF SameBoxes
    <2>4. at[a] = m /\ storage[m][a].status = -1 /\ Packets(toMap[m], a, "data") = {}
          /\ Single(toChar[m], a, "load")
      BY <2>1 DEF Covered, Asks, Asked, Cached
    <2>5. \A k \in Maps : k # m => Packets(toChar[k], a, "save") = {}
      BY <1>3, <1>9
    <2>6. char_storage[a] = Current(a)
      <3>1. CASE home[a] = Nowhere
        BY <3>1 DEF Current
      <3>2. CASE home[a] # Nowhere
        <4>1. Cached(a, home[a]) /\ home[a] # m /\ home[a] \in Maps
          BY <1>4, <2>4, <3>2 DEF Covered, Saves, Cached
        <4>2. Saved(a, home[a])
          BY <2>4, <3>2, <4>1 DEF Covered, Saves
        <4>3. QED
          BY <2>5, <4>1, <4>2 DEF Saved
      <3>3. QED
        BY <3>1, <3>2
    <2>7. ASSUME NEW k \in Maps
          PROVE  Asks(a, k)' /\ Opens(a, k)'
      <3>1. Asks(a, k) /\ Opens(a, k)
        BY DEF Covered
      <3>2. Opens(a, k)'
        BY <1>3, <3>1 DEF Opens
      <3>3. CASE k = m
        <4>1. Packets(toChar'[m], a, "load") = {} /\ Single(toMap'[m], a, "data")
              /\ Shows(toMap'[m], a, "data", Current(a)')
          BY <2>1, <2>2, <2>3, <2>4, <2>6
        <4>2. Single(toChar'[m], a, "load")
          BY <4>1 DEF Single
        <4>3. QED
          BY <1>3, <2>4, <3>2, <3>3, <4>1, <4>2 DEF Asks, Cached
      <3>4. CASE k # m
        <4>1. Alike(toChar[k], toChar'[k], a, "load") /\ Alike(toMap[k], toMap'[k], a, "data")
          BY <1>7, <3>4
        <4>2. QED
          BY <1>3, <2>3, <3>1, <3>2, <4>1 DEF Asks, Asked, Alike, Cached
      <3>5. QED
        BY <3>3, <3>4
    <2>8. ASSUME home[a] # Nowhere, at[a] # home[a]
          PROVE  Saved(a, home[a])'
      <3>1. PICK h \in Maps : h = home[a]
        BY <1>4, <2>8
      <3>2. Saved(a, h) /\ Alike(toChar[h], toChar'[h], a, "save")
        BY <1>6, <2>8, <3>1 DEF Covered, Saves, AlikeLinks
      <3>3. QED
        BY <1>3, <2>3, <3>1, <3>2 DEF Saved, Alike
    <2>9. Saves(a)'
      BY <1>3, <2>8 DEF Covered, Saves, Cached
    <2>10. QED
      BY <2>3, <2>7, <2>9 DEF Covered
  <1>10. QED
    BY <1>8, <1>9

LEMMA SaveCovers ==
  ASSUME Typed, NEW m \in Maps, SaveStorage(m), NEW a \in Accounts \ upset', Covered(a)
  PROVE  Covered(a)'
  <1>1. PICK p : p = Head(toChar[m])
    OBVIOUS
  <1>2. /\ toChar[m] # <<>> /\ p.kind = "save" /\ ReadOn(toChar, m, p, toChar')
        /\ upset' = (IF home[p.account] # m THEN upset \cup {p.account} ELSE upset)
        /\ char_storage' = [char_storage EXCEPT ![p.account] = p.box]
        /\ storage' = storage /\ toMap' = toMap /\ at' = at /\ goods' = goods
        /\ cart' = cart /\ home' = home
    BY <1>1 DEF SaveStorage, ReadOn
  <1>3. /\ Queues(Loads \cup SavesOf, toChar) /\ home[a] \in Maps \cup {Nowhere}
        /\ char_storage \in [Accounts -> SoundBoxes(MAX_STORAGE)]
    BY DEF Typed, Queues
  <1>4. \A kind : IsMine(p, a, kind) <=> a = p.account /\ kind = "save"
    BY <1>2 DEF IsMine
  <1>read. /\ ReadOn(toChar, m, p, toChar') /\ Queues(Loads \cup SavesOf, toChar)
           /\ ~IsMine(p, a, "load") /\ (IsMine(p, a, "save") <=> a = p.account)
    BY <1>2, <1>3, <1>4
  <1>5. AlikeLinks(a, "load") /\ AlikeLinks(a, "data")
    <2>1. \A k \in Maps : Alike(toChar[k], toChar'[k], a, "load")
      BY <1>read, LinksRead
    <2>2. QED
      BY <1>2, <2>1, LinksStay DEF AlikeLinks
  <1>6. CASE a # p.account
    <2>1. AlikeLinks(a, "save")
      <3>1. \A k \in Maps : Alike(toChar[k], toChar'[k], a, "save")
        BY <1>read, <1>6, LinksRead
      <3>2. QED
        BY <3>1 DEF AlikeLinks
    <2>2. char_storage'[a] = char_storage[a]
      BY <1>2, <1>3, <1>6
    <2>3. Unseen(a)
      BY <1>2, <1>5, <2>1, <2>2 DEF Unseen
    <2>4. QED
      BY <2>3, UnseenKeeps
  <1>7. CASE a = p.account
    <2>1. home[a] = m /\ home'[a] = m /\ char_storage'[a] = p.box
      BY <1>2, <1>3, <1>7
    <2>2. Current(a)' = Current(a) /\ Kept(a)'
      BY <1>2, <2>1, BoxesKeep, StorageAssumption DEF SameBoxes
    <2>3. ASSUME NEW k \in Maps
          PROVE  Asks(a, k)' /\ Opens(a, k)'
      <3>1. /\ Asks(a, k) /\ Opens(a, k) /\ Alike(toChar[k], toChar'[k], a, "load")
            /\ Alike(toMap[k], toMap'[k], a, "data")
        BY <1>5 DEF Covered, AlikeLinks
      <3>2. Opens(a, k)'
        BY <1>2, <3>1 DEF Opens
      <3>3. QED
        BY <1>2, <2>2, <3>1, <3>2 DEF Asks, Asked, Alike, Cached
    <2>4. \A v : /\ EndsIn(toChar[m], a, "save", v) => EndsIn(toChar'[m], a, "save", v)
                 /\ EndsIn(toChar[m], a, "save", v) /\ Packets(toChar'[m], a, "save") = {}
                      => p.box = v
      BY <1>read, <1>7, LinksRead
    <2>5. at[a] # m => Saved(a, m)'
      <3>1. at[a] # m => EndsIn(toChar[m], a, "save", Current(a))
        BY <2>1, StorageAssumption DEF Covered, Saves, Saved
      <3>2. QED
        BY <2>1, <2>2, <2>4, <3>1 DEF Saved
    <2>6. Saves(a)'
      BY <1>2, <2>1, <2>5 DEF Covered, Saves, Cached
    <2>7. QED
      BY <2>2, <2>3, <2>6 DEF Covered
  <1>8. QED
    BY <1>6, <1>7

LEMMA AnswerCovers ==
  ASSUME Typed, NEW m \in Maps, intif_parse_LoadStorage(m), NEW a \in Accounts, Covered(a)
  PROVE  Covered(a)'
  <1>1. PICK p : p = Head(toMap[m])
    OBVIOUS
  <1>2. /\ toMap[m] # <<>> /\ ReadOn(toMap, m, p, toMap')
        /\ storage' = [storage EXCEPT ![m][p.account] = Loaded(p.account, m, p.box)]
        /\ home' = [home EXCEPT ![p.account] = IF p.account \in present[m] THEN m ELSE @]
        /\ char_storage' = char_storage /\ toChar' = toChar /\ at' = at /\ goods' = goods
        /\ cart' = cart
    BY <1>1 DEF intif_parse_LoadStorage, ReadOn
  <1>3. /\ Queues(Datas, toMap) /\ home \in [Accounts -> Maps \cup {Nowhere}]
        /\ storage \in [Maps -> [Accounts -> Copies]]
    BY DEF Typed, Queues
  <1>4. p \in Datas
    BY <1>1, <1>2, <1>3, Received
  <1>5. \A kind : IsMine(p, a, kind) <=> a = p.account /\ kind = "data"
    BY <1>4 DEF IsMine, Datas
  <1>6. AlikeLinks(a, "load") /\ AlikeLinks(a, "save")
    BY <1>2, LinksStay
  <1>read. /\ ReadOn(toMap, m, p, toMap') /\ Queues(Datas, toMap)
           /\ (IsMine(p, a, "data") <=> a = p.account)
    BY <1>2, <1>3, <1>5
  <1>7. \A k \in Maps : k # m \/ a # p.account => /\ Alike(toMap[k], toMap'[k], a, "data")
                                                /\ storage'[k][a] = storage[k][a]
    <2>1. ASSUME NEW k \in Maps, k # m \/ a # p.account
          PROVE  /\ Alike(toMap[k], toMap'[k], a, "data")
                 /\ storage'[k][a] = storage[k][a]
      <3>1. Alike(toMap[k], toMap'[k], a, "data")
        BY <1>read, <2>1, LinksRead
      <3>2. storage'[k][a] = storage[k][a]
        <4>1. PICK w : w = Loaded(p.account, m, p.box)
          OBVIOUS
        <4>2. storage' = [storage EXCEPT ![m][p.account] = w]
          BY <1>2, <4>1
        <4>3. QED
          BY ONLY <1>3, <2>1, <4>2, m \in Maps, k \in Maps, a \in Accounts
      <3>3. QED
        BY <3>1, <3>2
    <2>2. QED
      BY <2>1
  <1>8. CASE a # p.account
    <2>1. AlikeLinks(a, "data") /\ \A k \in Maps : storage'[k][a] = storage[k][a]
      BY <1>7, <1>8 DEF AlikeLinks
    <2>2. home'[a] = home[a]
      BY <1>2, <1>3, <1>8
    <2>3. Unseen(a)
      BY <1>2, <1>6, <2>1, <2>2 DEF Unseen
    <2>4. QED
      BY <2>3, UnseenKeeps
  <1>9. CASE a = p.account
    <2>1. /\ Packets(toMap[m], a, "data") # {}
          /\ Single(toMap[m], a, "data") => Packets(toMap'[m], a, "data") = {}
          /\ \A v : Shows(toMap[m], a, "data", v) => p.box = v
      <3>1. IsMine(p, a, "data")
        BY <1>read, <1>9
      <3>2. /\ Packets(toMap[m], a, "data") # {}
            /\ Single(toMap[m], a, "data") => Packets(toMap'[m], a, "data") = {}
        BY <1>read, <3>1, LinksRead
      <3>3. \A v : Shows(toMap[m], a, "data", v) => p.box = v
        BY <1>read, <3>1, LinksRead
      <3>4. QED
        BY <3>2, <3>3
    <2>2. /\ at[a] = m /\ p.box = Current(a) /\ Packets(toMap'[m], a, "data") = {}
          /\ Packets(toChar[m], a, "load") = {}
      BY <2>1 DEF Covered, Asks, Asked
    <2>3. a \in present[m]
      BY <2>2, StorageAssumption DEF Typed
    <2>4. storage'[m][a] = [status |-> 1, box |-> p.box] /\ home'[a] = m
      BY <1>2, <1>3, <1>9, <2>3 DEF Loaded
    <2>5. Current(a)' = Current(a)
      BY <2>2, <2>4, StorageAssumption DEF Current
    <2>6. Kept(a)'
      BY <1>2, <2>5 DEF Covered, Kept, Held
    <2>7. ASSUME NEW k \in Maps
          PROVE  Asks(a, k)' /\ Opens(a, k)'
      <3>1. Asks(a, k) /\ Opens(a, k)
        BY DEF Covered
      <3>2. CASE k = m
        <4>1. ~Asked(a, m)' /\ Shows(toMap'[m], a, "data", Current(a)') /\ Single(toMap'[m], a, "data")
          BY <1>2, <2>2 DEF Asked, Shows, Single
        <4>2. QED
          BY <1>2, <2>2, <2>4, <3>1, <3>2, <4>1 DEF Asks, Opens
      <3>3. CASE k # m
        <4>1. Alike(toMap[k], toMap'[k], a, "data") /\ storage'[k][a] = storage[k][a]
          BY <1>7, <3>3
        <4>2. ~Asked(a, k) /\ storage[k][a].status # 1
          BY <2>2, <3>1, <3>3 DEF Asks, Opens
        <4>3. ~Asked(a, k)' /\ ~(storage'[k][a].status = 1)
          BY <1>2, <4>1, <4>2 DEF Asked, Alike
        <4>4. QED
          BY <1>2, <2>5, <3>1, <4>1, <4>3 DEF Asks, Opens, Alike
      <3>4. QED
        BY <3>2, <3>3
    <2>8. Saves(a)'
      BY <1>2, <2>2, <2>4 DEF Saves, Cached
    <2>9. QED
      BY <2>6, <2>7, <2>8 DEF Covered
  <1>10. QED
    BY <1>8, <1>9

(***************************************************************************)
(* The inductive invariant, and the properties it gives.                   *)
(***************************************************************************)
StorageInv == Typed /\ CoveredAll

LEMMA CoveredInit == Init => CoveredAll
  <1> SUFFICES ASSUME Init, NEW a \in Accounts PROVE Covered(a)
    BY DEF CoveredAll
  <1>1. \A m \in Maps : \A kind : Packets(toChar[m], a, kind) = {} /\ Packets(toMap[m], a, kind) = {}
    BY DEF Init, Packets
  <1>2. ASSUME NEW m \in Maps
        PROVE  Asks(a, m) /\ Opens(a, m)
    BY <1>1 DEF Init, NoCopy, Asks, Opens, Asked, Single, Shows
  <1>3. home[a] = Nowhere /\ Saves(a) /\ Current(a) = InitStorage[a]
    BY DEF Init, Saves, Current
  <1>4. ASSUME NEW id \in Items
        PROVE  Held(a, id) + BoxTotal(Current(a), id)
                 = Total(InitGoods[a], id) + BoxTotal(InitStorage[a], id)
    <2>1. Held(a, id) = Total(InitGoods[a], id) + BoxTotal(EmptyBox(MAX_CART), id)
      BY DEF Init, Held
    <2>2. BoxTotal(EmptyBox(MAX_CART), id) = 0
      BY EmptyCounts, SizesAre
    <2>3. Total(InitGoods[a], id) \in Nat
      BY TypedInit, TotalsAre DEF Typed, Init
    <2>4. QED
      BY <1>3, <2>1, <2>2, <2>3
  <1>5. QED
    BY <1>2, <1>3, <1>4 DEF Covered, Kept

LEMMA CoveredNext == Typed /\ CoveredAll /\ [Next]_vars => CoveredAll'
  <1> SUFFICES ASSUME Typed, CoveredAll, [Next]_vars, NEW a \in Accounts \ upset'
               PROVE  Covered(a)'
    BY DEF CoveredAll
  <1>1. upset \subseteq upset'
    <2>1. ASSUME NEW m \in Maps, LoadStorage(m) \/ SaveStorage(m) \/ intif_parse_LoadStorage(m)
          PROVE  upset \subseteq upset'
      BY <2>1 DEF LoadStorage, SaveStorage, intif_parse_LoadStorage
    <2>2. ASSUME NEW c \in Accounts, NEW m, PutAway(c, m)
          PROVE  upset \subseteq upset'
      BY <2>2 DEF PutAway
    <2>3. ASSUME NEW c \in Accounts, pc_setpos(c) \/ storage_storageopen(c) \/ storage_storageclose(c)
          PROVE  upset \subseteq upset'
      BY <2>2, <2>3 DEF pc_setpos, storage_storageopen, storage_storageclose
    <2>4. ASSUME NEW c \in Accounts, NEW m \in Maps, Enter(c, m) \/ map_quit(c, m) \/ pc_autosave(c, m)
          PROVE  upset \subseteq upset'
      BY <2>2, <2>4 DEF Enter, map_quit, pc_autosave
    <2>5. ASSUME NEW c \in Accounts, NEW amount \in Amounts, MoveStep(c, amount)
          PROVE  upset \subseteq upset'
      BY <2>5, MovesAre DEF Moved
    <2>6. CASE UNCHANGED vars
      BY <2>6 DEF vars
    <2>7. QED
      BY <2>1, <2>3, <2>4, <2>5, <2>6 DEF Next, MoveStep
  <1>2. Covered(a) /\ a \in Accounts
    BY <1>1 DEF CoveredAll
  <1>3. ASSUME NEW m \in Maps, LoadStorage(m) PROVE Covered(a)'
    BY <1>2, <1>3, LoadCovers
  <1>4. ASSUME NEW m \in Maps, SaveStorage(m) PROVE Covered(a)'
    BY <1>2, <1>4, SaveCovers
  <1>5. ASSUME NEW m \in Maps, intif_parse_LoadStorage(m) PROVE Covered(a)'
    BY <1>2, <1>5, AnswerCovers
  <1>6. ASSUME NEW c \in Accounts, pc_setpos(c) PROVE Covered(a)'
    <2>1. at[c] \in Maps /\ PutAway(c, at[c]) /\ at' = [at EXCEPT ![c] = Nowhere]
      BY <1>6 DEF pc_setpos, Typed
    <2>2. PICK m \in Maps : m = at[c]
      BY <2>1
    <2>3. PutAway(c, m) /\ at' = (IF at[c] = m THEN [at EXCEPT ![c] = Nowhere] ELSE at)
      BY <2>1, <2>2
    <2>4. QED
      BY <1>2, <2>3, PutAwayCovers
  <1>7. ASSUME NEW c \in Accounts, storage_storageopen(c) PROVE Covered(a)'
    BY <1>2, <1>7, OpenCovers
  <1>8. ASSUME NEW c \in Accounts, storage_storageclose(c) PROVE Covered(a)'
    BY <1>2, <1>8, CloseCovers
  <1>9. ASSUME NEW c \in Accounts, NEW m \in Maps, Enter(c, m) PROVE Covered(a)'
    BY <1>2, <1>9, EnterCovers
  <1>10. ASSUME NEW c \in Accounts, NEW m \in Maps, map_quit(c, m) PROVE Covered(a)'
    <2>1. PutAway(c, m) /\ at' = (IF at[c] = m THEN [at EXCEPT ![c] = Nowhere] ELSE at)
      BY <1>10 DEF map_quit
    <2>2. QED
      BY <1>2, <2>1, PutAwayCovers
  <1>11. ASSUME NEW c \in Accounts, NEW m \in Maps, pc_autosave(c, m) PROVE Covered(a)'
    BY <1>2, <1>11, AutosaveCovers
  <1>12. ASSUME NEW c \in Accounts, NEW amount \in Amounts, MoveStep(c, amount) PROVE Covered(a)'
    BY <1>2, <1>12, MoveCovers
  <1>13. CASE UNCHANGED vars
    <2>1. Unseen(a)
      BY <1>13, LinksStay DEF Unseen, vars, netVars
    <2>2. QED
      BY <1>2, <2>1, UnseenKeeps
  <1>14. QED
    BY <1>3, <1>4, <1>5, <1>6, <1>7, <1>8, <1>9, <1>10, <1>11, <1>12, <1>13 DEF Next, MoveStep

LEMMA StorageInvariant == Spec => []StorageInv
  <1>1. Init => StorageInv
    BY TypedInit, CoveredInit DEF StorageInv
  <1>2. StorageInv /\ [Next]_vars => StorageInv'
    BY TypedNext, CoveredNext DEF StorageInv
  <1>3. QED
    BY <1>1, <1>2, PTL DEF Spec

(* Whatever is moved between storage, inventory and cart, and whatever the     *)
(* servers send each other, every copy of every storage and cart has the slots *)
(* in use that its counter says, and no stack twice; a cart weighs what is in  *)
(* it, and a storage window is open only where its player is.                  *)
THEOREM CopiesInOrder == Spec => []BoxesInOrder
  <1>1. StorageInv => BoxesInOrder
    <2> SUFFICES ASSUME StorageInv PROVE BoxesInOrder
      OBVIOUS
    <2> USE DEF StorageInv
    <2>1. ASSUME NEW m \in Maps, NEW a \in Accounts
          PROVE  storage[m][a].status \in {-1, 0, 1} /\ InOrder(storage[m][a].box)
      <3>1. storage[m][a] \in Copies
        BY DEF Typed
      <3>2. QED
        BY <3>1 DEF Copies, SoundBoxes
    <2>2. ASSUME NEW a \in Accounts
          PROVE  /\ InOrder(char_storage[a]) /\ InOrder(cart[a].box)
                 /\ cart[a].weight = BoxWeight(cart[a].box) /\ cart[a].weight <= CartMaxWeight
      <3>1. char_storage[a] \in SoundBoxes(MAX_STORAGE) /\ cart[a] \in SoundCarts
        BY DEF Typed
      <3>2. QED
        BY <3>1, CartsAre DEF SoundBoxes, SoundCarts
    <2>3. \A m \in Maps, a \in Accounts \ upset : storage[m][a].status = 1 => at[a] = m
      BY DEF CoveredAll, Covered, Opens
    <2>4. TypeOK
      BY <2>1, <2>3 DEF Typed, TypeOK, SoundGoods
    <2>5. QED
      BY <2>1, <2>2, <2>4 DEF BoxesInOrder
  <1>2. QED
    BY <1>1, StorageInvariant, PTL

(* An account the promise covers has in storage, inventory and cart together   *)
(* what it had, of every item, in any order of opening, moving, saving and     *)
(* changing servers; and once it has left and its packets have arrived, the    *)
(* char server has its storage as it left it.                                  *)
THEOREM NothingLost == Spec => []StorageKept
  <1>1. StorageInv => StorageKept
    <2> SUFFICES ASSUME StorageInv PROVE StorageKept
      OBVIOUS
    <2>1. NothingLostOrDoubled
      BY DEF StorageInv, CoveredAll, Covered, Kept, NothingLostOrDoubled
    <2>2. ASSUME NEW a \in Accounts \ upset, Quiet(a)
          PROVE  char_storage[a] = Current(a)
      <3>1. Saves(a) /\ home[a] \in Maps \cup {Nowhere} /\ at[a] = Nowhere
        BY <2>2 DEF StorageInv, CoveredAll, Covered, Typed, Quiet
      <3>2. CASE home[a] = Nowhere
        BY <3>2 DEF Current
      <3>3. CASE home[a] # Nowhere
        <4>1. Saved(a, home[a]) /\ Packets(toChar[home[a]], a, "save") = {}
          BY <2>2, <3>1, <3>3 DEF Saves, Quiet
        <4>2. QED
          BY <4>1 DEF Saved
      <3>4. QED
        BY <3>2, <3>3
    <2>3. QED
      BY <2>1, <2>2 DEF StorageKept, SavedWhenAway
  <1>2. QED
    BY <1>1, StorageInvariant, PTL
=============================================================================
