-------------------------------- MODULE Box --------------------------------
(***************************************************************************)
(* The cart of map/pc.c and the storage of map/storage.c hold their items  *)
(* the same way: slots, and beside them the number of those in use         *)
(* (cart_num, storage_amount).  A cart has a weight too.                   *)
(***************************************************************************)
EXTENDS Inventory

CONSTANTS MAX_STORAGE, MAX_CART, CartMaxWeight
ASSUME BoxAssumption ==
  MAX_STORAGE \in Nat \ {0} /\ MAX_CART \in Nat \ {0} /\ CartMaxWeight \in Nat

EmptyBox(size) == [slots |-> [n \in 1 .. size |-> Empty], num |-> 0]

BoxStack(box, id) ==
  LET found == {n \in DOMAIN box.slots : box.slots[n].nameid = id}
  IN IF id \in Equips \/ found = {} THEN 0 ELSE Lowest(found)

(* The highest empty slot that follows a used one, or the first; 0 if full. *)
BoxFree(box) ==
  LET free == {n \in DOMAIN box.slots : /\ box.slots[n].nameid = None
                                        /\ n = 1 \/ box.slots[n - 1].nameid # None}
  IN IF free = {} THEN 0 ELSE CHOOSE n \in free : \A k \in free : k <= n

BoxRefused(box, id, amount) ==
  IF BoxStack(box, id) # 0
  THEN box.slots[BoxStack(box, id)].amount + amount > MAX_AMOUNT
  ELSE BoxFree(box) = 0

NewCountKept(box, id) == box.num      \* mutant: a slot newly used is not counted
NewCount(box, id) == IF BoxStack(box, id) # 0 THEN box.num ELSE box.num + 1

BoxAdd(box, id, amount) ==
  LET s == BoxStack(box, id) IN
  [slots |-> IF s # 0 THEN [box.slots EXCEPT ![s].amount = @ + amount]
             ELSE [box.slots EXCEPT ![BoxFree(box)] = [nameid |-> id, amount |-> amount]],
   num   |-> NewCount(box, id)]

BoxDel(box, n, amount) ==
  IF box.slots[n].amount = amount
  THEN [slots |-> [box.slots EXCEPT ![n] = Empty], num |-> box.num - 1]
  ELSE [box EXCEPT !.slots[n].amount = @ - amount]

-----------------------------------------------------------------------------
(* pc_cart_additem and pc_cart_delitem, on a box with a weight. *)
CartRefused(cart, id, amount) ==
  \/ itemdb_weight(id) * amount + cart.weight > CartMaxWeight
  \/ BoxRefused(cart.box, id, amount)
pc_cart_additem(cart, id, amount) ==
  [box |-> BoxAdd(cart.box, id, amount), weight |-> cart.weight + itemdb_weight(id) * amount]
pc_cart_delitem(cart, n, amount) ==
  [box    |-> BoxDel(cart.box, n, amount),
   weight |-> cart.weight - itemdb_weight(cart.box.slots[n].nameid) * amount]

-----------------------------------------------------------------------------
(* Reference quantities: no code keeps them. *)
Used(box) == {n \in DOMAIN box.slots : box.slots[n].nameid # None}
BoxTotal(box, id) == AmountIn(box.slots, id)
BoxWeight(box)    == WeightIn(box.slots)
Boxes(size)       == [slots : [1 .. size -> Cells], num : Nat]

(* The count is right, no slot in use is empty, and a kind that stacks is in
   one slot only. *)
InOrder(box) ==
  /\ box.num = Cardinality(Used(box))
  /\ \A n \in Used(box) : box.slots[n].amount \in 1 .. MAX_AMOUNT
  /\ \A n, k \in Used(box) :
       n # k /\ box.slots[n].nameid \notin Equips => box.slots[n].nameid # box.slots[k].nameid
=============================================================================
