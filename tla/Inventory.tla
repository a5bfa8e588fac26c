----------------------------- MODULE Inventory -----------------------------
(***************************************************************************)
(* What a character carries, and the operations of map/pc.c on it.  The    *)
(* carried goods of a character are a record of its inventory (slot |->    *)
(* item and amount) and of the weight the server keeps beside it.  The     *)
(* operators are pure: they return the goods after the operation.          *)
(*                                                                         *)
(* Cards, refine and equip bits of an item are left out: nothing here      *)
(* depends on them.                                                        *)
(***************************************************************************)
EXTENDS Integers, FiniteSets, FiniteSetsExt

CONSTANTS
  Items,          \* item ids
  Equips,         \* those that never stack
  WeightOf,       \* item |-> weight
  MAX_INVENTORY, MAX_AMOUNT, MAX_ZENY,
  MaxWeight       \* max_weight of every character

None == "none"                      \* nameid 0

ASSUME InventoryAssumption ==
  /\ None \notin Items
  /\ Equips \subseteq Items
  /\ WeightOf \in [Items -> Nat]
  /\ MAX_INVENTORY \in Nat \ {0} /\ MAX_AMOUNT \in Nat /\ MAX_ZENY \in Nat
  /\ MaxWeight \in Nat

Empty == [nameid |-> None, amount |-> 0]
InvSlots == 1 .. MAX_INVENTORY

(* itemdb_search makes up an entry for an unknown id, nameid 0 included: a
   stackable item of weight 10. *)
itemdb_weight(id)  == IF id = None THEN 10 ELSE WeightOf[id]
itemdb_isequip2(id) == id \in Equips

Lowest(S)   == CHOOSE x \in S : \A y \in S : x <= y

(* pc_search_inventory: the first slot that holds the item; 0 for -1.  Nameid
   0 finds the first empty slot. *)
pc_search_inventory(inv, id) ==
  LET found == {n \in InvSlots : inv[n].nameid = id /\ (inv[n].amount > 0 \/ id = None)}
  IN IF found = {} THEN 0 ELSE Lowest(found)

pc_inventoryblank(inv) == Cardinality({n \in InvSlots : inv[n].nameid = None})

-----------------------------------------------------------------------------
(* pc_additem: an amount of an item is stacked on the slot that has some, or
   put in the first empty slot.  The code it returns, 0 when it was added. *)
StackSlot(goods, id) ==
  IF itemdb_isequip2(id) THEN 0 ELSE pc_search_inventory(goods.inv, id)

AddRefusedAnyWeight(goods, id, amount) == \* mutant: max_weight is not looked at
  LET s == StackSlot(goods, id) IN
  CASE amount <= 0 -> 1
    [] OTHER ->
         IF s # 0 THEN (IF goods.inv[s].amount + amount > MAX_AMOUNT THEN 5 ELSE 0)
         ELSE IF pc_search_inventory(goods.inv, None) = 0 THEN 4 ELSE 0

AddRefused(goods, id, amount) ==
  LET s == StackSlot(goods, id) IN
  CASE amount <= 0 -> 1
    [] amount > 0 /\ itemdb_weight(id) * amount + goods.weight > MaxWeight -> 2
    [] OTHER ->
         IF s # 0 THEN (IF goods.inv[s].amount + amount > MAX_AMOUNT THEN 5 ELSE 0)
         ELSE IF pc_search_inventory(goods.inv, None) = 0 THEN 4 ELSE 0

pc_additem(goods, id, amount) ==
  IF AddRefused(goods, id, amount) # 0 THEN goods
  ELSE LET s == StackSlot(goods, id) IN
       [inv |-> IF s # 0
                THEN [goods.inv EXCEPT ![s].amount = @ + amount]
                ELSE [goods.inv EXCEPT ![pc_search_inventory(goods.inv, None)] =
                        [nameid |-> id, amount |-> amount]],
        weight |-> goods.weight + itemdb_weight(id) * amount]

(* pc_delitem: the slot must hold an item and enough of it. *)
DelRefused(goods, n, amount) ==
  goods.inv[n].nameid = None \/ amount <= 0 \/ goods.inv[n].amount < amount

pc_delitem(goods, n, amount) ==
  IF DelRefused(goods, n, amount) THEN goods
  ELSE [inv |-> [goods.inv EXCEPT ![n] =
                   IF @.amount = amount THEN Empty
                   ELSE [nameid |-> @.nameid, amount |-> @.amount - amount]],
        weight |-> goods.weight - itemdb_weight(goods.inv[n].nameid) * amount]

-----------------------------------------------------------------------------
(* pc_payzeny: refused, and nothing taken, when there is not enough. *)
pc_payzeny(have, price) ==
  IF have < price \/ have - price > MAX_ZENY THEN have ELSE have - price

(* pc_getzeny: what would exceed MAX_ZENY is lost. *)
pc_getzeny(have, gain) == IF have + gain > MAX_ZENY THEN MAX_ZENY ELSE have + gain

-----------------------------------------------------------------------------
(* Reference quantities the properties speak of: no code keeps them. *)
AmountIn(slots, id) ==
  SumFunctionOnSet([n \in DOMAIN slots |-> IF slots[n].nameid = id THEN slots[n].amount ELSE 0],
                   DOMAIN slots)
Heaviness(slots) ==
  [n \in DOMAIN slots |-> IF slots[n].nameid = None THEN 0
                          ELSE itemdb_weight(slots[n].nameid) * slots[n].amount]
WeightIn(slots) == SumFunctionOnSet(Heaviness(slots), DOMAIN slots)

Total(goods, id)    == AmountIn(goods.inv, id)
ActualWeight(goods) == WeightIn(goods.inv)

Cells == [nameid : Items \cup {None}, amount : 0 .. MAX_AMOUNT]
Goods == [inv : [InvSlots -> Cells], weight : Nat]
=============================================================================
