------------------------------ MODULE MCTrade ------------------------------
(* Two characters for TLC: a carries a stack, b a piece of equipment and one
   zeny.  MaxWeight leaves room for one unit of "nothing", whose weight is 10,
   once something was spent or dropped. *)
EXTENDS Trade
CONSTANTS a, b, potion, sword

MCWeight == [i \in Items |-> IF i = potion THEN 1 ELSE 2]
MCGoods ==
  [p \in Players |->
     [inv |-> [n \in InvSlots |->
                 IF n = 1 /\ p = a THEN [nameid |-> potion, amount |-> 2]
                 ELSE IF n = 1 /\ p = b THEN [nameid |-> sword, amount |-> 1] ELSE Empty],
      weight |-> 2]]
MCZeny == [p \in Players |-> IF p = b THEN 1 ELSE 0]
=============================================================================
