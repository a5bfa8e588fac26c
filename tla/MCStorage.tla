----------------------------- MODULE MCStorage -----------------------------
(* One account for TLC: it carries a potion and a sword, and has a potion in
   storage; a second potion on a stack is one too many. *)
EXTENDS Storage, TLC
CONSTANTS a, potion, sword
MCWeight == [i \in Items |-> IF i = potion THEN 1 ELSE 2]
MCGoods ==
  [p \in Accounts |->
     [inv |-> [n \in InvSlots |-> IF n = 1 THEN [nameid |-> potion, amount |-> 1]
                                  ELSE IF n = 2 THEN [nameid |-> sword, amount |-> 1] ELSE Empty],
      weight |-> 3]]
MCStorageOf ==
  [p \in Accounts |-> [slots |-> [n \in 1 .. MAX_STORAGE |-> IF n = 1 THEN [nameid |-> potion, amount |-> 1] ELSE Empty],
                       num |-> 1]]
(* Nothing is claimed of an account that is upset, and it remains so. *)
SomeCovered == upset # Accounts
(* Map servers are alike. *)
Alike == Permutations(Maps)
=============================================================================
