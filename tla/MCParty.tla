------------------------------ MODULE MCParty ------------------------------
(* Two map servers; account a1 has two characters whose levels differ by more
   than sharing allows, a2 has one. *)
EXTENDS Party, TLC
CONSTANTS m1, m2, a1, a2, c1, c2, c3
MCMaps == {m1, m2}
MCAccounts == {a1, a2}
MCChars == {c1, c2, c3}
MCAccountOf == c1 :> a1 @@ c2 :> a1 @@ c3 :> a2
MCOptions == {<<TRUE, TRUE>>}
MCLv == c1 :> 1 @@ c2 :> 20 @@ c3 :> 5
=============================================================================
