-------------------------------- MODULE Wear --------------------------------
(***************************************************************************)
(* What a character wears (map/pc.c).  An item carries a mark of the       *)
(* places it is worn at (inventory[n].equip); the session keeps for each   *)
(* place the slot of the item (equip_index), what both hands hold          *)
(* (weapontype1, weapontype2, shield), and statuses that need it.          *)
(*                                                                         *)
(* Every item is there once; what is not carried lies on the floor, which  *)
(* stands for carts, storages and other players too: all are handed copies *)
(* of the item, mark included.  0 is no slot.  Slots outside the array     *)
(* (equip_index -1 used as a slot by a bow's arrow, RG_STRIPWEAPON and the *)
(* wedding dress) are left out.                                            *)
(***************************************************************************)
EXTENDS Integers, Sequences, FiniteSets, SequencesExt, FiniteSetsExt

CONSTANTS
  ItemOf,         \* item |-> [equip: its places, look, type: 4 weapon, 5 the rest, classes, arena: taken off there]
  Classes, Lefties,  \* of them those that know AS_LEFT
  MAX_INVENTORY, Nil

VARIABLES
  class, inventory, equip_index,
  weapontype1, weapontype2, shield,
  sc_data,        \* the statuses on: "quicken", "autoguard", "defender"
  floor,          \* items not carried, with their marks
  odd,            \* history: an item was handed on while worn, or put on in two places
  rough           \* history: something was taken off by a change of job or map

vars == <<class, inventory, equip_index, weapontype1, weapontype2, shield, sc_data, floor, odd, rough>>

Slots == 1 .. MAX_INVENTORY
Blank == [id |-> Nil, equip |-> {}]
equip_pos == <<"right accessory", "left accessory", "left", "right", "arrow">>
Places    == ToSet(equip_pos)

WearAssumption ==
  /\ Lefties \subseteq Classes /\ MAX_INVENTORY \in Nat \ {0} /\ Nil \notin DOMAIN ItemOf
  /\ \A x \in DOMAIN ItemOf : ItemOf[x].equip \subseteq Places /\ ItemOf[x].classes \subseteq Classes

Init ==
  /\ class \in Classes /\ inventory = [n \in Slots |-> Blank] /\ equip_index = [p \in Places |-> 0]
  /\ weapontype1 = 0 /\ weapontype2 = 0 /\ shield = 0 /\ sc_data = {}
  /\ floor = {[id |-> x, equip |-> {}] : x \in DOMAIN ItemOf} /\ odd = FALSE /\ rough = FALSE

(* What a handler works on. *)
State == [class |-> class, inv |-> inventory, index |-> equip_index, w1 |-> weapontype1,
          w2 |-> weapontype2, shield |-> shield, sc |-> sc_data]
Becomes(s) ==
  /\ class' = s.class /\ inventory' = s.inv /\ equip_index' = s.index /\ weapontype1' = s.w1
  /\ weapontype2' = s.w2 /\ shield' = s.shield /\ sc_data' = s.sc

-----------------------------------------------------------------------------
(* status.weapon: two short weapons make a pair; two daggers count as one
   two-handed sword. *)
Pairs == {1} :> 3 @@ {2} :> 18 @@ {6} :> 19 @@ {1, 2} :> 20 @@ {1, 6} :> 21 @@ {2, 6} :> 22
pc_calcweapontype(w1, w2) ==
  IF w1 = 0 THEN w2 ELSE IF {w1, w2} \in DOMAIN Pairs THEN Pairs[{w1, w2}] ELSE w1

TwoHanded(s) == pc_calcweapontype(s.w1, s.w2) = 3
Forbidden(s) == {x \in s.sc : IF x = "quicken" THEN ~TwoHanded(s) ELSE s.shield = 0}

(* Only the first status that is forbidden is ended. *)
pc_checkallowskill(s) ==
  LET ends == SelectSeq(<<"quicken", "autoguard", "defender">>, LAMBDA x : x \in Forbidden(s))
  IN IF ends = <<>> THEN s ELSE [s EXCEPT !.sc = @ \ {ends[1]}]

pc_equippoint(s, id) ==
  IF ItemOf[id].look \in {1, 2, 6} /\ ItemOf[id].equip = {"right"} /\ s.class \in Lefties
  THEN {"left", "right"} ELSE ItemOf[id].equip
pc_isequip(s, id) == s.class \in ItemOf[id].classes

(* Off its places and out of the hands. *)
TakenOff(s, n) ==
  LET mark == s.inv[n].equip
  IN [s EXCEPT !.index = [p \in Places |-> IF p \in mark THEN 0 ELSE @[p]], !.inv[n].equip = {},
               !.w1 = IF "right" \in mark THEN 0 ELSE @, !.w2 = IF "left" \in mark THEN 0 ELSE @,
               !.shield = IF "left" \in mark THEN 0 ELSE @]
pc_unequipitem(s, n, type) ==
  IF s.inv[n].equip = {} THEN s
  ELSE IF type = 0 THEN pc_checkallowskill(TakenOff(s, n)) ELSE TakenOff(s, n)

(* One who has AS_LEFT puts a short weapon into the hand that is free. *)
Hand(s) ==
  IF \E p \in {"left", "right"} : s.index[p] # 0 /\ "right" \in s.inv[s.index[p]].equip
  THEN {"left"} ELSE {"right"}
Where(s, id) ==
  IF pc_equippoint(s, id) = {"left", "right"} /\ ItemOf[id].equip = {"right"} THEN Hand(s)
  ELSE pc_equippoint(s, id)

(* Mutant: what was worn there keeps its mark. *)
OverThat(s, n, p, pos) == [s EXCEPT !.index[p] = n]
(* What is worn at p comes off first. *)
InPlaceOf(s, n, p, pos) ==
  IF s.index[p] # 0 /\ s.inv[s.index[p]].equip \cap pos # {}
  THEN [pc_unequipitem(s, s.index[p], 1) EXCEPT !.index[p] = n] ELSE [s EXCEPT !.index[p] = n]

Held(s, n, pos) ==
  LET item == ItemOf[s.inv[n].id]
      t == [s EXCEPT !.inv[n].equip = pos]
      r == IF "right" \in pos THEN [t EXCEPT !.w1 = item.look] ELSE t
  IN CASE "left" \notin pos -> r
       [] item.type = 4 -> [r EXCEPT !.shield = 0, !.w2 = IF pos = {"left"} THEN item.look ELSE 0]
       [] OTHER -> [r EXCEPT !.shield = item.look, !.w2 = 0]

(* The arrows looked for are the item whose id is the slot of the left
   accessory: none but 0, that of the first slot, which is an empty slot. *)
Arrows(s, id, left) ==
  LET blank == {n \in Slots : s.inv[n].id = Nil}
  IN IF ItemOf[id].look = 11 /\ left = 1 /\ blank # {} THEN [s EXCEPT !.inv[Min(blank)].equip = {"arrow"}] ELSE s

PutOn(s, n, pos) ==
  FoldLeft(LAMBDA t, p : IF p \in pos THEN InPlaceOf(t, n, p, pos) ELSE t, s, equip_pos)
pc_equipitem(s, n) ==
  LET id == s.inv[n].id
      pos == Where(s, id)
  IN IF ~pc_isequip(s, id) \/ pos = {} THEN s
     ELSE Arrows(pc_checkallowskill(Held(PutOn(s, n, pos), n, pos)), id, s.index["left accessory"])

pc_delitem(s, n)  == [pc_unequipitem(s, n, 0) EXCEPT !.inv[n] = Blank]

(* Where the marks say, the last slot wins; the hands are set, never emptied. *)
Marked(s, p)  == {n \in Slots : s.inv[n].id # Nil /\ p \in s.inv[n].equip}
Latest(S)     == IF S = {} THEN 0 ELSE Max(S)
InHand(s, n)  == ItemOf[s.inv[n].id]
pc_setequipindex(s) ==
  LET r == Latest(Marked(s, "right"))
      l == Latest(Marked(s, "left"))
  IN [s EXCEPT !.index = [p \in Places |-> Latest(Marked(s, p))],
       !.w1 = IF r = 0 THEN @ ELSE InHand(s, r).look,
       !.w2 = IF l = 0 THEN @
              ELSE IF InHand(s, l).type = 4 /\ s.inv[l].equip = {"left"} THEN InHand(s, l).look ELSE 0]

(* Items move up; marks that are not allowed (any more) go. *)
Packed(s)   == LET held == SelectSeq([n \in Slots |-> s.inv[n]], LAMBDA x : x.id # Nil)
               IN [n \in Slots |-> IF n <= Len(held) THEN held[n] ELSE Blank]
Kept(s, x, arena) ==
  x.id # Nil /\ x.equip \subseteq pc_equippoint(s, x.id) /\ ~(arena /\ ItemOf[x.id].arena)
Checked(s, arena) ==
  [s EXCEPT !.inv = [n \in Slots |-> IF Kept(s, @[n], arena) THEN @[n] ELSE [@[n] EXCEPT !.equip = {}]]]
pc_checkitem(s, arena) == pc_setequipindex(Checked([s EXCEPT !.inv = Packed(s)], arena))

-----------------------------------------------------------------------------
(* Worn already, and put on again elsewhere: it stays in the first place too. *)
Twice(n) == inventory[n].equip # {} /\ inventory[n].equip # Where(State, inventory[n].id)

clif_parse_EquipItem(n) ==
  /\ inventory[n].id # Nil /\ Becomes(pc_equipitem(State, n))
  /\ odd' = (odd \/ Twice(n)) /\ UNCHANGED <<floor, rough>>

clif_parse_UnequipItem(n) ==
  /\ Becomes(pc_unequipitem(State, n, 0)) /\ UNCHANGED <<floor, odd, rough>>

(* And all that hands an item on. *)
pc_dropitem(n) ==
  /\ inventory[n].id # Nil /\ Becomes(pc_delitem(State, n))
  /\ floor' = floor \cup {inventory[n]} /\ odd' = (odd \/ inventory[n].equip # {}) /\ UNCHANGED rough

pc_additem(x) ==
  LET blank == {n \in Slots : inventory[n].id = Nil}
  IN /\ blank # {} /\ Becomes([State EXCEPT !.inv[Min(blank)] = x])
     /\ floor' = floor \ {x} /\ UNCHANGED <<odd, rough>>

(* A script: refining takes the item off and puts it on again, or breaks it. *)
pc_checkequip(p) == equip_index[p]
buildin_successrefitem(p) ==
  /\ pc_checkequip(p) # 0
  /\ Becomes(pc_equipitem(pc_unequipitem(State, pc_checkequip(p), 0), pc_checkequip(p)))
  /\ UNCHANGED <<floor, odd, rough>>
buildin_failedrefitem(p) ==
  /\ pc_checkequip(p) # 0
  /\ Becomes(pc_delitem(pc_unequipitem(State, pc_checkequip(p), 0), pc_checkequip(p)))
  /\ floor' = floor \cup {[id |-> inventory[pc_checkequip(p)].id, equip |-> {}]}  \* another of its kind
  /\ UNCHANGED <<odd, rough>>

(* Stripped by an enemy; the first slot is taken for none.  The places are
   not those of the skills' names: this is RG_STRIPARMOR. *)
Strip ==
  /\ pc_checkequip("right") > 1 /\ Becomes(pc_unequipitem(State, pc_checkequip("right"), 0))
  /\ UNCHANGED <<floor, odd, rough>>

buildin_changebase ==
  /\ pc_checkequip("right") # 0 /\ Becomes(pc_unequipitem(State, pc_checkequip("right"), 1))
  /\ rough' = TRUE /\ UNCHANGED <<floor, odd>>

pc_jobchange(job) ==
  LET off(s, p) == IF s.index[p] # 0 /\ ~pc_isequip(s, s.inv[s.index[p]].id)
                   THEN pc_unequipitem(s, s.index[p], 1) ELSE s
  IN /\ class # job /\ Becomes(FoldLeft(off, [State EXCEPT !.class = job], equip_pos))
     /\ rough' = TRUE /\ UNCHANGED <<floor, odd>>

(* On another map, an arena or not. *)
clif_parse_LoadEndAck(arena) ==
  LET s == pc_checkitem(State, arena)
      worn(inv) == {x.id : x \in {inv[n] : n \in {i \in Slots : inv[i].equip # {} /\ inv[i].id # Nil}}}
  IN Becomes(s) /\ rough' = (rough \/ worn(s.inv) # worn(inventory)) /\ UNCHANGED <<floor, odd>>

skill_status_change_start(x) ==
  /\ Forbidden([State EXCEPT !.sc = {x}]) = {} /\ Becomes([State EXCEPT !.sc = @ \cup {x}])
  /\ UNCHANGED <<floor, odd, rough>>
skill_status_change_timer(x) ==
  /\ x \in sc_data /\ Becomes([State EXCEPT !.sc = @ \ {x}]) /\ UNCHANGED <<floor, odd, rough>>

(* Nothing is claimed once an item is marked twice. *)
Next ==
  /\ ~odd
  /\ \/ \E n \in Slots : clif_parse_EquipItem(n) \/ clif_parse_UnequipItem(n) \/ pc_dropitem(n)
     \/ \E x \in floor : pc_additem(x)
     \/ \E p \in {"left", "right"} : buildin_successrefitem(p) \/ buildin_failedrefitem(p)
     \/ Strip \/ buildin_changebase
     \/ \E job \in Classes : pc_jobchange(job)
     \/ \E arena \in BOOLEAN : clif_parse_LoadEndAck(arena)
     \/ \E x \in {"quicken", "autoguard", "defender"} :
          skill_status_change_start(x) \/ skill_status_change_timer(x)

Spec == Init /\ [][Next]_vars

-----------------------------------------------------------------------------
(* Until an item is handed on while worn, or put on again in another hand while
   worn in one, each place knows the one item that is marked as worn there,
   through every replacement, refinement, loss and reordering of slots; and
   until a change of job or map takes something off, the hands hold what is
   worn in them and at most one status is left that they forbid. *)
WearAgrees ==
  ~odd =>
    /\ \A p \in Places \ {"arrow"}, n \in Slots :
         equip_index[p] = n <=> inventory[n].id # Nil /\ p \in inventory[n].equip
    /\ LET r == equip_index["right"]
           l == equip_index["left"]
           pair == l # 0 /\ l # r /\ InHand([inv |-> inventory], l).type = 4
       IN ~rough =>
            /\ weapontype1 = IF r = 0 THEN 0 ELSE InHand([inv |-> inventory], r).look
            /\ weapontype2 = IF pair THEN InHand([inv |-> inventory], l).look ELSE 0
            /\ shield = IF l # 0 /\ ~pair /\ l # r THEN InHand([inv |-> inventory], l).look ELSE 0
            /\ Cardinality(Forbidden(State)) <= 1
=============================================================================
