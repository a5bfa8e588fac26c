------------------------------- MODULE Market -------------------------------
(***************************************************************************)
(* Buying and selling: players who vend out of their cart                  *)
(* (map/vending.c) and the shops of NPCs (map/npc.c), with what both do to *)
(* the goods, cart and zeny of each side (map/pc.c).                       *)
(*                                                                         *)
(* A vendor's client sends a list of slots, amounts and prices taken from  *)
(* the cart as it last saw it (seen); the server keeps the list as it is.  *)
(* Lists and orders name a slot once, as the game's client does.           *)
(*                                                                         *)
(* An int holds -Word .. Word - 1; prices are in Prices, amounts of an     *)
(* order in Amounts; MaxShop bounds the zeny that shops pay or earn,        *)
(* MaxOpened the lists sent, and nothing follows once `spoiled` is set.    *)
(* All players stand where they can see each other and the shop.           *)
(***************************************************************************)
EXTENDS Box, Sequences, SequencesExt

CONSTANTS Players, Prices, Amounts, ShopPrice, SellPrice, Word, MaxShop, MaxOpened, Start, Nil

MarketAssumption ==
  /\ Prices \subseteq Nat /\ Amounts \subseteq Nat \ {0} /\ Word \in Nat /\ MAX_ZENY < Word
  /\ SellPrice \in [Items -> Nat] /\ MaxShop \in Nat /\ MaxOpened \in Nat
  /\ DOMAIN ShopPrice \subseteq Items /\ \A i \in DOMAIN ShopPrice : ShopPrice[i] \in Nat

VARIABLES
  goods, cart, zeny,
  vending,  \* player |-> slot |-> [amount, value], or Nil when vender_id is 0
  seen,     \* player |-> the slots of its cart as its client shows them
  ledger,   \* history: item |-> bought from shops less sold to them
  bank,     \* history: zeny paid to shops less earned there, and lost at MAX_ZENY
  opened,   \* bound: how often an offer was made
  spoiled   \* history: offers went beyond a cart, or a total beyond an int

vars == <<goods, cart, zeny, vending, seen, ledger, bank, opened, spoiled>>

Slots  == 1 .. MAX_CART
AsInt(n) == ((n + Word) % (2 * Word)) - Word
Box2(p) == cart[p].box.slots

Init ==
  /\ goods = [p \in Players |-> Start[p].goods]
  /\ cart = [p \in Players |-> Start[p].cart]
  /\ zeny = [p \in Players |-> Start[p].zeny]
  /\ vending = [p \in Players |-> Nil]
  /\ seen = [p \in Players |-> Start[p].cart.box.slots]
  /\ ledger = [i \in Items |-> 0] /\ bank = 0 /\ opened = 0 /\ spoiled = FALSE

(* The offers of p that its cart c does not have. *)
Overdrawn(offers, c) ==
  offers # Nil /\ \E n \in DOMAIN offers :
    offers[n].amount > 0 /\ (c.box.slots[n].nameid = None \/ c.box.slots[n].amount < offers[n].amount)

-----------------------------------------------------------------------------
vending_openvending(p, offers) ==
  /\ \A n \in DOMAIN offers : /\ seen[p][n].nameid # None
                              /\ offers[n].amount \in 1 .. seen[p][n].amount
                              /\ offers[n].value \in Prices
  /\ opened < MaxOpened /\ opened' = opened + 1
  /\ vending' = [vending EXCEPT ![p] = offers]
  /\ spoiled' = (spoiled \/ Overdrawn(offers, cart[p]))
  /\ UNCHANGED <<goods, cart, zeny, seen, ledger, bank>>

vending_closevending(p) ==
  /\ vending[p] # Nil
  /\ vending' = [vending EXCEPT ![p] = Nil]
  /\ UNCHANGED <<goods, cart, zeny, seen, ledger, bank, opened, spoiled>>

(* Whether an amount could be added: as a new slot, to one there is, or not. *)
pc_checkadditem(inv, id, amount) ==
  LET found == {n \in InvSlots : inv[n].nameid = id}
  IN IF itemdb_isequip2(id) THEN "new"
     ELSE IF found # {} /\ inv[Lowest(found)].amount + amount > MAX_AMOUNT THEN "over"
     ELSE IF found # {} THEN "exist"
     ELSE IF amount > MAX_AMOUNT THEN "over" ELSE "new"

(* The totals of an order after each of its lines, in the order of slots. *)
Before(order, n) == {k \in DOMAIN order : k <= n}
Price(order, offers, n) ==
  MapThenSumSet(LAMBDA k : offers[k].value * order[k], Before(order, n))
Load(order, c, n) ==
  MapThenSumSet(LAMBDA k : itemdb_weight(c.box.slots[k].nameid) * order[k], Before(order, n))
NewLines(order, g, c, n) ==
  Cardinality({k \in Before(order, n) :
                 pc_checkadditem(g.inv, c.box.slots[k].nameid, order[k]) = "new"})

Allowed(p, v, order) ==
  \A n \in DOMAIN order :
    /\ n \in DOMAIN vending[v] /\ vending[v][n].amount > 0 /\ order[n] <= vending[v][n].amount
    /\ AsInt(Price(order, vending[v], n)) <= zeny[p]
    /\ Load(order, cart[v], n) + goods[p].weight <= MaxWeight
    /\ pc_checkadditem(goods[p].inv, cart[v].box.slots[n].nameid, order[n]) # "over"
    /\ NewLines(order, goods[p], cart[v], n) <= pc_inventoryblank(goods[p].inv)

AddLine(order, c, g, n) == pc_additem(g, c.box.slots[n].nameid, order[n])
TakeLine(order, c, n) ==
  IF c.box.slots[n].nameid = None \/ c.box.slots[n].amount < order[n] THEN c
  ELSE pc_cart_delitem(c, n, order[n])
InOrderOf(S) == SetToSortSeq(S, <)

(* Mutant: the offers stay as they are. *)
OffersKept(offers, order) == offers
Lowered(offers, order) ==
  [n \in DOMAIN offers |->
     IF n \in DOMAIN order THEN [offers[n] EXCEPT !.amount = @ - order[n]] ELSE offers[n]]

(* What the buyer does not pay the vendor gets all the same, and what the
   vendor cannot hold the buyer has paid. *)
vending_purchasereq(p, v, order) ==
  LET z    == AsInt(Price(order, vending[v], MAX_CART))
      line == InOrderOf(DOMAIN order)
      paid == [zeny EXCEPT ![p] = pc_payzeny(@, z)]
  IN /\ vending[v] # Nil /\ p # v /\ Allowed(p, v, order)
     /\ zeny' = [paid EXCEPT ![v] = pc_getzeny(@, z)]
     /\ goods' = [goods EXCEPT ![p] = FoldLeft(LAMBDA g, n : AddLine(order, cart[v], g, n), @, line)]
     /\ cart' = [cart EXCEPT ![v] = FoldLeft(LAMBDA c, n : TakeLine(order, c, n), @, line)]
     /\ vending' = [vending EXCEPT ![v] = Lowered(@, order)]
     /\ bank' = bank + (zeny[p] - zeny'[p]) - (zeny'[v] - zeny[v])
     /\ spoiled' = (spoiled \/ Price(order, vending[v], MAX_CART) # z)
     /\ UNCHANGED <<seen, ledger, opened>>

-----------------------------------------------------------------------------
pc_putitemtocart(p, n, amount) ==
  LET it == goods[p].inv[n]
  IN /\ it.nameid # None /\ it.amount >= amount /\ vending[p] = Nil
     /\ ~CartRefused(cart[p], it.nameid, amount)
     /\ cart' = [cart EXCEPT ![p] = pc_cart_additem(@, it.nameid, amount)]
     /\ goods' = [goods EXCEPT ![p] = pc_delitem(@, n, amount)]
     /\ UNCHANGED <<zeny, vending, seen, ledger, bank, opened, spoiled>>

pc_getitemfromcart(p, n, amount) ==
  LET it == Box2(p)[n]
  IN /\ it.nameid # None /\ it.amount >= amount /\ vending[p] = Nil
     /\ AddRefused(goods[p], it.nameid, amount) = 0
     /\ goods' = [goods EXCEPT ![p] = pc_additem(@, it.nameid, amount)]
     /\ cart' = [cart EXCEPT ![p] = pc_cart_delitem(@, n, amount)]
     /\ UNCHANGED <<zeny, vending, seen, ledger, bank, opened, spoiled>>

(* The client has read what was sent about its cart. *)
clif_cart_itemlist(p) ==
  /\ seen[p] # Box2(p) /\ seen' = [seen EXCEPT ![p] = Box2(p)]
  /\ UNCHANGED <<goods, cart, zeny, vending, ledger, bank, opened, spoiled>>

-----------------------------------------------------------------------------
(* A shop: an order of items, or of slots to sell.  A vendor is refused the
   click that would open one. *)
npc_buylist(p, order) ==
  LET z   == MapThenSumSet(LAMBDA i : ShopPrice[i] * order[i], DOMAIN order)
      w   == MapThenSumSet(LAMBDA i : itemdb_weight(i) * order[i], DOMAIN order)
      check(i) == pc_checkadditem(goods[p].inv, i, order[i])
  IN /\ vending[p] = Nil /\ bank + z <= MaxShop
     /\ \A i \in DOMAIN order : check(i) # "over"
     /\ z <= zeny[p] /\ w + goods[p].weight <= MaxWeight
     /\ Cardinality({i \in DOMAIN order : check(i) = "new"}) <= pc_inventoryblank(goods[p].inv)
     /\ goods' = [goods EXCEPT ![p] = FoldLeft(LAMBDA g, i : pc_additem(g, i, order[i]), @,
                                               SetToSeq(DOMAIN order))]
     /\ zeny' = [zeny EXCEPT ![p] = pc_payzeny(@, z)]
     /\ ledger' = [i \in Items |-> ledger[i] + IF i \in DOMAIN order THEN order[i] ELSE 0]
     /\ bank' = bank + zeny[p] - zeny'[p]
     /\ UNCHANGED <<cart, vending, seen, opened, spoiled>>

npc_selllist(p, order) ==
  LET inv == goods[p].inv
      z   == MapThenSumSet(LAMBDA n : SellPrice[inv[n].nameid] * order[n], DOMAIN order)
      gain == IF z > MAX_ZENY THEN MAX_ZENY ELSE z
  IN /\ vending[p] = Nil
     /\ \A n \in DOMAIN order : inv[n].nameid # None /\ inv[n].amount >= order[n]
     /\ bank - z >= -MaxShop
     /\ goods' = [goods EXCEPT ![p] = FoldLeft(LAMBDA g, n : pc_delitem(g, n, order[n]), @,
                                               InOrderOf(DOMAIN order))]
     /\ zeny' = [zeny EXCEPT ![p] = pc_getzeny(@, gain)]
     /\ ledger' = [i \in Items |-> ledger[i] -
          MapThenSumSet(LAMBDA n : order[n], {n \in DOMAIN order : inv[n].nameid = i})]
     /\ bank' = bank + zeny[p] - zeny'[p]
     /\ UNCHANGED <<cart, vending, seen, opened, spoiled>>

Orders(S)   == UNION {[T -> Amounts] : T \in (SUBSET S \ {{}})}
Lists       == UNION {[T -> [amount : Amounts, value : Prices]] : T \in (SUBSET Slots \ {{}})}

Next == ~spoiled /\
  \/ \E p \in Players, offers \in Lists : vending_openvending(p, offers)
  \/ \E p, v \in Players, order \in Orders(Slots) : vending_purchasereq(p, v, order)
  \/ \E p \in Players, n \in InvSlots, a \in Amounts : pc_putitemtocart(p, n, a)
  \/ \E p \in Players, n \in Slots, a \in Amounts : pc_getitemfromcart(p, n, a)
  \/ \E p \in Players, order \in Orders(DOMAIN ShopPrice) : npc_buylist(p, order)
  \/ \E p \in Players, order \in Orders(InvSlots) : npc_selllist(p, order)
  \/ \E p \in Players : vending_closevending(p) \/ clif_cart_itemlist(p)

Spec == Init /\ [][Next]_vars

-----------------------------------------------------------------------------
Amount(id, gs, cs) ==
  MapThenSumSet(LAMBDA p : Total(gs[p], id) + BoxTotal(cs[p].box, id), Players)
Purses(zs) == MapThenSumSet(LAMBDA p : zs[p], Players)

(* However vendors restock, reopen and are bought from by several, and unless
   a vendor offered what its cart did not have (the list of a client that had
   not read the last change) or a total did not fit an int: players have the
   items they started with and those of the shops, and the zeny that was not
   spent there, and none has less than nothing. *)
GoodsKept ==
  ~spoiled =>
    /\ \A i \in Items : Amount(i, goods, cart) =
         Amount(i, [p \in Players |-> Start[p].goods], [p \in Players |-> Start[p].cart]) + ledger[i]
    /\ Purses(zeny) = Purses([p \in Players |-> Start[p].zeny]) - bank
    /\ \A p \in Players : zeny[p] >= 0
    /\ \A v \in Players : ~Overdrawn(vending[v], cart[v])
=============================================================================
