------------------------------- MODULE Trade -------------------------------
(***************************************************************************)
(* Trading between two characters of one map server (map/trade.c), with    *)
(* what else may happen to them meanwhile: they drop, pick up and use      *)
(* items, spend zeny, change map and log out.  Each packet a client sends  *)
(* is handled in one step of the single-threaded server; packets of the    *)
(* two partners arrive in any order, and the server checks no more of      *)
(* their order than the actions below do.                                  *)
(*                                                                         *)
(* Bounds: MAX_DEAL is the 10 entries of deal_item_index, MAX_FLOOR the    *)
(* number of piles on the floor (the code has no limit).                   *)
(***************************************************************************)
EXTENDS Inventory, Sequences

CONSTANTS
  Players,        \* account ids
  NoPartner,      \* trade_partner 0
  MAX_DEAL, MAX_FLOOR,
  Amounts,        \* amounts a client asks for
  Zenys,          \* zeny amounts a client offers
  Prices,         \* what NPCs charge
  InitGoods, InitZeny

ASSUME TradeAssumption ==
  /\ NoPartner \notin Players
  /\ MAX_DEAL \in Nat \ {0} /\ MAX_FLOOR \in Nat
  /\ Amounts \subseteq Nat /\ Zenys \subseteq Nat /\ Prices \subseteq Nat
  /\ InitGoods \in [Players -> Goods] /\ InitZeny \in [Players -> 0 .. MAX_ZENY]
  /\ \A p \in Players : /\ ActualWeight(InitGoods[p]) <= InitGoods[p].weight
                       /\ InitGoods[p].weight <= MaxWeight

VARIABLES
  online,         \* accounts map_id2sd finds
  goods,          \* player |-> inventory and weight
  zeny,
  trade_partner,
  deal_locked,    \* 0 open, 1 "ok" pressed, 2 "trade" pressed
  deal,           \* player |-> deal_item_index and deal_item_amount
  deal_zeny,
  floor           \* piles on the floor, in the order they were dropped

dealVars  == <<trade_partner, deal_locked, deal, deal_zeny>>
vars == <<online, goods, zeny, dealVars, floor>>

DealSlots == 1 .. MAX_DEAL
NoDeal    == [i \in DealSlots |-> [index |-> 0, amount |-> 0]]

Init ==
  /\ online = {}
  /\ goods = InitGoods
  /\ zeny = InitZeny
  /\ trade_partner = [p \in Players |-> NoPartner]
  /\ deal_locked = [p \in Players |-> 0]
  /\ deal = [p \in Players |-> NoDeal]
  /\ deal_zeny = [p \in Players |-> 0]
  /\ floor = <<>>

(* map_id2sd(sd->trade_partner) != NULL *)
HasPartner(p) == trade_partner[p] \in online

-----------------------------------------------------------------------------
(* trade_traderequest: at once both are partners, before the other agrees.
   A client cannot ask its own character. *)
trade_traderequest(p, q) ==
  /\ p \in online /\ q \in online /\ p # q
  /\ trade_partner[p] = NoPartner /\ trade_partner[q] = NoPartner
  /\ trade_partner' = [trade_partner EXCEPT ![p] = q, ![q] = p]
  /\ UNCHANGED <<online, goods, zeny, deal_locked, deal, deal_zeny, floor>>

SeparateOne(p, q) ==                      \* mutant: the partner is left alone
  /\ deal_locked' = [deal_locked EXCEPT ![p] = 0, ![q] = 0]
  /\ trade_partner' = [trade_partner EXCEPT ![p] = NoPartner]

(* What ends a trade for both sides. *)
Separate(p, q) ==
  /\ deal_locked' = [deal_locked EXCEPT ![p] = 0, ![q] = 0]
  /\ trade_partner' = [trade_partner EXCEPT ![p] = NoPartner, ![q] = NoPartner]

(* trade_tradeack, type 4: refused.  What was offered so far stays in the
   deal lists.  (Type 3, accepted, changes nothing on the server.) *)
trade_tradeack(p) ==
  /\ p \in online /\ HasPartner(p)
  /\ Separate(p, trade_partner[p])
  /\ UNCHANGED <<online, goods, zeny, deal, deal_zeny, floor>>

OfferZenyAnyTime(p, z) ==                 \* mutant: deal_locked is not looked at
  /\ p \in online /\ HasPartner(p)
  /\ z > 0 /\ z <= zeny[p]
  /\ deal_zeny' = [deal_zeny EXCEPT ![p] = z]
  /\ UNCHANGED <<online, goods, zeny, trade_partner, deal_locked, deal, floor>>

(* trade_tradeadditem, index 0: zeny, up to what the character has now. *)
OfferZeny(p, z) ==
  /\ p \in online /\ HasPartner(p) /\ deal_locked[p] < 1
  /\ z > 0 /\ z <= zeny[p]
  /\ deal_zeny' = [deal_zeny EXCEPT ![p] = z]
  /\ UNCHANGED <<online, goods, zeny, trade_partner, deal_locked, deal, floor>>

(* trade_tradeadditem, an inventory slot: the first free entry, unless the
   partner could not carry the whole stack.  The same slot may be offered
   again. *)
FreeEntry(p) == {i \in DealSlots : deal[p][i].amount = 0}

PartnerCanCarry(p, n) ==
  goods[trade_partner[p]].weight
    + itemdb_weight(goods[p].inv[n].nameid) * goods[p].inv[n].amount <= MaxWeight

OfferItem(p, n, amount) ==
  /\ p \in online /\ HasPartner(p) /\ deal_locked[p] < 1
  /\ amount > 0 /\ amount <= goods[p].inv[n].amount
  /\ goods[p].inv[n].nameid # None
  /\ FreeEntry(p) # {}
  /\ PartnerCanCarry(p, n)
  /\ deal' = [deal EXCEPT ![p][Lowest(FreeEntry(p))] = [index |-> n, amount |-> amount]]
  /\ UNCHANGED <<online, goods, zeny, trade_partner, deal_locked, deal_zeny, floor>>

(* trade_tradeok: also takes "trade" back. *)
trade_tradeok(p) ==
  /\ p \in online /\ HasPartner(p)
  /\ deal_locked' = [deal_locked EXCEPT ![p] = 1]
  /\ UNCHANGED <<online, goods, zeny, trade_partner, deal, deal_zeny, floor>>

(* trade_tradecancel: the offered items of both are forgotten, the offered
   zeny is not. *)
CancelTrade(p) ==
  IF HasPartner(p)
  THEN /\ deal' = [deal EXCEPT ![p] = NoDeal, ![trade_partner[p]] = NoDeal]
       /\ Separate(p, trade_partner[p])
  ELSE UNCHANGED <<deal, deal_locked, trade_partner>>

trade_tradecancel(p) ==
  /\ p \in online /\ HasPartner(p)
  /\ CancelTrade(p)
  /\ UNCHANGED <<online, goods, zeny, deal_zeny, floor>>

-----------------------------------------------------------------------------
(* trade_tradecommit.  One entry of one side: the receiver gets it (or not:
   the answer of pc_additem is not looked at), the giver loses it. *)
HandOverKeeping(pair, from, to, entry) == \* mutant: no pc_delitem
  IF entry.amount = 0 THEN pair
  ELSE LET id == pair[from].inv[entry.index].nameid IN
       [pair EXCEPT ![to] = pc_additem(@, id, entry.amount)]

HandOver(pair, from, to, entry) ==
  IF entry.amount = 0 THEN pair
  ELSE LET id == pair[from].inv[entry.index].nameid IN
       [x \in {from, to} |->
          IF x = to THEN pc_additem(pair[to], id, entry.amount)
                    ELSE pc_delitem(pair[from], entry.index, entry.amount)]

(* The loop over the entries, the committing side's before the other's. *)
Exchange(p, q) ==
  LET after[i \in 0 .. MAX_DEAL] ==
        IF i = 0 THEN [x \in {p, q} |-> goods[x]]
        ELSE HandOver(HandOver(after[i - 1], p, q, deal[p][i]), q, p, deal[q][i])
  IN after[MAX_DEAL]

Commits(p) ==
  /\ HasPartner(p)
  /\ deal_locked[p] >= 1
  /\ deal_locked[trade_partner[p]] = 2

SwapZenyFree(p, q) ==                     \* mutant: the giver does not pay
  [zeny EXCEPT ![p] = @ + deal_zeny[q], ![q] = @ + deal_zeny[p]]

SwapZeny(p, q) ==
  [zeny EXCEPT ![p] = @ - deal_zeny[p] + deal_zeny[q],
               ![q] = @ + deal_zeny[p] - deal_zeny[q]]

CompleteTrade(p, q) ==
  /\ goods' = [x \in Players |-> IF x \in {p, q} THEN Exchange(p, q)[x] ELSE goods[x]]
  /\ zeny' = SwapZeny(p, q)
  /\ deal' = [deal EXCEPT ![p] = NoDeal, ![q] = NoDeal]
  /\ deal_zeny' = [deal_zeny EXCEPT ![p] = 0, ![q] = 0]
  /\ Separate(p, q)

(* The first "trade" is noted, the second completes. *)
trade_tradecommit(p) ==
  /\ p \in online /\ HasPartner(p)
  /\ deal_locked[p] >= 1 /\ deal_locked[trade_partner[p]] >= 1
  /\ IF Commits(p)
     THEN CompleteTrade(p, trade_partner[p])
     ELSE /\ deal_locked' = [deal_locked EXCEPT ![p] = 2]
          /\ UNCHANGED <<goods, zeny, trade_partner, deal, deal_zeny>>
  /\ UNCHANGED <<online, floor>>

-----------------------------------------------------------------------------
(* pc_authok: a new session takes part in no trade and offers nothing. *)
Login(p) ==
  /\ p \notin online
  /\ online' = online \cup {p}
  /\ trade_partner' = [trade_partner EXCEPT ![p] = NoPartner]
  /\ deal_locked' = [deal_locked EXCEPT ![p] = 0]
  /\ deal' = [deal EXCEPT ![p] = NoDeal]
  /\ deal_zeny' = [deal_zeny EXCEPT ![p] = 0]
  /\ UNCHANGED <<goods, zeny, floor>>

(* map_quit cancels the trade before the session leaves id_db. *)
map_quit(p) ==
  /\ p \in online
  /\ IF trade_partner[p] # NoPartner THEN CancelTrade(p)
     ELSE UNCHANGED <<deal, deal_locked, trade_partner>>
  /\ online' = online \ {p}
  /\ UNCHANGED <<goods, zeny, deal_zeny, floor>>

(* pc_setpos cancels the trade of a character that changes position. *)
pc_setpos(p) ==
  /\ p \in online /\ trade_partner[p] # NoPartner
  /\ CancelTrade(p)
  /\ UNCHANGED <<online, goods, zeny, deal_zeny, floor>>

-----------------------------------------------------------------------------
(* pc_dropitem: a pile on the floor, or none when map_addflooritem finds no free
   cell (its answer is not looked at); the item leaves the inventory anyway. *)
pc_dropitem(p, n, amount) ==
  /\ p \in online /\ Len(floor) < MAX_FLOOR
  /\ amount > 0
  /\ goods[p].inv[n].nameid # None /\ goods[p].inv[n].amount >= amount
  /\ \/ floor' = Append(floor, [nameid |-> goods[p].inv[n].nameid, amount |-> amount])
     \/ UNCHANGED floor
  /\ goods' = [goods EXCEPT ![p] = pc_delitem(@, n, amount)]
  /\ UNCHANGED <<online, zeny, dealVars>>

(* pc_takeitem: the pile disappears only when it was added. *)
pc_takeitem(p, i) ==
  /\ p \in online
  /\ AddRefused(goods[p], floor[i].nameid, floor[i].amount) = 0
  /\ goods' = [goods EXCEPT ![p] = pc_additem(@, floor[i].nameid, floor[i].amount)]
  /\ floor' = [j \in 1 .. Len(floor) - 1 |-> IF j < i THEN floor[j] ELSE floor[j + 1]]
  /\ UNCHANGED <<online, zeny, dealVars>>

(* pc_useitem: one of the stack is spent. *)
pc_useitem(p, n) ==
  /\ p \in online
  /\ goods[p].inv[n].nameid # None /\ goods[p].inv[n].amount > 0
  /\ goods' = [goods EXCEPT ![p] = pc_delitem(@, n, 1)]
  /\ UNCHANGED <<online, zeny, dealVars, floor>>

(* pc_payzeny, as NPCs call it. *)
PayZeny(p, price) ==
  /\ p \in online
  /\ zeny' = [zeny EXCEPT ![p] = pc_payzeny(@, price)]
  /\ UNCHANGED <<online, goods, dealVars, floor>>

-----------------------------------------------------------------------------
TradeStep ==
  \/ \E p, q \in Players : trade_traderequest(p, q)
  \/ \E p \in Players :
       \/ trade_tradeack(p) \/ trade_tradeok(p)
       \/ trade_tradecancel(p) \/ trade_tradecommit(p)
       \/ \E z \in Zenys : OfferZeny(p, z)
       \/ \E n \in InvSlots, a \in Amounts : OfferItem(p, n, a)

OtherStep ==
  \E p \in Players :
    \/ Login(p) \/ map_quit(p) \/ pc_setpos(p)
    \/ \E n \in InvSlots, a \in Amounts : pc_dropitem(p, n, a)
    \/ \E i \in DOMAIN floor : pc_takeitem(p, i)
    \/ \E n \in InvSlots : pc_useitem(p, n)
    \/ \E z \in Prices : PayZeny(p, z)

Next == TradeStep \/ OtherStep

Spec == Init /\ [][Next]_vars

-----------------------------------------------------------------------------
(* Properties *)

Deals == [DealSlots -> [index : InvSlots \cup {0}, amount : Nat]]

(* Types of the trade state that the invariants rest on. *)
DealTypeOK ==
  /\ online \subseteq Players
  /\ zeny \in [Players -> Int]
  /\ trade_partner \in [Players -> Players \cup {NoPartner}]
  /\ deal_locked \in [Players -> 0 .. 2]
  /\ deal \in [Players -> Deals]
  /\ deal_zeny \in [Players -> Nat]

TypeOK ==
  /\ DealTypeOK
  /\ goods \in [Players -> Goods]
  /\ floor \in Seq([nameid : Items, amount : Nat])

(* Two characters are each other's partner or neither is, whoever asks,
   refuses, cancels, warps or logs out first; a lock exists only within a
   trade; and "trade" was pressed only after both pressed "ok". *)
PartnersAgree ==
  \A p \in Players :
    /\ trade_partner[p] # NoPartner =>
         /\ p \in online /\ trade_partner[p] \in online
         /\ trade_partner[trade_partner[p]] = p
         /\ trade_partner[p] # p
    /\ deal_locked[p] > 0 => trade_partner[p] # NoPartner
    /\ deal_locked[p] = 2 => deal_locked[trade_partner[p]] >= 1

BothLocked(p) ==
  /\ trade_partner[p] # NoPartner
  /\ deal_locked[p] >= 1 /\ deal_locked[trade_partner[p]] >= 1

(* From the moment both pressed "ok" nobody changes an offer: it stands until
   the trade is completed or ended. *)
OffersFrozen ==
  [][\A p \in Players :
       BothLocked(p) /\ trade_partner'[p] = trade_partner[p]
         => deal'[p] = deal[p] /\ deal_zeny'[p] = deal_zeny[p]]_vars

(* Zeny reaches a character only from the partner of a trade both have locked,
   who loses as much in the same step. *)
ZenyOnlyFromPartner ==
  [][\A p \in Players : zeny'[p] > zeny[p] =>
       /\ BothLocked(p)
       /\ zeny'[p] + zeny'[trade_partner[p]] = zeny[p] + zeny[trade_partner[p]]]_vars

(* An offer can be kept.  Of the entries d of a giver whose inventory is inv:
   what they take from slot n, what they are of item id, and what they weigh. *)
OfferedFrom(d, n) ==
  SumFunctionOnSet([i \in DealSlots |-> IF d[i].index = n THEN d[i].amount ELSE 0], DealSlots)
ItemOffered(d, inv, i) == IF d[i].amount > 0 THEN inv[d[i].index].nameid ELSE None
Offered(d, inv, id) ==
  SumFunctionOnSet([i \in DealSlots |-> IF ItemOffered(d, inv, i) = id THEN d[i].amount ELSE 0],
                   DealSlots)
Load(d, inv) ==
  SumFunctionOnSet([i \in DealSlots |-> itemdb_weight(ItemOffered(d, inv, i)) * d[i].amount],
                   DealSlots)
EntriesOf(d) == {i \in DealSlots : d[i].amount > 0}

(* The slots of a giver with goods g still hold what was offered. *)
CanGive(g, d) ==
  \A i \in EntriesOf(d) :
    /\ g.inv[d[i].index].nameid # None
    /\ OfferedFrom(d, d[i].index) <= g.inv[d[i].index].amount

(* A receiver with goods g has the weight and the slots for it. *)
CanTake(g, d, inv) ==
  /\ g.weight + Load(d, inv) <= MaxWeight
  /\ Cardinality(EntriesOf(d)) <= pc_inventoryblank(g.inv)
  /\ \A id \in Items : Total(g, id) + Offered(d, inv, id) <= MAX_AMOUNT

BothCan(p, q) ==
  /\ CanGive(goods[p], deal[p]) /\ CanTake(goods[p], deal[q], goods[q].inv)
  /\ CanGive(goods[q], deal[q]) /\ CanTake(goods[q], deal[p], goods[p].inv)

OfferOf(p, id) == Offered(deal[p], goods[p].inv, id)

(* A completed trade that both sides could keep hands each exactly what the
   other offered: nothing is lost, doubled or handed to a third. *)
ExactExchange ==
  [][\A p \in Players :
       LET q == trade_partner[p] IN
       /\ trade_partner[p] # NoPartner /\ trade_partner'[p] = NoPartner
       /\ BothLocked(p) /\ goods' # goods
       /\ BothCan(p, q)
       => \A x \in Players, id \in Items :
            Total(goods'[x], id) = Total(goods[x], id)
              + (IF x = p THEN OfferOf(q, id) - OfferOf(p, id)
                 ELSE IF x = q THEN OfferOf(p, id) - OfferOf(q, id) ELSE 0)]_vars

(* The weight kept beside the inventory never understates what is carried, and
   stays within the limit, through any sequence of the operations, which keep
   the types. *)
CarriesWithinLimit ==
  TypeOK /\
  \A p \in Players :
    ActualWeight(goods[p]) <= goods[p].weight /\ goods[p].weight <= MaxWeight
=============================================================================
