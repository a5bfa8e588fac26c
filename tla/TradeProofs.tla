---------------------------- MODULE TradeProofs ----------------------------
(***************************************************************************)
(* Trading, for any number of characters: the two sides of a trade always  *)
(* agree that they trade, offers both have locked do not change, zeny only *)
(* ever moves between the two sides of a locked trade, nobody carries more *)
(* than the limit, and a trade hands over exactly what was offered.        *)
(***************************************************************************)
EXTENDS Trade, InventoryProofs, TLAPS

(* The inductive invariant: the deal's types, and that partners agree.  The
   lock clauses of PartnersAgree need the partner clauses: without symmetry a
   lock could outlive the trade on one side. *)
TradeInv == DealTypeOK /\ PartnersAgree

USE DEF dealVars

LEMMA SeparateTyped ==
  ASSUME DealTypeOK, NEW p \in Players, NEW q \in Players, Separate(p, q)
  PROVE  /\ deal_locked' \in [Players -> 0 .. 2]
         /\ trade_partner' \in [Players -> Players \cup {NoPartner}]
  BY DEF DealTypeOK, Separate

LEMMA NoDealTyped == NoDeal \in Deals
  BY TradeAssumption DEF NoDeal, Deals, DealSlots, InvSlots

LEMMA PartnerIsPlayer ==
  ASSUME TradeInv, NEW p \in Players, HasPartner(p)
  PROVE  /\ trade_partner[p] \in Players /\ trade_partner[p] # p
         /\ trade_partner[trade_partner[p]] = p
  BY TradeAssumption DEF TradeInv, DealTypeOK, PartnersAgree, HasPartner

(* Ending a trade on both sides keeps the partners in agreement. *)
LEMMA SeparateAgree ==
  ASSUME TradeInv, NEW p \in Players, HasPartner(p), Separate(p, trade_partner[p]),
         NEW gone \in SUBSET {p}, online' = online \ gone
  PROVE  PartnersAgree'
  BY PartnerIsPlayer, TradeAssumption
  DEF TradeInv, DealTypeOK, PartnersAgree, Separate

LEMMA CancelAgree ==
  ASSUME TradeInv, NEW p \in Players, CancelTrade(p), HasPartner(p),
         NEW gone \in SUBSET {p}, online' = online \ gone
  PROVE  PartnersAgree' /\ deal_locked' \in [Players -> 0 .. 2]
         /\ trade_partner' \in [Players -> Players \cup {NoPartner}]
         /\ deal' \in [Players -> Deals]
  <1>1. Separate(p, trade_partner[p]) /\ trade_partner[p] \in Players
    BY PartnerIsPlayer DEF CancelTrade
  <1>2. deal' \in [Players -> Deals]
    BY <1>1, NoDealTyped DEF CancelTrade, TradeInv, DealTypeOK
  <1>3. QED
    BY <1>1, <1>2, SeparateTyped, SeparateAgree DEF TradeInv

(***************************************************************************)
(* Type correctness of the state of trades.                                *)
(***************************************************************************)
LEMMA InitInv == Init => TradeInv
  BY TradeAssumption, InventoryAssumption, NoDealTyped
  DEF Init, TradeInv, DealTypeOK, PartnersAgree

LEMMA NextInv == TradeInv /\ [Next]_vars => TradeInv'
  <1> SUFFICES ASSUME TradeInv, [Next]_vars PROVE TradeInv'
    OBVIOUS
  <1> USE TradeAssumption, InventoryAssumption DEF TradeInv
  <1>1. ASSUME NEW p \in Players, NEW q \in Players, trade_traderequest(p, q)
        PROVE  TradeInv'
    <2>1. DealTypeOK'
      BY <1>1 DEF trade_traderequest, DealTypeOK
    <2>2. PartnersAgree'
      BY <1>1 DEF trade_traderequest, DealTypeOK, PartnersAgree
    <2>3. QED BY <2>1, <2>2
  <1>2. ASSUME NEW p \in Players, trade_tradeack(p)
        PROVE  TradeInv'
    <2>1. trade_partner[p] \in Players
      BY <1>2, PartnerIsPlayer DEF trade_tradeack
    <2>2. DealTypeOK'
      BY <1>2, <2>1, SeparateTyped DEF trade_tradeack, DealTypeOK
    <2>3. online' = online \ {}
      BY <1>2 DEF trade_tradeack
    <2>4. PartnersAgree'
      BY <1>2, <2>3, SeparateAgree DEF trade_tradeack
    <2>5. QED BY <2>2, <2>4
  <1>3. ASSUME NEW p \in Players, trade_tradeok(p)
        PROVE  TradeInv'
    <2>1. DealTypeOK'
      BY <1>3 DEF trade_tradeok, DealTypeOK
    <2>2. PartnersAgree'
      BY <1>3 DEF trade_tradeok, DealTypeOK, PartnersAgree, HasPartner
    <2>3. QED BY <2>1, <2>2
  <1>4. ASSUME NEW p \in Players, trade_tradecancel(p)
        PROVE  TradeInv'
    <2>1. online' = online \ {}
      BY <1>4 DEF trade_tradecancel
    <2>2. QED
      BY <1>4, <2>1, CancelAgree DEF trade_tradecancel, DealTypeOK
  <1>5. ASSUME NEW p \in Players, trade_tradecommit(p)
        PROVE  TradeInv'
    <2> DEFINE q == trade_partner[p]
    <2>1. q \in Players /\ q # p /\ trade_partner[q] = p
      BY <1>5, PartnerIsPlayer DEF trade_tradecommit
    <2>2. CASE CompleteTrade(p, q)
      <3>1. online' = online \ {} /\ Separate(p, q) /\ HasPartner(p)
        BY <1>5, <2>2 DEF trade_tradecommit, CompleteTrade, SwapZeny
      <3>2. PartnersAgree'
        BY <3>1, SeparateAgree
      <3>3. zeny' \in [Players -> Int] /\ deal_zeny' \in [Players -> Nat]
        <4>1. /\ zeny \in [Players -> Int] /\ deal_zeny \in [Players -> Nat]
              /\ deal_zeny[p] \in Nat /\ deal_zeny[q] \in Nat
          BY <2>1 DEF DealTypeOK
        <4>2. zeny' = [zeny EXCEPT ![p] = @ - deal_zeny[p] + deal_zeny[q],
                                   ![q] = @ + deal_zeny[p] - deal_zeny[q]]
          BY <2>2 DEF CompleteTrade, SwapZeny
        <4>3. zeny' \in [Players -> Int]
          BY <2>1, <4>1, <4>2
        <4>4. deal_zeny' \in [Players -> Nat]
          BY <2>2, <4>1 DEF CompleteTrade, SwapZeny
        <4>5. QED BY <4>3, <4>4
      <3>4. deal' \in [Players -> Deals]
        BY <2>2, NoDealTyped DEF CompleteTrade, SwapZeny, DealTypeOK
      <3>5. DealTypeOK'
        BY <2>1, <3>1, <3>3, <3>4, SeparateTyped DEF DealTypeOK
      <3>6. QED BY <3>2, <3>5
    <2>3. CASE /\ deal_locked' = [deal_locked EXCEPT ![p] = 2]
               /\ UNCHANGED <<goods, zeny, trade_partner, deal, deal_zeny, online>>
      <3>1. DealTypeOK'
        BY <2>3 DEF DealTypeOK
      <3>2. PartnersAgree'
        BY <1>5, <2>1, <2>3 DEF trade_tradecommit, DealTypeOK, PartnersAgree
      <3>3. QED BY <3>1, <3>2
    <2>4. QED
      BY <1>5, <2>2, <2>3 DEF trade_tradecommit
  <1>6. ASSUME NEW p \in Players, NEW z \in Zenys, OfferZeny(p, z)
        PROVE  TradeInv'
    <2>1. DealTypeOK'
      BY <1>6 DEF OfferZeny, DealTypeOK
    <2>2. PartnersAgree'
      BY <1>6 DEF OfferZeny, PartnersAgree
    <2>3. QED BY <2>1, <2>2
  <1>7. ASSUME NEW p \in Players, NEW n \in InvSlots, NEW m \in Amounts,
               OfferItem(p, n, m)
        PROVE  TradeInv'
    <2>1. [index |-> n, amount |-> m] \in [index : InvSlots \cup {0}, amount : Nat]
      OBVIOUS
    <2>2. deal' \in [Players -> Deals]
      BY <1>7, <2>1 DEF OfferItem, DealTypeOK, Deals
    <2>3. DealTypeOK'
      BY <1>7, <2>2 DEF OfferItem, DealTypeOK
    <2>4. PartnersAgree'
      BY <1>7 DEF OfferItem, PartnersAgree
    <2>5. QED BY <2>3, <2>4
  <1>8. ASSUME NEW p \in Players, Login(p)
        PROVE  TradeInv'
    <2>1. DealTypeOK'
      BY <1>8, NoDealTyped DEF Login, DealTypeOK
    <2>2. PartnersAgree'
      BY <1>8 DEF Login, DealTypeOK, PartnersAgree
    <2>3. QED BY <2>1, <2>2
  <1>9. ASSUME NEW p \in Players, map_quit(p)
        PROVE  TradeInv'
    <2>1. CASE trade_partner[p] # NoPartner
      <3>1. HasPartner(p) /\ CancelTrade(p)
        BY <1>9, <2>1 DEF map_quit, PartnersAgree, HasPartner
      <3>2. QED
        BY <1>9, <3>1, CancelAgree DEF map_quit, DealTypeOK
    <2>2. CASE trade_partner[p] = NoPartner
      <3>1. DealTypeOK'
        BY <1>9, <2>2 DEF map_quit, DealTypeOK
      <3>2. PartnersAgree'
        BY <1>9, <2>2 DEF map_quit, DealTypeOK, PartnersAgree
      <3>3. QED BY <3>1, <3>2
    <2>3. QED BY <2>1, <2>2
  <1>10. ASSUME NEW p \in Players, pc_setpos(p)
         PROVE  TradeInv'
    <2>1. HasPartner(p) /\ CancelTrade(p) /\ online' = online \ {}
      BY <1>10 DEF pc_setpos, PartnersAgree, HasPartner
    <2>2. QED
      BY <1>10, <2>1, CancelAgree DEF pc_setpos, DealTypeOK
  <1>11. ASSUME UNCHANGED <<online, zeny, dealVars>>
         PROVE  TradeInv'
    BY <1>11 DEF DealTypeOK, PartnersAgree
  <1>12. ASSUME NEW p \in Players, NEW z \in Prices, PayZeny(p, z)
         PROVE  TradeInv'
    <2>1. DealTypeOK'
      BY <1>12 DEF PayZeny, pc_payzeny, DealTypeOK
    <2>2. PartnersAgree'
      BY <1>12 DEF PayZeny, PartnersAgree
    <2>3. QED BY <2>1, <2>2
  <1>13. ASSUME NEW p \in Players, NEW n \in InvSlots, NEW m \in Amounts, pc_dropitem(p, n, m)
         PROVE  TradeInv'
    BY <1>11, <1>13 DEF pc_dropitem
  <1>14. ASSUME NEW p \in Players, NEW i \in DOMAIN floor, pc_takeitem(p, i)
         PROVE  TradeInv'
    BY <1>11, <1>14 DEF pc_takeitem
  <1>15. ASSUME NEW p \in Players, NEW n \in InvSlots, pc_useitem(p, n)
         PROVE  TradeInv'
    BY <1>11, <1>15 DEF pc_useitem
  <1>16. CASE UNCHANGED vars
    BY <1>11, <1>16 DEF vars
  <1>17. QED
    BY <1>1, <1>2, <1>3, <1>4, <1>5, <1>6, <1>7, <1>8, <1>9, <1>10, <1>12, <1>13,
       <1>14, <1>15, <1>16
    DEF Next, TradeStep, OtherStep

(* Whatever the clients send, the deal state keeps its types and partners agree. *)
THEOREM PartnersAlwaysAgree == Spec => [](DealTypeOK /\ PartnersAgree)
  <1>1. Init => TradeInv
    BY InitInv
  <1>2. TradeInv /\ [Next]_vars => TradeInv'
    BY NextInv
  <1>3. QED
    BY <1>1, <1>2, PTL DEF Spec, TradeInv

-----------------------------------------------------------------------------
(* Every step but an offer, a login and an end of a trade leaves the deal
   lists alone; the end of a trade leaves both sides without a partner. *)
LEMMA EndsForBoth ==
  ASSUME TradeInv, NEW p \in Players, HasPartner(p),
         NEW x \in Players, trade_partner[x] # NoPartner,
         Separate(p, trade_partner[p]), trade_partner'[x] = trade_partner[x]
  PROVE  x # p /\ x # trade_partner[p]
  BY PartnerIsPlayer DEF Separate, TradeInv, DealTypeOK

LEMMA FrozenStep ==
  ASSUME TradeInv, [Next]_vars, NEW x \in Players,
         BothLocked(x), trade_partner'[x] = trade_partner[x]
  PROVE  deal'[x] = deal[x] /\ deal_zeny'[x] = deal_zeny[x]
  <1> USE DEF TradeInv
  <1> DEFINE Same == deal'[x] = deal[x] /\ deal_zeny'[x] = deal_zeny[x]
  <1>0. /\ trade_partner[x] # NoPartner /\ deal_locked[x] >= 1
        /\ x \in online
    BY DEF BothLocked, PartnersAgree
  <1>1. ASSUME NEW p \in Players, HasPartner(p), CancelTrade(p), deal_zeny' = deal_zeny
        PROVE  Same
    BY <1>0, <1>1, EndsForBoth, PartnerIsPlayer DEF CancelTrade, DealTypeOK
  <1>2. ASSUME deal' = deal, deal_zeny' = deal_zeny
        PROVE  Same
    BY <1>2
  <1>3. ASSUME NEW p \in Players, trade_tradecommit(p)
        PROVE  Same
    <2>1. CASE CompleteTrade(p, trade_partner[p])
      BY <1>0, <1>3, <2>1, EndsForBoth, PartnerIsPlayer
      DEF trade_tradecommit, CompleteTrade, SwapZeny, DealTypeOK
    <2>2. CASE UNCHANGED <<deal, deal_zeny>>
      BY <2>2
    <2>3. QED
      BY <1>3, <2>1, <2>2 DEF trade_tradecommit
  <1>4. ASSUME NEW p \in Players, NEW z \in Zenys, OfferZeny(p, z)
        PROVE  Same
    BY <1>0, <1>4 DEF OfferZeny, DealTypeOK
  <1>5. ASSUME NEW p \in Players, NEW n \in InvSlots, NEW m \in Amounts, OfferItem(p, n, m)
        PROVE  Same
    BY <1>0, <1>5 DEF OfferItem, DealTypeOK
  <1>6. ASSUME NEW p \in Players, Login(p)
        PROVE  Same
    BY <1>0, <1>6 DEF Login, DealTypeOK
  <1>7. ASSUME NEW p \in Players, map_quit(p)
        PROVE  Same
    <2>1. CASE trade_partner[p] # NoPartner
      BY <1>1, <1>7, <2>1 DEF map_quit, PartnersAgree, HasPartner
    <2>2. CASE trade_partner[p] = NoPartner
      BY <1>2, <1>7, <2>2 DEF map_quit
    <2>3. QED BY <2>1, <2>2
  <1>8. ASSUME NEW p \in Players, pc_setpos(p)
        PROVE  Same
    BY <1>1, <1>8 DEF pc_setpos, PartnersAgree, HasPartner
  <1>9. ASSUME NEW p \in Players, trade_tradecancel(p)
        PROVE  Same
    BY <1>1, <1>9 DEF trade_tradecancel
  <1>10. ASSUME NEW p \in Players, NEW q \in Players, trade_traderequest(p, q)
         PROVE  Same
    BY <1>2, <1>10 DEF trade_traderequest
  <1>11. ASSUME NEW p \in Players, trade_tradeack(p) \/ trade_tradeok(p)
         PROVE  Same
    BY <1>2, <1>11 DEF trade_tradeack, trade_tradeok
  <1>12. ASSUME NEW p \in Players,
                \/ \E n \in InvSlots, m \in Amounts : pc_dropitem(p, n, m)
                \/ \E i \in DOMAIN floor : pc_takeitem(p, i)
                \/ \E n \in InvSlots : pc_useitem(p, n)
                \/ \E z \in Prices : PayZeny(p, z)
         PROVE  Same
    BY <1>2, <1>12 DEF pc_dropitem, pc_takeitem, pc_useitem, PayZeny
  <1>13. CASE UNCHANGED vars
    BY <1>2, <1>13 DEF vars
  <1>14. QED
    BY <1>3, <1>4, <1>5, <1>6, <1>7, <1>8, <1>9, <1>10, <1>11, <1>12, <1>13
    DEF Next, TradeStep, OtherStep

(* From the moment both sides pressed "ok" the offers stand until the trade is
   completed or ended. *)
THEOREM LockedOffersAreFrozen == Spec => OffersFrozen
  <1>1. TradeInv /\ [Next]_vars =>
          [\A p \in Players :
             BothLocked(p) /\ trade_partner'[p] = trade_partner[p]
               => deal'[p] = deal[p] /\ deal_zeny'[p] = deal_zeny[p]]_vars
    BY FrozenStep
  <1>2. Spec => []TradeInv
    BY PartnersAlwaysAgree, PTL DEF TradeInv
  <1>3. QED
    BY <1>1, <1>2, PTL DEF Spec, OffersFrozen

-----------------------------------------------------------------------------
LEMMA ZenyStep ==
  ASSUME TradeInv, [Next]_vars, NEW x \in Players, zeny'[x] > zeny[x]
  PROVE  /\ BothLocked(x)
         /\ zeny'[x] + zeny'[trade_partner[x]] = zeny[x] + zeny[trade_partner[x]]
  <1> USE DEF TradeInv
  <1> DEFINE Goal == /\ BothLocked(x)
                     /\ zeny'[x] + zeny'[trade_partner[x]] = zeny[x] + zeny[trade_partner[x]]
  <1>1. ASSUME zeny' = zeny
        PROVE  Goal
    BY <1>1 DEF DealTypeOK
  <1>2. ASSUME NEW p \in Players, trade_tradecommit(p)
        PROVE  Goal
    <2> DEFINE q == trade_partner[p]
    <2>1. /\ q \in Players /\ q # p /\ trade_partner[q] = p
      BY <1>2, PartnerIsPlayer DEF trade_tradecommit
    <2>2. CASE CompleteTrade(p, q)
      <3>1. /\ zeny \in [Players -> Int]
            /\ deal_zeny[p] \in Nat /\ deal_zeny[q] \in Nat
        BY <2>1 DEF DealTypeOK
      <3>2. zeny' = [zeny EXCEPT ![p] = @ - deal_zeny[p] + deal_zeny[q],
                                 ![q] = @ + deal_zeny[p] - deal_zeny[q]]
        BY <2>2 DEF CompleteTrade, SwapZeny
      <3>3. /\ zeny'[p] = zeny[p] - deal_zeny[p] + deal_zeny[q]
            /\ zeny'[q] = zeny[q] + deal_zeny[p] - deal_zeny[q]
            /\ \A y \in Players \ {p, q} : zeny'[y] = zeny[y]
        BY <2>1, <3>1, <3>2
      <3>4. x \in {p, q}
        BY <3>1, <3>3
      <3>5. zeny'[p] + zeny'[q] = zeny[p] + zeny[q]
        BY <2>1, <3>1, <3>3
      <3>6. BothLocked(p) /\ BothLocked(q)
        BY <1>2, <2>1, TradeAssumption DEF trade_tradecommit, BothLocked
      <3>7. CASE x = p
        BY <3>5, <3>6, <3>7
      <3>8. CASE x = q
        <4>1. zeny'[q] + zeny'[p] = zeny[q] + zeny[p]
          BY <2>1, <3>1, <3>3
        <4>2. QED BY <2>1, <3>6, <3>8, <4>1
      <3>9. QED BY <3>4, <3>7, <3>8
    <2>3. CASE zeny' = zeny
      BY <1>1, <2>3
    <2>4. QED
      BY <1>2, <2>2, <2>3 DEF trade_tradecommit
  <1>3. ASSUME NEW p \in Players, NEW z \in Prices, PayZeny(p, z)
        PROVE  Goal
    <2>1. zeny'[x] <= zeny[x]
      BY <1>3, TradeAssumption, InventoryAssumption DEF PayZeny, pc_payzeny, DealTypeOK
    <2>2. zeny[x] \in Int /\ zeny'[x] \in Int
      BY <1>3, TradeAssumption, InventoryAssumption DEF PayZeny, pc_payzeny, DealTypeOK
    <2>3. QED BY <2>1, <2>2
  <1>4. ASSUME NEW p \in Players,
               \/ \E q \in Players : trade_traderequest(p, q)
               \/ trade_tradeack(p) \/ trade_tradeok(p) \/ trade_tradecancel(p)
               \/ \E z \in Zenys : OfferZeny(p, z)
               \/ \E n \in InvSlots, m \in Amounts : OfferItem(p, n, m)
        PROVE  Goal
    BY <1>1, <1>4 DEF trade_traderequest, trade_tradeack, trade_tradeok,
                      trade_tradecancel, OfferZeny, OfferItem
  <1>5. ASSUME NEW p \in Players,
               \/ Login(p) \/ map_quit(p) \/ pc_setpos(p)
               \/ \E n \in InvSlots, m \in Amounts : pc_dropitem(p, n, m)
               \/ \E i \in DOMAIN floor : pc_takeitem(p, i)
               \/ \E n \in InvSlots : pc_useitem(p, n)
        PROVE  Goal
    BY <1>1, <1>5 DEF Login, map_quit, pc_setpos, pc_dropitem, pc_takeitem, pc_useitem
  <1>6. CASE UNCHANGED vars
    BY <1>1, <1>6 DEF vars
  <1>7. QED
    BY <1>2, <1>3, <1>4, <1>5, <1>6 DEF Next, TradeStep, OtherStep

(* Zeny only moves between the two sides of a trade both have locked, and what
   one gains the other loses. *)
THEOREM ZenyMovesBetweenPartners == Spec => ZenyOnlyFromPartner
  <1>1. TradeInv /\ [Next]_vars =>
          [\A p \in Players : zeny'[p] > zeny[p] =>
             /\ BothLocked(p)
             /\ zeny'[p] + zeny'[trade_partner[p]] = zeny[p] + zeny[trade_partner[p]]]_vars
    BY ZenyStep
  <1>2. Spec => []TradeInv
    BY PartnersAlwaysAgree, PTL DEF TradeInv
  <1>3. QED
    BY <1>1, <1>2, PTL DEF Spec, ZenyOnlyFromPartner

(***************************************************************************)
(* What is carried.  Amounts offered or on the floor were once in a slot,  *)
(* so they fit in one.                                                     *)
(***************************************************************************)
Entries == [index : InvSlots \cup {0}, amount : 0 .. MAX_AMOUNT]
Piles   == [nameid : Items, amount : 0 .. MAX_AMOUNT]

OffersFit ==
  \A p \in Players, i \in DealSlots :
    deal[p][i] \in Entries /\ (deal[p][i].amount > 0 => deal[p][i].index \in InvSlots)

LoadInv ==
  /\ TradeInv
  /\ goods \in [Players -> SoundGoods]
  /\ OffersFit
  /\ floor \in Seq(Piles)

(* One entry handed over: who gives and who receives stay within the limit. *)
LEMMA HandOverKeeps ==
  ASSUME NEW from, NEW to, from # to, NEW two, two = {from, to},
         NEW pair \in [two -> SoundGoods],
         NEW entry \in Entries, entry.amount > 0 => entry.index \in InvSlots
  PROVE  HandOver(pair, from, to, entry) \in [two -> SoundGoods]
  <1>1. CASE entry.amount = 0
    BY <1>1 DEF HandOver
  <1>2. CASE entry.amount # 0
    <2>1. entry.amount \in 0 .. MAX_AMOUNT /\ entry.amount \in Nat /\ entry.index \in InvSlots
      BY <1>2, InventoryAssumption DEF Entries
    <2>2. pair[from] \in SoundGoods /\ pair[to] \in SoundGoods /\ pair[from] \in Goods
      BY DEF SoundGoods
    <2>3. pair[from].inv[entry.index].nameid \in Items \cup {None}
      BY <2>1, <2>2, GoodsAre DEF Cells
    <2>4. pc_additem(pair[to], pair[from].inv[entry.index].nameid, entry.amount) \in SoundGoods
      BY <2>1, <2>2, <2>3, AddKeeps
    <2>5. pc_delitem(pair[from], entry.index, entry.amount) \in SoundGoods
      BY <2>1, <2>2, DelKeeps
    <2>6. QED
      BY <1>2, <2>4, <2>5 DEF HandOver
  <1>3. QED
    BY <1>1, <1>2

(* The loop of trade_tradecommit, as far as its entry n. *)
Rounds(p, q, n, after) ==
  after = [i \in 0 .. n |->
             IF i = 0 THEN [x \in {p, q} |-> goods[x]]
             ELSE HandOver(HandOver(after[i - 1], p, q, deal[p][i]), q, p, deal[q][i])]

LEMMA RoundsExist ==
  ASSUME NEW p, NEW q, NEW n \in Nat
  PROVE  \E after : Rounds(p, q, n, after)
  <1> DEFINE T == {m \in Nat : \E after : Rounds(p, q, m, after)}
             first == [x \in {p, q} |-> goods[x]]
             Round(x, i) == HandOver(HandOver(x, p, q, deal[p][i]), q, p, deal[q][i])
  <1>1. 0 \in T
    <2> DEFINE g == [i \in 0 .. 0 |-> first]
    <2>1. \A i \in 0 .. 0 : i = 0
      OBVIOUS
    <2>2. Rounds(p, q, 0, g)
      BY <2>1 DEF Rounds
    <2>3. QED
      BY <2>2
  <1>2. ASSUME NEW m \in T PROVE m + 1 \in T
    <2>1. PICK g : Rounds(p, q, m, g)
      OBVIOUS
    <2>2. m \in Nat
      OBVIOUS
    <2> DEFINE h == [i \in 0 .. m + 1 |-> IF i = 0 THEN first ELSE Round(g[i - 1], i)]
    <2>3. ASSUME NEW i \in 0 .. m
          PROVE  h[i] = g[i]
      <3>1. g[i] = IF i = 0 THEN first ELSE Round(g[i - 1], i)
        BY <2>1 DEF Rounds
      <3>2. i \in 0 .. m + 1
        BY <2>2
      <3>3. QED
        BY <3>1, <3>2
    <2>4. \A i \in 0 .. m + 1 : i # 0 => i - 1 \in 0 .. m
      BY <2>2
    <2> HIDE DEF Round, first
    <2>5. h = [i \in 0 .. m + 1 |-> IF i = 0 THEN first ELSE Round(h[i - 1], i)]
      BY <2>3, <2>4
    <2>6. Rounds(p, q, m + 1, h)
      BY <2>5 DEF Rounds, Round, first
    <2>7. QED
      BY <2>2, <2>6
  <1> HIDE DEF T
  <1>3. T = Nat
    <2>1. T \in SUBSET Nat
      BY DEF T
    <2>2. QED
      BY <1>1, <1>2, <2>1, NatSets
  <1>4. QED
    BY <1>3 DEF T

LEMMA ExchangeIs ==
  ASSUME NEW p, NEW q
  PROVE  Exchange(p, q) = (CHOOSE after : Rounds(p, q, MAX_DEAL, after))[MAX_DEAL]
  BY DEF Exchange, Rounds

(* The whole exchange: both sides stay within the limit. *)
LEMMA ExchangeKeeps ==
  ASSUME LoadInv, NEW p \in Players, NEW q \in Players, p # q
  PROVE  Exchange(p, q) \in [{p, q} -> SoundGoods]
  <1> DEFINE a == CHOOSE after : Rounds(p, q, MAX_DEAL, after)
             T == {m \in Nat : m <= MAX_DEAL => a[m] \in [{p, q} -> SoundGoods]}
  <1>1. Rounds(p, q, MAX_DEAL, a) /\ MAX_DEAL \in Nat
    BY RoundsExist, TradeAssumption
  <1>2. Exchange(p, q) = a[MAX_DEAL]
    BY ExchangeIs
  <1> HIDE DEF a
  <1>3. 0 \in T
    <2>1. a[0] = [x \in {p, q} |-> goods[x]]
      BY <1>1 DEF Rounds
    <2>2. QED
      BY <2>1 DEF LoadInv
  <1>4. ASSUME NEW m \in T, m + 1 <= MAX_DEAL
        PROVE  a[m + 1] \in [{p, q} -> SoundGoods]
    <2>1. m \in Nat /\ m + 1 \in 0 .. MAX_DEAL /\ m + 1 # 0 /\ (m + 1) - 1 = m /\ m <= MAX_DEAL
          /\ m + 1 \in DealSlots
      BY <1>1, <1>4 DEF DealSlots
    <2>2. a[m + 1] = HandOver(HandOver(a[m], p, q, deal[p][m + 1]), q, p, deal[q][m + 1])
      BY <1>1, <2>1 DEF Rounds
    <2>3. a[m] \in [{p, q} -> SoundGoods]
      BY <2>1
    <2>4. /\ deal[p][m + 1] \in Entries /\ deal[q][m + 1] \in Entries
          /\ deal[p][m + 1].amount > 0 => deal[p][m + 1].index \in InvSlots
          /\ deal[q][m + 1].amount > 0 => deal[q][m + 1].index \in InvSlots
      BY <2>1 DEF LoadInv, OffersFit
    <2>5. HandOver(a[m], p, q, deal[p][m + 1]) \in [{p, q} -> SoundGoods]
      BY <2>3, <2>4, HandOverKeeps
    <2>6. {p, q} = {q, p}
      OBVIOUS
    <2>7. QED
      BY <2>2, <2>4, <2>5, <2>6, HandOverKeeps
  <1>5. T = Nat
    <2>1. T \in SUBSET Nat /\ \A m \in T : m + 1 \in Nat
      OBVIOUS
    <2>2. \A m \in T : m + 1 \in T
      BY <1>4, <2>1
    <2> HIDE DEF T
    <2>3. QED
      BY <1>3, <2>1, <2>2, NatSets
  <1>6. QED
    BY <1>1, <1>2, <1>5

LEMMA LoadInit == Init => LoadInv
  <1> SUFFICES ASSUME Init PROVE LoadInv
    OBVIOUS
  <1>1. TradeInv
    BY InitInv
  <1>2. goods \in [Players -> SoundGoods]
    BY TradeAssumption DEF Init, SoundGoods, WeighsRight
  <1>3. OffersFit
    BY InventoryAssumption, TradeAssumption DEF Init, OffersFit, NoDeal, Entries
  <1>4. QED
    BY <1>1, <1>2, <1>3 DEF Init, LoadInv

(* Offers that are forgotten, or of a new session, fit. *)
LEMMA Forgotten ==
  ASSUME LoadInv, NEW p, NEW q,
         \/ deal' = [deal EXCEPT ![p] = NoDeal, ![q] = NoDeal]
         \/ deal' = [deal EXCEPT ![p] = NoDeal]
         \/ UNCHANGED deal
  PROVE  OffersFit'
  <1>1. \A i \in DealSlots : NoDeal[i] \in Entries /\ NoDeal[i].amount = 0
    BY InventoryAssumption DEF NoDeal, Entries
  <1>2. deal \in [Players -> Deals] /\ OffersFit
    BY DEF LoadInv, TradeInv, DealTypeOK
  <1>3. \A x \in Players : deal'[x] = deal[x] \/ deal'[x] = NoDeal
    BY <1>2
  <1>4. QED
    BY <1>1, <1>2, <1>3 DEF OffersFit

LEMMA CarriedIs ==
  ASSUME LoadInv, NEW p \in Players, NEW n \in InvSlots
  PROVE  /\ goods[p] \in SoundGoods /\ goods[p].inv[n] \in Cells
         /\ goods[p].inv[n].amount \in 0 .. MAX_AMOUNT /\ goods[p].inv[n].nameid \in Items \cup {None}
  <1>1. goods[p] \in SoundGoods /\ goods[p] \in Goods
    BY DEF LoadInv, SoundGoods
  <1>2. QED
    BY <1>1, GoodsAre DEF Cells

LEMMA LoadNext == LoadInv /\ [Next]_vars => LoadInv'
  <1> SUFFICES ASSUME LoadInv, [Next]_vars PROVE LoadInv'
    OBVIOUS
  <1> USE DEF dealVars
  <1>0. TradeInv' /\ goods \in [Players -> SoundGoods] /\ OffersFit /\ floor \in Seq(Piles)
    BY NextInv DEF LoadInv
  <1>1. ASSUME NEW p \in Players, NEW n \in InvSlots, NEW m \in Amounts, OfferItem(p, n, m)
        PROVE  LoadInv'
    <2>1. m \in Nat /\ m <= goods[p].inv[n].amount /\ n # 0 /\ n \in InvSlots \cup {0}
      BY <1>1, TradeAssumption, SlotsFinite DEF OfferItem
    <2>2. goods[p].inv[n].amount \in 0 .. MAX_AMOUNT
      BY CarriedIs
    <2> DEFINE entry == [index |-> n, amount |-> m]
    <2>3. entry \in Entries /\ entry.index \in InvSlots
      BY <2>1, <2>2, InventoryAssumption DEF Entries
    <2>4. deal' = [deal EXCEPT ![p][Lowest(FreeEntry(p))] = entry]
      BY <1>1 DEF OfferItem
    <2>5. deal \in [Players -> Deals]
      BY DEF LoadInv, TradeInv, DealTypeOK
    <2> HIDE DEF entry
    <2>6. ASSUME NEW x \in Players, NEW i \in DealSlots
          PROVE  deal'[x][i] = deal[x][i] \/ deal'[x][i] = entry
      <3>1. deal[x] \in [DealSlots -> [index : InvSlots \cup {0}, amount : Nat]]
        BY <2>5 DEF Deals
      <3>2. QED
        BY <2>4, <2>5, <3>1
    <2>7. OffersFit'
      BY <1>0, <2>3, <2>6 DEF OffersFit
    <2>8. QED
      BY <1>0, <1>1, <2>7 DEF OfferItem, LoadInv
  <1>2. ASSUME NEW p \in Players, trade_tradecommit(p)
        PROVE  LoadInv'
    <2> DEFINE q == trade_partner[p]
    <2>1. q \in Players /\ q # p
      BY <1>2, PartnerIsPlayer DEF LoadInv, trade_tradecommit
    <2>2. CASE CompleteTrade(p, q)
      <3>1. Exchange(p, q) \in [{p, q} -> SoundGoods]
        BY <2>1, ExchangeKeeps
      <3>2. goods' \in [Players -> SoundGoods]
        BY <1>0, <2>1, <2>2, <3>1 DEF CompleteTrade
      <3>3. OffersFit'
        BY <2>2, Forgotten DEF CompleteTrade
      <3>4. QED
        BY <1>0, <1>2, <3>2, <3>3 DEF trade_tradecommit, LoadInv
    <2>3. CASE UNCHANGED <<goods, deal>>
      <3>1. OffersFit'
        BY <2>3, Forgotten
      <3>2. QED
        BY <1>0, <1>2, <2>3, <3>1 DEF trade_tradecommit, LoadInv
    <2>4. QED
      BY <1>2, <2>2, <2>3 DEF trade_tradecommit
  <1>3. ASSUME NEW p \in Players, NEW n \in InvSlots, NEW m \in Nat,
               goods' = [goods EXCEPT ![p] = pc_delitem(@, n, m)], UNCHANGED deal,
               \/ UNCHANGED floor
               \/ /\ floor' = Append(floor, [nameid |-> goods[p].inv[n].nameid, amount |-> m])
                  /\ goods[p].inv[n].nameid # None /\ goods[p].inv[n].amount >= m
        PROVE  LoadInv'
    <2>1. goods' \in [Players -> SoundGoods]
      BY <1>0, <1>3, DelKeeps
    <2>2. OffersFit'
      BY <1>3, Forgotten
    <2>3. floor' \in Seq(Piles)
      <3>1. CASE UNCHANGED floor
        BY <1>0, <3>1
      <3>2. CASE ~UNCHANGED floor
        <4> DEFINE pile == [nameid |-> goods[p].inv[n].nameid, amount |-> m]
        <4>1. pile \in Piles
          BY <1>3, <3>2, CarriedIs, InventoryAssumption DEF Piles
        <4>2. floor' = Append(floor, pile)
          BY <1>3, <3>2
        <4> HIDE DEF pile
        <4>3. QED
          BY <1>0, <4>1, <4>2
      <3>3. QED
        BY <3>1, <3>2
    <2>4. QED
      BY <1>0, <2>1, <2>2, <2>3 DEF LoadInv
  <1>4. ASSUME NEW p \in Players, NEW i \in DOMAIN floor, pc_takeitem(p, i)
        PROVE  LoadInv'
    <2>1. Len(floor) \in Nat /\ DOMAIN floor = 1 .. Len(floor)
          /\ \A j \in 1 .. Len(floor) : floor[j] \in Piles
      BY <1>0
    <2>2. floor[i].nameid \in Items \cup {None} /\ floor[i].amount \in 0 .. MAX_AMOUNT
      BY <2>1 DEF Piles
    <2>3. goods' \in [Players -> SoundGoods]
      BY <1>0, <1>4, <2>2, AddKeeps DEF pc_takeitem
    <2>4. OffersFit'
      BY <1>4, Forgotten DEF pc_takeitem
    <2>5. Len(floor) - 1 \in Nat
      BY <2>1
    <2>6. floor' = [j \in 1 .. Len(floor) - 1 |-> IF j < i THEN floor[j] ELSE floor[j + 1]]
      BY <1>4 DEF pc_takeitem
    <2>7. \A j \in 1 .. Len(floor) - 1 : (IF j < i THEN floor[j] ELSE floor[j + 1]) \in Piles
      BY <2>1
    <2>8. floor' \in [1 .. Len(floor) - 1 -> Piles]
      BY <2>6, <2>7
    <2>9. floor' \in Seq(Piles)
      BY <2>5, <2>8
    <2>10. QED
      BY <1>0, <2>3, <2>4, <2>9 DEF LoadInv
  <1>5. ASSUME NEW p \in Players, NEW n \in InvSlots, NEW m \in Amounts, pc_dropitem(p, n, m)
        PROVE  LoadInv'
    <2>1. m \in Nat
      BY TradeAssumption
    <2>2. QED
      BY <1>3, <1>5, <2>1 DEF pc_dropitem
  <1>6. ASSUME NEW p \in Players, NEW n \in InvSlots, pc_useitem(p, n)
        PROVE  LoadInv'
    BY <1>3, <1>6 DEF pc_useitem
  <1>7. ASSUME UNCHANGED <<goods, floor>>, OffersFit'
        PROVE  LoadInv'
    BY <1>0, <1>7 DEF LoadInv
  <1>8. ASSUME NEW p \in Players,
               \/ trade_tradecancel(p) \/ map_quit(p) \/ pc_setpos(p) \/ Login(p)
        PROVE  LoadInv'
    <2>1. UNCHANGED <<goods, floor>>
      BY <1>8 DEF trade_tradecancel, map_quit, pc_setpos, Login
    <2>2. \/ deal' = [deal EXCEPT ![p] = NoDeal, ![trade_partner[p]] = NoDeal]
          \/ deal' = [deal EXCEPT ![p] = NoDeal]
          \/ UNCHANGED deal
      BY <1>8 DEF trade_tradecancel, map_quit, pc_setpos, Login, CancelTrade
    <2>3. QED
      BY <1>7, <2>1, <2>2, Forgotten
  <1>9. ASSUME UNCHANGED <<goods, floor, deal>>
        PROVE  LoadInv'
    BY <1>7, <1>9, Forgotten
  <1>10. ASSUME NEW p \in Players,
               \/ \E q \in Players : trade_traderequest(p, q)
               \/ trade_tradeack(p) \/ trade_tradeok(p)
               \/ \E z \in Zenys : OfferZeny(p, z)
               \/ \E z \in Prices : PayZeny(p, z)
        PROVE  LoadInv'
    BY <1>9, <1>10 DEF trade_traderequest, trade_tradeack, trade_tradeok, OfferZeny, PayZeny
  <1>11. CASE UNCHANGED vars
    BY <1>9, <1>11 DEF vars
  <1>12. QED
    BY <1>1, <1>2, <1>4, <1>5, <1>6, <1>8, <1>10, <1>11 DEF Next, TradeStep, OtherStep

(* Whatever is traded, dropped, picked up and used, in any order, nobody ever
   carries more than the weight the server keeps says, nor that more than the
   limit; and all state keeps its types. *)
THEOREM NobodyOverloaded == Spec => []CarriesWithinLimit
  <1>1. LoadInv => CarriesWithinLimit
    <2> SUFFICES ASSUME LoadInv PROVE CarriesWithinLimit
      OBVIOUS
    <2>1. goods \in [Players -> Goods]
      BY DEF LoadInv, SoundGoods
    <2>2. MAX_AMOUNT \in Nat /\ Piles \subseteq [nameid : Items, amount : Nat]
      BY InventoryAssumption DEF Piles
    <2>3. floor \in Seq([nameid : Items, amount : Nat])
      <3>1. Len(floor) \in Nat /\ floor \in [1 .. Len(floor) -> Piles]
        BY DEF LoadInv
      <3>2. floor \in [1 .. Len(floor) -> [nameid : Items, amount : Nat]]
        BY <2>2, <3>1
      <3>3. ASSUME NEW S, NEW n \in Nat, NEW f \in [1 .. n -> S]
            PROVE  f \in Seq(S)
        OBVIOUS
      <3>4. QED
        BY <3>1, <3>2, <3>3
    <2>4. \A p \in Players : WeighsRight(goods[p])
      BY DEF LoadInv, SoundGoods
    <2>5. QED
      BY <2>1, <2>3, <2>4 DEF LoadInv, TradeInv, CarriesWithinLimit, TypeOK, WeighsRight
  <1>2. QED
    BY <1>1, LoadInit, LoadNext, PTL DEF Spec

(***************************************************************************)
(* What a completed trade hands over.  The loop is followed with what is   *)
(* left of both offers: an entry handed over is struck out, so that in the *)
(* end nothing is left.                                                    *)
(***************************************************************************)
DealLists == {d \in [DealSlots -> Entries] : \A i \in EntriesOf(d) : d[i].index \in InvSlots}
Struck(d, k) == [d EXCEPT ![k].amount = 0]

(* A giver with goods g still has, in the slots offered, what they held in inv
   and enough of it. *)
Holds(g, d, inv) ==
  /\ CanGive(g, d)
  /\ \A i \in EntriesOf(d) : g.inv[d[i].index].nameid = inv[d[i].index].nameid

LEMMA DealSlotsFinite == IsFiniteSet(DealSlots)
  BY FS_Interval, TradeAssumption DEF DealSlots

LEMMA TermGone ==
  ASSUME NEW f, NEW h, NEW k \in DealSlots, AgreeBut(f, h, DealSlots, k), h[k] = 0
  PROVE  /\ SumFunctionOnSet(f, DealSlots) \in Nat /\ SumFunctionOnSet(h, DealSlots) \in Nat
         /\ f[k] \in Nat
         /\ SumFunctionOnSet(h, DealSlots) = SumFunctionOnSet(f, DealSlots) - f[k]
         /\ \A i \in DealSlots : h[i] <= SumFunctionOnSet(h, DealSlots)
  <1>1. \A i \in DealSlots : f[i] \in Nat /\ h[i] \in Nat
    BY DEF AgreeBut
  <1>2. /\ SumFunctionOnSet(f, DealSlots) \in Nat /\ SumFunctionOnSet(h, DealSlots) \in Nat
        /\ \A i \in DealSlots : h[i] <= SumFunctionOnSet(h, DealSlots)
    BY <1>1, DealSlotsFinite, SumNat
  <1>3. SumFunctionOnSet(h, DealSlots)
          = SumFunctionOnSet(f, DealSlots) + (IF k \in DealSlots THEN h[k] - f[k] ELSE 0)
    BY DealSlotsFinite, SumChanged
  <1>4. QED
    BY <1>1, <1>2, <1>3

LEMMA ListIs ==
  ASSUME NEW d \in DealLists, NEW i \in DealSlots
  PROVE  /\ d[i] \in Entries /\ d[i].amount \in Nat /\ d[i].amount \in 0 .. MAX_AMOUNT
         /\ d[i] = [index |-> d[i].index, amount |-> d[i].amount]
         /\ i \in EntriesOf(d) <=> d[i].amount # 0
         /\ d[i].amount # 0 => d[i].index \in InvSlots
  BY InventoryAssumption DEF DealLists, Entries, EntriesOf

LEMMA StruckIs ==
  ASSUME NEW d \in DealLists, NEW k \in DealSlots
  PROVE  /\ Struck(d, k) \in DealLists
         /\ Struck(d, k)[k].amount = 0
         /\ \A i \in DealSlots : i # k => Struck(d, k)[i] = d[i]
         /\ d[k].amount = 0 => Struck(d, k) = d
         /\ EntriesOf(Struck(d, k)) = EntriesOf(d) \ {k}
  <1>1. d \in [DealSlots -> Entries] /\ d[k] = [index |-> d[k].index, amount |-> d[k].amount]
    BY ListIs DEF DealLists
  <1>2. Struck(d, k) = [d EXCEPT ![k] = [index |-> d[k].index, amount |-> 0]]
    <2>1. d[k] \in Entries
      BY ListIs
    <2>2. [d[k] EXCEPT !.amount = 0] = [index |-> d[k].index, amount |-> 0]
      BY <2>1 DEF Entries
    <2>3. QED
      BY <1>1, <2>2 DEF Struck
  <1>3. [index |-> d[k].index, amount |-> 0] \in Entries
    BY <1>1, InventoryAssumption DEF Entries
  <1>4. Struck(d, k) \in [DealSlots -> Entries]
    BY <1>1, <1>2, <1>3
  <1>5. /\ Struck(d, k)[k].amount = 0
        /\ \A i \in DealSlots : i # k => Struck(d, k)[i] = d[i]
        /\ d[k].amount = 0 => Struck(d, k) = d
    BY <1>1, <1>2
  <1>6. EntriesOf(Struck(d, k)) = EntriesOf(d) \ {k}
    BY <1>5, ListIs DEF EntriesOf
  <1>7. \A i \in EntriesOf(Struck(d, k)) : Struck(d, k)[i].index \in InvSlots
    <2>1. \A i \in EntriesOf(d) : i \in DealSlots /\ d[i].index \in InvSlots
      BY DEF DealLists, EntriesOf
    <2>2. QED
      BY <1>5, <1>6, <2>1
  <1>8. QED
    BY <1>4, <1>5, <1>6, <1>7 DEF DealLists

(* The terms of the three sums of an offer. *)
LEMMA TermsAre ==
  ASSUME NEW d \in DealLists, NEW inv \in [InvSlots -> Cells], NEW i \in DealSlots
  PROVE  /\ ItemOffered(d, inv, i) \in Items \cup {None}
         /\ itemdb_weight(ItemOffered(d, inv, i)) * d[i].amount \in Nat
         /\ d[i].amount = 0 => itemdb_weight(ItemOffered(d, inv, i)) * d[i].amount = 0
  <1>1. ItemOffered(d, inv, i) \in Items \cup {None}
    <2>1. d[i].amount > 0 => inv[d[i].index].nameid \in Items \cup {None}
      <3>1. d[i].amount > 0 => d[i].index \in InvSlots
        <4>1. d[i].amount # 0 => d[i].index \in InvSlots
          BY ListIs
        <4>2. d[i].amount \in Nat
          BY ListIs
        <4>3. QED
          BY <4>1, <4>2
      <3>2. \A n \in InvSlots : inv[n].nameid \in Items \cup {None}
        BY DEF Cells
      <3>3. QED
        BY <3>1, <3>2
    <2>2. QED
      BY <2>1 DEF ItemOffered
  <1>2. d[i].amount \in Nat
    BY ListIs
  <1>3. itemdb_weight(ItemOffered(d, inv, i)) \in Nat
    BY <1>1, WeightsAre
  <1>4. \A w \in Nat : w * 0 = 0
    OBVIOUS
  <1>5. QED
    BY <1>1, <1>2, <1>3, <1>4, WeightsAre

(* Striking an entry out takes what it is from each of the sums. *)
LEMMA StruckFrom ==
  ASSUME NEW d \in DealLists, NEW k \in DealSlots, NEW n
  PROVE  /\ OfferedFrom(d, n) \in Nat /\ OfferedFrom(Struck(d, k), n) \in Nat
         /\ OfferedFrom(Struck(d, k), n)
              = OfferedFrom(d, n) - (IF d[k].index = n THEN d[k].amount ELSE 0)
         /\ \A i \in DealSlots : i # k /\ d[i].index = n
               => d[i].amount <= OfferedFrom(Struck(d, k), n)
  <1>1. PICK e : e = Struck(d, k)
    OBVIOUS
  <1>2. e \in DealLists /\ e[k].amount = 0 /\ \A i \in DealSlots : i # k => e[i] = d[i]
    BY <1>1, StruckIs
  <1>3. PICK f : f = [i \in DealSlots |-> IF d[i].index = n THEN d[i].amount ELSE 0]
    OBVIOUS
  <1>4. PICK h : h = [i \in DealSlots |-> IF e[i].index = n THEN e[i].amount ELSE 0]
    OBVIOUS
  <1>5. AgreeBut(f, h, DealSlots, k) /\ h[k] = 0
    BY <1>2, <1>3, <1>4, ListIs DEF AgreeBut
  <1>6. OfferedFrom(d, n) = SumFunctionOnSet(f, DealSlots)
    BY <1>3 DEF OfferedFrom
  <1>7. OfferedFrom(e, n) = SumFunctionOnSet(h, DealSlots)
    BY <1>4 DEF OfferedFrom
  <1>8. f[k] = IF d[k].index = n THEN d[k].amount ELSE 0
    BY <1>3
  <1>9. \A i \in DealSlots : i # k /\ d[i].index = n => h[i] = d[i].amount
    BY <1>2, <1>4
  <1>10. QED
    BY <1>1, <1>5, <1>6, <1>7, <1>8, <1>9, TermGone

LEMMA StruckOffer ==
  ASSUME NEW d \in DealLists, NEW inv \in [InvSlots -> Cells], NEW k \in DealSlots, NEW id \in Items
  PROVE  /\ Offered(d, inv, id) \in Nat /\ Offered(Struck(d, k), inv, id) \in Nat
         /\ Offered(Struck(d, k), inv, id)
              = Offered(d, inv, id) - (IF ItemOffered(d, inv, k) = id THEN d[k].amount ELSE 0)
  <1>1. PICK e : e = Struck(d, k)
    OBVIOUS
  <1>2. e \in DealLists /\ e[k].amount = 0 /\ \A i \in DealSlots : i # k => e[i] = d[i]
    BY <1>1, StruckIs
  <1>3. PICK f : f = [i \in DealSlots |-> IF ItemOffered(d, inv, i) = id THEN d[i].amount ELSE 0]
    OBVIOUS
  <1>4. PICK h : h = [i \in DealSlots |-> IF ItemOffered(e, inv, i) = id THEN e[i].amount ELSE 0]
    OBVIOUS
  <1>5. \A i \in DealSlots : i # k => ItemOffered(e, inv, i) = ItemOffered(d, inv, i)
    BY <1>2 DEF ItemOffered
  <1>6. AgreeBut(f, h, DealSlots, k) /\ h[k] = 0
    BY <1>2, <1>3, <1>4, <1>5, ListIs DEF AgreeBut
  <1>7. Offered(d, inv, id) = SumFunctionOnSet(f, DealSlots)
    BY <1>3 DEF Offered
  <1>8. Offered(e, inv, id) = SumFunctionOnSet(h, DealSlots)
    BY <1>4 DEF Offered
  <1>9. f[k] = IF ItemOffered(d, inv, k) = id THEN d[k].amount ELSE 0
    BY <1>3
  <1>10. QED
    BY <1>1, <1>6, <1>7, <1>8, <1>9, TermGone

LEMMA StruckLoad ==
  ASSUME NEW d \in DealLists, NEW inv \in [InvSlots -> Cells], NEW k \in DealSlots
  PROVE  /\ Load(d, inv) \in Nat /\ Load(Struck(d, k), inv) \in Nat
         /\ Load(Struck(d, k), inv)
              = Load(d, inv) - itemdb_weight(ItemOffered(d, inv, k)) * d[k].amount
  <1>1. PICK e : e = Struck(d, k)
    OBVIOUS
  <1>2. e \in DealLists /\ e[k].amount = 0 /\ \A i \in DealSlots : i # k => e[i] = d[i]
    BY <1>1, StruckIs
  <1>3. PICK f : f = [i \in DealSlots |-> itemdb_weight(ItemOffered(d, inv, i)) * d[i].amount]
    OBVIOUS
  <1>4. PICK h : h = [i \in DealSlots |-> itemdb_weight(ItemOffered(e, inv, i)) * e[i].amount]
    OBVIOUS
  <1>5. \A i \in DealSlots : i # k => ItemOffered(e, inv, i) = ItemOffered(d, inv, i)
    BY <1>2 DEF ItemOffered
  <1>6. \A i \in DealSlots : f[i] \in Nat
    BY <1>3, TermsAre
  <1>7. \A i \in DealSlots : h[i] \in Nat
    BY <1>2, <1>4, TermsAre
  <1>8. \A i \in DealSlots : i # k => h[i] = f[i]
    BY <1>2, <1>3, <1>4, <1>5
  <1>9. h[k] = 0
    BY <1>2, <1>4, TermsAre
  <1>10. AgreeBut(f, h, DealSlots, k)
    BY <1>6, <1>7, <1>8 DEF AgreeBut
  <1>11. Load(d, inv) = SumFunctionOnSet(f, DealSlots)
    BY <1>3 DEF Load
  <1>12. Load(e, inv) = SumFunctionOnSet(h, DealSlots)
    BY <1>4 DEF Load
  <1>13. f[k] = itemdb_weight(ItemOffered(d, inv, k)) * d[k].amount
    BY <1>3
  <1>14. QED
    BY <1>1, <1>9, <1>10, <1>11, <1>12, <1>13, TermGone

LEMMA StruckCount ==
  ASSUME NEW d \in DealLists, NEW k \in EntriesOf(d)
  PROVE  /\ Cardinality(EntriesOf(d)) \in Nat /\ Cardinality(EntriesOf(Struck(d, k))) \in Nat
         /\ Cardinality(EntriesOf(Struck(d, k))) = Cardinality(EntriesOf(d)) - 1
  <1>1. k \in DealSlots /\ EntriesOf(d) \subseteq DealSlots
    BY DEF EntriesOf
  <1>2. EntriesOf(Struck(d, k)) = EntriesOf(d) \ {k}
    BY <1>1, StruckIs
  <1>3. IsFiniteSet(EntriesOf(d)) /\ IsFiniteSet(EntriesOf(Struck(d, k)))
    BY <1>1, <1>2, DealSlotsFinite, FS_Subset
  <1>4. QED
    BY <1>2, <1>3, FS_CardinalityType, FS_RemoveElement

(***************************************************************************)
(* One entry handed over.  The giver gf still holds all of its offer df,   *)
(* made from the inventory invf, the other side gt all of dt, and each has *)
(* room for what the other offers.                                         *)
(***************************************************************************)
Ready(gf, df, invf, gt, dt, invt) ==
  /\ gf \in SoundGoods /\ gt \in SoundGoods
  /\ df \in DealLists /\ dt \in DealLists
  /\ invf \in [InvSlots -> Cells] /\ invt \in [InvSlots -> Cells]
  /\ Holds(gf, df, invf) /\ Holds(gt, dt, invt)
  /\ CanTake(gf, dt, invt) /\ CanTake(gt, df, invf)

(* What the entry k of a side that is ready says is there, and fits. *)
LEMMA EntryIs ==
  ASSUME NEW gf, NEW df, NEW invf, NEW gt, NEW dt, NEW invt,
         Ready(gf, df, invf, gt, dt, invt), NEW k \in EntriesOf(df)
  PROVE  /\ k \in DealSlots /\ df[k].index \in InvSlots
         /\ df[k].amount \in 0 .. MAX_AMOUNT /\ df[k].amount \in Nat /\ df[k].amount > 0
         /\ gf.inv[df[k].index].nameid = ItemOffered(df, invf, k)
         /\ ItemOffered(df, invf, k) \in Items
         /\ ~DelRefused(gf, df[k].index, df[k].amount)
  <1>1. /\ df \in DealLists /\ gf \in Goods /\ gf.inv \in [InvSlots -> Cells]
        /\ k \in DealSlots /\ df[k].amount > 0
    BY GoodsAre DEF Ready, SoundGoods, EntriesOf
  <1>2. /\ df[k].amount \in 0 .. MAX_AMOUNT /\ df[k].amount \in Nat /\ df[k].amount # 0
        /\ df[k].index \in InvSlots
    BY <1>1, ListIs
  <1>3. /\ gf.inv[df[k].index].nameid # None
        /\ OfferedFrom(df, df[k].index) <= gf.inv[df[k].index].amount
        /\ gf.inv[df[k].index].nameid = invf[df[k].index].nameid
    BY DEF Ready, Holds, CanGive
  <1>4. gf.inv[df[k].index] \in Cells
    BY <1>1, <1>2
  <1>5. PICK had : had = gf.inv[df[k].index].amount
    OBVIOUS
  <1>6. gf.inv[df[k].index].nameid \in Items /\ had \in Nat
    BY <1>3, <1>4, <1>5, InventoryAssumption DEF Cells
  <1>7. /\ OfferedFrom(df, df[k].index) \in Nat
        /\ OfferedFrom(Struck(df, k), df[k].index) \in Nat
        /\ OfferedFrom(Struck(df, k), df[k].index) = OfferedFrom(df, df[k].index) - df[k].amount
    BY <1>1, StruckFrom
  <1>8. df[k].amount <= had
    BY <1>2, <1>3, <1>5, <1>6, <1>7
  <1>9. ItemOffered(df, invf, k) = gf.inv[df[k].index].nameid
    BY <1>1, <1>3 DEF ItemOffered
  <1>10. ~DelRefused(gf, df[k].index, df[k].amount)
    BY <1>2, <1>3, <1>5, <1>6, <1>8 DEF DelRefused
  <1>11. QED
    BY <1>1, <1>2, <1>6, <1>9, <1>10

(* The receiver takes it. *)
LEMMA EntryFits ==
  ASSUME NEW gf, NEW df, NEW invf, NEW gt, NEW dt, NEW invt,
         Ready(gf, df, invf, gt, dt, invt), NEW k \in EntriesOf(df)
  PROVE  AddRefused(gt, ItemOffered(df, invf, k), df[k].amount) = 0
  <1> DEFINE id == ItemOffered(df, invf, k)
             amount == df[k].amount
             s == StackSlot(gt, id)
  <1>1. k \in DealSlots /\ amount \in Nat /\ amount > 0 /\ id \in Items
    BY EntryIs
  <1>2. /\ df \in DealLists /\ invf \in [InvSlots -> Cells]
        /\ gt \in Goods /\ gt.inv \in [InvSlots -> Cells] /\ gt.weight \in Nat
        /\ CanTake(gt, df, invf)
    BY GoodsAre DEF Ready, SoundGoods
  <1>3. PICK w : w = itemdb_weight(id) * amount
    OBVIOUS
  <1>4. w \in Nat
    BY <1>1, <1>3, WeightsAre
  <1>5. ~(w + gt.weight > MaxWeight)
    <2>1. /\ Load(df, invf) \in Nat /\ Load(Struck(df, k), invf) \in Nat
          /\ Load(Struck(df, k), invf) = Load(df, invf) - w
      BY <1>1, <1>2, <1>3, StruckLoad
    <2>2. gt.weight + Load(df, invf) <= MaxWeight
      BY <1>2 DEF CanTake
    <2>3. QED
      BY <1>2, <1>4, <2>1, <2>2, InventoryAssumption
  <1>6. pc_search_inventory(gt.inv, None) # 0
    <2> DEFINE B == {n \in InvSlots : gt.inv[n].nameid = None}
    <2>1. /\ Cardinality(EntriesOf(df)) \in Nat /\ Cardinality(EntriesOf(Struck(df, k))) \in Nat
          /\ Cardinality(EntriesOf(Struck(df, k))) = Cardinality(EntriesOf(df)) - 1
      BY <1>2, StruckCount
    <2>2. Cardinality(EntriesOf(df)) <= Cardinality(B)
      BY <1>2 DEF CanTake, pc_inventoryblank
    <2>3. Cardinality(B) # 0
      <3>1. IsFiniteSet(B)
        BY SlotsFinite, FS_Subset
      <3>2. Cardinality(B) \in Nat
        BY <3>1, FS_CardinalityType
      <3> HIDE DEF B
      <3>3. QED
        BY <2>1, <2>2, <3>2
    <2>4. B # {}
      BY <2>3, FS_EmptySet
    <2>5. {n \in InvSlots : gt.inv[n].nameid = None /\ (gt.inv[n].amount > 0 \/ None = None)} = B
      OBVIOUS
    <2> HIDE DEF B
    <2>6. pc_search_inventory(gt.inv, None) = Lowest(B)
      BY <2>4, <2>5 DEF pc_search_inventory
    <2>7. B \in SUBSET InvSlots
      BY DEF B
    <2>8. QED
      BY <2>4, <2>6, <2>7, LowestIs, SlotsFinite
  <1>7. s # 0 => ~(gt.inv[s].amount + amount > MAX_AMOUNT)
    <2>1. SUFFICES ASSUME s # 0 PROVE ~(gt.inv[s].amount + amount > MAX_AMOUNT)
      OBVIOUS
    <2>2. s \in InvSlots /\ gt.inv[s].nameid = id
      BY <2>1, SearchIs DEF StackSlot
    <2> HIDE DEF s
    <2>3. /\ Counts(gt.inv[s], id) <= AmountIn(gt.inv, id) /\ AmountIn(gt.inv, id) \in Nat
      BY <1>2, <2>2, SlotsFinite, SlotsWeigh
    <2>4. Counts(gt.inv[s], id) = gt.inv[s].amount
      BY <2>2 DEF Counts
    <2>5. /\ Offered(df, invf, id) \in Nat /\ Offered(Struck(df, k), invf, id) \in Nat
          /\ Offered(Struck(df, k), invf, id) = Offered(df, invf, id) - amount
      BY <1>1, <1>2, StruckOffer
    <2>6. AmountIn(gt.inv, id) + Offered(df, invf, id) <= MAX_AMOUNT
      BY <1>1, <1>2 DEF CanTake, Total
    <2>7. gt.inv[s].amount \in Nat
      BY <1>2, <2>2, CellsAre
    <2>8. QED
      BY <1>1, <2>3, <2>4, <2>5, <2>6, <2>7, InventoryAssumption
  <1> HIDE DEF s, id, amount
  <1>8. QED
    BY <1>1, <1>3, <1>5, <1>6, <1>7 DEF AddRefused, s, id, amount

(* Who gives still holds what is left of its offer, and has the room it had. *)
LEMMA GiverReady ==
  ASSUME NEW gf, NEW df, NEW invf, NEW gt, NEW dt, NEW invt,
         Ready(gf, df, invf, gt, dt, invt), NEW k \in EntriesOf(df),
         NEW hf, hf = pc_delitem(gf, df[k].index, df[k].amount)
  PROVE  /\ hf \in SoundGoods
         /\ Holds(hf, Struck(df, k), invf) /\ CanTake(hf, dt, invt)
         /\ \A j \in Items :
              /\ Total(gf, j) \in Nat /\ Total(hf, j) \in Nat
              /\ Total(hf, j) = Total(gf, j) - (IF j = ItemOffered(df, invf, k) THEN df[k].amount ELSE 0)
  <1>1. PICK n : n = df[k].index
    OBVIOUS
  <1>2. PICK amount : amount = df[k].amount
    OBVIOUS
  <1>3. PICK e : e = Struck(df, k)
    OBVIOUS
  <1>4. /\ k \in DealSlots /\ n \in InvSlots /\ amount \in Nat /\ amount > 0
        /\ gf.inv[n].nameid = ItemOffered(df, invf, k) /\ ~DelRefused(gf, n, amount)
    BY <1>1, <1>2, EntryIs
  <1>5. /\ gf \in SoundGoods /\ gf \in Goods /\ gf.inv \in [InvSlots -> Cells] /\ gf.weight \in Nat
        /\ df \in DealLists /\ Holds(gf, df, invf) /\ CanTake(gf, dt, invt)
        /\ dt \in DealLists /\ invt \in [InvSlots -> Cells]
    BY GoodsAre DEF Ready, SoundGoods
  <1>6. hf = pc_delitem(gf, n, amount)
    BY <1>1, <1>2
  <1>7. PICK cell \in Cells, w \in Nat :
          /\ hf = [inv |-> [gf.inv EXCEPT ![n] = cell], weight |-> gf.weight - w]
          /\ gf.inv[n].amount = amount => cell = Empty
          /\ gf.inv[n].amount # amount =>
               cell.nameid = gf.inv[n].nameid /\ cell.amount = gf.inv[n].amount - amount
    BY <1>4, <1>5, <1>6, DelIs
  <1>8. /\ hf \in SoundGoods
        /\ \A j \in Items : Total(hf, j) = Total(gf, j) - (IF j = gf.inv[n].nameid THEN amount ELSE 0)
        /\ \A j \in Items : Total(gf, j) \in Nat
    BY <1>4, <1>5, <1>6, DelKeeps
  <1>9. \A j \in Items : Total(hf, j) \in Nat
    BY <1>4, <1>8, DelKeeps
  <1>10. hf.inv[n] = cell /\ hf.weight = gf.weight - w
         /\ \A m \in InvSlots : m # n => hf.inv[m] = gf.inv[m]
    BY <1>4, <1>5, <1>7
  <1>11. Holds(hf, e, invf)
    <2>1. SUFFICES ASSUME NEW i \in EntriesOf(e)
                   PROVE  /\ hf.inv[e[i].index].nameid # None
                          /\ OfferedFrom(e, e[i].index) <= hf.inv[e[i].index].amount
                          /\ hf.inv[e[i].index].nameid = invf[e[i].index].nameid
      BY DEF Holds, CanGive
    <2>2. i \in EntriesOf(df) /\ i # k /\ e[i] = df[i] /\ i \in DealSlots
      BY <1>3, <1>4, <1>5, StruckIs DEF EntriesOf
    <2>3. PICK m : m = df[i].index
      OBVIOUS
    <2>4. m \in InvSlots /\ df[i].amount > 0 /\ df[i].amount \in Nat
      BY <2>2, <2>3, EntryIs
    <2>5. /\ gf.inv[m].nameid # None /\ OfferedFrom(df, m) <= gf.inv[m].amount
          /\ gf.inv[m].nameid = invf[m].nameid
      BY <1>5, <2>2, <2>3 DEF Holds, CanGive
    <2>6. /\ OfferedFrom(df, m) \in Nat /\ OfferedFrom(e, m) \in Nat
          /\ OfferedFrom(e, m) = OfferedFrom(df, m) - (IF n = m THEN amount ELSE 0)
          /\ df[i].amount <= OfferedFrom(e, m)
      BY <1>1, <1>2, <1>3, <1>4, <1>5, <2>2, <2>3, StruckFrom
    <2>7. PICK had : had = gf.inv[m].amount
      OBVIOUS
    <2>8. had \in Nat /\ OfferedFrom(df, m) <= had
      BY <1>5, <2>4, <2>5, <2>7, CellsAre
    <2>9. CASE m = n
      <3>1. had # amount /\ OfferedFrom(e, m) <= had - amount
        BY <1>4, <2>4, <2>6, <2>8, <2>9
      <3>2. hf.inv[m].nameid = gf.inv[m].nameid /\ hf.inv[m].amount = had - amount
        BY <1>7, <1>10, <2>7, <2>9, <3>1
      <3>3. QED
        BY <2>2, <2>3, <2>5, <3>1, <3>2
    <2>10. CASE m # n
      <3>1. hf.inv[m] = gf.inv[m] /\ OfferedFrom(e, m) = OfferedFrom(df, m)
        BY <1>10, <2>4, <2>6, <2>10
      <3>2. QED
        BY <2>2, <2>3, <2>5, <3>1
    <2>11. QED
      BY <2>9, <2>10
  <1>12. CanTake(hf, dt, invt)
    <2>1. /\ gf.weight + Load(dt, invt) <= MaxWeight
          /\ Cardinality(EntriesOf(dt)) <= pc_inventoryblank(gf.inv)
          /\ \A id \in Items : Total(gf, id) + Offered(dt, invt, id) <= MAX_AMOUNT
      BY <1>5 DEF CanTake
    <2>2. hf.weight + Load(dt, invt) <= MaxWeight
      <3>1. \A x \in DealSlots : Load(dt, invt) \in Nat
        BY <1>5, StruckLoad
      <3>2. Load(dt, invt) \in Nat
        BY <1>4, <3>1
      <3>3. QED
        BY <1>5, <1>7, <1>10, <2>1, <3>2, InventoryAssumption
    <2>3. Cardinality(EntriesOf(dt)) <= pc_inventoryblank(hf.inv)
      <3>1. /\ pc_inventoryblank(gf.inv) \in Nat /\ pc_inventoryblank(hf.inv) \in Nat
            /\ gf.inv[n].nameid # None => pc_inventoryblank(gf.inv) <= pc_inventoryblank(hf.inv)
        BY <1>4, <1>10, BlanksKept
      <3>2. gf.inv[n].nameid # None
        BY <1>4 DEF DelRefused
      <3>3. Cardinality(EntriesOf(dt)) \in Nat
        <4>1. IsFiniteSet(EntriesOf(dt))
          BY DealSlotsFinite, FS_Subset DEF EntriesOf
        <4>2. QED
          BY <4>1, FS_CardinalityType
      <3>4. QED
        BY <2>1, <3>1, <3>2, <3>3
    <2>4. ASSUME NEW id \in Items
          PROVE  Total(hf, id) + Offered(dt, invt, id) <= MAX_AMOUNT
      <3>1. Offered(dt, invt, id) \in Nat
        BY <1>4, <1>5, StruckOffer
      <3>2. Total(hf, id) \in Nat /\ Total(gf, id) \in Nat /\ Total(hf, id) <= Total(gf, id)
        BY <1>4, <1>8, <1>9
      <3>3. QED
        BY <2>1, <3>1, <3>2, InventoryAssumption
    <2>5. QED
      BY <2>2, <2>3, <2>4 DEF CanTake
  <1>13. QED
    BY <1>2, <1>3, <1>4, <1>8, <1>9, <1>11, <1>12

(* Who receives has room for what is left, and still holds what it offers. *)
LEMMA TakerReady ==
  ASSUME NEW gf, NEW df, NEW invf, NEW gt, NEW dt, NEW invt,
         Ready(gf, df, invf, gt, dt, invt), NEW k \in EntriesOf(df),
         NEW ht, ht = pc_additem(gt, ItemOffered(df, invf, k), df[k].amount)
  PROVE  /\ ht \in SoundGoods
         /\ Holds(ht, dt, invt) /\ CanTake(ht, Struck(df, k), invf)
         /\ \A j \in Items :
              /\ Total(gt, j) \in Nat /\ Total(ht, j) \in Nat
              /\ Total(ht, j) = Total(gt, j) + (IF j = ItemOffered(df, invf, k) THEN df[k].amount ELSE 0)
  <1>1. PICK id : id = ItemOffered(df, invf, k)
    OBVIOUS
  <1>2. PICK amount : amount = df[k].amount
    OBVIOUS
  <1>3. PICK e : e = Struck(df, k)
    OBVIOUS
  <1>4. /\ k \in DealSlots /\ id \in Items /\ id \in Items \cup {None} /\ id # None
        /\ amount \in Nat /\ amount > 0 /\ amount \in 0 .. MAX_AMOUNT
    BY <1>1, <1>2, EntryIs, InventoryAssumption
  <1>5. /\ gt \in SoundGoods /\ gt \in Goods /\ gt.inv \in [InvSlots -> Cells] /\ gt.weight \in Nat
        /\ df \in DealLists /\ invf \in [InvSlots -> Cells]
        /\ Holds(gt, dt, invt) /\ CanTake(gt, df, invf) /\ dt \in DealLists
    BY GoodsAre DEF Ready, SoundGoods
  <1>6. AddRefused(gt, id, amount) = 0 /\ ht = pc_additem(gt, id, amount)
    BY <1>1, <1>2, EntryFits
  <1>7. PICK s \in InvSlots, cell \in Cells :
          /\ ht = [inv |-> [gt.inv EXCEPT ![s] = cell],
                   weight |-> gt.weight + itemdb_weight(id) * amount]
          /\ cell.nameid = id
          /\ \/ gt.inv[s].nameid = id /\ cell.amount = gt.inv[s].amount + amount
             \/ gt.inv[s].nameid = None /\ cell.amount = amount
    BY <1>4, <1>5, <1>6, AddIs
  <1>8. /\ ht \in SoundGoods
        /\ \A j \in Items : Total(ht, j) = Total(gt, j) + (IF j = id THEN amount ELSE 0)
        /\ \A j \in Items : Total(gt, j) \in Nat
    BY <1>4, <1>5, <1>6, AddKeeps
  <1>9. \A j \in Items : Total(ht, j) \in Nat
    BY <1>4, <1>8, AddKeeps
  <1>10. PICK w : w = itemdb_weight(id) * amount
    OBVIOUS
  <1>11. /\ ht.inv[s] = cell /\ ht.weight = gt.weight + w /\ w \in Nat
         /\ \A m \in InvSlots : m # s => ht.inv[m] = gt.inv[m]
    <2>1. w \in Nat
      BY <1>4, <1>10, WeightsAre
    <2>2. QED
      BY <1>5, <1>7, <1>10, <2>1
  <1>12. Holds(ht, dt, invt)
    <2>1. SUFFICES ASSUME NEW i \in EntriesOf(dt)
                   PROVE  /\ ht.inv[dt[i].index].nameid # None
                          /\ OfferedFrom(dt, dt[i].index) <= ht.inv[dt[i].index].amount
                          /\ ht.inv[dt[i].index].nameid = invt[dt[i].index].nameid
      BY DEF Holds, CanGive
    <2>2. PICK m : m = dt[i].index
      OBVIOUS
    <2>3. m \in InvSlots
      BY <1>5, <2>2 DEF DealLists
    <2>4. /\ gt.inv[m].nameid # None /\ OfferedFrom(dt, m) <= gt.inv[m].amount
          /\ gt.inv[m].nameid = invt[m].nameid
      BY <1>5, <2>2 DEF Holds, CanGive
    <2>5. PICK had : had = gt.inv[m].amount
      OBVIOUS
    <2>6. had \in Nat /\ OfferedFrom(dt, m) \in Nat
      <3>1. had \in Nat
        BY <1>5, <2>3, <2>5, CellsAre
      <3>2. OfferedFrom(dt, m) \in Nat
        BY <1>4, <1>5, StruckFrom
      <3>3. QED
        BY <3>1, <3>2
    <2>7. CASE m = s
      <3>1. ht.inv[m].nameid = gt.inv[m].nameid /\ ht.inv[m].amount = had + amount
        BY <1>7, <1>11, <2>4, <2>5, <2>7
      <3>2. OfferedFrom(dt, m) <= had + amount
        BY <1>4, <2>4, <2>5, <2>6
      <3>3. QED
        BY <2>2, <2>4, <3>1, <3>2
    <2>8. CASE m # s
      BY <1>11, <2>2, <2>3, <2>4, <2>8
    <2>9. QED
      BY <2>7, <2>8
  <1>13. CanTake(ht, e, invf)
    <2>1. /\ gt.weight + Load(df, invf) <= MaxWeight
          /\ Cardinality(EntriesOf(df)) <= pc_inventoryblank(gt.inv)
          /\ \A j \in Items : Total(gt, j) + Offered(df, invf, j) <= MAX_AMOUNT
      BY <1>5 DEF CanTake
    <2>2. ht.weight + Load(e, invf) <= MaxWeight
      <3>1. /\ Load(df, invf) \in Nat /\ Load(e, invf) \in Nat
            /\ Load(e, invf) = Load(df, invf) - w
        BY <1>1, <1>2, <1>3, <1>4, <1>5, <1>10, StruckLoad
      <3>2. QED
        BY <1>5, <1>11, <2>1, <3>1
    <2>3. Cardinality(EntriesOf(e)) <= pc_inventoryblank(ht.inv)
      <3>1. /\ pc_inventoryblank(gt.inv) \in Nat /\ pc_inventoryblank(ht.inv) \in Nat
            /\ pc_inventoryblank(gt.inv) <= pc_inventoryblank(ht.inv) + 1
        BY <1>11, BlanksKept
      <3>2. /\ Cardinality(EntriesOf(df)) \in Nat /\ Cardinality(EntriesOf(e)) \in Nat
            /\ Cardinality(EntriesOf(e)) = Cardinality(EntriesOf(df)) - 1
        BY <1>3, <1>5, StruckCount
      <3>3. QED
        BY <2>1, <3>1, <3>2
    <2>4. ASSUME NEW j \in Items
          PROVE  Total(ht, j) + Offered(e, invf, j) <= MAX_AMOUNT
      <3>1. /\ Offered(df, invf, j) \in Nat /\ Offered(e, invf, j) \in Nat
            /\ Offered(e, invf, j) = Offered(df, invf, j) - (IF id = j THEN amount ELSE 0)
        BY <1>1, <1>2, <1>3, <1>4, <1>5, StruckOffer
      <3>2. /\ Total(gt, j) \in Nat /\ Total(gt, j) + Offered(df, invf, j) <= MAX_AMOUNT
            /\ Total(ht, j) = Total(gt, j) + (IF j = id THEN amount ELSE 0)
        BY <1>8, <2>1
      <3>3. QED
        BY <1>4, <3>1, <3>2
    <2>5. QED
      BY <2>2, <2>3, <2>4 DEF CanTake
  <1>14. QED
    BY <1>1, <1>2, <1>3, <1>8, <1>9, <1>12, <1>13

LEMMA ReadyBothWays ==
  ASSUME NEW gf, NEW df, NEW invf, NEW gt, NEW dt, NEW invt,
         Ready(gf, df, invf, gt, dt, invt)
  PROVE  Ready(gt, dt, invt, gf, df, invf)
  BY DEF Ready

(* What somebody with goods g, who has yet to give d and to receive e, will
   have of item j. *)
WillHave(g, d, inv, e, inv2, j) == Total(g, j) - Offered(d, inv, j) + Offered(e, inv2, j)

(* An entry of one side of a pair that is ready is handed over. *)
Handed(two, from, to, pair, df, invf, dt, invt, k, new) ==
  /\ from # to /\ two = {from, to} /\ pair \in [two -> SoundGoods]
  /\ Ready(pair[from], df, invf, pair[to], dt, invt)
  /\ k \in DealSlots /\ new = HandOver(pair, from, to, df[k])

(* It keeps both sides ready, and what both will have. *)
LEMMA HandOverMoves ==
  ASSUME NEW two, NEW from, NEW to, NEW pair, NEW df, NEW invf, NEW dt, NEW invt, NEW k, NEW new,
         Handed(two, from, to, pair, df, invf, dt, invt, k, new)
  PROVE  /\ new \in [two -> SoundGoods]
         /\ Ready(new[from], Struck(df, k), invf, new[to], dt, invt)
         /\ \A j \in Items :
              /\ WillHave(new[from], Struck(df, k), invf, dt, invt, j)
                   = WillHave(pair[from], df, invf, dt, invt, j)
              /\ WillHave(new[to], dt, invt, Struck(df, k), invf, j)
                   = WillHave(pair[to], dt, invt, df, invf, j)
  <1>0. /\ from # to /\ two = {from, to} /\ pair \in [two -> SoundGoods]
        /\ Ready(pair[from], df, invf, pair[to], dt, invt)
        /\ k \in DealSlots /\ new = HandOver(pair, from, to, df[k])
    BY DEF Handed
  <1>1. /\ df \in DealLists /\ dt \in DealLists
        /\ invf \in [InvSlots -> Cells] /\ invt \in [InvSlots -> Cells]
    BY <1>0 DEF Ready
  <1>2. Struck(df, k) \in DealLists /\ (df[k].amount = 0 => Struck(df, k) = df)
    BY <1>0, <1>1, StruckIs
  <1>3. CASE df[k].amount = 0
    BY <1>0, <1>2, <1>3 DEF HandOver
  <1>4. CASE df[k].amount # 0
    <2>1. k \in EntriesOf(df)
      BY <1>0, <1>1, <1>4, ListIs
    <2>2. PICK id : id = ItemOffered(df, invf, k)
      OBVIOUS
    <2>3. PICK amount : amount = df[k].amount
      OBVIOUS
    <2>4. id = pair[from].inv[df[k].index].nameid /\ amount \in Nat
      BY <1>0, <2>1, <2>2, <2>3, EntryIs
    <2>5. new = [x \in two |-> IF x = to THEN pc_additem(pair[to], id, amount)
                               ELSE pc_delitem(pair[from], df[k].index, amount)]
      BY <1>0, <1>4, <2>3, <2>4 DEF HandOver
    <2>6. /\ new[from] = pc_delitem(pair[from], df[k].index, df[k].amount)
          /\ new[to] = pc_additem(pair[to], ItemOffered(df, invf, k), df[k].amount)
      BY <1>0, <2>2, <2>3, <2>5
    <2>7. /\ new[from] \in SoundGoods
          /\ Holds(new[from], Struck(df, k), invf) /\ CanTake(new[from], dt, invt)
          /\ \A j \in Items :
               /\ Total(pair[from], j) \in Nat /\ Total(new[from], j) \in Nat
               /\ Total(new[from], j) = Total(pair[from], j) - (IF j = id THEN amount ELSE 0)
      BY <1>0, <2>1, <2>2, <2>3, <2>6, GiverReady
    <2>8. /\ new[to] \in SoundGoods
          /\ Holds(new[to], dt, invt) /\ CanTake(new[to], Struck(df, k), invf)
          /\ \A j \in Items :
               /\ Total(pair[to], j) \in Nat /\ Total(new[to], j) \in Nat
               /\ Total(new[to], j) = Total(pair[to], j) + (IF j = id THEN amount ELSE 0)
      BY <1>0, <2>1, <2>2, <2>3, <2>6, TakerReady
    <2>9. new \in [two -> SoundGoods]
      BY <1>0, <2>5, <2>7, <2>8
    <2>10. Ready(new[from], Struck(df, k), invf, new[to], dt, invt)
      BY <1>1, <1>2, <2>7, <2>8 DEF Ready
    <2>11. ASSUME NEW j \in Items
           PROVE  /\ WillHave(new[from], Struck(df, k), invf, dt, invt, j)
                       = WillHave(pair[from], df, invf, dt, invt, j)
                  /\ WillHave(new[to], dt, invt, Struck(df, k), invf, j)
                       = WillHave(pair[to], dt, invt, df, invf, j)
      <3>1. /\ Offered(df, invf, j) \in Nat /\ Offered(Struck(df, k), invf, j) \in Nat
            /\ Offered(Struck(df, k), invf, j)
                 = Offered(df, invf, j) - (IF id = j THEN amount ELSE 0)
        BY <1>0, <1>1, <2>2, <2>3, StruckOffer
      <3>2. Offered(dt, invt, j) \in Nat
        BY <1>0, <1>1, StruckOffer
      <3>3. /\ Total(pair[from], j) \in Nat /\ Total(new[from], j) \in Nat
            /\ Total(new[from], j) = Total(pair[from], j) - (IF j = id THEN amount ELSE 0)
        BY <2>7
      <3>4. /\ Total(pair[to], j) \in Nat /\ Total(new[to], j) \in Nat
            /\ Total(new[to], j) = Total(pair[to], j) + (IF j = id THEN amount ELSE 0)
        BY <2>8
      <3>5. QED
        BY <2>4, <3>1, <3>2, <3>3, <3>4 DEF WillHave
    <2>12. QED
      BY <2>9, <2>10, <2>11
  <1>5. QED
    BY <1>3, <1>4

(* What is left of the offer d after m rounds. *)
Left(d, m, e) ==
  /\ e \in DealLists
  /\ \A i \in DealSlots : IF i <= m THEN e[i].amount = 0 ELSE e[i] = d[i]

LEMMA LeftNext ==
  ASSUME NEW d, NEW e, NEW m \in Nat, m + 1 \in DealSlots, Left(d, m, e)
  PROVE  e[m + 1] = d[m + 1] /\ Left(d, m + 1, Struck(e, m + 1))
  <1>1. e \in DealLists /\ \A i \in DealSlots : i \in Nat
    BY DEF Left, DealSlots
  <1>2. e[m + 1] = d[m + 1]
    BY DEF Left
  <1>3. /\ Struck(e, m + 1) \in DealLists /\ Struck(e, m + 1)[m + 1].amount = 0
        /\ \A i \in DealSlots : i # m + 1 => Struck(e, m + 1)[i] = e[i]
    BY <1>1, StruckIs
  <1>4. ASSUME NEW i \in DealSlots
        PROVE  IF i <= m + 1 THEN Struck(e, m + 1)[i].amount = 0 ELSE Struck(e, m + 1)[i] = d[i]
    <2>1. i \in Nat /\ (IF i <= m THEN e[i].amount = 0 ELSE e[i] = d[i])
      BY <1>1 DEF Left
    <2>2. CASE i = m + 1
      BY <1>3, <2>2
    <2>3. CASE i # m + 1
      <3>1. i <= m + 1 <=> i <= m
        BY <2>1, <2>3
      <3>2. QED
        BY <1>3, <2>1, <2>3, <3>1
    <2>4. QED
      BY <2>2, <2>3
  <1>5. QED
    BY <1>2, <1>3, <1>4 DEF Left

LEMMA NothingLeft ==
  ASSUME NEW d, NEW e, Left(d, MAX_DEAL, e), NEW inv, NEW j
  PROVE  Offered(e, inv, j) = 0
  <1>1. PICK f : f = [i \in DealSlots |-> IF ItemOffered(e, inv, i) = j THEN e[i].amount ELSE 0]
    OBVIOUS
  <1>2. \A i \in DealSlots : i <= MAX_DEAL
    BY TradeAssumption DEF DealSlots
  <1>3. \A i \in DealSlots : f[i] = 0
    BY <1>1, <1>2 DEF Left
  <1>4. SumFunctionOnSet(f, DealSlots) = 0
    BY <1>3, DealSlotsFinite, SumZero
  <1>5. QED
    BY <1>1, <1>4 DEF Offered

(* After m rounds of the exchange of p and q. *)
Halfway(p, q, m, pair) ==
  /\ pair \in [{p, q} -> SoundGoods]
  /\ \E dp, dq \in DealLists :
       /\ Left(deal[p], m, dp) /\ Left(deal[q], m, dq)
       /\ Ready(pair[p], dp, goods[p].inv, pair[q], dq, goods[q].inv)
       /\ \A j \in Items :
            /\ WillHave(pair[p], dp, goods[p].inv, dq, goods[q].inv, j)
                 = WillHave(goods[p], deal[p], goods[p].inv, deal[q], goods[q].inv, j)
            /\ WillHave(pair[q], dq, goods[q].inv, dp, goods[p].inv, j)
                 = WillHave(goods[q], deal[q], goods[q].inv, deal[p], goods[p].inv, j)

LEMMA RoundMoves ==
  ASSUME NEW p, NEW q, p # q, NEW m \in Nat, m + 1 \in DealSlots, NEW pair, Halfway(p, q, m, pair),
         NEW new, new = HandOver(HandOver(pair, p, q, deal[p][m + 1]), q, p, deal[q][m + 1])
  PROVE  Halfway(p, q, m + 1, new)
  <1>1. PICK ip : ip = goods[p].inv
    OBVIOUS
  <1>2. PICK iq : iq = goods[q].inv
    OBVIOUS
  <1>3. PICK two : two = {p, q}
    OBVIOUS
  <1>4. pair \in [two -> SoundGoods]
    BY <1>3 DEF Halfway
  <1>5. PICK dp \in DealLists, dq \in DealLists :
       /\ Left(deal[p], m, dp) /\ Left(deal[q], m, dq)
       /\ Ready(pair[p], dp, ip, pair[q], dq, iq)
       /\ \A j \in Items :
            /\ WillHave(pair[p], dp, ip, dq, iq, j)
                 = WillHave(goods[p], deal[p], ip, deal[q], iq, j)
            /\ WillHave(pair[q], dq, iq, dp, ip, j)
                 = WillHave(goods[q], deal[q], iq, deal[p], ip, j)
    BY <1>1, <1>2 DEF Halfway
  <1>6. PICK ep : ep = Struck(dp, m + 1)
    OBVIOUS
  <1>7. PICK eq : eq = Struck(dq, m + 1)
    OBVIOUS
  <1>8. /\ dp[m + 1] = deal[p][m + 1] /\ Left(deal[p], m + 1, ep)
        /\ dq[m + 1] = deal[q][m + 1] /\ Left(deal[q], m + 1, eq)
    BY <1>5, <1>6, <1>7, LeftNext
  <1>9. PICK k : k = m + 1
    OBVIOUS
  <1>10. PICK mid : mid = HandOver(pair, p, q, dp[k])
    OBVIOUS
  <1>11. /\ mid \in [two -> SoundGoods]
         /\ Ready(mid[p], ep, ip, mid[q], dq, iq)
         /\ \A j \in Items :
              /\ WillHave(mid[p], ep, ip, dq, iq, j) = WillHave(pair[p], dp, ip, dq, iq, j)
              /\ WillHave(mid[q], dq, iq, ep, ip, j) = WillHave(pair[q], dq, iq, dp, ip, j)
    <2>1. k \in DealSlots /\ ep = Struck(dp, k)
      BY <1>6, <1>9
    <2>2. Ready(pair[p], dp, ip, pair[q], dq, iq)
      BY <1>5
    <2>3. QED
      <3>1. /\ mid \in [two -> SoundGoods]
            /\ Ready(mid[p], Struck(dp, k), ip, mid[q], dq, iq)
            /\ \A j \in Items :
                 /\ WillHave(mid[p], Struck(dp, k), ip, dq, iq, j) = WillHave(pair[p], dp, ip, dq, iq, j)
                 /\ WillHave(mid[q], dq, iq, Struck(dp, k), ip, j) = WillHave(pair[q], dq, iq, dp, ip, j)
        <4>1. Handed(two, p, q, pair, dp, ip, dq, iq, k, mid)
          BY <1>3, <1>4, <1>10, <2>1, <2>2 DEF Handed
        <4>2. QED
          BY <4>1, HandOverMoves
      <3>2. QED
        BY <2>1, <3>1
  <1>12. Ready(mid[q], dq, iq, mid[p], ep, ip)
    BY <1>11, ReadyBothWays
  <1>13. /\ new \in [two -> SoundGoods]
         /\ Ready(new[q], eq, iq, new[p], ep, ip)
         /\ \A j \in Items :
              /\ WillHave(new[q], eq, iq, ep, ip, j) = WillHave(mid[q], dq, iq, ep, ip, j)
              /\ WillHave(new[p], ep, ip, eq, iq, j) = WillHave(mid[p], ep, ip, dq, iq, j)
    <2>1. k \in DealSlots /\ eq = Struck(dq, k)
      BY <1>7, <1>9
    <2>2. new = HandOver(mid, q, p, dq[k]) /\ two = {q, p} /\ q # p
      BY <1>3, <1>8, <1>9, <1>10
    <2>3. mid \in [two -> SoundGoods]
      BY <1>11
    <2>4. QED
      <3>1. /\ new \in [two -> SoundGoods]
            /\ Ready(new[q], Struck(dq, k), iq, new[p], ep, ip)
            /\ \A j \in Items :
                 /\ WillHave(new[q], Struck(dq, k), iq, ep, ip, j) = WillHave(mid[q], dq, iq, ep, ip, j)
                 /\ WillHave(new[p], ep, ip, Struck(dq, k), iq, j) = WillHave(mid[p], ep, ip, dq, iq, j)
        <4>1. Handed(two, q, p, mid, dq, iq, ep, ip, k, new)
          BY <1>12, <2>1, <2>2, <2>3 DEF Handed
        <4>2. QED
          BY <4>1, HandOverMoves
      <3>2. QED
        BY <2>1, <3>1
  <1>14. Ready(new[p], ep, ip, new[q], eq, iq)
    BY <1>13, ReadyBothWays
  <1>15. \A j \in Items :
            /\ WillHave(new[p], ep, ip, eq, iq, j)
                 = WillHave(goods[p], deal[p], ip, deal[q], iq, j)
            /\ WillHave(new[q], eq, iq, ep, ip, j)
                 = WillHave(goods[q], deal[q], iq, deal[p], ip, j)
    BY <1>5, <1>11, <1>13
  <1>16. ep \in DealLists /\ eq \in DealLists
    BY <1>8 DEF Left
  <1>17. QED
    BY <1>1, <1>2, <1>3, <1>8, <1>13, <1>14, <1>15, <1>16 DEF Halfway

(* Who could keep what they offered ends up with just what was offered to them
   for it. *)
LEMMA ExchangeIsExact ==
  ASSUME LoadInv, NEW p \in Players, NEW q \in Players, p # q, BothCan(p, q)
  PROVE  \A j \in Items :
           /\ Total(Exchange(p, q)[p], j) = Total(goods[p], j) + (OfferOf(q, j) - OfferOf(p, j))
           /\ Total(Exchange(p, q)[q], j) = Total(goods[q], j) + (OfferOf(p, j) - OfferOf(q, j))
  <1> DEFINE a == CHOOSE after : Rounds(p, q, MAX_DEAL, after)
             T == {m \in Nat : m <= MAX_DEAL => Halfway(p, q, m, a[m])}
  <1>1. Rounds(p, q, MAX_DEAL, a) /\ MAX_DEAL \in Nat
    BY RoundsExist, TradeAssumption
  <1>2. Exchange(p, q) = a[MAX_DEAL]
    BY ExchangeIs
  <1> HIDE DEF a
  <1>3. /\ goods[p] \in SoundGoods /\ goods[q] \in SoundGoods
        /\ goods[p].inv \in [InvSlots -> Cells] /\ goods[q].inv \in [InvSlots -> Cells]
    BY GoodsAre DEF LoadInv, SoundGoods
  <1>4. \A x \in Players : deal[x] \in DealLists
    <2>1. ASSUME NEW x \in Players
          PROVE  deal[x] \in DealLists
      <3>1. deal[x] \in [DealSlots -> [index : InvSlots \cup {0}, amount : Nat]]
        BY DEF LoadInv, TradeInv, DealTypeOK, Deals
      <3>2. \A i \in DealSlots : /\ deal[x][i] \in Entries
                                 /\ deal[x][i].amount > 0 => deal[x][i].index \in InvSlots
        BY DEF LoadInv, OffersFit
      <3>3. deal[x] \in [DealSlots -> Entries]
        <4>1. deal[x] = [i \in DealSlots |-> deal[x][i]]
          BY <3>1
        <4>2. \A i \in DealSlots : deal[x][i] \in Entries
          BY <3>2
        <4>3. QED
          BY <4>1, <4>2
      <3>4. QED
        BY <3>2, <3>3 DEF DealLists, EntriesOf
    <2>2. QED
      BY <2>1
  <1>5. 0 \in T
    <2>1. a[0] = [x \in {p, q} |-> goods[x]]
      BY <1>1 DEF Rounds
    <2>2. a[0] \in [{p, q} -> SoundGoods] /\ a[0][p] = goods[p] /\ a[0][q] = goods[q]
      BY <1>3, <2>1
    <2>3. \A i \in DealSlots : ~(i <= 0)
      BY DEF DealSlots
    <2>4. Left(deal[p], 0, deal[p]) /\ Left(deal[q], 0, deal[q])
      BY <1>4, <2>3 DEF Left
    <2>5. Ready(goods[p], deal[p], goods[p].inv, goods[q], deal[q], goods[q].inv)
      BY <1>3, <1>4 DEF BothCan, Ready, Holds
    <2>6. deal[p] \in DealLists /\ deal[q] \in DealLists
      BY <1>4
    <2>7. Halfway(p, q, 0, a[0])
      BY <2>2, <2>4, <2>5, <2>6 DEF Halfway
    <2>8. QED
      BY <2>7
  <1>6. ASSUME NEW m \in T, m + 1 <= MAX_DEAL
        PROVE  Halfway(p, q, m + 1, a[m + 1])
    <2>1. m \in Nat /\ m + 1 \in 0 .. MAX_DEAL /\ m + 1 # 0 /\ (m + 1) - 1 = m /\ m <= MAX_DEAL
          /\ m + 1 \in DealSlots
      BY <1>1, <1>6 DEF DealSlots
    <2>2. a[m + 1] = HandOver(HandOver(a[m], p, q, deal[p][m + 1]), q, p, deal[q][m + 1])
      BY <1>1, <2>1 DEF Rounds
    <2>3. Halfway(p, q, m, a[m])
      BY <2>1
    <2>4. QED
      BY <2>1, <2>2, <2>3, RoundMoves
  <1>7. T = Nat
    <2>1. T \in SUBSET Nat /\ \A m \in T : m + 1 \in Nat
      OBVIOUS
    <2>2. \A m \in T : m + 1 \in T
      BY <1>6, <2>1
    <2> HIDE DEF T
    <2>3. QED
      BY <1>5, <2>1, <2>2, NatSets
  <1>8. PICK last : last = Exchange(p, q)
    OBVIOUS
  <1>9. Halfway(p, q, MAX_DEAL, last)
    BY <1>1, <1>2, <1>7, <1>8
  <1>10. PICK dp \in DealLists, dq \in DealLists :
       /\ Left(deal[p], MAX_DEAL, dp) /\ Left(deal[q], MAX_DEAL, dq)
       /\ \A j \in Items :
            /\ WillHave(last[p], dp, goods[p].inv, dq, goods[q].inv, j)
                 = WillHave(goods[p], deal[p], goods[p].inv, deal[q], goods[q].inv, j)
            /\ WillHave(last[q], dq, goods[q].inv, dp, goods[p].inv, j)
                 = WillHave(goods[q], deal[q], goods[q].inv, deal[p], goods[p].inv, j)
    BY <1>9 DEF Halfway
  <1>11. last[p] \in SoundGoods /\ last[q] \in SoundGoods
    BY <1>9 DEF Halfway
  <1>12. ASSUME NEW j \in Items
         PROVE  /\ Total(last[p], j) = Total(goods[p], j) + (OfferOf(q, j) - OfferOf(p, j))
                /\ Total(last[q], j) = Total(goods[q], j) + (OfferOf(p, j) - OfferOf(q, j))
    <2>1. /\ Offered(dp, goods[p].inv, j) = 0 /\ Offered(dq, goods[q].inv, j) = 0
      BY <1>10, NothingLeft
    <2>2. OfferOf(p, j) \in Nat /\ OfferOf(q, j) \in Nat
      <3>1. 1 \in DealSlots
        BY TradeAssumption DEF DealSlots
      <3>2. QED
        BY <1>3, <1>4, <3>1, StruckOffer DEF OfferOf
    <2>3. \A g \in SoundGoods : Total(g, j) \in Nat
      BY SlotsFinite, SlotsWeigh, GoodsAre DEF Total, SoundGoods
    <2>4. /\ WillHave(last[p], dp, goods[p].inv, dq, goods[q].inv, j) = Total(last[p], j) - 0 + 0
          /\ WillHave(last[q], dq, goods[q].inv, dp, goods[p].inv, j) = Total(last[q], j) - 0 + 0
      BY <2>1 DEF WillHave
    <2>5. /\ WillHave(goods[p], deal[p], goods[p].inv, deal[q], goods[q].inv, j)
               = Total(goods[p], j) - OfferOf(p, j) + OfferOf(q, j)
          /\ WillHave(goods[q], deal[q], goods[q].inv, deal[p], goods[p].inv, j)
               = Total(goods[q], j) - OfferOf(q, j) + OfferOf(p, j)
      BY DEF WillHave, OfferOf
    <2>6. QED
      BY <1>3, <1>10, <1>11, <2>2, <2>3, <2>4, <2>5
  <1>13. QED
    BY <1>8, <1>12

(* Only a trade that completes changes goods and ends a trade. *)
LEMMA OnlyCommitEnds ==
  ASSUME LoadInv, [Next]_vars, NEW p \in Players,
         trade_partner[p] # NoPartner, trade_partner'[p] = NoPartner, goods' # goods
  PROVE  \E c \in {p, trade_partner[p]} : CompleteTrade(c, trade_partner[c])
  <1> USE DEF dealVars
  <1>1. PICK c \in Players : trade_tradecommit(c)
    BY DEF Next, TradeStep, OtherStep, vars, trade_traderequest, trade_tradeack, trade_tradeok,
           trade_tradecancel, OfferZeny, OfferItem, Login, map_quit, pc_setpos, pc_dropitem,
           pc_takeitem, pc_useitem, PayZeny
  <1>2. CompleteTrade(c, trade_partner[c])
    BY <1>1 DEF trade_tradecommit
  <1>3. trade_partner \in [Players -> Players \cup {NoPartner}]
    BY DEF LoadInv, TradeInv, DealTypeOK
  <1>4. p \in {c, trade_partner[c]}
    BY <1>2, <1>3 DEF CompleteTrade, Separate
  <1>5. trade_partner[c] \in Players /\ trade_partner[trade_partner[c]] = c
    BY <1>1, PartnerIsPlayer DEF trade_tradecommit, LoadInv
  <1>6. QED
    BY <1>2, <1>4, <1>5

LEMMA ExactStep ==
  ASSUME LoadInv, [Next]_vars, NEW p \in Players, NEW q, q = trade_partner[p],
         q # NoPartner, trade_partner'[p] = NoPartner, goods' # goods, BothCan(p, q),
         NEW x \in Players, NEW id \in Items
  PROVE  Total(goods'[x], id) = Total(goods[x], id)
           + (IF x = p THEN OfferOf(q, id) - OfferOf(p, id)
              ELSE IF x = q THEN OfferOf(p, id) - OfferOf(q, id) ELSE 0)
  <1>1. q \in Players /\ q # p /\ trade_partner[q] = p
    BY TradeAssumption DEF LoadInv, TradeInv, DealTypeOK, PartnersAgree
  <1>2. BothCan(q, p)
    BY DEF BothCan
  <1>3. CompleteTrade(p, q) \/ CompleteTrade(q, p)
    BY <1>1, OnlyCommitEnds
  <1>4. \/ goods' = [y \in Players |-> IF y \in {p, q} THEN Exchange(p, q)[y] ELSE goods[y]]
        \/ goods' = [y \in Players |-> IF y \in {q, p} THEN Exchange(q, p)[y] ELSE goods[y]]
    BY <1>3 DEF CompleteTrade
  <1>5. /\ Total(Exchange(p, q)[p], id) = Total(goods[p], id) + (OfferOf(q, id) - OfferOf(p, id))
        /\ Total(Exchange(p, q)[q], id) = Total(goods[q], id) + (OfferOf(p, id) - OfferOf(q, id))
    BY <1>1, ExchangeIsExact
  <1>6. /\ Total(Exchange(q, p)[q], id) = Total(goods[q], id) + (OfferOf(p, id) - OfferOf(q, id))
        /\ Total(Exchange(q, p)[p], id) = Total(goods[p], id) + (OfferOf(q, id) - OfferOf(p, id))
    BY <1>1, <1>2, ExchangeIsExact
  <1>7. CASE x \in {p, q}
    <2>1. \/ goods'[x] = Exchange(p, q)[x]
          \/ goods'[x] = Exchange(q, p)[x]
      BY <1>4, <1>7
    <2>2. QED
      BY <1>1, <1>5, <1>6, <1>7, <2>1
  <1>8. CASE x \notin {p, q}
    <2>1. goods'[x] = goods[x]
      BY <1>4, <1>8
    <2>2. Total(goods[x], id) \in Nat
      <3>1. goods[x] \in Goods
        BY DEF LoadInv, SoundGoods
      <3>2. QED
        BY <3>1, SlotsFinite, SlotsWeigh, GoodsAre DEF Total
    <2>3. QED
      BY <1>8, <2>1, <2>2
  <1>9. QED
    BY <1>7, <1>8

(* A completed trade in which each side still has what it offered, and room for
   what it is offered, hands each exactly the other's offer, though the loop
   takes the entries one by one, the items of one entry may lie where those of
   another do, and no answer of pc_additem and pc_delitem is looked at. *)
THEOREM TradesAreExact == Spec => ExactExchange
  <1>1. LoadInv /\ [Next]_vars =>
          [\A p \in Players :
             LET q == trade_partner[p] IN
             /\ trade_partner[p] # NoPartner /\ trade_partner'[p] = NoPartner
             /\ BothLocked(p) /\ goods' # goods
             /\ BothCan(p, q)
             => \A x \in Players, id \in Items :
                  Total(goods'[x], id) = Total(goods[x], id)
                    + (IF x = p THEN OfferOf(q, id) - OfferOf(p, id)
                       ELSE IF x = q THEN OfferOf(p, id) - OfferOf(q, id) ELSE 0)]_vars
    BY ExactStep
  <1>2. Spec => []LoadInv
    BY LoadInit, LoadNext, PTL DEF Spec
  <1>3. QED
    BY <1>1, <1>2, PTL DEF Spec, ExactExchange
=============================================================================
