------------------------------ MODULE Storage ------------------------------
(***************************************************************************)
(* The Kafra storage of an account: map/storage.c and its part of          *)
(* map/intif.c on the map servers, char/int_storage.c on the char server.  *)
(* A map server asks the char server for a storage the first time it is    *)
(* opened there and keeps the copy for as long as it runs; it sends the    *)
(* copy back when the player is autosaved, leaves or changes map server.   *)
(*                                                                         *)
(* A storage is exchanged with what its player carries and with the cart.  *)
(* How a character and its goods move between the servers is MapSession's  *)
(* subject: here they follow the player.  The clients are the game's own,  *)
(* which send storage packets only when a storage window is open.  Links   *)
(* that fail, the char server's file, and the dialogs and shops during     *)
(* which the handlers refuse are left out.                                 *)
(*                                                                         *)
(* Bounds: MaxQueue packets on each link and direction.                    *)
(***************************************************************************)
EXTENDS Box, Sequences

CONSTANTS
  Accounts, Maps,
  Nowhere,                   \* neither playing nor on any map server
  Amounts,                   \* that a client names
  InitGoods,                 \* what each carries at first
  InitStorage,               \* what the char server holds for each at first
  MaxQueue

ASSUME StorageAssumption ==
  /\ Nowhere \notin Maps /\ Amounts \subseteq Nat \ {0} /\ MaxQueue \in Nat
  /\ InitGoods \in [Accounts -> Goods]
  /\ \A a \in Accounts : /\ ActualWeight(InitGoods[a]) <= InitGoods[a].weight
                        /\ InitGoods[a].weight <= MaxWeight
  /\ InitStorage \in [Accounts -> Boxes(MAX_STORAGE)]
  /\ \A a \in Accounts : InOrder(InitStorage[a])

VARIABLES
  storage,       \* map servers: the copies, NoCopy until account2storage makes one
  char_storage,  \* char server: the storages
  toChar, toMap, \* packets under way on the link of each map server
  present,       \* map servers: accounts map_id2sd finds
  at,            \* the map server an account plays on, or Nowhere
  goods, cart,   \* what an account carries, and its cart
  home,          \* history: the map server that took the storage last
  upset          \* history: accounts the promise below does not cover

netVars == <<toChar, toMap>>
vars == <<storage, char_storage, netVars, present, at, goods, cart, home, upset>>

NoCopy == [status |-> -1, box |-> EmptyBox(MAX_STORAGE)]
Blank  == [NoCopy EXCEPT !.status = 0]

Init ==
  /\ storage = [m \in Maps |-> [a \in Accounts |-> NoCopy]]
  /\ char_storage = InitStorage
  /\ toChar = [m \in Maps |-> <<>>] /\ toMap = [m \in Maps |-> <<>>]
  /\ present = [m \in Maps |-> {}] /\ at = [a \in Accounts |-> Nowhere]
  /\ goods = InitGoods
  /\ cart = [a \in Accounts |-> [box |-> EmptyBox(MAX_CART), weight |-> 0]]
  /\ home = [a \in Accounts |-> Nowhere] /\ upset = {}

Cached(a, m) == storage[m][a].status # -1
IsOpen(a, m) == at[a] = m /\ storage[m][a].status = 1
Packets(q, a, kind) == {i \in DOMAIN q : q[i].account = a /\ q[i].kind = kind}
Asked(a, m) == Packets(toChar[m], a, "load") # {} \/ Packets(toMap[m], a, "data") # {}

(* storage_storage_save, and intif_send_storage: the copy is sent if there is one. *)
SaveIfOpen(a, m, copy) ==                         \* mutant: the order of quit and save
  toChar' = IF copy.status # 1 THEN toChar
            ELSE [toChar EXCEPT ![m] = Append(@, [kind |-> "save", account |-> a, box |-> copy.box])]
storage_storage_save(a, m, copy) ==
  toChar' = IF copy.status = -1 THEN toChar
            ELSE [toChar EXCEPT ![m] = Append(@, [kind |-> "save", account |-> a, box |-> copy.box])]

(* storage_storage_quit *)
Shut(copy) == IF copy.status = 1 THEN [copy EXCEPT !.status = 0] ELSE copy

-----------------------------------------------------------------------------
(* A player logs in, or arrives from another map server. *)
Enter(a, m) ==
  /\ at[a] = Nowhere /\ a \notin present[m]
  /\ at' = [at EXCEPT ![a] = m] /\ present' = [present EXCEPT ![m] = @ \cup {a}]
  /\ UNCHANGED <<storage, char_storage, netVars, goods, cart, home, upset>>

(* What map_quit, and pc_setpos towards another map server, do about the
   storage: shut the window, and send the copy. *)
PutAway(a, m) ==
  LET copy == Shut(storage[m][a]) IN
  /\ Len(toChar[m]) < MaxQueue
  /\ storage' = [storage EXCEPT ![m][a] = copy]
  /\ storage_storage_save(a, m, copy)
  /\ upset' = IF Asked(a, m) THEN upset \cup {a} ELSE upset
  /\ UNCHANGED <<char_storage, toMap, goods, cart, home>>

(* The session stays until its client has gone. *)
pc_setpos(a) ==
  /\ at[a] # Nowhere
  /\ PutAway(a, at[a])
  /\ at' = [at EXCEPT ![a] = Nowhere]
  /\ UNCHANGED present

(* clif_parse finds the client gone: of a session that waited for that, too,
   the copy is sent. *)
map_quit(a, m) ==
  /\ a \in present[m]
  /\ PutAway(a, m)
  /\ at' = IF at[a] = m THEN [at EXCEPT ![a] = Nowhere] ELSE at
  /\ present' = [present EXCEPT ![m] = @ \ {a}]

(* pc_autosave saves every session, one that waits for its client to go too. *)
pc_autosave(a, m) ==
  /\ a \in present[m] /\ Cached(a, m) /\ Len(toChar[m]) < MaxQueue
  /\ storage_storage_save(a, m, storage[m][a])
  /\ UNCHANGED <<storage, char_storage, toMap, present, at, goods, cart, home, upset>>

-----------------------------------------------------------------------------
(* storage_storageopen: at once if there is a copy, whatever became of the
   storage elsewhere; otherwise the char server is asked. *)
storage_storageopen(a) ==
  LET m == at[a] IN
  /\ m # Nowhere
  /\ \/ /\ Cached(a, m)
        /\ storage' = [storage EXCEPT ![m][a].status = 1]
        /\ upset' = IF home[a] # m THEN upset \cup {a} ELSE upset
        /\ UNCHANGED toChar
     \/ /\ ~Cached(a, m) /\ Len(toChar[m]) < MaxQueue
        /\ toChar' = [toChar EXCEPT ![m] = Append(@, [kind |-> "load", account |-> a])]
        /\ upset' = IF Asked(a, m) THEN upset \cup {a} ELSE upset
        /\ UNCHANGED storage
  /\ UNCHANGED <<char_storage, toMap, present, at, goods, cart, home>>

(* mapif_parse_LoadStorage *)
LoadStorage(m) ==
  LET p == Head(toChar[m]) IN
  /\ toChar[m] # <<>> /\ p.kind = "load" /\ Len(toMap[m]) < MaxQueue
  /\ toMap' = [toMap EXCEPT ![m] =
       Append(@, [kind |-> "data", account |-> p.account, box |-> char_storage[p.account]])]
  /\ toChar' = [toChar EXCEPT ![m] = Tail(@)]
  /\ upset' = IF \E k \in Maps \ {m} : Packets(toChar[k], p.account, "save") # {}
              THEN upset \cup {p.account} ELSE upset
  /\ UNCHANGED <<storage, char_storage, present, at, goods, cart, home>>

(* mapif_parse_SaveStorage; its acknowledgement changes nothing. *)
SaveStorage(m) ==
  LET p == Head(toChar[m]) IN
  /\ toChar[m] # <<>> /\ p.kind = "save"
  /\ char_storage' = [char_storage EXCEPT ![p.account] = p.box]
  /\ toChar' = [toChar EXCEPT ![m] = Tail(@)]
  /\ upset' = IF home[p.account] # m THEN upset \cup {p.account} ELSE upset
  /\ UNCHANGED <<storage, toMap, present, at, goods, cart, home>>

(* intif_parse_LoadStorage: account2storage makes a blank copy before the
   player is looked up, and the blank stays if nobody is found. *)
LoadedBlank(a, m, box) ==                         \* mutant: the answer is not copied
  IF a \in present[m] THEN [Blank EXCEPT !.status = 1]
  ELSE IF Cached(a, m) THEN storage[m][a] ELSE Blank
Loaded(a, m, box) == IF a \in present[m] THEN [status |-> 1, box |-> box]
                     ELSE IF Cached(a, m) THEN storage[m][a] ELSE Blank

intif_parse_LoadStorage(m) ==
  LET p == Head(toMap[m]) IN
  /\ toMap[m] # <<>>
  /\ storage' = [storage EXCEPT ![m][p.account] = Loaded(p.account, m, p.box)]
  /\ home' = [home EXCEPT ![p.account] = IF p.account \in present[m] THEN m ELSE @]
  /\ toMap' = [toMap EXCEPT ![m] = Tail(@)]
  /\ UNCHANGED <<char_storage, toChar, present, at, goods, cart, upset>>

-----------------------------------------------------------------------------
(* storage_storageadd and storage_storageget: between storage and inventory. *)
AddRefusedByStorage(box, id, amount) == box.num > MAX_STORAGE \/ BoxRefused(box, id, amount)

storage_storageadd(a, n, amount) ==
  LET m == at[a]
      it == goods[a].inv[n]
      box == storage[m][a].box
  IN
  /\ m # Nowhere /\ IsOpen(a, m)
  /\ it.nameid # None /\ amount <= it.amount
  /\ ~AddRefusedByStorage(box, it.nameid, amount)
  /\ storage' = [storage EXCEPT ![m][a].box = BoxAdd(box, it.nameid, amount)]
  /\ goods' = [goods EXCEPT ![a] = pc_delitem(@, n, amount)]
  /\ UNCHANGED <<char_storage, netVars, present, at, cart, home, upset>>

storage_storageget(a, n, amount) ==
  LET m == at[a]
      box == storage[m][a].box
      it == box.slots[n]
  IN
  /\ m # Nowhere /\ IsOpen(a, m)
  /\ it.nameid # None /\ amount <= it.amount
  /\ AddRefused(goods[a], it.nameid, amount) = 0
  /\ goods' = [goods EXCEPT ![a] = pc_additem(@, it.nameid, amount)]
  /\ storage' = [storage EXCEPT ![m][a].box = BoxDel(box, n, amount)]
  /\ UNCHANGED <<char_storage, netVars, present, at, cart, home, upset>>

(* storage_storageaddfromcart and storage_storagegettocart: and the cart. *)
storage_storageaddfromcart(a, n, amount) ==
  LET m == at[a]
      it == cart[a].box.slots[n]
      box == storage[m][a].box
  IN
  /\ m # Nowhere /\ IsOpen(a, m)
  /\ it.nameid # None /\ amount <= it.amount
  /\ ~AddRefusedByStorage(box, it.nameid, amount)
  /\ storage' = [storage EXCEPT ![m][a].box = BoxAdd(box, it.nameid, amount)]
  /\ cart' = [cart EXCEPT ![a] = pc_cart_delitem(@, n, amount)]
  /\ UNCHANGED <<char_storage, netVars, present, at, goods, home, upset>>

storage_storagegettocart(a, n, amount) ==
  LET m == at[a]
      box == storage[m][a].box
      it == box.slots[n]
  IN
  /\ m # Nowhere /\ IsOpen(a, m)
  /\ it.nameid # None /\ amount <= it.amount
  /\ ~CartRefused(cart[a], it.nameid, amount)
  /\ cart' = [cart EXCEPT ![a] = pc_cart_additem(@, it.nameid, amount)]
  /\ storage' = [storage EXCEPT ![m][a].box = BoxDel(box, n, amount)]
  /\ UNCHANGED <<char_storage, netVars, present, at, goods, home, upset>>

storage_storageclose(a) ==
  LET m == at[a] IN
  /\ m # Nowhere /\ IsOpen(a, m)
  /\ storage' = [storage EXCEPT ![m][a].status = 0]
  /\ UNCHANGED <<char_storage, netVars, present, at, goods, cart, home, upset>>

(* pc_putitemtocart and pc_getitemfromcart, with or without a storage. *)
pc_putitemtocart(a, n, amount) ==
  LET it == goods[a].inv[n] IN
  /\ at[a] # Nowhere /\ it.nameid # None /\ amount <= it.amount
  /\ ~CartRefused(cart[a], it.nameid, amount)
  /\ cart' = [cart EXCEPT ![a] = pc_cart_additem(@, it.nameid, amount)]
  /\ goods' = [goods EXCEPT ![a] = pc_delitem(@, n, amount)]
  /\ UNCHANGED <<storage, char_storage, netVars, present, at, home, upset>>

pc_getitemfromcart(a, n, amount) ==
  LET it == cart[a].box.slots[n] IN
  /\ at[a] # Nowhere /\ it.nameid # None /\ amount <= it.amount
  /\ AddRefused(goods[a], it.nameid, amount) = 0
  /\ goods' = [goods EXCEPT ![a] = pc_additem(@, it.nameid, amount)]
  /\ cart' = [cart EXCEPT ![a] = pc_cart_delitem(@, n, amount)]
  /\ UNCHANGED <<storage, char_storage, netVars, present, at, home, upset>>

Next ==
  \/ \E m \in Maps : LoadStorage(m) \/ SaveStorage(m) \/ intif_parse_LoadStorage(m)
  \/ \E a \in Accounts :
       \/ pc_setpos(a) \/ storage_storageopen(a) \/ storage_storageclose(a)
       \/ \E m \in Maps : Enter(a, m) \/ map_quit(a, m) \/ pc_autosave(a, m)
       \/ \E amount \in Amounts :
            \/ \E n \in InvSlots : storage_storageadd(a, n, amount) \/ pc_putitemtocart(a, n, amount)
            \/ \E n \in 1 .. MAX_STORAGE : \/ storage_storageget(a, n, amount)
                                         \/ storage_storagegettocart(a, n, amount)
            \/ \E n \in 1 .. MAX_CART : \/ storage_storageaddfromcart(a, n, amount)
                                        \/ pc_getitemfromcart(a, n, amount)

Spec == Init /\ [][Next]_vars

-----------------------------------------------------------------------------
(* Every variable keeps its range; a storage is open only where its player is,
   unless the player left before it was answered. *)
TypeOK ==
  /\ \A m \in Maps, a \in Accounts : storage[m][a].status \in {-1, 0, 1}
  /\ \A m \in Maps : present[m] \subseteq Accounts /\ Len(toChar[m]) <= MaxQueue
                                                   /\ Len(toMap[m]) <= MaxQueue
  /\ \A a \in Accounts : at[a] # Nowhere => a \in present[at[a]]
  /\ \A m \in Maps, a \in Accounts \ upset : storage[m][a].status = 1 => at[a] = m
  /\ goods \in [Accounts -> Goods]
  /\ upset \subseteq Accounts

(* storage_amount and cart_num count the slots in use in every copy, however
   items were moved, no kind that stacks is in two slots, and the cart weighs
   what is in it, within its limit; types are kept. *)
BoxesInOrder ==
  /\ TypeOK
  /\ \A m \in Maps, a \in Accounts : InOrder(storage[m][a].box)
  /\ \A a \in Accounts : /\ InOrder(char_storage[a]) /\ InOrder(cart[a].box)
                         /\ cart[a].weight = BoxWeight(cart[a].box)
                         /\ cart[a].weight <= CartMaxWeight

(* The copy an account's storage now is: of the server that took it last. *)
Current(a) == IF home[a] = Nowhere THEN char_storage[a] ELSE storage[home[a]][a].box
Held(a, id) == Total(goods[a], id) + BoxTotal(cart[a].box, id)

NothingLostOrDoubled ==
  \A a \in Accounts \ upset, id \in Items :
    Held(a, id) + BoxTotal(Current(a), id)
      = Total(InitGoods[a], id) + BoxTotal(InitStorage[a], id)

Quiet(a) == /\ at[a] = Nowhere
            /\ \A m \in Maps : Packets(toChar[m], a, "save") = {} /\ ~Asked(a, m)
SavedWhenAway == \A a \in Accounts \ upset : Quiet(a) => char_storage[a] = Current(a)

(* Between storage, inventory and cart an account has what it had, through any
   sequence of opening, moving items, saving and changing servers - unless it
   asked for its storage again, or left, before it had an answer; opened or
   saved a copy another server has outdated; or asked while another server's
   save was under way.  And once such an account has left and its packets have
   arrived, the char server has its storage as it left it. *)
StorageKept == NothingLostOrDoubled /\ SavedWhenAway

=============================================================================
