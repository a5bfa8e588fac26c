------------------------------- MODULE MCTown -------------------------------
(***************************************************************************)
(* What goes on in a town, with the small worlds TLC explores: chat rooms, *)
(* shops and vendors, and pets.  These parts of the map server share the   *)
(* session and nothing of it that the others read, so a behaviour is one   *)
(* of them (`scene`) while the others stay as they began.                  *)
(***************************************************************************)
EXTENDS TLC, Integers

CONSTANTS p1, p2, p3, ma, mb,   \* chat rooms: players and maps
          ann, bob,             \* market: players
          c1, c2,               \* pets: characters
          Nil, Gone

VARIABLES scene,  \* the part at work, and what Chat, Market and Pet keep
  at, chatID, room, event, hasty,
  goods, cart, zeny, vending, seen, ledger, bank, opened, spoiled,
  pet_db, pet_newid, char_dat, sd, floor, toChar, toMap, down, hastily, expired, acts

-----------------------------------------------------------------------------
Guests == {p1, p2, p3}
Maps   == {ma, mb}
Rooms  == 1 .. 2
Limits == {1, 2}
ChatRooms == INSTANCE Chat WITH
  Players <- Guests, Maps <- Maps, Rooms <- Rooms, Limits <- Limits, Waiting <- 3, Trigger <- 3, MaxHasty <- 1

-----------------------------------------------------------------------------
Shelf(id, amount) == [nameid |-> id, amount |-> amount]
Bare(size) == [n \in 1 .. size |-> Shelf("none", 0)]
Stock ==
  ann :> [goods |-> [inv |-> Bare(2), weight |-> 0], zeny |-> 3,
          cart |-> [box |-> [slots |-> <<Shelf("sword", 1), Shelf("potion", 2)>>, num |-> 2], weight |-> 4]] @@
  bob :> [goods |-> [inv |-> Bare(2), weight |-> 0], zeny |-> 4,
          cart |-> [box |-> [slots |-> Bare(2), num |-> 0], weight |-> 0]]
Dealers   == {ann, bob}
Items     == {"potion", "sword"}
Equips    == {"sword"}
WeightOf  == "potion" :> 1 @@ "sword" :> 2
ShopPrice == "potion" :> 2
SellPrice == "potion" :> 1 @@ "sword" :> 2
Prices    == {1, 4}
Amounts   == {1, 2}
Shops == INSTANCE Market WITH
  Players <- Dealers, Items <- Items, Equips <- Equips, WeightOf <- WeightOf,
  ShopPrice <- ShopPrice, SellPrice <- SellPrice, Prices <- Prices, Amounts <- Amounts,
  MAX_INVENTORY <- 2, MAX_AMOUNT <- 3, MAX_ZENY <- 6, MaxWeight <- 4, MAX_STORAGE <- 1,
  MAX_CART <- 2, CartMaxWeight <- 4, Word <- 7, Start <- Stock, MaxShop <- 0, MaxOpened <- 2

-----------------------------------------------------------------------------
Chars   == {c1, c2}
Classes == {"poring", "lunatic"}
Slots   == {1}
Pets == INSTANCE Pet WITH
  Chars <- Chars, Classes <- Classes, Slots <- Slots, hasty <- hastily,
  MaxPets <- 2, MaxAsked <- 3, MaxActs <- 10

ASSUME TownAssumption ==
  ChatRooms!ChatAssumption /\ Shops!MarketAssumption /\ Pets!PetAssumption

-----------------------------------------------------------------------------
Init == /\ scene \in {"chat", "market", "pets"}
        /\ ChatRooms!Init /\ (scene # "chat" => at = [p \in Guests |-> ma])
        /\ Shops!Init /\ Pets!Init

chatVars   == <<at, chatID, room, event, hasty>>
marketVars == <<goods, cart, zeny, vending, seen, ledger, bank, opened, spoiled>>
petVars    == <<pet_db, pet_newid, char_dat, sd, floor, toChar, toMap, down, hastily, expired, acts>>

Next ==
  \/ scene = "chat" /\ ChatRooms!Next /\ UNCHANGED <<scene, marketVars, petVars>>
  \/ scene = "market" /\ Shops!Next /\ UNCHANGED <<scene, chatVars, petVars>>
  \/ scene = "pets" /\ Pets!Next /\ UNCHANGED <<scene, chatVars, marketVars>>

Spec == Init /\ [][Next]_<<scene, chatVars, marketVars, petVars>>

Symmetry == Permutations(Guests)

(* See Chat, Market and Pet. *)
RoomsAgree == ChatRooms!RoomsAgree
GoodsKept  == Shops!GoodsKept
PetIsOnce  == Pets!PetIsOnce
=============================================================================
