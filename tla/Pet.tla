--------------------------------- MODULE Pet ---------------------------------
(***************************************************************************)
(* Pets of an account's characters (map/pet.c) and the char server that    *)
(* keeps them (char/int_pet.c).  A pet is in an egg, an item that names    *)
(* it, or walks with a character.  Taming and hatching ask the char server *)
(* and go on when its answer comes; the egg is gone by then.  Requests,    *)
(* answers and the saving of characters share one link, in order.          *)
(*                                                                         *)
(* Only eggs are carried, in Slots; hunger and friendship are reduced to   *)
(* whether the pet is attached (intimate > 0).  What the pet does on the   *)
(* map (walking, attacking) changes nothing here.  A session is found by   *)
(* account while its login is still under way (auth is FALSE).             *)
(*                                                                         *)
(* Bounds: MaxPets are created, less than MaxAsked packets are under way   *)
(* when clients act, which they do MaxActs times; a client has at most two *)
(* lists of eggs.  When a map server dies (down) nothing follows.          *)
(***************************************************************************)
EXTENDS Integers, Sequences, FiniteSets, SequencesExt, FiniteSetsExt

CONSTANTS Chars, Classes, Slots, MaxPets, MaxAsked, MaxActs, Nil

PetAssumption ==
  /\ Slots \subseteq Nat \ {0} /\ MaxPets \in Nat /\ MaxAsked \in Nat /\ MaxActs \in Nat
  /\ Nil \notin Chars \cup Classes

VARIABLES
  pet_db, pet_newid,  \* char server
  char_dat,           \* char server: character |-> what is saved of it
  sd,                 \* map server: the account's session, or Nil
  floor,              \* eggs on the floor
  toChar, toMap,
  down,               \* the map server died
  hasty,              \* history: something was done while a request about a pet was under way
  expired,            \* history: pets whose egg was left on the floor too long
  acts                \* bound

vars == <<pet_db, pet_newid, char_dat, sd, floor, toChar, toMap, down, hasty, expired, acts>>

Ids    == 1 .. MaxPets
Carry  == [k \in Slots |-> Nil]
Blank  == [pet_id |-> 0, eggs |-> Carry]
Unset  == [id |-> 0, class |-> Nil, incuvate |-> FALSE, owner |-> Nil, attached |-> FALSE]
Egg(i, c) == [pet |-> i, class |-> c]
Connecting(c) == [char |-> c, auth |-> FALSE, inmap |-> FALSE, pet_id |-> 0, pet |-> Unset,
                  pd |-> FALSE, eggs |-> Carry, lists |-> 0, lure |-> Nil]

Init ==
  /\ pet_db = [i \in Ids |-> Nil] /\ pet_newid = 1
  /\ char_dat = [c \in Chars |-> Blank]
  /\ sd = Nil /\ floor = {} /\ toChar = <<>> /\ toMap = <<>>
  /\ down = FALSE /\ hasty = FALSE /\ expired = {} /\ acts = 0

-----------------------------------------------------------------------------
(* Char server.  Eggs belong to no one. *)
Unowned(p) == IF p.incuvate THEN [p EXCEPT !.owner = Nil] ELSE p

mapif_create_pet(msg) ==
  /\ msg.kind = "create"
  /\ pet_db' = [pet_db EXCEPT ![pet_newid] =
       [id |-> pet_newid, class |-> msg.class, incuvate |-> TRUE, owner |-> Nil, attached |-> TRUE]]
  /\ pet_newid' = pet_newid + 1
  /\ toMap' = Append(toMap, [kind |-> "created", id |-> pet_newid])
  /\ UNCHANGED char_dat

mapif_load_pet(msg) ==
  LET p == pet_db[msg.id]
      answer == IF p # Nil /\ (p.incuvate \/ p.owner = msg.char)
                THEN [kind |-> "info", pet |-> Unowned(p)] ELSE [kind |-> "noinfo"]
  IN /\ msg.kind = "load"
     /\ toMap' = Append(toMap, answer)
     /\ UNCHANGED <<pet_db, pet_newid, char_dat>>

mapif_save_pet(msg) ==
  /\ msg.kind = "save"
  /\ pet_db' = [pet_db EXCEPT ![msg.pet.id] = Unowned(msg.pet)]
  /\ UNCHANGED <<pet_newid, char_dat, toMap>>

inter_pet_delete(msg) ==
  /\ msg.kind = "delete"
  /\ pet_db' = [pet_db EXCEPT ![msg.id] = Nil]
  /\ UNCHANGED <<pet_newid, char_dat, toMap>>

(* The saving of a character, and the answer to its login. *)
parse_frommap(msg) ==
  \/ /\ msg.kind = "char" /\ char_dat' = [char_dat EXCEPT ![msg.char] = msg.data]
     /\ UNCHANGED <<pet_db, pet_newid, toMap>>
  \/ /\ msg.kind = "auth"
     /\ toMap' = Append(toMap, [kind |-> "auth", char |-> msg.char, data |-> char_dat[msg.char]])
     /\ UNCHANGED <<pet_db, pet_newid, char_dat>>

FromMap ==
  /\ ~down /\ toChar # <<>> /\ toChar' = Tail(toChar)
  /\ LET msg == Head(toChar)
     IN \/ mapif_create_pet(msg) \/ mapif_load_pet(msg) \/ mapif_save_pet(msg)
        \/ inter_pet_delete(msg) \/ parse_frommap(msg)
  /\ UNCHANGED <<sd, floor, down, hasty, expired, acts>>

-----------------------------------------------------------------------------
(* Map server.  A handler works on the session, the floor and what it sends. *)
State == [sd |-> sd, floor |-> floor, out |-> toChar, down |-> FALSE]
Becomes(s) == sd' = s.sd /\ floor' = s.floor /\ toChar' = s.out /\ down' = s.down
Send(s, msg) == [s EXCEPT !.out = Append(@, msg)]

(* A session that is still logging in has nothing of its character. *)
chrif_save(s) ==
  Send(s, [kind |-> "char", char |-> s.sd.char, data |-> [pet_id |-> s.sd.pet_id, eggs |-> s.sd.eggs]])
intif_save_petdata(s) == Send(s, [kind |-> "save", pet |-> s.sd.pet])
SaveAll(s)            == chrif_save(intif_save_petdata(s))

pc_additem(s, egg) ==
  LET free == {k \in Slots : s.sd.eggs[k] = Nil}
  IN IF free = {} THEN [s EXCEPT !.floor = @ \cup {egg}] ELSE [s EXCEPT !.sd.eggs[Min(free)] = egg]

Owner(s) == IF s.auth THEN s.char ELSE Nil

(* Mutant: the egg that hatches is not saved as hatched. *)
BirthUnsaved(s) ==
  LET p == [s.sd.pet EXCEPT !.incuvate = FALSE, !.owner = Owner(s.sd)]
  IN IF s.sd.pet_id # 0 THEN [s EXCEPT !.sd.pet_id = 0]
     ELSE chrif_save([s EXCEPT !.sd.pet = p, !.sd.pet_id = p.id, !.sd.pd = TRUE])

(* A second pet loses both: the session has none, and no egg is left. *)
pet_birth_process(s) ==
  LET p == [s.sd.pet EXCEPT !.incuvate = FALSE, !.owner = Owner(s.sd)]
  IN IF s.sd.pet_id # 0 THEN [s EXCEPT !.sd.pet_id = 0]
     ELSE SaveAll([s EXCEPT !.sd.pet = p, !.sd.pet_id = p.id, !.sd.pd = TRUE])

(* When it fails the pet is put on the map all the same, and there is none. *)
pet_data_init(s) ==
  IF s.sd.pet.owner # Owner(s.sd) \/ s.sd.pet_id # s.sd.pet.id
  THEN [s EXCEPT !.sd.pet_id = 0, !.down = s.sd.inmap /\ ~s.sd.pd]
  ELSE [s EXCEPT !.sd.pd = TRUE]

pet_recv_petdata(s, msg) ==
  IF s.sd = Nil THEN s
  ELSE IF msg.kind = "noinfo" THEN [s EXCEPT !.sd.pet_id = 0]
  ELSE LET t == [s EXCEPT !.sd.pet = msg.pet]
       IN IF msg.pet.incuvate THEN pet_birth_process(t) ELSE pet_data_init(t)

(* The egg is of the kind that the last lure was for. *)
pet_get_egg(s, msg) ==
  IF s.sd = Nil THEN s
  ELSE IF s.sd.lure = Nil THEN Send(s, [kind |-> "delete", id |-> msg.id])
  ELSE pc_additem(s, Egg(msg.id, s.sd.lure))

(* Another character's answer is ignored. *)
pc_authok(s, msg) ==
  IF s.sd = Nil \/ s.sd.auth \/ s.sd.char # msg.char THEN s
  ELSE LET t == [s EXCEPT !.sd = [Connecting(msg.char) EXCEPT !.auth = TRUE,
                                    !.pet_id = msg.data.pet_id, !.eggs = msg.data.eggs]]
       IN IF msg.data.pet_id = 0 THEN t
          ELSE Send(t, [kind |-> "load", char |-> msg.char, id |-> msg.data.pet_id])

FromChar ==
  /\ ~down /\ toMap # <<>> /\ toMap' = Tail(toMap)
  /\ LET msg == Head(toMap)
     IN Becomes(CASE msg.kind \in {"info", "noinfo"} -> pet_recv_petdata(State, msg)
                  [] msg.kind = "created" -> pet_get_egg(State, msg)
                  [] msg.kind = "auth"    -> pc_authok(State, msg))
  /\ UNCHANGED <<pet_db, pet_newid, char_dat, hasty, expired, acts>>

-----------------------------------------------------------------------------
(* Requests about a pet that have no answer yet. *)
Pending == {k \in DOMAIN toChar : toChar[k].kind \in {"create", "load"}}
           \cup {k \in DOMAIN toMap : toMap[k].kind \in {"created", "info", "noinfo"}}

Acts == /\ ~down /\ acts < MaxActs /\ acts' = acts + 1
        /\ Len(toChar) + Len(toMap) < MaxAsked
        /\ UNCHANGED <<pet_db, pet_newid, char_dat, toMap>>
Here == sd # Nil /\ sd.auth
Hastily == hasty' = (hasty \/ Pending # {})

Connect(c) ==
  /\ Acts /\ sd = Nil /\ sd' = Connecting(c)
  /\ toChar' = Append(toChar, [kind |-> "auth", char |-> c])
  /\ Hastily /\ UNCHANGED <<floor, down, expired>>

clif_parse_LoadEndAck ==
  /\ Here /\ ~sd.inmap /\ Acts /\ sd' = [sd EXCEPT !.inmap = TRUE]
  /\ UNCHANGED <<floor, toChar, down, hasty, expired>>

clif_sendegg ==
  /\ Here /\ sd.pet_id = 0 /\ sd.lists < 2 /\ Acts
  /\ sd' = [sd EXCEPT !.lists = @ + 1]
  /\ UNCHANGED <<floor, toChar, down, hasty, expired>>

(* The egg is taken before the char server has answered. *)
pet_select_egg(k) ==
  /\ Here /\ sd.lists > 0 /\ sd.eggs[k] # Nil /\ Acts
  /\ Becomes(Send([State EXCEPT !.sd.eggs[k] = Nil, !.sd.lists = @ - 1],
                  [kind |-> "load", char |-> sd.char, id |-> sd.eggs[k].pet]))
  /\ hasty' = (hasty \/ Pending # {} \/ sd.pet_id # 0) /\ UNCHANGED expired

pet_catch_process1(class) ==
  /\ Here /\ Acts /\ sd' = [sd EXCEPT !.lure = class]
  /\ Hastily /\ UNCHANGED <<floor, toChar, down, expired>>

(* The monster of that kind is tamed and gone. *)
pet_catch_process2 ==
  /\ Here /\ sd.lure # Nil
  /\ pet_newid + Cardinality({k \in DOMAIN toChar : toChar[k].kind = "create"}) \in Ids
  /\ Acts /\ Becomes(Send(State, [kind |-> "create", class |-> sd.lure]))
  /\ Hastily /\ UNCHANGED expired

pet_return_egg ==
  /\ Here /\ sd.pet_id # 0 /\ sd.pd /\ Acts
  /\ LET s == [State EXCEPT !.sd.pet_id = 0, !.sd.pd = FALSE, !.sd.pet.incuvate = TRUE]
     IN Becomes(SaveAll(pc_additem(s, Egg(sd.pet.id, sd.pet.class))))
  /\ Hastily /\ UNCHANGED expired

(* pet_hungry and pet_food. *)
pet_food(fed) ==
  /\ Here /\ sd.pet_id # 0 /\ sd.pd /\ sd.pet.attached # fed /\ Acts
  /\ sd' = [sd EXCEPT !.pet.attached = fed]
  /\ UNCHANGED <<floor, toChar, down, hasty, expired>>

pc_dropitem(k) ==
  /\ Here /\ sd.inmap /\ sd.eggs[k] # Nil /\ Acts
  /\ floor' = floor \cup {sd.eggs[k]} /\ sd' = [sd EXCEPT !.eggs[k] = Nil]
  /\ UNCHANGED <<toChar, down, hasty, expired>>

pc_takeitem(egg) ==
  /\ Here /\ sd.inmap /\ \E k \in Slots : sd.eggs[k] = Nil
  /\ Acts /\ Becomes(pc_additem([State EXCEPT !.floor = @ \ {egg}], egg))
  /\ UNCHANGED <<hasty, expired>>

(* The pet stays in pet_db: what would delete it is commented out. *)
map_clearflooritem_timer(egg) ==
  /\ Acts /\ floor' = floor \ {egg} /\ expired' = expired \cup {egg.pet}
  /\ UNCHANGED <<sd, toChar, down, hasty>>

pc_autosave ==
  /\ Here /\ Acts
  /\ Becomes(IF sd.pet_id # 0 /\ sd.pd THEN SaveAll(State) ELSE chrif_save(State))
  /\ UNCHANGED <<hasty, expired>>

(* A move to a map of this server. *)
pc_setpos ==
  /\ Here /\ sd.inmap /\ Acts /\ sd' = [sd EXCEPT !.inmap = FALSE]
  /\ UNCHANGED <<floor, toChar, down, hasty, expired>>

(* Mutant: the character that lost its pet still names it. *)
QuitNames(s) ==
  IF s.sd.pet_id = 0 \/ ~s.sd.pd THEN chrif_save(s)
  ELSE IF s.sd.pet.attached THEN SaveAll(s)
  ELSE chrif_save(Send(s, [kind |-> "delete", id |-> s.sd.pet_id]))

Quit(s) ==
  IF s.sd.pet_id = 0 \/ ~s.sd.pd THEN chrif_save(s)
  ELSE IF s.sd.pet.attached THEN SaveAll(s)
  ELSE chrif_save([Send(s, [kind |-> "delete", id |-> s.sd.pet_id]) EXCEPT !.sd.pet_id = 0])

map_quit ==
  /\ Here /\ Acts
  /\ Becomes([Quit(State) EXCEPT !.sd = Nil])
  /\ Hastily /\ UNCHANGED expired

Next ==
  \/ FromMap \/ FromChar
  \/ \E c \in Chars : Connect(c)
  \/ \E k \in Slots : pet_select_egg(k) \/ pc_dropitem(k)
  \/ \E c \in Classes : pet_catch_process1(c)
  \/ \E egg \in floor : pc_takeitem(egg) \/ map_clearflooritem_timer(egg)
  \/ \E b \in BOOLEAN : pet_food(b)
  \/ clif_parse_LoadEndAck \/ clif_sendegg \/ pet_catch_process2 \/ pet_return_egg
  \/ pc_autosave \/ pc_setpos \/ map_quit

Spec == Init /\ [][Next]_vars

-----------------------------------------------------------------------------
(* What a character has: by its session, by what is on its way, as saved. *)
Sent(c) == {k \in DOMAIN toChar : toChar[k].kind = "char" /\ toChar[k].char = c}
Latest(c) ==
  IF Here /\ sd.char = c THEN [pet_id |-> sd.pet_id, eggs |-> sd.eggs]
  ELSE IF Sent(c) # {} THEN toChar[Max(Sent(c))].data ELSE char_dat[c]

Eggs(i) == {<<c, k>> \in Chars \X Slots : Latest(c).eggs[k] # Nil /\ Latest(c).eggs[k].pet = i}
Out(i)  == {c \in Chars : Latest(c).pet_id = i}
Lying(i) == {e \in floor : e.pet = i}
Hatching(i) ==  \* requested for no one who has it already
  IF Out(i) # {} THEN {}
  ELSE {k \in Pending \cap DOMAIN toChar : toChar[k].kind = "load" /\ toChar[k].id = i}
       \cup {k \in Pending \cap DOMAIN toMap : toMap[k].kind = "info" /\ toMap[k].pet.id = i}
       \cup {k \in Pending \cap DOMAIN toMap : toMap[k].kind = "created" /\ toMap[k].id = i}
Leaving(i) == \E k \in DOMAIN toChar : toChar[k].kind = "delete" /\ toChar[k].id = i

(* As long as nothing is done while a request about a pet is under way (which
   can lose or mix up pets), a pet is in one place only, in an egg of its own
   kind or with the character that owns it, whatever is dropped, taken, saved
   and loaded; a pet that was let go is nowhere; the pet of an egg that was
   left on the floor is kept for nobody; and the map server lives. *)
PetIsOnce ==
  ~hasty =>
    /\ ~down
    /\ \A i \in 1 .. pet_newid - 1 :
         LET places == Cardinality(Eggs(i)) + Cardinality(Out(i)) + Cardinality(Lying(i))
                       + Cardinality(Hatching(i))
         IN /\ places = IF pet_db[i] = Nil \/ Leaving(i) \/ i \in expired THEN 0 ELSE 1
            /\ \A x \in Eggs(i) : Latest(x[1]).eggs[x[2]].class = pet_db[i].class
            /\ toChar = <<>> => \A c \in Out(i) : ~pet_db[i].incuvate /\ pet_db[i].owner = c
=============================================================================
