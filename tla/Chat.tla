-------------------------------- MODULE Chat --------------------------------
(***************************************************************************)
(* Chat rooms (map/chat.c) and the waiting rooms of NPCs (map/script.c).   *)
(* A room is an object with a table usersd of which the first `users`      *)
(* entries count and whatever lies behind them stays; a player's session   *)
(* has the id of its room, and no handler looks whether it has one before  *)
(* it enters another.                                                      *)
(*                                                                         *)
(* Left out: titles and passwords (a join is one with the right password), *)
(* cells (a room is on a map).  An entry of a session that was freed is    *)
(* Gone; what the code does with one depends on freed memory and is not    *)
(* modelled: such rooms are left alone.  Bounds: object ids are Rooms; the *)
(* NPC's waiting room is the first, its limit is Waiting, those of players *)
(* are in Limits; at most MaxHasty players at a time have entered a        *)
(* room from another, each once.                                           *)
(***************************************************************************)
EXTENDS Integers, Sequences, FiniteSets, SequencesExt, FiniteSetsExt

CONSTANTS Players, Maps, Rooms, Limits, Waiting, Trigger, MaxHasty, Nil, Gone

ChatAssumption ==
  /\ Rooms \subseteq Nat \ {0} /\ 1 \in Rooms /\ Limits \subseteq Nat \ {0} /\ Waiting \in Nat
  /\ Trigger \in Nat \ {0} /\ MaxHasty \in Nat
  /\ Nil \notin Players \cup Maps /\ Gone \notin Players

VARIABLES
  at,      \* player |-> its map, or Nil when it has no session
  chatID,
  room,    \* id |-> chat_data, or Nil
  event,   \* the waiting room's event was called and has not run
  hasty    \* history: players that entered a room while they were in one

vars == <<at, chatID, room, event, hasty>>

Users(r)    == SubSeq(r.usersd, 1, r.users)
Within(p)   == {i \in Rooms : room[i] # Nil /\ p \in Range(Users(room[i]))}
Sound(i)    == room[i] # Nil /\ Gone \notin Range(Users(room[i]))
InRoom(p)   == chatID[p] # 0 /\ Sound(chatID[p])
IsOwner(p)  == InRoom(p) /\ room[chatID[p]].npc = FALSE /\ room[chatID[p]].usersd[1] = p

(* chat_createcnpchat: at the start, on the first map. *)
Init ==
  /\ at \in [Players -> Maps] /\ chatID = [p \in Players |-> 0]
  /\ room = [i \in Rooms |-> IF i # 1 THEN Nil ELSE
               [map |-> CHOOSE m \in Maps : TRUE, limit |-> Waiting, users |-> 0,
                usersd |-> <<>>, npc |-> TRUE]]
  /\ event = FALSE /\ hasty = {}

-----------------------------------------------------------------------------
(* Mutant: the entries behind the one who leaves stay where they are. *)
DepartUnshifted(r, k) == [r EXCEPT !.users = @ - 1]

(* The entries behind the one who leaves move up; the last stays where it was,
   too, behind those that count. *)
Depart(r, k) ==
  [r EXCEPT !.users = @ - 1,
            !.usersd = [i \in DOMAIN @ |-> IF i \in k .. r.users - 1 THEN @[i + 1] ELSE @[i]]]

(* An empty room of players ends. *)
chat_leavechat(s, p) ==
  LET i == s.chatID[p]
      r == s.room[i]
      k == IF i = 0 THEN 0 ELSE SelectInSeq(Users(r), LAMBDA q : q = p)
      q == Depart(r, k)
  IN IF k = 0 THEN s
     ELSE [chatID |-> [s.chatID EXCEPT ![p] = 0],
           room   |-> [s.room EXCEPT ![i] = IF q.users = 0 /\ ~r.npc THEN Nil ELSE q]]

State     == [room |-> room, chatID |-> chatID]
Becomes(s) == room' = s.room /\ chatID' = s.chatID
Enters(p) == /\ hasty' = IF Within(p) = {} THEN hasty ELSE hasty \cup {p}
             /\ Cardinality(hasty') <= MaxHasty /\ (p \in hasty => Within(p) = {})

(* map_addobject finds the lowest free id, or none. *)
chat_createchat(p, limit) ==
  LET i == Min({j \in Rooms : room[j] = Nil})
  IN /\ at[p] # Nil /\ \E j \in Rooms : room[j] = Nil
     /\ room' = [room EXCEPT ![i] = [map |-> at[p], limit |-> limit, users |-> 1,
                                     usersd |-> <<p>>, npc |-> FALSE]]
     /\ chatID' = [chatID EXCEPT ![p] = i]
     /\ Enters(p)
     /\ UNCHANGED <<at, event>>

(* What is behind the users is overwritten.  With enough waiting, the NPC's
   event is called; it runs now, or when its player's dialog is over. *)
chat_joinchat(p, i) ==
  LET r == room[i]
      n == r.users + 1
  IN /\ at[p] # Nil /\ Sound(i) /\ r.map = at[p] /\ r.users < r.limit
     /\ room' = [room EXCEPT ![i].users = n,
                             ![i].usersd = IF n > Len(@) THEN Append(@, p) ELSE [@ EXCEPT ![n] = p]]
     /\ chatID' = [chatID EXCEPT ![p] = i]
     /\ event' = (event \/ (r.npc /\ n >= Trigger))
     /\ Enters(p)
     /\ UNCHANGED at

LeaveChat(p) ==
  /\ at[p] # Nil /\ InRoom(p) /\ Becomes(chat_leavechat(State, p))
  /\ UNCHANGED <<at, event, hasty>>

chat_changechatowner(p, q) ==
  LET r == room[chatID[p]]
      k == SelectInSeq(Tail(Users(r)), LAMBDA x : x = q) + 1
  IN /\ at[p] # Nil /\ IsOwner(p) /\ k > 1
     /\ room' = [room EXCEPT ![chatID[p]].usersd[1] = q, ![chatID[p]].usersd[k] = p]
     /\ UNCHANGED <<at, chatID, event, hasty>>

chat_changechatstatus(p, limit) ==
  /\ at[p] # Nil /\ IsOwner(p)
  /\ room' = [room EXCEPT ![chatID[p]].limit = limit]
  /\ UNCHANGED <<at, chatID, event, hasty>>

(* The one to be kicked leaves the room it has the id of. *)
chat_kickchat(p, q) ==
  /\ at[p] # Nil /\ IsOwner(p) /\ q \in Range(Users(room[chatID[p]]))
  /\ chatID[q] = 0 \/ InRoom(q)
  /\ Becomes(chat_leavechat(State, q))
  /\ UNCHANGED <<at, event, hasty>>

pc_setpos(p, m) ==
  /\ at[p] # Nil /\ (chatID[p] = 0 \/ InRoom(p))
  /\ at' = [at EXCEPT ![p] = m]
  /\ Becomes(chat_leavechat(State, p))
  /\ UNCHANGED <<event, hasty>>

(* Entries that are left point to freed memory then. *)
map_quit(p) ==
  LET s == chat_leavechat(State, p)
  IN /\ at[p] # Nil /\ (chatID[p] = 0 \/ InRoom(p))
     /\ at' = [at EXCEPT ![p] = Nil]
     /\ chatID' = [s.chatID EXCEPT ![p] = 0]
     /\ room' = [i \in Rooms |-> IF s.room[i] = Nil THEN Nil ELSE
          [s.room[i] EXCEPT !.usersd = [k \in DOMAIN @ |-> IF @[k] = p THEN Gone ELSE @[k]]]]
     /\ hasty' = hasty \ {p}
     /\ UNCHANGED event

Login(p, m) ==
  /\ at[p] = Nil /\ at' = [at EXCEPT ![p] = m]
  /\ UNCHANGED <<chatID, room, event, hasty>>

(* The event: as many places of the table as the trigger says, one after the
   other while the table moves, and whoever left last still stands behind it.
   It stops, as the server would, at a place never used or freed. *)
Warped(s, k) ==
  LET u == s.room[1].usersd
  IN IF k > Len(u) \/ u[k] = Gone \/ s.stop THEN [s EXCEPT !.stop = TRUE]
     ELSE LET t == chat_leavechat(s, u[k])
          IN [room |-> t.room, chatID |-> t.chatID, stop |-> FALSE, taken |-> s.taken \cup {u[k]}]

buildin_warpwaitingpc(m) ==
  LET s == FoldLeft(Warped, [room |-> room, chatID |-> chatID, stop |-> FALSE, taken |-> {}],
                    [k \in 1 .. Trigger |-> k])
  IN /\ event /\ \A i \in Rooms : room[i] = Nil \/ Sound(i)
     /\ ~s.stop
     /\ Becomes(s) /\ event' = FALSE
     /\ at' = [p \in Players |-> IF p \in s.taken THEN m ELSE at[p]]
     /\ UNCHANGED hasty

Next ==
  \/ \E p \in Players, i \in Rooms : chat_joinchat(p, i)
  \/ \E p \in Players, n \in Limits : chat_createchat(p, n) \/ chat_changechatstatus(p, n)
  \/ \E p, q \in Players : chat_changechatowner(p, q) \/ chat_kickchat(p, q)
  \/ \E p \in Players, m \in Maps : pc_setpos(p, m) \/ Login(p, m)
  \/ \E p \in Players : LeaveChat(p) \/ map_quit(p)
  \/ \E m \in Maps : buildin_warpwaitingpc(m)

Spec == Init /\ [][Next]_vars

-----------------------------------------------------------------------------
(* A player that never entered a room from within another is listed once in
   the room it has the id of and in no other, however members are kicked,
   change maps, log out or are moved by the waiting room's event; and every
   listed member is on the map of its room. *)
RoomsAgree ==
  \A p \in Players \ hasty :
    /\ Within(p) = IF chatID[p] = 0 THEN {} ELSE {chatID[p]}
    /\ \A i \in Within(p) : /\ at[p] = room[i].map
                            /\ Cardinality({k \in 1 .. room[i].users : room[i].usersd[k] = p}) = 1
=============================================================================
