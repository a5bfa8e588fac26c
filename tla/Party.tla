------------------------------- MODULE Party -------------------------------
(***************************************************************************)
(* Parties: the char server's (char/int_party.c), the copy of each on      *)
(* every map server (map/party.c), and the party each session believes to  *)
(* be in.  Map servers ask (map/intif.c), the char server decides and      *)
(* tells all map servers; both links are in order.                         *)
(*                                                                         *)
(* A member is a character; its account is looked up by AccountOf.  Levels *)
(* do not change.  A party's name is left out: a creation may fail as long *)
(* as there is a party that could have the name.  A pointer to a session   *)
(* is "live", or "dangling" once that session is freed.                    *)
(*                                                                         *)
(* Bounds: MaxParty is the last id the char server gives (creation fails   *)
(* then, as if the name were taken); clients act                            *)
(* MaxActs times in all (connecting and leaving included), while less than *)
(* MaxAsked packets are on their way from their map server; Options are    *)
(* the pairs of exp and item sharing they ask for.                         *)
(***************************************************************************)
EXTENDS Integers, Sequences, FiniteSets, SequencesExt

CONSTANTS Maps, Accounts, Chars, AccountOf, Lv, Nil, MAX_PARTY, MaxParty, MaxAsked,
          MaxActs, Options

ASSUME PartyAssumption ==
  /\ AccountOf \in [Chars -> Accounts] /\ Lv \in [Chars -> Nat]
  /\ MAX_PARTY \in Nat \ {0} /\ MaxParty \in Nat /\ MaxAsked \in Nat /\ MaxActs \in Nat
  /\ Options \subseteq BOOLEAN \X BOOLEAN
  /\ Nil \notin Chars

VARIABLES
  party,         \* char server: id |-> party, or Nil
  party_newid,
  char_dat,      \* char server: character |-> party_id saved with it
  party_db,      \* map server, id |-> its copy, or Nil
  session,       \* map server, account |-> session, or Nil
  toChar, toMap, \* map server |-> packets under way
  unsure,        \* history: parties whose options a refusal left apart
  acts,          \* bound: what clients did
  torn           \* history: characters whose membership was raced, see below

server == <<party_db, session>>
vars   == <<party, party_newid, char_dat, server, toChar, toMap, unsure, acts, torn>>

Ids     == 1 .. MaxParty
Slots   == 1 .. MAX_PARTY
Vacant  == [nick |-> Nil, leader |-> FALSE, online |-> FALSE]
Member  == [nick : Chars, leader : BOOLEAN, online : BOOLEAN]
NoOne   == [i \in Slots |-> Vacant]
Newborn == [member |-> NoOne, exp |-> FALSE, item |-> FALSE]

Of(a, x)     == x.nick # Nil /\ AccountOf[x.nick] = a
PlacesOf(p, a) == {i \in Slots : Of(a, p.member[i])}
First(S)     == CHOOSE i \in S : \A j \in S : i <= j
Members(p)   == IF p = Nil THEN {} ELSE {p.member[i].nick : i \in Slots} \ {Nil}

Init ==
  /\ party = [p \in Ids |-> Nil] /\ party_newid = 1
  /\ char_dat = [c \in Chars |-> 0]
  /\ party_db = [m \in Maps |-> [p \in Ids |-> Nil]]
  /\ session = [m \in Maps |-> [a \in Accounts |-> Nil]]
  /\ toChar = [m \in Maps |-> <<>>] /\ toMap = [m \in Maps |-> <<>>]
  /\ unsure = {} /\ torn = {} /\ acts = 0

-----------------------------------------------------------------------------
(* Char server.  A handler works on the parties and what it sends. *)
party_check_exp_share(p) ==
  \A i, j \in Slots : p.member[i].online /\ p.member[j].online =>
    Lv[p.member[i].nick] - Lv[p.member[j].nick] <= 10

State == [party |-> party, out |-> toMap, unsure |-> unsure]
Put(s, id, p)    == [s EXCEPT !.party[id] = p]
Send(s, m, msg)  == [s EXCEPT !.out[m] = Append(@, msg)]
SendAll(s, msg)  == [s EXCEPT !.out = [m \in Maps |-> Append(@[m], msg)]]

Info(id, p)      == [kind |-> "info", party |-> id, info |-> p]
mapif_party_info(s, id) == [SendAll(s, Info(id, s.party[id])) EXCEPT !.unsure = @ \ {id}]
Option(id, p, keep) ==
  [kind |-> "optionchanged", party |-> id, exp |-> p.exp, item |-> p.item, keepexp |-> keep]

(* Sharing ends when the levels of those online grow too far apart. *)
StopSharing(s, id) ==
  LET p == s.party[id] IN
  IF p.exp /\ ~party_check_exp_share(p)
  THEN LET q == [p EXCEPT !.exp = FALSE]
       IN [SendAll(Put(s, id, q), Option(id, q, FALSE)) EXCEPT !.unsure = @ \ {id}]
  ELSE s

party_check_empty(p) == Members(p) = {}

mapif_parse_PartyLeave(s, id, a) ==
  IF s.party[id] = Nil \/ PlacesOf(s.party[id], a) = {} THEN s
  ELSE LET q    == [s.party[id] EXCEPT !.member[First(PlacesOf(s.party[id], a))] = Vacant]
           left == SendAll(s, [kind |-> "leaved", party |-> id, acc |-> a])
       IN IF party_check_empty(q)
          THEN SendAll(Put(left, id, Nil), [kind |-> "broken", party |-> id])
          ELSE mapif_party_info(Put(left, id, q), id)

(* 0x3020 *)
mapif_parse_CreateParty(m, msg) ==
  /\ msg.kind = "create"
  /\ \/ /\ party_newid \notin Ids \/ \E p \in Ids : party[p] # Nil
        /\ toMap' = Send(State, m, [kind |-> "created", acc |-> msg.acc, nick |-> msg.nick, party |-> 0]).out
        /\ UNCHANGED <<party, party_newid, unsure>>
     \/ /\ party_newid \in Ids
        /\ LET p == [Newborn EXCEPT !.member[1] =
                       [nick |-> msg.nick, leader |-> TRUE, online |-> TRUE]]
               s == Send(Put(State, party_newid, p), m,
                         [kind |-> "created", acc |-> msg.acc, nick |-> msg.nick, party |-> party_newid])
           IN party' = s.party /\ toMap' = Send(s, m, Info(party_newid, p)).out
        /\ party_newid' = party_newid + 1
        /\ UNCHANGED unsure

(* The answers that need no more than State: the new one. *)
mapif_parse_PartyInfo(m, msg) ==
  IF party[msg.party] = Nil
  THEN Send(State, m, [kind |-> "noinfo", party |-> msg.party])
  ELSE Send(State, m, Info(msg.party, party[msg.party]))

Added(msg, fail) == [kind |-> "added", party |-> msg.party, acc |-> msg.acc,
                    nick |-> msg.nick, fail |-> fail]

(* Mutant: the place of a new member is not looked at. *)
AddMemberFirst(m, msg) ==
  LET id == msg.party
      p  == [party[id] EXCEPT !.member[1] =
               [nick |-> msg.nick, leader |-> FALSE, online |-> TRUE]]
  IN IF party[id] = Nil THEN Send(State, m, Added(msg, TRUE))
     ELSE StopSharing(mapif_party_info(Send(Put(State, id, p), m, Added(msg, FALSE)), id), id)

(* Mutant: the answer is left out, the party's members are told. *)
AddMemberSilent(m, msg) ==
  LET id   == msg.party
      free == IF party[id] = Nil THEN {} ELSE {i \in Slots : party[id].member[i] = Vacant}
      p    == [party[id] EXCEPT !.member[First(free)] =
                 [nick |-> msg.nick, leader |-> FALSE, online |-> TRUE]]
  IN IF free = {} THEN Send(State, m, Added(msg, TRUE))
     ELSE StopSharing(mapif_party_info(Put(State, id, p), id), id)

mapif_parse_PartyAddMember(m, msg) ==
  LET id   == msg.party
      free == IF party[id] = Nil THEN {} ELSE {i \in Slots : party[id].member[i] = Vacant}
      p    == [party[id] EXCEPT !.member[First(free)] =
                 [nick |-> msg.nick, leader |-> FALSE, online |-> TRUE]]
  IN IF free = {} THEN Send(State, m, Added(msg, TRUE))
     ELSE StopSharing(mapif_party_info(Send(Put(State, id, p), m, Added(msg, FALSE)), id), id)

(* A refused change of sharing is told to the one who asked only: the other
   servers hear neither of that nor of the change of item. *)
mapif_parse_PartyChangeOption(m, msg) ==
  LET id == msg.party
      p  == [party[id] EXCEPT !.exp = msg.exp, !.item = msg.item]
      q  == [p EXCEPT !.exp = FALSE]
  IN IF party[id] = Nil THEN State
     ELSE IF msg.exp /\ ~party_check_exp_share(p)
     THEN [Send(Put(State, id, q), m, Option(id, q, TRUE)) EXCEPT !.unsure = @ \cup {id}]
     ELSE [SendAll(Put(State, id, p), Option(id, p, FALSE)) EXCEPT !.unsure = @ \ {id}]

(* Mutant: only the server that tells of a move hears of it. *)
MovedToAsker(m, msg) ==
  LET id == msg.party
      at == IF party[id] = Nil THEN {} ELSE PlacesOf(party[id], msg.acc)
      s  == Put(State, id, [party[id] EXCEPT !.member[First(at)].online = msg.online])
  IN IF at = {} THEN State
     ELSE StopSharing(Send(s, m, [kind |-> "moved", party |-> id, acc |-> msg.acc,
                                  online |-> msg.online]), id)

mapif_parse_PartyChangeMap(m, msg) ==
  LET id == msg.party
      at == IF party[id] = Nil THEN {} ELSE PlacesOf(party[id], msg.acc)
      s  == Put(State, id, [party[id] EXCEPT !.member[First(at)].online = msg.online])
  IN IF at = {} THEN State
     ELSE StopSharing(SendAll(s, [kind |-> "moved", party |-> id, acc |-> msg.acc,
                                  online |-> msg.online]), id)

(* 0x3028: the character leaves every other party it is a member of. *)
Places == [n \in 1 .. MaxParty * MAX_PARTY |->
             <<1 + ((n - 1) \div MAX_PARTY), 1 + ((n - 1) % MAX_PARTY)>>]
Conflict(s, at, msg) ==
  IF /\ at[1] # msg.party /\ s.party[at[1]] # Nil
     /\ s.party[at[1]].member[at[2]].nick = msg.nick
  THEN mapif_parse_PartyLeave(s, at[1], AccountOf[msg.nick]) ELSE s
party_check_conflict(m, msg) ==
  LET after[n \in 0 .. MaxParty * MAX_PARTY] ==
        IF n = 0 THEN State ELSE Conflict(after[n - 1], Places[n], msg)
  IN after[MaxParty * MAX_PARTY]

Answer(m, msg) ==
  CASE msg.kind = "request" -> mapif_parse_PartyInfo(m, msg)
    [] msg.kind = "add"     -> mapif_parse_PartyAddMember(m, msg)
    [] msg.kind = "option"  -> mapif_parse_PartyChangeOption(m, msg)
    [] msg.kind = "leave"   -> mapif_parse_PartyLeave(State, msg.party, msg.acc)
    [] msg.kind = "move"    -> mapif_parse_PartyChangeMap(m, msg)
    [] msg.kind = "check"   -> party_check_conflict(m, msg)

FromMap(m) ==
  /\ toChar[m] # <<>>
  /\ toChar' = [toChar EXCEPT ![m] = Tail(@)]
  /\ LET msg == Head(toChar[m]) IN
     \/ mapif_parse_CreateParty(m, msg) /\ UNCHANGED char_dat
     \/ /\ msg.kind = "save"
        /\ char_dat' = [char_dat EXCEPT ![msg.nick] = msg.party]
        /\ UNCHANGED <<party, party_newid, toMap, unsure>>
     \/ /\ msg.kind \notin {"create", "save"}
        /\ LET s == Answer(m, msg)
           IN party' = s.party /\ toMap' = s.out /\ unsure' = s.unsure
        /\ UNCHANGED <<char_dat, party_newid>>
  /\ UNCHANGED <<server, acts, torn>>

-----------------------------------------------------------------------------
(* Map servers.  A copy has a pointer to the session of each member, live
   when the account is here with this party. *)
Session == [nick : Chars, party_id : Ids \cup {0}, invite : Ids \cup {0},
            asked : BOOLEAN, sended : BOOLEAN]
Online(m) == {a \in Accounts : session[m][a] # Nil}
Copies(m) == {p \in Ids : party_db[m][p] # Nil}
SetIn(m, a, s) == session' = [session EXCEPT ![m][a] = s]
Ask(m, msgs) == toChar' = [toChar EXCEPT ![m] = @ \o msgs]
Check(s)     == [kind |-> "check", party |-> s.party_id, nick |-> s.nick]

NoPointer == [i \in Slots |-> "none"]
Copy(p, sd) == [member |-> p.member, exp |-> p.exp, item |-> p.item, sd |-> sd]

(* The pointers of a copy of party id, looked up anew among sessions s. *)
Pointers(member, id, s) ==
  [i \in Slots |->
     IF \E a \in Accounts : Of(a, member[i]) /\ s[a] # Nil /\ s[a].party_id = id
     THEN "live" ELSE "none"]

(* Sessions s after those that claim id and are not in its list forget it. *)
IsListed(p, s) == \E i \in Slots : p.member[i].nick = s.nick
Forgets(p, id, s) == {a \in Accounts : s[a] # Nil /\ s[a].party_id = id /\ ~IsListed(p, s[a])}
party_check_member(p, id, s) ==
  [a \in Accounts |-> IF a \in Forgets(p, id, s) THEN [s[a] EXCEPT !.party_id = 0] ELSE s[a]]
Forgotten(p, id, s) == {s[a].nick : a \in Forgets(p, id, s)}

party_created(m, msg) ==
  LET s == session[m][msg.acc] IN
  /\ msg.kind = "created"
  /\ IF s = Nil
     THEN torn' = torn \cup {msg.nick} /\ UNCHANGED server
     ELSE /\ SetIn(m, msg.acc, [s EXCEPT !.asked = FALSE,
                                         !.party_id = IF msg.party = 0 THEN @ ELSE msg.party])
          /\ party_db' = IF msg.party = 0 THEN party_db
                         ELSE [party_db EXCEPT ![m][msg.party] = Copy(Newborn, NoPointer)]
          /\ torn' = IF s.asked /\ s.nick = msg.nick /\ s.party_id = 0 THEN torn
                     ELSE torn \cup {s.nick, msg.nick}
  /\ UNCHANGED toChar

party_recv_info(m, msg) ==
  LET id  == msg.party
      new == party_db[m][id] = Nil
      s   == IF new THEN party_check_member(msg.info, id, session[m]) ELSE session[m]
      sd  == Pointers(msg.info.member, id, s)
  IN /\ msg.kind = "info"
     /\ party_db' = [party_db EXCEPT ![m][id] = Copy(msg.info, sd)]
     /\ session' = [session EXCEPT ![m] = [a \in Accounts |->
          IF \E i \in Slots : Of(a, msg.info.member[i]) /\ sd[i] = "live"
          THEN [s[a] EXCEPT !.sended = TRUE] ELSE s[a]]]
     /\ torn' = IF new THEN torn \cup (Forgotten(msg.info, id, session[m]) \cap Members(party[id]))
                ELSE torn
     /\ UNCHANGED toChar

party_recv_noinfo(m, msg) ==
  /\ msg.kind = "noinfo"
  /\ session' = [session EXCEPT ![m] = party_check_member(Newborn, msg.party, @)]
  /\ UNCHANGED <<party_db, toChar, torn>>

(* A negative answer for a session that has left is read through a null
   pointer: the map server dies and starts again with nothing. *)
party_member_added(m, msg) ==
  LET s == session[m][msg.acc] IN
  /\ msg.kind = "added"
  /\ \/ /\ s = Nil /\ ~msg.fail
        /\ Ask(m, <<[kind |-> "leave", party |-> msg.party, acc |-> msg.acc]>>)
        /\ torn' = torn \cup {msg.nick} /\ UNCHANGED server
     \/ /\ s # Nil
        /\ SetIn(m, msg.acc,
             IF msg.fail THEN [s EXCEPT !.invite = 0, !.asked = FALSE]
             ELSE [s EXCEPT !.invite = 0, !.asked = FALSE, !.sended = FALSE,
                            !.party_id = msg.party])
        /\ Ask(m, IF msg.fail THEN <<>> ELSE <<Check([s EXCEPT !.party_id = msg.party])>>)
        /\ torn' = IF s.asked /\ s.nick = msg.nick /\ s.party_id = 0 THEN torn
                   ELSE torn \cup {s.nick, msg.nick}
        /\ UNCHANGED party_db

Leaves(m, a, id) ==
  LET s == session[m][a]
  IN IF s # Nil /\ s.party_id = id
     THEN SetIn(m, a, [s EXCEPT !.party_id = 0, !.sended = FALSE]) ELSE UNCHANGED session

party_member_leaved(m, msg) ==
  LET p    == party_db[m][msg.party]
      gone == IF p = Nil THEN {} ELSE PlacesOf(p, msg.acc)
  IN /\ msg.kind = "leaved"
     /\ party_db' = IF p = Nil THEN party_db ELSE
          [party_db EXCEPT ![m][msg.party] =
             Copy([p EXCEPT !.member = [i \in Slots |-> IF i \in gone THEN Vacant ELSE @[i]]],
                  [i \in Slots |-> IF i \in gone THEN "none" ELSE p.sd[i]])]
     /\ Leaves(m, msg.acc, msg.party)
     /\ UNCHANGED <<toChar, torn>>

(* Whoever a pointer leads to leaves whatever party it is in. *)
party_broken(m, msg) ==
  LET p == party_db[m][msg.party] IN
  /\ msg.kind = "broken"
  /\ party_db' = [party_db EXCEPT ![m][msg.party] = Nil]
  /\ session' = IF p = Nil THEN session ELSE
       [session EXCEPT ![m] = [a \in Accounts |->
          IF \E i \in Slots : Of(a, p.member[i]) /\ p.sd[i] = "live"
          THEN [session[m][a] EXCEPT !.party_id = 0, !.sended = FALSE] ELSE session[m][a]]]
  /\ UNCHANGED <<toChar, torn>>

party_optionchanged(m, msg) ==
  LET p == party_db[m][msg.party] IN
  /\ msg.kind = "optionchanged"
  /\ party_db' = IF p = Nil THEN party_db ELSE
       [party_db EXCEPT ![m][msg.party].exp = IF msg.keepexp THEN @ ELSE msg.exp,
                        ![m][msg.party].item = msg.item]
  /\ UNCHANGED <<session, toChar, torn>>

party_recv_movemap(m, msg) ==
  LET p  == party_db[m][msg.party]
      at == IF p = Nil THEN {} ELSE PlacesOf(p, msg.acc)
      q  == [p EXCEPT !.member[First(at)].online = msg.online]
  IN /\ msg.kind = "moved"
     /\ party_db' = IF at = {} THEN party_db ELSE
          [party_db EXCEPT ![m][msg.party] = Copy(q, Pointers(q.member, msg.party, session[m]))]
     /\ UNCHANGED <<session, toChar, torn>>

(* The copies of a map server that died are lost, and what its sessions had
   not saved or the save of which was under way. *)
Named(q) == {q[i].nick : i \in {j \in DOMAIN q : q[j].kind \in {"save", "create", "add", "check"}}}
Dies(m) ==
  /\ session' = [session EXCEPT ![m] = [a \in Accounts |-> Nil]]
  /\ party_db' = [party_db EXCEPT ![m] = [p \in Ids |-> Nil]]
  /\ toChar' = [toChar EXCEPT ![m] = <<>>] /\ toMap' = [toMap EXCEPT ![m] = <<>>]
  /\ torn' = torn \cup {session[m][a].nick : a \in Online(m)} \cup Named(toChar[m])
  /\ UNCHANGED char_dat

FromChar(m) ==
  /\ toMap[m] # <<>>
  /\ LET msg == Head(toMap[m]) IN
     IF msg.kind = "added" /\ msg.fail /\ session[m][msg.acc] = Nil
     THEN Dies(m)
     ELSE /\ toMap' = [toMap EXCEPT ![m] = Tail(@)]
          /\ \/ party_created(m, msg)
             \/ party_recv_info(m, msg)
             \/ party_recv_noinfo(m, msg)
             \/ party_member_added(m, msg)
             \/ party_member_leaved(m, msg)
             \/ party_broken(m, msg)
             \/ party_optionchanged(m, msg)
             \/ party_recv_movemap(m, msg)
          /\ UNCHANGED char_dat
  /\ UNCHANGED <<party, party_newid, unsure, acts>>

-----------------------------------------------------------------------------
(* Sessions and what their clients do. *)
Acts(m)    == acts < MaxActs /\ acts' = acts + 1 /\ Len(toChar[m]) < MaxAsked
Idle(m, a) == session[m][a] # Nil /\ Acts(m)

(* pc_authok, by MapSession: no other session of the account, and what was
   saved of the character has arrived. *)
Saving(c) == \E m \in Maps : \E i \in DOMAIN toChar[m] :
               toChar[m][i].kind = "save" /\ toChar[m][i].nick = c

Login(m, c) ==
  LET a == AccountOf[c]
      p == char_dat[c]
  IN /\ \A n \in Maps : session[n][a] = Nil
     /\ ~Saving(c) /\ Acts(m)
     /\ SetIn(m, a, [nick |-> c, party_id |-> p, invite |-> 0, asked |-> FALSE, sended |-> FALSE])
     /\ Ask(m, IF p # 0 /\ p \notin Copies(m) THEN <<[kind |-> "request", party |-> p]>> ELSE <<>>)
     /\ UNCHANGED <<party, party_newid, char_dat, party_db, toMap, unsure, torn>>

Move(s, on) == [kind |-> "move", party |-> s.party_id, acc |-> AccountOf[s.nick], online |-> on]

(* map_quit: the copy of the session's own party drops its pointer, any other
   pointer to the session is left. *)
Cut(m, a, own) == [p \in Ids |->
  IF party_db[m][p] = Nil THEN Nil
  ELSE [party_db[m][p] EXCEPT !.sd = [i \in Slots |->
          IF Of(a, party_db[m][p].member[i]) /\ @[i] = "live"
          THEN IF p = own THEN "none" ELSE "dangling" ELSE @[i]]]]

(* Mutant: the pointer is left in the session's own party too. *)
LogoutKeepsPointer(m, a) ==
  LET s == session[m][a] IN
  /\ s # Nil /\ Acts(m)
  /\ Ask(m, (IF s.party_id # 0 THEN <<Move(s, FALSE)>> ELSE <<>>)
            \o <<[kind |-> "save", nick |-> s.nick, party |-> s.party_id]>>)
  /\ party_db' = [party_db EXCEPT ![m] = Cut(m, a, 0)]
  /\ SetIn(m, a, Nil)
  /\ UNCHANGED <<party, party_newid, char_dat, toMap, unsure, torn>>

party_send_logout(m, a) ==
  LET s == session[m][a] IN
  /\ s # Nil /\ Acts(m)
  /\ Ask(m, (IF s.party_id # 0 THEN <<Move(s, FALSE)>> ELSE <<>>)
            \o <<[kind |-> "save", nick |-> s.nick, party |-> s.party_id]>>)
  /\ party_db' = [party_db EXCEPT ![m] = Cut(m, a, s.party_id)]
  /\ SetIn(m, a, Nil)
  /\ UNCHANGED <<party, party_newid, char_dat, toMap, unsure, torn>>

(* The client has loaded its map, or the character gained a level. *)
party_send_movemap(m, a) ==
  LET s     == session[m][a]
      id    == s.party_id
      p     == party_db[m][id]
      after == party_check_member(p, id, session[m])
  IN /\ Idle(m, a) /\ id # 0
     /\ Ask(m, <<Move(s, TRUE)>> \o (IF s.sended THEN <<>> ELSE <<Check(s)>>))
     /\ IF s.sended \/ p = Nil THEN UNCHANGED <<server, torn>>
        ELSE /\ session' = [session EXCEPT ![m] =
                  [after EXCEPT ![a].sended = @ \/ after[a].party_id = id]]
             /\ party_db' = [party_db EXCEPT ![m][id].sd = [i \in Slots |->
                  IF \E b \in Accounts : /\ session[m][b] # Nil /\ session[m][b].party_id = id
                                         /\ Of(b, p.member[i])
                                         /\ p.member[i].nick # session[m][b].nick
                  THEN "none" ELSE @[i]]]
             /\ torn' = torn \cup (Forgotten(p, id, session[m]) \cap Members(party[id]))
     /\ UNCHANGED <<party, party_newid, char_dat, toMap, unsure>>

(* What clients ask of the party leaves the parties alone. *)
Client(m, a, new, msgs, more) ==
  /\ Idle(m, a) /\ session' = new /\ Ask(m, msgs) /\ torn' = torn \cup more
  /\ UNCHANGED <<party, party_newid, char_dat, party_db, toMap, unsure>>

Overlap(s) == IF s.asked THEN {s.nick} ELSE {}
Asking(m, a) == [session EXCEPT ![m][a].asked = TRUE]

party_create(m, a) ==
  LET s == session[m][a]
  IN /\ s # Nil /\ s.party_id = 0
     /\ Client(m, a, Asking(m, a), <<[kind |-> "create", acc |-> a, nick |-> s.nick]>>, Overlap(s))

party_invite(m, a, b) ==
  LET s == session[m][a]
      t == session[m][b]
  IN /\ s # Nil /\ t # Nil /\ s.party_id \in Copies(m)
     /\ t.party_id = 0 /\ t.invite = 0 /\ PlacesOf(party_db[m][s.party_id], b) = {}
     /\ Client(m, a, [session EXCEPT ![m][b].invite = s.party_id], <<>>, {})

(* Acceptance leaves the invitation until the answer comes. *)
Accept(m, a) ==
  LET s == session[m][a]
  IN /\ s # Nil /\ s.invite # 0
     /\ Client(m, a, Asking(m, a),
               <<[kind |-> "add", party |-> s.invite, acc |-> a, nick |-> s.nick]>>, Overlap(s))

(* Also what a warp does. *)
Refuse(m, a) ==
  /\ session[m][a] # Nil /\ session[m][a].invite # 0
  /\ Client(m, a, [session EXCEPT ![m][a].invite = 0], <<>>, {})

Mine(m, a) == LET s == session[m][a]
              IN IF s = Nil \/ s.party_id \notin Copies(m) THEN Nil ELSE party_db[m][s.party_id]

(* The expelled need not be here; party_leave is the case b = a. *)
party_removemember(m, a, b) ==
  LET p == Mine(m, a)
  IN /\ p # Nil /\ PlacesOf(p, b) # {}
     /\ a = b \/ \A i \in PlacesOf(p, a) : p.member[i].leader
     /\ Client(m, a, session, <<[kind |-> "leave", party |-> session[m][a].party_id, acc |-> b]>>, {})

party_changeoption(m, a, exp, item) ==
  /\ Mine(m, a) # Nil
  /\ Client(m, a, session,
            <<[kind |-> "option", party |-> session[m][a].party_id, exp |-> exp, item |-> item]>>, {})

Next ==
  \/ \E m \in Maps : FromMap(m) \/ FromChar(m)
  \/ \E m \in Maps, c \in Chars : Login(m, c)
  \/ \E m \in Maps, a \in Accounts :
       \/ party_send_logout(m, a)
       \/ party_send_movemap(m, a)
       \/ party_create(m, a)
       \/ Accept(m, a)
       \/ Refuse(m, a)
       \/ \E b \in Accounts : party_invite(m, a, b) \/ party_removemember(m, a, b)
       \/ \E o \in Options : party_changeoption(m, a, o[1], o[2])

-----------------------------------------------------------------------------
Party == [member : [Slots -> Member \cup {Vacant}], exp : BOOLEAN, item : BOOLEAN]
PartyCopy == [member : [Slots -> Member \cup {Vacant}], exp : BOOLEAN, item : BOOLEAN,
              sd : [Slots -> {"none", "live", "dangling"}]]

(* What stands for nothing is no party, no copy and no session. *)
ASSUME NilAssumption == Nil \notin Party /\ Nil \notin PartyCopy /\ Nil \notin Session

(* Every party and copy has a list of places, none of which is lost when a
   packet is applied to a copy older or younger than it expects. *)
TypeOK ==
  /\ party \in [Ids -> Party \cup {Nil}] /\ party_newid \in 1 .. MaxParty + 1
  /\ char_dat \in [Chars -> Ids \cup {0}]
  /\ party_db \in [Maps -> [Ids -> PartyCopy \cup {Nil}]]
  /\ session \in [Maps -> [Accounts -> Session \cup {Nil}]]
  /\ \A m \in Maps, a \in Accounts : session[m][a] # Nil => AccountOf[session[m][a].nick] = a
  /\ unsure \subseteq Ids /\ torn \subseteq Chars /\ acts \in 0 .. MaxActs

(* When a map server has read all it was told, its copies are the char
   server's parties, whatever it was told in between and whenever it got the
   copy; but the sharing of a party whose change was refused may differ
   (mapif_parse_PartyChangeOption tells the asking server only). *)
CopiesAgree ==
  \A m \in Maps, p \in Ids : toMap[m] = <<>> /\ party_db[m][p] # Nil =>
    /\ party[p] # Nil
    /\ party_db[m][p].member = party[p].member
    /\ p \notin unsure => /\ party_db[m][p].exp = party[p].exp
                          /\ party_db[m][p].item = party[p].item

(* With nothing under way, a character whose requests were never overtaken
   (by a second request, a logout, a reload or a crash) is listed in no party
   but the one its session believes to be in, once; and a session that was
   shown its party (sended) is listed there.  A character expelled while away
   still believes in its party until its client has loaded a map. *)
MembersKnow ==
  (\A m \in Maps : toChar[m] = <<>> /\ toMap[m] = <<>>) =>
    \A m \in Maps, a \in Accounts : LET s == session[m][a] IN
      s # Nil /\ s.nick \notin torn =>
        \A p \in Ids : party[p] # Nil =>
          Cardinality({i \in Slots : party[p].member[i].nick = s.nick})
            \in IF s.party_id # p THEN {0} ELSE IF s.sended THEN {1} ELSE {0, 1}

(* No copy points to a session that was freed (party_send_xyhp_timer would
   read it every second), unless requests of the session's account were
   overtaken: a list may name two characters of one account, and a pointer
   leads to whichever is here.  And everything has its type. *)
Raced == {AccountOf[c] : c \in torn}
NoDanglingPointer ==
  TypeOK /\ \A m \in Maps : \A p \in Copies(m) : \A i \in Slots :
    party_db[m][p].sd[i] = "dangling" => \E a \in Raced : Of(a, party_db[m][p].member[i])

(* A character that accepted an invitation hears of it: it is refused, or
   shown the party it is in, unless it leaves. *)
Waiting(a) == \E m \in Maps : session[m][a] # Nil /\ session[m][a].asked
Settled(a) == \A m \in Maps : session[m][a] # Nil =>
                /\ ~session[m][a].asked
                /\ session[m][a].sended \/ session[m][a].party_id = 0
AcceptedIsAnswered == \A a \in Accounts : Waiting(a) ~> Settled(a)

(* The main loops of both servers read whatever has arrived. *)
Fairness == WF_vars(\E m \in Maps : FromMap(m)) /\ WF_vars(\E m \in Maps : FromChar(m))
Spec == Init /\ [][Next]_vars /\ Fairness
=============================================================================
