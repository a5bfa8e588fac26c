----------------------------- MODULE CharSelect -----------------------------
(***************************************************************************)
(* From the password to the map: the login server (login/login.c), the     *)
(* char server (char/char.c) and the link between them.  The login server  *)
(* notes each successful login in its auth_fifo; the char server asks for  *)
(* it when the client arrives, sends the list of characters, and lets the  *)
(* client create, delete and select; a selection is noted in the char      *)
(* server's own auth_fifo, where a map server asks for it.                 *)
(*                                                                         *)
(* The clients are the game's own: one sends a choice only when it has the *)
(* list, of characters it was shown, and one selection for each list.      *)
(* char_dat is an array that deletion shortens without wiping, so what     *)
(* lies beyond char_num can still be read.  A list is found_char[3]: what  *)
(* the loops of select and create, which run on to found_char[8], may find *)
(* past its end is taken to be neither a character nor a free place.  A    *)
(* deletion when no character is counted any more (it would copy from      *)
(* before the array) is left out, and so are sexes, names and              *)
(* max_connect_user.                                                       *)
(*                                                                         *)
(* Bounds: MaxLogins in all, MaxChars characters at a time (char_max  *)
(* grows without end in the code), MaxCharId for char_id_count, MaxQueue   *)
(* packets under way.                                                      *)
(***************************************************************************)
EXTENDS Integers, Sequences, FiniteSets

CONSTANTS
  Accounts, LoginIds,
  NumFds,                    \* sessions of the char server
  Nums,                      \* char_num, the place of a character in the list
  Listed, LOGIN_FIFO_SIZE, AUTH_FIFO_SIZE,
  Roster,                    \* the characters of the file, in its order
  MaxLogins, MaxChars, MaxCharId, MaxQueue

ASSUME CharSelectAssumption ==
  /\ NumFds \in Nat \ {0} /\ Listed \in Nat \ {0} /\ Nums \subseteq Nat
  /\ LOGIN_FIFO_SIZE \in Nat \ {0} /\ AUTH_FIFO_SIZE \in Nat \ {0}
  /\ MaxLogins \in Nat /\ MaxCharId \in Nat /\ MaxQueue \in Nat
  /\ MaxChars \in Nat \ {0} /\ Len(Roster) <= MaxChars /\ Len(Roster) <= MaxCharId

(* The file was written by this server: ids and places differ, and no id is
   past the count. *)
ASSUME RosterAssumption ==
  /\ Roster \in Seq([account : Accounts, char_id : 1 .. Len(Roster), num : Nums])
  /\ \A i, j \in DOMAIN Roster : i # j =>
       /\ Roster[i].char_id # Roster[j].char_id
       /\ Roster[i].account = Roster[j].account => Roster[i].num # Roster[j].num

(* The client has no more places than the list it is sent. *)
ASSUME PlacesAssumption == IsFiniteSet(Nums) /\ Cardinality(Nums) <= Listed

VARIABLES
  tickets, ticket_pos,       \* login server: auth_fifo and auth_fifo_pos
  toLogin, toChar,           \* packets under way between the two
  login_fd,                  \* char server: "up", or "down" for -1
  session,                   \* char server: fd |-> char_session_data, and what
                             \*   its client has been shown
  char_dat, char_num,        \* char server: the characters
  char_id_count,
  auth_fifo, auth_fifo_pos,  \* char server: ring of expected logins
  answer,                    \* the last 2afd sent to a map server
  playing,                   \* map servers: who plays, with which login
  issued,                    \* history: the logins granted
  outdated                   \* history: fds whose list a deletion has upset

loginVars == <<tickets, ticket_pos>>
linkVars  == <<toLogin, toChar, login_fd>>
charVars  == <<char_dat, char_num, char_id_count>>
fifoVars  == <<auth_fifo, auth_fifo_pos>>
vars == <<loginVars, linkVars, session, charVars, fifoVars, answer, playing, issued, outdated>>

Fds   == 1 .. NumFds
Array == 1 .. MaxChars                  \* char_dat, index 0 of the code is 1
Nil   == "nil"
NoSlot == 0                             \* found_char -1
Closed == [account |-> Nil, login_id1 |-> Nil, state |-> "closed",
           found |-> [i \in 1 .. Listed |-> NoSlot], shown |-> {}]
NoChar  == [account |-> Nil, char_id |-> 0, num |-> 0]
NoEntry == [account |-> Nil, char_id |-> 0, login_id1 |-> Nil, delflag |-> 1,
            pos |-> 1, wanted |-> 0, sound |-> FALSE]
NoTicket == [account |-> Nil, login_id1 |-> Nil, delflag |-> 1]
NoAnswer == [account |-> Nil, dat |-> NoChar, wanted |-> 0, sound |-> FALSE]

Init ==
  /\ tickets = [i \in 0 .. LOGIN_FIFO_SIZE - 1 |-> NoTicket] /\ ticket_pos = 0
  /\ toLogin = <<>> /\ toChar = <<>> /\ login_fd = "up"
  /\ session = [f \in Fds |-> Closed]
  /\ char_dat = [i \in Array |-> IF i <= Len(Roster) THEN Roster[i] ELSE NoChar]
  /\ char_num = Len(Roster) /\ char_id_count = Len(Roster) + 1
  /\ auth_fifo = [i \in 0 .. AUTH_FIFO_SIZE - 1 |-> NoEntry] /\ auth_fifo_pos = 0
  /\ answer = NoAnswer
  /\ playing = [a \in Accounts |-> <<>>] /\ issued = <<>>
  /\ outdated = {}

First(S) == CHOOSE x \in S : \A y \in S : x <= y
Before(n, size) == IF n >= size THEN 0 ELSE n    \* the reset of a full ring

-----------------------------------------------------------------------------
(* parse_login 0x00: mmo_auth draws a login_id1 at random (an account may draw
   the same again) and the login is noted; a refused one changes nothing. *)
ClientLogin(a, id) ==
  LET p == Before(ticket_pos, LOGIN_FIFO_SIZE) IN
  /\ Len(issued) < MaxLogins
  /\ tickets' = [tickets EXCEPT ![p] = [account |-> a, login_id1 |-> id, delflag |-> 0]]
  /\ ticket_pos' = p + 1
  /\ issued' = Append(issued, [account |-> a, login_id1 |-> id])
  /\ UNCHANGED <<linkVars, session, charVars, fifoVars, answer, playing, outdated>>

(* parse_fromchar 0x2712: the first login that fits is used up. *)
Ticket(a, id) ==
  {i \in DOMAIN tickets : tickets[i].account = a /\ tickets[i].login_id1 = id
                          /\ tickets[i].delflag = 0}
UseTicketKept(i) == UNCHANGED tickets
UseTicket(i) == tickets' = [tickets EXCEPT ![i].delflag = 1]

AuthRequest ==
  /\ toLogin # <<>> /\ Len(toChar) < MaxQueue
  /\ LET m == Head(toLogin)
         t == Ticket(m.account, m.login_id1)
     IN /\ IF t = {} THEN UNCHANGED tickets ELSE UseTicket(First(t))
        /\ toChar' = Append(toChar, [account |-> m.account, ok |-> t # {}])
  /\ toLogin' = Tail(toLogin)
  /\ UNCHANGED <<ticket_pos, login_fd, session, charVars, fifoVars, answer, playing,
                 issued, outdated>>

(* parse_tologin at eof, and the timer check_connect_login_server. *)
LinkLost ==
  /\ login_fd = "up"
  /\ login_fd' = "down" /\ toLogin' = <<>> /\ toChar' = <<>>
  /\ UNCHANGED <<loginVars, session, charVars, fifoVars, answer, playing, issued, outdated>>

LinkBack ==
  /\ login_fd = "down" /\ login_fd' = "up"
  /\ UNCHANGED <<loginVars, toLogin, toChar, session, charVars, fifoVars, answer, playing,
                 issued, outdated>>

-----------------------------------------------------------------------------
(* mmo_char_send0007: the list is the first characters of the account. *)
OwnSlots(a) == {i \in 1 .. char_num : char_dat[i].account = a}
Nth(S, n)   == CHOOSE x \in S : Cardinality({y \in S : y < x}) = n - 1
ListOf(a)   == [n \in 1 .. Listed |->
                 IF n <= Cardinality(OwnSlots(a)) THEN Nth(OwnSlots(a), n) ELSE NoSlot]
Slots(found) == {found[n] : n \in 1 .. Listed} \ {NoSlot}
Shown(S)     == {[char_id |-> char_dat[i].char_id, num |-> char_dat[i].num] : i \in S}

mmo_char_send0007(f, s) ==
  LET found == ListOf(s.account) IN
  /\ session' = [session EXCEPT ![f] = [s EXCEPT !.state = "authok", !.found = found,
                                          !.shown = Shown(Slots(found))]]
  /\ outdated' = outdated \ {f}

(* parse_char 0x01: a client that comes back from a map server is expected
   (delflag 2); for any other the login server is asked.  A new session's list
   is zeros, which is the first slot. *)
Returning(a, id) ==
  {i \in DOMAIN auth_fifo : auth_fifo[i].account = a /\ auth_fifo[i].login_id1 = id
                            /\ auth_fifo[i].delflag = 2}
UseEntry(i) == auth_fifo' = [auth_fifo EXCEPT ![i].delflag = 1]

Connect(f, a, id) ==
  LET back == Returning(a, id)
      s    == [account |-> a, login_id1 |-> id, state |-> "waitauth",
               found |-> [i \in 1 .. Listed |-> 1], shown |-> {}]
  IN
  /\ session[f].state = "closed" /\ login_fd = "up"
  /\ \E i \in DOMAIN issued : issued[i] = [account |-> a, login_id1 |-> id]
  /\ \/ /\ back # {}
        /\ UseEntry(First(back))
        /\ mmo_char_send0007(f, s)
        /\ UNCHANGED toLogin
     \/ /\ back = {} /\ Len(toLogin) < MaxQueue
        /\ session' = [session EXCEPT ![f] = s]
        /\ toLogin' = Append(toLogin, [account |-> a, login_id1 |-> id])
        /\ UNCHANGED <<auth_fifo, outdated>>
  /\ UNCHANGED <<loginVars, toChar, login_fd, charVars, auth_fifo_pos, answer, playing, issued>>

(* parse_tologin 0x2713: the answer goes to the first session of the account,
   which need not be the one that asked. *)
SessionsOf(a) == {f \in Fds : session[f].account = a}

AuthAnswer ==
  /\ toChar # <<>>
  /\ toChar' = Tail(toChar)
  /\ LET m == Head(toChar)
         f == First(SessionsOf(m.account))
     IN IF m.ok /\ SessionsOf(m.account) # {}
        THEN mmo_char_send0007(f, session[f])
        ELSE UNCHANGED <<session, outdated>>
  /\ UNCHANGED <<loginVars, toLogin, login_fd, charVars, fifoVars, answer, playing, issued>>

(* parse_char when the client is gone, or once the login server is. *)
Close(f) ==
  /\ session[f].state # "closed"
  /\ session' = [session EXCEPT ![f] = Closed]
  /\ outdated' = outdated \ {f}
  /\ UNCHANGED <<loginVars, linkVars, charVars, fifoVars, answer, playing, issued>>

-----------------------------------------------------------------------------
Choosing(f) == session[f].state = "authok" /\ login_fd = "up"

(* Note a login the char server expects. *)
Expect(entry) ==
  LET p == Before(auth_fifo_pos, AUTH_FIFO_SIZE) IN
  /\ auth_fifo' = [auth_fifo EXCEPT ![p] = entry]
  /\ auth_fifo_pos' = p + 1

(* parse_char 0x02: the first of the list whose slot has the number asked for. *)
SelectedFromAny(f, n) == {i \in 1 .. Listed : session[f].found[i] # NoSlot}
SelectedFrom(f, n) ==
  {i \in 1 .. Listed : session[f].found[i] # NoSlot /\ char_dat[session[f].found[i]].num = n}

Select(f, w) ==
  LET s   == session[f]
      pos == s.found[First(SelectedFrom(f, w.num))]
  IN
  /\ Choosing(f) /\ w \in s.shown
  /\ IF SelectedFrom(f, w.num) = {}
     THEN UNCHANGED <<session, fifoVars>>
     ELSE /\ Expect([account |-> s.account, char_id |-> char_dat[pos].char_id,
                     login_id1 |-> s.login_id1, delflag |-> 0, pos |-> pos,
                     wanted |-> w.char_id, sound |-> f \notin outdated])
          /\ session' = [session EXCEPT ![f].state = "chosen"]
  /\ UNCHANGED <<loginVars, linkVars, charVars, answer, playing, issued, outdated>>

(* parse_char 0x03 and make_new_char: a place not yet taken in the account. *)
TakenBefore(a, n) ==
  \E i \in 1 .. char_num - 1 : char_dat[i].account = a /\ char_dat[i].num = n
Taken(a, n) == \E i \in 1 .. char_num : char_dat[i].account = a /\ char_dat[i].num = n
FreeFirst(found) == 1 .. Listed
Free(found) == {i \in 1 .. Listed : found[i] = NoSlot}

Create(f, n) ==
  LET s   == session[f]
      new == char_num + 1
      found == IF Free(s.found) = {} THEN s.found
               ELSE [s.found EXCEPT ![First(Free(s.found))] = new]
  IN
  /\ Choosing(f) /\ new \in Array /\ char_id_count <= MaxCharId
  /\ ~Taken(s.account, n)
  /\ char_dat' = [char_dat EXCEPT ![new] = [account |-> s.account, char_id |-> char_id_count,
                                            num |-> n]]
  /\ char_num' = new /\ char_id_count' = char_id_count + 1
  /\ session' = [session EXCEPT
        ![f].found = found,
        ![f].shown = @ \cup {[char_id |-> char_id_count, num |-> n]}]
  /\ UNCHANGED <<loginVars, linkVars, fifoVars, answer, playing, issued, outdated>>

(* parse_char 0x04: the last character takes the place of the deleted one, and
   the list closes up.  The lists of slots gone or refilled are upset, and so
   are the noted selections of them. *)
FillSwapped(p) == char_dat' = [char_dat EXCEPT ![char_num] = char_dat[p]]
Fill(p)   == char_dat' = [char_dat EXCEPT ![p] = char_dat[char_num]]
Shift(found, i) == [n \in 1 .. Listed |-> IF n < i THEN found[n]
                                         ELSE IF n < Listed THEN found[n + 1] ELSE NoSlot]
DeletedFrom(f, c) ==
  {i \in 1 .. Listed : session[f].found[i] # NoSlot /\ char_dat[session[f].found[i]].char_id = c}

Delete(f, w) ==
  LET s == session[f]
      i == First(DeletedFrom(f, w.char_id))
      p == s.found[i]
      moved == {p, char_num}
  IN
  /\ Choosing(f) /\ w \in s.shown /\ char_num > 0
  /\ DeletedFrom(f, w.char_id) # {}
  /\ Fill(p) /\ char_num' = char_num - 1
  /\ session' = [session EXCEPT ![f].found = Shift(s.found, i), ![f].shown = @ \ {w}]
  /\ outdated' = outdated \cup {g \in Fds : session[g].state \in {"authok", "chosen"}
                                           /\ Slots(session'[g].found) \cap moved # {}}
  /\ auth_fifo' = [k \in DOMAIN auth_fifo |->
        IF auth_fifo[k].pos \in moved THEN [auth_fifo[k] EXCEPT !.sound = FALSE] ELSE auth_fifo[k]]
  /\ UNCHANGED <<loginVars, linkVars, char_id_count, auth_fifo_pos, answer, playing, issued>>

-----------------------------------------------------------------------------
(* parse_frommap 0x2afc: a map server asks for the character its client names. *)
Expected(e) ==
  {i \in DOMAIN auth_fifo : auth_fifo[i].account = e.account /\ auth_fifo[i].char_id = e.char_id
                            /\ auth_fifo[i].login_id1 = e.login_id1 /\ auth_fifo[i].delflag = 0}

MapAuth(e) ==
  LET k == First(Expected(e)) IN
  /\ Expected(e) # {}
  /\ UseEntry(k)
  /\ answer' = [account |-> e.account, dat |-> char_dat[auth_fifo[k].pos],
                wanted |-> auth_fifo[k].wanted, sound |-> auth_fifo[k].sound]
  /\ playing' = [playing EXCEPT ![e.account] = Append(@, e.login_id1)]
  /\ UNCHANGED <<loginVars, linkVars, session, charVars, auth_fifo_pos, issued, outdated>>

(* parse_frommap 0x2b02: a player goes back to the selection. *)
CharSelectReq(a) ==
  /\ playing[a] # <<>>
  /\ Expect([NoEntry EXCEPT !.account = a, !.login_id1 = Head(playing[a]), !.delflag = 2])
  /\ playing' = [playing EXCEPT ![a] = Tail(@)]
  /\ UNCHANGED <<loginVars, linkVars, session, charVars, answer, issued, outdated>>

Next ==
  \/ AuthRequest \/ LinkLost \/ LinkBack \/ AuthAnswer
  \/ \E a \in Accounts : CharSelectReq(a) \/ \E id \in LoginIds : ClientLogin(a, id)
  \/ \E f \in Fds : \/ Close(f)
                     \/ \E a \in Accounts, id \in LoginIds : Connect(f, a, id)
                     \/ \E w \in session[f].shown : Select(f, w) \/ Delete(f, w)
                     \/ \E n \in Nums : Create(f, n)
  \/ \E k \in DOMAIN auth_fifo : MapAuth(auth_fifo[k])

Spec == Init /\ [][Next]_vars

-----------------------------------------------------------------------------
(* Every variable keeps its range; in particular the rings are never left. *)
TypeOK ==
  /\ ticket_pos \in 0 .. LOGIN_FIFO_SIZE /\ auth_fifo_pos \in 0 .. AUTH_FIFO_SIZE
  /\ DOMAIN tickets = 0 .. LOGIN_FIFO_SIZE - 1 /\ DOMAIN auth_fifo = 0 .. AUTH_FIFO_SIZE - 1
  /\ login_fd \in {"up", "down"}
  /\ \A f \in Fds : session[f].found \in [1 .. Listed -> Array \cup {NoSlot}]
  /\ char_num \in 0 .. MaxChars /\ char_id_count \in 1 .. MaxCharId + 1
  /\ outdated \subseteq Fds

(* One login lets in one game at a time.  Whatever stands for the right to play
   - a login not yet asked for, a yes under way, a session that may choose, an
   expected selection, a game, an expected return - came out of a login of the
   account, and each is used up by the next. *)
Live(ring, a, flags) == {i \in DOMAIN ring : ring[i].account = a /\ ring[i].delflag \in flags}
OneGamePerLogin ==
  \A a \in Accounts :
    Cardinality(Live(tickets, a, {0}))
    + Cardinality({i \in DOMAIN toChar : toChar[i].account = a /\ toChar[i].ok})
    + Cardinality({f \in Fds : session[f].account = a /\ session[f].state = "authok"})
    + Cardinality(Live(auth_fifo, a, {0, 2})) + Len(playing[a])
    <= Cardinality({i \in DOMAIN issued : issued[i].account = a})

(* As long as no deletion has touched its slots, the list of a session that may
   choose has the characters its client was shown, and they are the account's
   own and exist, whatever other sessions create and delete. *)
ListIsAsShown ==
  \A f \in Fds : session[f].state = "authok" /\ f \notin outdated =>
    LET S == Slots(session[f].found) IN S \subseteq OwnSlots(session[f].account)
                                       /\ Shown(S) = session[f].shown

(* What a map server is sent is the character the client chose, of the account
   it logged in with, however late it asks. *)
GrantIsTheChoice ==
  answer.sound => answer.dat.account = answer.account /\ answer.dat.char_id = answer.wanted

(* No two characters share a char_id, nor two of an account a place; and no
   variable leaves its range. *)
UniqueChars ==
  TypeOK /\
  \A i, j \in 1 .. char_num : i # j =>
    /\ char_dat[i].char_id # char_dat[j].char_id
    /\ char_dat[i].account = char_dat[j].account => char_dat[i].num # char_dat[j].num

Ids == {char_dat[i].char_id : i \in 1 .. char_num}

(* A deletion in a session whose list is not outdated removes the character
   the client named, and no other. *)
DeletesTheNamed ==
  [][\A f \in Fds \ outdated : \A w \in session[f].shown :
       Delete(f, w) => Ids' = Ids \ {w.char_id}]_vars

(* doc/client_packet_table_en.txt: 0004 <character ID> is a "Request to delete
   character", 000B a "Character deletion success".  So a deletion removes the
   named character and no other, whatever the session did before. *)
DeletionSucceeds ==
  [][\A f \in Fds : \A w \in session[f].shown :
       Delete(f, w) => Ids' = Ids \ {w.char_id}]_vars
=============================================================================
