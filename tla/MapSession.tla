----------------------------- MODULE MapSession -----------------------------
(***************************************************************************)
(* Who plays which character where: the sessions of the map servers        *)
(* (map/clif.c, map/pc.c, map/map.c), the link of each map server to the   *)
(* char server (map/chrif.c), and what the char server keeps of the        *)
(* characters and of the logins it expects (char/char.c).                  *)
(*                                                                         *)
(* A map server allocates one map_session_data per connection and finds    *)
(* the one of an account in id_db.  Memory is modelled: a session is a     *)
(* chunk that is freed with its connection, whatever still points to it,   *)
(* and handed out again later.                                             *)
(*                                                                         *)
(* A character's status is the number of times it changed.  The login_id1  *)
(* of an account is the same in all its connections, so it is left out.    *)
(*                                                                         *)
(* Bounds: MaxVersion caps the changes of a character, MaxQueue the        *)
(* packets under way on a link and direction; a connection has at most     *)
(* one clif_waitclose timer armed.                                         *)
(***************************************************************************)
EXTENDS Integers, Sequences, FiniteSets

CONSTANTS
  Maps, Accounts, Chars, AccountOf,
  CharList,         \* the characters, in the order char_dat has them
  Fds,              \* sockets of a map server, every map server's alike
  Chunks,           \* pieces of memory a map_session_data fits in
  AUTH_FIFO_SIZE, MaxVersion, MaxQueue

Nil == "nil"

ASSUME MapSessionAssumption ==
  /\ AccountOf \in [Chars -> Accounts]
  /\ CharList \in Seq(Chars) /\ CharList # <<>>
  /\ \A i, j \in DOMAIN CharList : CharList[i] = CharList[j] => i = j
  /\ \A c \in Chars : \E i \in DOMAIN CharList : CharList[i] = c
  /\ AUTH_FIFO_SIZE \in Nat \ {0} /\ MaxVersion \in Nat /\ MaxQueue \in Nat
  /\ IsFiniteSet(Fds) /\ IsFiniteSet(Chunks) /\ IsFiniteSet(Chars)
  /\ Cardinality(Chunks) >= Cardinality(Fds)
  /\ Nil \notin Accounts \cup Chars \cup Fds \cup Chunks

VARIABLES
  char_dat,      \* char server: slot |-> the status stored there
  auth_fifo,     \* char server: ring of the logins it expects
  auth_fifo_pos,
  toChar, toMap, \* map server |-> packets under way to and from the char server
  chrif,         \* map server |-> state of its link
  conn,          \* map server, fd |-> state of the connection and its chunk
  sd,            \* map server, chunk |-> contents of the map_session_data
  id_db,         \* map server, account |-> chunk, or Nil
  waitclose,     \* map server |-> fds with a clif_waitclose timer armed
  latest,        \* history: character |-> its newest status
  clash,         \* history: accounts that logged in twice at a time, or left
                 \* before they were answered
  announced,     \* history: characters on their way to another map server
  suspect        \* history: characters whose copies were allowed to part, or
                 \* that were given to another account

chars  == <<char_dat, auth_fifo, auth_fifo_pos>>
links  == <<toChar, toMap, chrif>>
server == <<conn, sd, id_db, waitclose>>
hist   == <<latest, clash, announced, suspect>>
vars   == <<chars, links, server, hist>>

Slots == DOMAIN CharList
Ring  == 0 .. AUTH_FIFO_SIZE - 1

NoStatus == [char |-> Nil, ver |-> 0]
Status   == [char : Chars, ver : 0 .. MaxVersion]
FreeSd   == [account |-> Nil, char_id |-> Nil, fd |-> Nil, new_fd |-> Nil,
             auth |-> FALSE, waiting |-> FALSE, status |-> NoStatus]
Closed   == [st |-> "closed", sd |-> Nil]

Init ==
  /\ char_dat = [i \in Slots |-> [char |-> CharList[i], ver |-> 0]]
  /\ auth_fifo = [i \in Ring |-> [account |-> Nil, char |-> Nil, delflag |-> 0, pos |-> 1]]
  /\ auth_fifo_pos = 0
  /\ toChar = [m \in Maps |-> <<>>] /\ toMap = [m \in Maps |-> <<>>]
  /\ chrif = [m \in Maps |-> "up"]
  /\ conn = [m \in Maps |-> [f \in Fds |-> Closed]]
  /\ sd = [m \in Maps |-> [k \in Chunks |-> FreeSd]]
  /\ id_db = [m \in Maps |-> [a \in Accounts |-> Nil]]
  /\ waitclose = [m \in Maps |-> {}]
  /\ latest = [c \in Chars |-> 0]
  /\ clash = {} /\ announced = {} /\ suspect = {}

-----------------------------------------------------------------------------
(* Where copies of a character are: the sessions that are logged in with it,
   those of them whose client still acts, and the saves under way. *)
Open(m, f)   == conn[m][f].st # "closed"
SdOf(m, f)   == sd[m][conn[m][f].sd]
Playing(m, f, c) == Open(m, f) /\ SdOf(m, f).auth /\ SdOf(m, f).status.char = c
Live(c)   == {mf \in Maps \X Fds : Playing(mf[1], mf[2], c)}
Active(c) == {mf \in Live(c) : ~SdOf(mf[1], mf[2]).waiting}
SaveOnWay(m, c)  == \E i \in DOMAIN toChar[m] : toChar[m][i].kind = "save" /\ toChar[m][i].status.char = c
GrantOnWay(m, c) == \E i \in DOMAIN toMap[m] : toMap[m][i].kind = "authok" /\ toMap[m][i].status.char = c
Parted(c) ==
  \/ Active(c) # {}
  \/ \E m \in Maps : GrantOnWay(m, c) \/ (SaveOnWay(m, c) /\ c \notin announced)

(* parted is history: set for a status granted while other copies of the
   character were about. *)
Msg(kind, a, c, s) ==
  [kind |-> kind, account |-> a, char |-> c, status |-> s, parted |-> FALSE]

(* chrif_save and the other senders: dropped while there is no socket. *)
SentFirst(m, msgs) ==                 \* mutant: the new packet overtakes
  IF chrif[m] = "down" THEN toChar ELSE [toChar EXCEPT ![m] = msgs \o @]

Sent(m, msgs) == IF chrif[m] = "down" THEN toChar
                 ELSE [toChar EXCEPT ![m] = @ \o msgs]
RoomToSend(m, n) == Len(toChar[m]) + n <= MaxQueue
SaveOf(x) == Msg("save", x.account, x.char_id, x.status)

-----------------------------------------------------------------------------
(* Char server.  The ring of expected logins: the next entry is overwritten. *)
Entry(a, c, flag, pos) == [account |-> a, char |-> c, delflag |-> flag, pos |-> pos]

ExpectUnwrapped(entry) ==             \* mutant: auth_fifo_pos is not reset
  /\ auth_fifo' = [auth_fifo EXCEPT ![auth_fifo_pos % AUTH_FIFO_SIZE] = entry]
  /\ auth_fifo_pos' = auth_fifo_pos + 1

Expect(entry) ==
  /\ auth_fifo' = [auth_fifo EXCEPT ![auth_fifo_pos % AUTH_FIFO_SIZE] = entry]
  /\ auth_fifo_pos' = (auth_fifo_pos % AUTH_FIFO_SIZE) + 1

SlotsOf(a, c) == {i \in Slots : char_dat[i].char = c /\ AccountOf[c] = a}
First(S) == CHOOSE i \in S : \A j \in S : i <= j

(* parse_char 0x02: a client chooses one of its characters. *)
SelectChar(c) ==
  /\ SlotsOf(AccountOf[c], c) # {}
  /\ Expect(Entry(AccountOf[c], c, 0, First(SlotsOf(AccountOf[c], c))))
  /\ UNCHANGED <<char_dat, links, server, hist>>

(* parse_frommap 0x2afc: an expected login is used up, and answered with what
   is stored at its char_pos now. *)
ExpectedAnyChar(a, c) ==              \* mutant: char_id is not compared
  {i \in Ring : auth_fifo[i].account = a /\ auth_fifo[i].delflag = 0}

Expected(a, c) == {i \in Ring : auth_fifo[i].account = a /\ auth_fifo[i].char = c
                                /\ auth_fifo[i].delflag = 0}

char_authreq(m, msg) ==
  LET found == Expected(msg.account, msg.char) IN
  /\ msg.kind = "authreq"
  /\ Len(toMap[m]) < MaxQueue
  /\ IF found = {}
     THEN /\ toMap' = [toMap EXCEPT ![m] = Append(@, Msg("authfail", msg.account, Nil, NoStatus))]
          /\ UNCHANGED auth_fifo
     ELSE LET s == char_dat[auth_fifo[First(found)].pos]
          IN /\ auth_fifo' = [auth_fifo EXCEPT ![First(found)].delflag = 1]
             /\ toMap' = [toMap EXCEPT ![m] = Append(@,
                  [Msg("authok", msg.account, Nil, s) EXCEPT !.parted = Parted(s.char)])]
  /\ UNCHANGED <<char_dat, auth_fifo_pos, hist>>

(* 0x2b01: the slot of that account and character is overwritten. *)
char_save(m, msg) ==
  LET found == SlotsOf(msg.account, msg.char) IN
  /\ msg.kind = "save"
  /\ char_dat' = IF found = {} THEN char_dat
                 ELSE [char_dat EXCEPT ![First(found)] = msg.status]
  /\ UNCHANGED <<auth_fifo, auth_fifo_pos, toMap, hist>>

(* 0x2b02: the client is let back to the character selection. *)
char_charselectreq(m, msg) ==
  /\ msg.kind = "charselect"
  /\ Len(toMap[m]) < MaxQueue
  /\ Expect(Entry(msg.account, Nil, 2, 1))
  /\ toMap' = [toMap EXCEPT ![m] = Append(@, Msg("charselectok", msg.account, Nil, NoStatus))]
  /\ UNCHANGED <<char_dat, hist>>

(* 0x2b05: the other map server's login is expected; an entry is written, but
   not kept, for a character that is not there. *)
char_changemapserver(m, msg) ==
  LET found == SlotsOf(msg.account, msg.char) IN
  /\ msg.kind = "change"
  /\ Len(toMap[m]) < MaxQueue
  /\ IF found = {}
     THEN /\ auth_fifo' = [auth_fifo EXCEPT ![auth_fifo_pos % AUTH_FIFO_SIZE] =
               Entry(msg.account, msg.char, 0, @.pos)]
          /\ auth_fifo_pos' = auth_fifo_pos % AUTH_FIFO_SIZE
          /\ toMap' = [toMap EXCEPT ![m] = Append(@, Msg("changefail", msg.account, msg.char, NoStatus))]
          /\ UNCHANGED announced
     ELSE /\ Expect(Entry(msg.account, msg.char, 0, First(found)))
          /\ toMap' = [toMap EXCEPT ![m] = Append(@, Msg("changeok", msg.account, msg.char, NoStatus))]
          /\ announced' = announced \cup
               {c \in {msg.char} : Active(c) = {} /\ \A n \in Maps : ~GrantOnWay(n, c)}
  /\ UNCHANGED <<char_dat, latest, clash, suspect>>

FromMap(m) ==
  /\ toChar[m] # <<>>
  /\ toChar' = [toChar EXCEPT ![m] = Tail(@)]
  /\ LET msg == Head(toChar[m]) IN
     \/ char_authreq(m, msg) \/ char_save(m, msg)
     \/ char_charselectreq(m, msg) \/ char_changemapserver(m, msg)
  /\ UNCHANGED <<chrif, server>>

-----------------------------------------------------------------------------
(* Map server: connections. *)
InUse(m, k)  == \E f \in Fds : conn[m][f].sd = k
Pending(m, a) == (\E i \in DOMAIN toChar[m] : toChar[m][i].kind = "authreq" /\ toChar[m][i].account = a)
              \/ (\E i \in DOMAIN toMap[m] : toMap[m][i].kind \in {"authok", "authfail"} /\ toMap[m][i].account = a)
PointedTo(m, k) == {a \in Accounts : id_db[m][a] = k}

(* clif_parse_WantToConnection: an account that already has a session has it
   told of the new fd; only the first one is entered in id_db. *)
Connect(m, f, c, k) ==
  LET a     == AccountOf[c]
      old   == id_db[m][a]
      fresh == [FreeSd EXCEPT !.account = a, !.char_id = c, !.fd = f]
  IN
  /\ ~Open(m, f) /\ ~InUse(m, k)
  /\ chrif[m] # "joining"
  /\ chrif[m] = "up" => RoomToSend(m, 1)
  /\ conn' = [conn EXCEPT ![m][f] = [st |-> "open", sd |-> k]]
  /\ LET placed == [sd EXCEPT ![m][k] = fresh] IN
     IF old # Nil
     THEN sd' = [placed EXCEPT ![m][old].new_fd = f] /\ UNCHANGED id_db
     ELSE sd' = placed /\ id_db' = [id_db EXCEPT ![m][a] = k]
  /\ toChar' = Sent(m, <<Msg("authreq", a, c, NoStatus)>>)
  /\ clash' = clash \cup PointedTo(m, k)
       \cup {x \in {a} : Pending(m, a) \/ PointedTo(m, k) # {}
                         \/ (old # Nil /\ ~(InUse(m, old) /\ sd[m][old].auth))}
  /\ UNCHANGED <<chars, toMap, chrif, waitclose, latest, announced, suspect>>

(* map_quit, through clif_quitsave: the status is sent once more. *)
map_quit(m, x) ==
  /\ toChar' = Sent(m, <<SaveOf(x)>>)
  /\ id_db' = [id_db EXCEPT ![m][x.account] = Nil]
  /\ suspect' = suspect \cup {c \in {x.status.char} : chrif[m] = "down"}
  /\ UNCHANGED clash

DropQuitting(m, f) ==                 \* mutant: state.auth is not looked at
  /\ conn[m][f].st = "eof" \/ (conn[m][f].st = "open" /\ chrif[m] = "joining")
  /\ conn' = [conn EXCEPT ![m][f] = Closed]
  /\ RoomToSend(m, 1) /\ map_quit(m, SdOf(m, f))
  /\ UNCHANGED <<chars, toMap, chrif, sd, waitclose, latest, announced>>

(* clif_parse of a connection at its end: a session that is not logged in is
   freed as it is, and id_db keeps pointing to it. *)
Drop(m, f) ==
  /\ conn[m][f].st = "eof" \/ (conn[m][f].st = "open" /\ chrif[m] = "joining")
  /\ conn' = [conn EXCEPT ![m][f] = Closed]
  /\ IF SdOf(m, f).auth
     THEN RoomToSend(m, 1) /\ map_quit(m, SdOf(m, f))
     ELSE /\ clash' = clash \cup PointedTo(m, conn[m][f].sd)
          /\ UNCHANGED <<toChar, id_db, suspect>>
  /\ UNCHANGED <<chars, toMap, chrif, sd, waitclose, latest, announced>>

(* The client is gone: recv_to_fifo sees it. *)
Disconnect(m, f) ==
  /\ conn[m][f].st = "open"
  /\ conn' = [conn EXCEPT ![m][f].st = "eof"]
  /\ UNCHANGED <<chars, links, sd, id_db, waitclose, hist>>

(* clif_waitclose, five seconds later, closes whatever has the fd by then. *)
WaitClose(m, f) ==
  /\ f \in waitclose[m]
  /\ waitclose' = [waitclose EXCEPT ![m] = @ \ {f}]
  /\ conn' = IF Open(m, f) THEN [conn EXCEPT ![m][f].st = "eof"] ELSE conn
  /\ UNCHANGED <<chars, links, sd, id_db, hist>>

-----------------------------------------------------------------------------
(* Map server: answers of the char server.  A packet to an fd without a
   session dereferences a null pointer. *)
Recipients(m, msg) ==
  LET k == id_db[m][msg.account] IN
  IF k = Nil \/ msg.kind = "changefail" THEN {}
  ELSE LET x == sd[m][k] IN
       CASE msg.kind = "authok"   -> {x.fd, x.new_fd} \ {Nil}
         [] msg.kind = "authfail" -> IF x.new_fd # Nil THEN {x.new_fd} ELSE {x.fd}
         [] msg.kind = "changeok" -> IF x.status.char = msg.char THEN {x.fd} ELSE {}
         [] OTHER -> {x.fd}

(* The map server dies and is started again. *)
Crash(m) ==
  /\ conn' = [conn EXCEPT ![m] = [f \in Fds |-> Closed]]
  /\ sd' = [sd EXCEPT ![m] = [k \in Chunks |-> FreeSd]]
  /\ id_db' = [id_db EXCEPT ![m] = [a \in Accounts |-> Nil]]
  /\ waitclose' = [waitclose EXCEPT ![m] = {}]
  /\ toChar' = [toChar EXCEPT ![m] = <<>>] /\ toMap' = [toMap EXCEPT ![m] = <<>>]
  /\ chrif' = [chrif EXCEPT ![m] = "joining"]
  /\ suspect' = suspect \cup {c \in Chars : SaveOnWay(m, c) \/ \E f \in Fds : Playing(m, f, c)}
  /\ UNCHANGED <<latest, clash, announced>>

(* pc_authok: a double login sends both away; otherwise the status is copied
   and, if the sex the client told is right, the session is logged in. *)
DoubleLoginUnseen(m, k) == FALSE      \* mutant: new_fd is not looked at

DoubleLogin(m, k) == sd[m][k].new_fd # Nil

pc_authok(m, msg) ==
  LET k == id_db[m][msg.account] IN
  /\ msg.kind = "authok"
  /\ IF k = Nil THEN UNCHANGED <<sd, waitclose, announced, suspect>>
     ELSE IF DoubleLogin(m, k)
     THEN /\ waitclose' = [waitclose EXCEPT ![m] = @ \cup Recipients(m, msg)]
          /\ UNCHANGED <<sd, announced, suspect>>
     ELSE \/ /\ sd' = [sd EXCEPT ![m][k].status = msg.status, ![m][k].auth = TRUE,
                                 ![m][k].waiting = FALSE]
             /\ suspect' = suspect \cup {c \in {msg.status.char} :
                  (msg.parted /\ ~sd[m][k].auth) \/ AccountOf[c] # msg.account}
             /\ announced' = announced \ {msg.status.char}
             /\ UNCHANGED waitclose
          \/ /\ sd' = [sd EXCEPT ![m][k].status = msg.status]
             /\ suspect' = suspect \cup {c \in {msg.status.char} : AccountOf[c] # msg.account}
             /\ UNCHANGED announced
             /\ waitclose' = [waitclose EXCEPT ![m] = @ \cup Recipients(m, msg)]

(* pc_authfail *)
pc_authfail(m, msg) ==
  LET k == id_db[m][msg.account] IN
  /\ msg.kind = "authfail"
  /\ waitclose' = [waitclose EXCEPT ![m] = @ \cup Recipients(m, msg)]
  /\ sd' = IF k = Nil THEN sd ELSE [sd EXCEPT ![m][k].new_fd = Nil]
  /\ UNCHANGED <<announced, suspect>>

(* clif_charselectok, chrif_changemapserverack: only the client is told; the
   refusal looks a session up under the number of an fd and finds none. *)
OtherAnswer(m, msg) ==
  /\ msg.kind \in {"charselectok", "changeok", "changefail"}
  /\ UNCHANGED <<sd, waitclose, announced, suspect>>

FromChar(m) ==
  /\ toMap[m] # <<>>
  /\ UNCHANGED chars
  /\ LET msg == Head(toMap[m]) IN
     \/ /\ \E f \in Recipients(m, msg) : ~Open(m, f)
        /\ Crash(m)
     \/ /\ \A f \in Recipients(m, msg) : Open(m, f)
        /\ toMap' = [toMap EXCEPT ![m] = Tail(@)]
        /\ pc_authok(m, msg) \/ pc_authfail(m, msg) \/ OtherAnswer(m, msg)
        /\ UNCHANGED <<toChar, chrif, conn, id_db, latest, clash>>

-----------------------------------------------------------------------------
(* Map server: what a client that is logged in does. *)
Acts(m, f) == conn[m][f].st = "open" /\ chrif[m] # "joining"
              /\ SdOf(m, f).auth /\ ~SdOf(m, f).waiting

(* Any packet that changes the character. *)
Play(m, f) ==
  LET c == SdOf(m, f).status.char IN
  /\ Acts(m, f) /\ latest[c] < MaxVersion
  /\ latest' = [latest EXCEPT ![c] = @ + 1]
  /\ sd' = [sd EXCEPT ![m][conn[m][f].sd].status.ver = latest[c] + 1]
  /\ suspect' = suspect \cup {x \in {c} : Live(c) # {<<m, f>>} \/ \E n \in Maps \ {m} : SaveOnWay(n, c)}
  /\ UNCHANGED <<chars, links, conn, id_db, waitclose, clash, announced>>

(* clif_parse_Restart: back to the character selection. *)
Restart(m, f) ==
  /\ Acts(m, f) /\ RoomToSend(m, 1)
  /\ toChar' = Sent(m, <<Msg("charselect", SdOf(m, f).account, Nil, NoStatus)>>)
  /\ UNCHANGED <<chars, toMap, chrif, server, hist>>

(* clif_parse_QuitGame, chrif_changedsex *)
QuitGame(m, f) ==
  /\ Acts(m, f)
  /\ waitclose' = [waitclose EXCEPT ![m] = @ \cup {f}]
  /\ UNCHANGED <<chars, links, conn, sd, id_db, hist>>

ChangeFirst(x) ==                     \* mutant: announced before it is saved
  <<Msg("change", x.account, x.status.char, NoStatus), SaveOf(x)>>

SaveAndChange(x) ==
  <<SaveOf(x), Msg("change", x.account, x.status.char, NoStatus)>>

(* pc_setpos to a map of another server: save first, then announce the login
   there; the session waits for its client to leave. *)
ChangeMapServer(m, f) ==
  LET x == SdOf(m, f) IN
  /\ Acts(m, f) /\ Maps # {m} /\ RoomToSend(m, 2)
  /\ sd' = [sd EXCEPT ![m][conn[m][f].sd].waiting = TRUE]
  /\ toChar' = Sent(m, SaveAndChange(x))
  /\ suspect' = suspect \cup {c \in {x.status.char} : chrif[m] = "down"}
  /\ UNCHANGED <<chars, toMap, chrif, conn, id_db, waitclose, latest, clash, announced>>

(* pc_autosave saves every session that is logged in, in turn. *)
Autosave(m, f) ==
  /\ Open(m, f) /\ SdOf(m, f).auth /\ RoomToSend(m, 1)
  /\ toChar' = Sent(m, <<SaveOf(SdOf(m, f))>>)
  /\ UNCHANGED <<chars, toMap, chrif, server, hist>>

-----------------------------------------------------------------------------
(* The link is lost with what is under way on it (chrif_parse, parse_frommap);
   check_connect_char_server connects again; the acknowledgements arrive. *)
LinkLost(m) ==
  /\ chrif[m] # "down"
  /\ chrif' = [chrif EXCEPT ![m] = "down"]
  /\ toChar' = [toChar EXCEPT ![m] = <<>>] /\ toMap' = [toMap EXCEPT ![m] = <<>>]
  /\ suspect' = suspect \cup
       {c \in Chars : SaveOnWay(m, c) /\ ~\E f \in Fds : <<m, f>> \in Active(c)}
  /\ UNCHANGED <<chars, server, latest, clash, announced>>

check_connect_char_server(m) ==
  /\ chrif[m] = "down"
  /\ chrif' = [chrif EXCEPT ![m] = "joining"]
  /\ UNCHANGED <<chars, toChar, toMap, server, hist>>

chrif_sendmapack(m) ==
  /\ chrif[m] = "joining"
  /\ chrif' = [chrif EXCEPT ![m] = "up"]
  /\ UNCHANGED <<chars, toChar, toMap, server, hist>>

ClientStep(m) ==
  \E f \in Fds :
    \/ \E c \in Chars, k \in Chunks : Connect(m, f, c, k)
    \/ Disconnect(m, f) \/ Play(m, f) \/ Restart(m, f) \/ QuitGame(m, f)
    \/ ChangeMapServer(m, f)

ServerStep(m) ==
  \/ FromMap(m) \/ FromChar(m)
  \/ \E f \in Fds : Drop(m, f) \/ WaitClose(m, f) \/ Autosave(m, f)
  \/ LinkLost(m) \/ check_connect_char_server(m) \/ chrif_sendmapack(m)

Next ==
  \/ \E c \in Chars : SelectChar(c)
  \/ \E m \in Maps : ClientStep(m) \/ ServerStep(m)

Spec == Init /\ [][Next]_vars

-----------------------------------------------------------------------------
(* Properties *)

TypeOK ==
  /\ char_dat \in [Slots -> Status]
  /\ auth_fifo \in [Ring -> [account : Accounts \cup {Nil}, char : Chars \cup {Nil},
                             delflag : 0 .. 2, pos : Slots]]
  /\ auth_fifo_pos \in 0 .. AUTH_FIFO_SIZE
  /\ chrif \in [Maps -> {"up", "down", "joining"}]
  /\ conn \in [Maps -> [Fds -> [st : {"closed", "open", "eof"}, sd : Chunks \cup {Nil}]]]
  /\ sd \in [Maps -> [Chunks -> [account : Accounts \cup {Nil}, char_id : Chars \cup {Nil},
               fd : Fds \cup {Nil}, new_fd : Fds \cup {Nil}, auth : BOOLEAN,
               waiting : BOOLEAN, status : Status \cup {NoStatus}]]]
  /\ id_db \in [Maps -> [Accounts -> Chunks \cup {Nil}]]
  /\ waitclose \in [Maps -> SUBSET Fds]
  /\ latest \in [Chars -> 0 .. MaxVersion]
  /\ clash \subseteq Accounts /\ announced \subseteq Chars /\ suspect \subseteq Chars

Clean(c) == AccountOf[c] \notin clash /\ c \notin suspect

(* Whatever double logins, drops and reused memory do, an account is logged in
   at most once on a map server, and id_db finds that session: unless a
   connection left before its login was answered. *)
OneSessionPerAccount ==
  \A m \in Maps : \A f, g \in Fds :
    Open(m, f) /\ SdOf(m, f).auth /\ SdOf(m, f).account \notin clash =>
      /\ id_db[m][SdOf(m, f).account] = conn[m][f].sd
      /\ Open(m, g) /\ SdOf(m, g).auth /\ SdOf(m, g).account = SdOf(m, f).account => f = g

(* A session plays the character its client chose, of its own account. *)
RightCharacter ==
  \A m \in Maps, f \in Fds :
    Open(m, f) /\ SdOf(m, f).auth /\ SdOf(m, f).account \notin clash =>
      SdOf(m, f).status.char = SdOf(m, f).char_id

(* No update is lost: the session of a character has its newest status, and
   once no session and no save is left, the char server does.  Suspect are
   the characters loaded by two sessions or by another account, played in two
   places at a time, or whose last save met a broken link or a dying server. *)
NoLostUpdate ==
  \A c \in Chars : Clean(c) =>
    /\ \A mf \in Active(c) : SdOf(mf[1], mf[2]).status.ver = latest[c]
    /\ Live(c) = {} /\ (\A m \in Maps : ~SaveOnWay(m, c))
         => \E i \in Slots : char_dat[i] = [char |-> c, ver |-> latest[c]]

(* The char server never replaces a status by an older one. *)
SavesInOrder ==
  [][\A i \in Slots : Clean(char_dat[i].char)' =>
       /\ char_dat'[i].char = char_dat[i].char
       /\ char_dat'[i].ver >= char_dat[i].ver]_vars
=============================================================================
