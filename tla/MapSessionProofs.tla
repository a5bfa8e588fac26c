-------------------------- MODULE MapSessionProofs --------------------------
(***************************************************************************)
(* What holds of the sessions of map servers, char server and links for    *)
(* every number of servers, accounts, characters, sockets and chunks: that *)
(* an account has one session, and that it plays the character chosen.     *)
(* The second half is about updates: none is lost.                         *)
(***************************************************************************)
EXTENDS MapSession, SequenceTheorems, FiniteSetTheorems, WellFoundedInduction, TLAPS

-----------------------------------------------------------------------------
(* A set of naturals that is not empty has a least element. *)
LEMMA LeastExists ==
  ASSUME NEW T, T \subseteq Nat, T # {}
  PROVE  \E x \in T : \A y \in T : x <= y
  <1> DEFINE R == {p \in Nat \X Nat : p[1] < p[2]}
  <1>0. IsWellFoundedOn(R, Nat)
    BY NatLessThanWellFounded DEF OpToRel
  <1>1. PICK x \in T : \A y \in T : <<y, x>> \notin R
    BY <1>0, WFMin
  <1>2. ASSUME NEW y \in T
        PROVE  x <= y
    <2>1. x \in Nat /\ y \in Nat /\ ~(y < x)
      BY <1>1
    <2>2. QED
      BY <2>1
  <1>3. QED
    BY <1>2

-----------------------------------------------------------------------------
(* Types *)

(* Every packet under way is about an account; a status is a character's. *)
Kinds == {"authreq", "save", "charselect", "change",
          "authok", "authfail", "charselectok", "changeok", "changefail"}
Packet ==
  {msg \in [kind : Kinds, account : Accounts, char : Chars \cup {Nil},
            status : Status \cup {NoStatus}, parted : BOOLEAN] :
     /\ msg.kind \in {"save", "authok"} => msg.status \in Status
     /\ msg.kind = "change" => msg.char \in Chars}
LinksTyped == toChar \in [Maps -> Seq(Packet)] /\ toMap \in [Maps -> Seq(Packet)]

(* A connection has a chunk of its own for as long as it is open, with the
   session of an account. *)
ChunksInUse ==
  /\ \A m \in Maps, f \in Fds :
       IF Open(m, f) THEN conn[m][f].sd \in Chunks /\ SdOf(m, f).account \in Accounts
                     ELSE conn[m][f].sd = Nil
  /\ \A m \in Maps, f, g \in Fds : Open(m, f) /\ conn[m][f].sd = conn[m][g].sd => f = g

(* What a chunk holds that id_db points to, or that is logged in. *)
ChunksTyped ==
  \A m \in Maps :
    /\ \A k \in Chunks : sd[m][k].auth => sd[m][k].status \in Status
    /\ \A a \in Accounts : id_db[m][a] # Nil => sd[m][id_db[m][a]].fd \in Fds

(* An entry of id_db is the session of its account; or the account, and the
   one whose session that chunk now is, are known to have clashed. *)
PointersTrue ==
  \A m \in Maps, a \in Accounts :
    LET k == id_db[m][a] IN
    k # Nil =>
      \/ InUse(m, k) /\ sd[m][k].account = a
      \/ a \in clash /\ (InUse(m, k) => sd[m][k].account \in clash)

(* A session that is logged in is found, unless its account has clashed. *)
LoggedInFound ==
  \A m \in Maps, f \in Fds :
    Open(m, f) /\ SdOf(m, f).auth /\ SdOf(m, f).account \notin clash =>
      id_db[m][SdOf(m, f).account] = conn[m][f].sd

SessionInv == TypeOK /\ LinksTyped /\ ChunksInUse /\ ChunksTyped
              /\ PointersTrue /\ LoggedInFound

-----------------------------------------------------------------------------
(* Rings and firsts. *)
LEMMA RingWraps ==
  ASSUME NEW n \in Nat
  PROVE  n % AUTH_FIFO_SIZE \in Ring
  BY MapSessionAssumption DEF Ring

LEMMA FirstIsIn ==
  ASSUME NEW S, S \subseteq Nat, S # {}
  PROVE  First(S) \in S
  BY LeastExists DEF First

LEMMA SlotsAreNat == Slots \subseteq Nat \ {0} /\ 1 \in Slots
  <1>1. CharList \in Seq(Chars) /\ CharList # <<>>
    BY MapSessionAssumption
  <1>2. Slots = 1 .. Len(CharList) /\ Len(CharList) \in Nat /\ Len(CharList) # 0
    BY <1>1 DEF Slots
  <1>3. QED
    BY <1>2

(* Packets built by Msg, and links they are sent on. *)
LEMMA MsgTyped ==
  ASSUME NEW kind \in Kinds, NEW a \in Accounts, NEW c \in Chars \cup {Nil},
         NEW s \in Status \cup {NoStatus},
         kind \in {"save", "authok"} => s \in Status,
         kind = "change" => c \in Chars
  PROVE  Msg(kind, a, c, s) \in Packet
  BY DEF Msg, Packet

LEMMA SentTyped ==
  ASSUME LinksTyped, NEW m \in Maps, NEW msgs \in Seq(Packet)
  PROVE  Sent(m, msgs) \in [Maps -> Seq(Packet)]
  <1>1. toChar[m] \o msgs \in Seq(Packet)
    BY ConcatProperties DEF LinksTyped
  <1>2. QED
    BY <1>1 DEF Sent, LinksTyped

LEMMA EntryTyped ==
  ASSUME TypeOK, NEW a \in Accounts, NEW c \in Chars \cup {Nil}, NEW flag \in 0 .. 2,
         NEW pos \in Slots, Expect(Entry(a, c, flag, pos))
  PROVE  /\ auth_fifo' \in [Ring -> [account : Accounts \cup {Nil}, char : Chars \cup {Nil},
                                     delflag : 0 .. 2, pos : Slots]]
         /\ auth_fifo_pos' \in 0 .. AUTH_FIFO_SIZE
  <1>1. AUTH_FIFO_SIZE \in Nat /\ auth_fifo_pos \in Nat
    BY MapSessionAssumption DEF TypeOK
  <1>2. auth_fifo_pos % AUTH_FIFO_SIZE \in Ring
    BY <1>1, RingWraps
  <1> DEFINE next == auth_fifo_pos % AUTH_FIFO_SIZE
  <1>3. next + 1 \in 0 .. AUTH_FIFO_SIZE
    BY <1>1, <1>2 DEF Ring
  <1>4. auth_fifo' = [auth_fifo EXCEPT ![next] = Entry(a, c, flag, pos)] /\ auth_fifo_pos' = next + 1
    BY DEF Expect
  <1> HIDE DEF next
  <1>5. QED
    BY <1>2, <1>3, <1>4 DEF TypeOK, Entry

-----------------------------------------------------------------------------
LEMMA InitInv == Init => SessionInv
  <1> SUFFICES ASSUME Init PROVE SessionInv
    OBVIOUS
  <1> USE MapSessionAssumption
  <1>1. TypeOK
    <2>1. char_dat \in [Slots -> Status]
      <3>1. \A i \in Slots : CharList[i] \in Chars
        BY DEF Slots
      <3>2. QED
        BY <3>1 DEF Init, Status
    <2>2. auth_fifo \in [Ring -> [account : Accounts \cup {Nil}, char : Chars \cup {Nil},
                                  delflag : 0 .. 2, pos : Slots]]
      BY SlotsAreNat DEF Init
    <2>3. QED
      BY <2>1, <2>2 DEF Init, TypeOK, Closed, FreeSd
  <1>2. LinksTyped
    BY DEF Init, LinksTyped
  <1>3. ChunksInUse /\ ChunksTyped /\ PointersTrue /\ LoggedInFound
    BY DEF Init, ChunksInUse, ChunksTyped, PointersTrue, LoggedInFound, Open, Closed, FreeSd
  <1>4. QED
    BY <1>1, <1>2, <1>3 DEF SessionInv

(* What the char server does alone, or a handler that touches no session. *)
LEMMA SessionsUntouched ==
  ASSUME SessionInv, UNCHANGED <<conn, sd, id_db, clash>>
  PROVE  ChunksInUse' /\ ChunksTyped' /\ PointersTrue' /\ LoggedInFound'
  BY DEF SessionInv, ChunksInUse, ChunksTyped, PointersTrue, LoggedInFound,
         Open, SdOf, InUse

LEMMA SelectCharInv ==
  ASSUME SessionInv, NEW c \in Chars, SelectChar(c)
  PROVE  SessionInv'
  <1> DEFINE S == SlotsOf(AccountOf[c], c)
  <1>1. S \subseteq Slots /\ S # {} /\ First(S) \in Slots
    BY FirstIsIn, SlotsAreNat DEF SelectChar, SlotsOf
  <1>2. TypeOK'
    BY <1>1, EntryTyped, MapSessionAssumption
    DEF SessionInv, TypeOK, SelectChar, links, server, hist
  <1>3. LinksTyped'
    BY DEF SelectChar, links, SessionInv, LinksTyped
  <1>4. QED
    BY <1>2, <1>3, SessionsUntouched DEF SelectChar, server, hist, SessionInv

(* The char server's answers. *)
LEMMA AnswerTyped ==
  ASSUME LinksTyped, NEW m \in Maps, NEW msg \in Packet,
         toMap' = [toMap EXCEPT ![m] = Append(@, msg)]
  PROVE  toMap' \in [Maps -> Seq(Packet)]
  BY DEF LinksTyped

LEMMA HeadTyped ==
  ASSUME NEW q \in Seq(Packet), q # <<>>
  PROVE  Head(q) \in Packet /\ Tail(q) \in Seq(Packet)
  BY HeadTailProperties

LEMMA FromMapInv ==
  ASSUME SessionInv, NEW m \in Maps, FromMap(m)
  PROVE  SessionInv'
  <1> DEFINE msg == Head(toChar[m])
             Links == toMap' \in [Maps -> Seq(Packet)] /\ UNCHANGED <<latest, clash, suspect>>
             Char  == /\ char_dat' \in [Slots -> Status]
                      /\ auth_fifo' \in [Ring -> [account : Accounts \cup {Nil},
                                           char : Chars \cup {Nil}, delflag : 0 .. 2, pos : Slots]]
                      /\ auth_fifo_pos' \in 0 .. AUTH_FIFO_SIZE /\ announced' \subseteq Chars
  <1>0. TypeOK /\ LinksTyped
    BY DEF SessionInv
  <1>1. msg \in Packet /\ Tail(toChar[m]) \in Seq(Packet)
    BY <1>0, HeadTyped DEF FromMap, LinksTyped
  <1> HIDE DEF msg
  <1>2. /\ toChar' \in [Maps -> Seq(Packet)]
        /\ UNCHANGED <<chrif, conn, sd, id_db, waitclose>>
        /\ char_authreq(m, msg) \/ char_save(m, msg)
           \/ char_charselectreq(m, msg) \/ char_changemapserver(m, msg)
    BY <1>0, <1>1 DEF FromMap, LinksTyped, server, msg
  <1>3. ASSUME char_authreq(m, msg)
        PROVE  Links /\ Char
    <2> DEFINE found == Expected(msg.account, msg.char)
    <2>1. msg.account \in Accounts
      BY <1>1 DEF Packet
    <2>2. CASE found = {}
      <3>1. Msg("authfail", msg.account, Nil, NoStatus) \in Packet
        BY <2>1, MsgTyped DEF Kinds
      <3>2. Links
        BY <1>0, <1>3, <2>2, <3>1, AnswerTyped DEF char_authreq, hist
      <3>3. Char
        BY <1>0, <1>3, <2>2 DEF char_authreq, TypeOK, hist
      <3>4. QED
        BY <3>2, <3>3
    <2>3. CASE found # {}
      <3>1. First(found) \in found /\ found \subseteq Ring
        BY <2>3, FirstIsIn DEF Expected, Ring
      <3> DEFINE i == First(found)
                 st == char_dat[auth_fifo[i].pos]
      <3>2. st \in Status /\ auth_fifo[i].pos \in Slots
        BY <1>0, <3>1 DEF TypeOK
      <3>3. Msg("authok", msg.account, Nil, st) \in Packet
        BY <2>1, <3>2, MsgTyped DEF Kinds
      <3>4. [Msg("authok", msg.account, Nil, st) EXCEPT !.parted = Parted(st.char)] \in Packet
        <4>1. Parted(st.char) \in BOOLEAN
          BY DEF Parted
        <4>2. QED
          BY <3>3, <4>1 DEF Packet
      <3>5. Links
        BY <1>0, <1>3, <2>3, <3>4, AnswerTyped DEF char_authreq, hist
      <3>6. /\ auth_fifo' = [auth_fifo EXCEPT ![i].delflag = 1]
            /\ UNCHANGED <<char_dat, auth_fifo_pos, announced>>
        BY <1>3, <2>3 DEF char_authreq, hist
      <3>7. i \in Ring
        BY <3>1
      <3> HIDE DEF i
      <3>8. Char
        <4> DEFINE Logins == [account : Accounts \cup {Nil}, char : Chars \cup {Nil},
                              delflag : 0 .. 2, pos : Slots]
        <4>1. auth_fifo \in [Ring -> Logins]
          BY <1>0 DEF TypeOK
        <4>2. [auth_fifo[i] EXCEPT !.delflag = 1] \in Logins
          BY <4>1, <3>7
        <4> HIDE DEF Logins
        <4>3. auth_fifo' \in [Ring -> Logins]
          BY <3>6, <3>7, <4>1, <4>2
        <4> USE DEF Logins
        <4>4. QED
          BY <1>0, <3>6, <4>3 DEF TypeOK
      <3>9. QED
        BY <3>5, <3>8
    <2>4. QED
      BY <2>2, <2>3
  <1>4. ASSUME char_save(m, msg)
        PROVE  Links /\ Char
    <2> DEFINE found == SlotsOf(msg.account, msg.char)
    <2>1. msg.status \in Status
      BY <1>1, <1>4 DEF Packet, char_save
    <2>2. found # {} => First(found) \in Slots
      BY FirstIsIn, SlotsAreNat DEF SlotsOf
    <2>3. char_dat' \in [Slots -> Status]
      BY <1>0, <1>4, <2>1, <2>2 DEF char_save, TypeOK
    <2>4. QED
      BY <1>0, <1>4, <2>3 DEF char_save, TypeOK, LinksTyped, hist
  <1>5. ASSUME char_charselectreq(m, msg)
        PROVE  Links /\ Char
    <2>1. msg.account \in Accounts
      BY <1>1 DEF Packet
    <2>2. Msg("charselectok", msg.account, Nil, NoStatus) \in Packet
      BY <2>1, MsgTyped DEF Kinds
    <2>3. Links
      BY <1>0, <1>5, <2>2, AnswerTyped DEF char_charselectreq, hist
    <2>4. Expect(Entry(msg.account, Nil, 2, 1)) /\ UNCHANGED <<char_dat, announced>>
      BY <1>5 DEF char_charselectreq, hist
    <2>5. 1 \in Slots /\ 2 \in 0 .. 2 /\ Nil \in Chars \cup {Nil}
      BY SlotsAreNat
    <2>6. Char
      BY <1>0, <2>1, <2>4, <2>5, EntryTyped DEF TypeOK
    <2>7. QED
      BY <2>3, <2>6
  <1>6. ASSUME char_changemapserver(m, msg)
        PROVE  Links /\ Char
    <2> DEFINE found == SlotsOf(msg.account, msg.char)
               next == auth_fifo_pos % AUTH_FIFO_SIZE
    <2>1. msg.account \in Accounts /\ msg.char \in Chars
      BY <1>1, <1>6 DEF Packet, char_changemapserver
    <2>2. CASE found = {}
      <3>1. Msg("changefail", msg.account, msg.char, NoStatus) \in Packet
        BY <2>1, MsgTyped DEF Kinds
      <3>2. next \in Ring /\ next \in 0 .. AUTH_FIFO_SIZE
        <4>1. auth_fifo_pos \in Nat /\ AUTH_FIFO_SIZE \in Nat
          BY <1>0, MapSessionAssumption DEF TypeOK
        <4>2. QED
          BY <4>1, RingWraps DEF Ring
      <3>3. /\ auth_fifo' = [auth_fifo EXCEPT ![next] =
                               Entry(msg.account, msg.char, 0, auth_fifo[next].pos)]
            /\ auth_fifo_pos' = next /\ UNCHANGED <<char_dat, announced>>
        BY <1>6, <2>2 DEF char_changemapserver
      <3> HIDE DEF next
      <3>4. Char
        BY <1>0, <2>1, <3>2, <3>3 DEF TypeOK, Entry
      <3>5. Links
        BY <1>0, <1>6, <2>2, <3>1, AnswerTyped DEF char_changemapserver
      <3>6. QED
        BY <3>4, <3>5
    <2>3. CASE found # {}
      <3>1. Msg("changeok", msg.account, msg.char, NoStatus) \in Packet
        BY <2>1, MsgTyped DEF Kinds
      <3>2. First(found) \in Slots
        BY <2>3, FirstIsIn, SlotsAreNat DEF SlotsOf
      <3>3. Links
        BY <1>0, <1>6, <2>3, <3>1, AnswerTyped DEF char_changemapserver
      <3>4. announced' \subseteq Chars /\ UNCHANGED char_dat
        BY <1>0, <1>6, <2>1, <2>3 DEF char_changemapserver, TypeOK
      <3>5. Expect(Entry(msg.account, msg.char, 0, First(found)))
        BY <1>6, <2>3 DEF char_changemapserver
      <3>6. Char
        BY <1>0, <2>1, <3>2, <3>4, <3>5, EntryTyped DEF TypeOK
      <3>7. QED
        BY <3>3, <3>6
    <2>4. QED
      BY <2>2, <2>3
  <1>7. Links /\ Char
    BY <1>2, <1>3, <1>4, <1>5, <1>6
  <1>8. TypeOK'
    BY <1>0, <1>2, <1>7 DEF TypeOK
  <1>9. QED
    BY <1>2, <1>7, <1>8, SessionsUntouched DEF LinksTyped, SessionInv

-----------------------------------------------------------------------------
(* The handlers of a map server.  Memory is what its chunks hold. *)
Session == [account : Accounts \cup {Nil}, char_id : Chars \cup {Nil},
            fd : Fds \cup {Nil}, new_fd : Fds \cup {Nil}, auth : BOOLEAN,
            waiting : BOOLEAN, status : Status \cup {NoStatus}]
Memory  == [Maps -> [Chunks -> Session]]

LEMMA MemoryTyped == TypeOK => sd \in Memory
  BY DEF TypeOK, Memory, Session

LEMMA ConnectInv ==
  ASSUME SessionInv, NEW m \in Maps, NEW f \in Fds, NEW c \in Chars, NEW k \in Chunks,
         Connect(m, f, c, k)
  PROVE  SessionInv'
  <1> DEFINE a     == AccountOf[c]
             old   == id_db[m][a]
             fresh == [FreeSd EXCEPT !.account = a, !.char_id = c, !.fd = f]
             placed == [sd EXCEPT ![m][k] = fresh]
  <1>0. TypeOK /\ LinksTyped /\ a \in Accounts /\ old \in Chunks \cup {Nil}
    BY MapSessionAssumption DEF SessionInv, TypeOK
  <1>1. /\ conn' = [conn EXCEPT ![m][f] = [st |-> "open", sd |-> k]]
        /\ ~Open(m, f) /\ ~InUse(m, k)
        /\ sd' = IF old # Nil THEN [placed EXCEPT ![m][old].new_fd = f] ELSE placed
        /\ id_db' = IF old # Nil THEN id_db ELSE [id_db EXCEPT ![m][a] = k]
        /\ toChar' = Sent(m, <<Msg("authreq", a, c, NoStatus)>>)
        /\ clash' = clash \cup PointedTo(m, k)
             \cup {x \in {a} : Pending(m, a) \/ PointedTo(m, k) # {}
                         \/ (old # Nil /\ ~(InUse(m, old) /\ sd[m][old].auth))}
        /\ UNCHANGED <<chars, toMap, chrif, waitclose, latest, announced, suspect>>
    BY DEF Connect
  <1> HIDE DEF a, old
  <1>2. fresh \in Session
        /\ fresh.account = a /\ fresh.fd = f /\ ~fresh.auth
    BY <1>0 DEF FreeSd, Session
  <1> HIDE DEF fresh
  <1>3. placed \in Memory
        /\ placed[m][k] = fresh
        /\ \A n \in Maps, j \in Chunks : n # m \/ j # k => placed[n][j] = sd[n][j]
    BY <1>0, <1>2, MemoryTyped DEF Memory
  <1> HIDE DEF placed
  <1>4. sd' \in Memory
        /\ \A n \in Maps, j \in Chunks :
             /\ sd'[n][j].account = placed[n][j].account /\ sd'[n][j].auth = placed[n][j].auth
             /\ sd'[n][j].fd = placed[n][j].fd /\ sd'[n][j].status = placed[n][j].status
    <2>1. CASE old = Nil
      BY <1>1, <1>3, <2>1
    <2>2. CASE old # Nil
      <3>1. old \in Chunks /\ placed[m][old] \in Session
        BY <1>0, <1>3, <2>2 DEF Memory
      <3> DEFINE told == [placed[m][old] EXCEPT !.new_fd = f]
      <3>2. /\ told \in Session /\ told.account = placed[m][old].account
            /\ told.auth = placed[m][old].auth /\ told.fd = placed[m][old].fd
            /\ told.status = placed[m][old].status
        BY <3>1 DEF Session
      <3>3. sd' = [placed EXCEPT ![m][old] = told]
        BY <1>1, <2>2
      <3> HIDE DEF told
      <3>4. QED
        BY <1>3, <3>1, <3>2, <3>3 DEF Memory
    <2>3. QED
      BY <2>1, <2>2
  <1>5. TypeOK'
    <2>1. PointedTo(m, k) \subseteq Accounts
      BY DEF PointedTo
    <2>2. conn' \in [Maps -> [Fds -> [st : {"closed", "open", "eof"}, sd : Chunks \cup {Nil}]]]
      BY <1>0, <1>1 DEF TypeOK
    <2>3. id_db' \in [Maps -> [Accounts -> Chunks \cup {Nil}]]
      BY <1>0, <1>1 DEF TypeOK
    <2>4. QED
      BY <1>0, <1>1, <1>4, <2>1, <2>2, <2>3 DEF TypeOK, chars, Memory, Session
  <1>6. LinksTyped'
    <2>1. Msg("authreq", a, c, NoStatus) \in Packet
      BY <1>0, MsgTyped DEF Kinds
    <2>2. <<Msg("authreq", a, c, NoStatus)>> \in Seq(Packet)
      BY <2>1
    <2>3. QED
      BY <1>0, <1>1, <2>2, SentTyped DEF LinksTyped
  <1>7. /\ conn'[m][f] = [st |-> "open", sd |-> k]
        /\ \A n \in Maps, g \in Fds : n # m \/ g # f => conn'[n][g] = conn[n][g]
        /\ \A j \in Fds : conn[m][j].sd # k
        /\ conn[m][f].sd = Nil /\ Nil \notin Chunks
    BY <1>0, <1>1, MapSessionAssumption DEF TypeOK, InUse, SessionInv, ChunksInUse
  <1>8. ChunksInUse'
    <2>1. /\ Open(m, f)' /\ conn'[m][f].sd \in Chunks /\ SdOf(m, f)'.account \in Accounts
          /\ \A g \in Fds : conn'[m][g].sd = k => g = f
      BY <1>0, <1>2, <1>3, <1>4, <1>7 DEF Open, SdOf
    <2>2. ASSUME NEW n \in Maps, NEW g \in Fds, n # m \/ g # f
          PROVE  /\ conn'[n][g] = conn[n][g] /\ (Open(n, g)' <=> Open(n, g))
                 /\ Open(n, g) => conn[n][g].sd \in Chunks /\ SdOf(n, g)'.account \in Accounts
                 /\ ~Open(n, g) => conn[n][g].sd = Nil
      <3>1. conn'[n][g] = conn[n][g] /\ (n = m => conn[n][g].sd # k)
        BY <1>7, <2>2
      <3>2. Open(n, g) => conn[n][g].sd \in Chunks /\ SdOf(n, g).account \in Accounts
        BY DEF SessionInv, ChunksInUse
      <3>3. QED
        BY <1>3, <1>4, <3>1, <3>2 DEF Open, SdOf, SessionInv, ChunksInUse
    <2>3. QED
      BY <1>7, <2>1, <2>2 DEF SessionInv, ChunksInUse
  <1>9. ChunksTyped'
    <2>1. \A n \in Maps, j \in Chunks : sd'[n][j].auth => sd'[n][j].status \in Status
      BY <1>2, <1>3, <1>4 DEF SessionInv, ChunksTyped
    <2>2. \A n \in Maps, b \in Accounts : id_db'[n][b] # Nil =>
             id_db'[n][b] \in Chunks /\ sd'[n][id_db'[n][b]].fd \in Fds
      <3>1. \A n \in Maps, j \in Chunks : sd[n][j].fd \in Fds => sd'[n][j].fd \in Fds
        BY <1>2, <1>3, <1>4
      <3>2. sd'[m][k].fd \in Fds
        BY <1>2, <1>3, <1>4
      <3>3. QED
        BY <1>0, <1>1, <3>1, <3>2 DEF SessionInv, ChunksTyped, TypeOK
    <2>3. QED
      BY <2>1, <2>2 DEF ChunksTyped
  <1>10. \A n \in Maps, j \in Chunks : j # k \/ n # m => (InUse(n, j)' <=> InUse(n, j))
    BY <1>7 DEF InUse
  <1>11. InUse(m, k)' /\ ~InUse(m, k)
    BY <1>7 DEF InUse
  <1>12. PointersTrue'
    <2>1. /\ clash \subseteq clash' /\ PointedTo(m, k) \subseteq clash'
          /\ PointedTo(m, k) # {} => a \in clash'
      BY <1>0, <1>1
    <2>2. \A n \in Maps, b \in Accounts :
            id_db'[n][b] = IF n = m /\ b = a /\ old = Nil THEN k ELSE id_db[n][b]
      BY <1>0, <1>1 DEF TypeOK
    <2>3. sd'[m][k].account = a
          /\ \A n \in Maps, j \in Chunks : n # m \/ j # k => sd'[n][j].account = sd[n][j].account
      BY <1>2, <1>3, <1>4
    <2>4. ASSUME NEW n \in Maps, NEW b \in Accounts, NEW j, j = id_db'[n][b], j # Nil
          PROVE  \/ InUse(n, j)' /\ sd'[n][j].account = b
                 \/ b \in clash' /\ (InUse(n, j)' => sd'[n][j].account \in clash')
      <3>1. CASE n = m /\ b = a /\ old = Nil
        BY <1>11, <2>2, <2>3, <2>4, <3>1
      <3>2. CASE ~(n = m /\ b = a /\ old = Nil)
        <4>1. j = id_db[n][b] /\ j \in Chunks
          BY <1>0, <2>2, <2>4, <3>2 DEF TypeOK
        <4>2. CASE n = m /\ j = k
          <5>1. b \in PointedTo(m, k)
            BY <4>1, <4>2 DEF PointedTo
          <5>2. QED
            BY <2>1, <2>3, <4>2, <5>1
        <4>3. CASE n # m \/ j # k
          <5>1. (InUse(n, j)' <=> InUse(n, j)) /\ sd'[n][j].account = sd[n][j].account
            BY <1>10, <2>3, <4>1, <4>3
          <5>2. \/ InUse(n, j) /\ sd[n][j].account = b
                \/ b \in clash /\ (InUse(n, j) => sd[n][j].account \in clash)
            BY <2>4, <4>1 DEF SessionInv, PointersTrue
          <5>3. QED
            BY <2>1, <5>1, <5>2
        <4>4. QED
          BY <4>2, <4>3
      <3>3. QED
        BY <3>1, <3>2
    <2>5. QED
      BY <2>4 DEF PointersTrue, InUse
  <1>13. LoggedInFound'
    <2>1. ~SdOf(m, f)'.auth
      BY <1>2, <1>3, <1>4, <1>7 DEF SdOf
    <2>2. ASSUME NEW n \in Maps, NEW g \in Fds, n # m \/ g # f, Open(n, g)',
                 SdOf(n, g)'.auth, SdOf(n, g)'.account \notin clash'
          PROVE  id_db'[n][SdOf(n, g)'.account] = conn'[n][g].sd
      <3>1. conn'[n][g] = conn[n][g] /\ (n = m => conn[n][g].sd # k) /\ Open(n, g)
        BY <1>7, <2>2 DEF Open
      <3>2. conn[n][g].sd \in Chunks /\ SdOf(n, g).account \in Accounts
        BY <3>1 DEF SessionInv, ChunksInUse
      <3>3. SdOf(n, g)'.account = SdOf(n, g).account /\ SdOf(n, g)'.auth = SdOf(n, g).auth
        BY <1>3, <1>4, <3>1, <3>2 DEF SdOf
      <3>4. id_db[n][SdOf(n, g).account] = conn[n][g].sd
        BY <1>1, <2>2, <3>1, <3>3 DEF SessionInv, LoggedInFound
      <3>5. QED
        BY <1>0, <1>1, <1>7, <3>1, <3>2, <3>3, <3>4 DEF TypeOK, old
    <2>3. QED
      BY <2>1, <2>2 DEF LoggedInFound
  <1>14. QED
    BY <1>5, <1>6, <1>8, <1>9, <1>12, <1>13 DEF SessionInv

(* A connection ends, whoever's session it was; its account is out of id_db
   when it was logged in. *)
LEMMA DropInv ==
  ASSUME SessionInv, NEW m \in Maps, NEW f \in Fds, Drop(m, f)
  PROVE  SessionInv'
  <1> DEFINE k == conn[m][f].sd
             x == sd[m][k]
  <1>1. /\ TypeOK /\ LinksTyped /\ Open(m, f) /\ k \in Chunks /\ x.account \in Accounts
        /\ x \in Session
    BY MemoryTyped DEF SessionInv, ChunksInUse, Drop, Open, SdOf, Memory
  <1>2. /\ conn' = [conn EXCEPT ![m][f] = Closed]
        /\ UNCHANGED <<chars, toMap, chrif, sd, waitclose, latest, announced>>
        /\ IF x.auth
           THEN /\ toChar' = Sent(m, <<SaveOf(x)>>)
                /\ id_db' = [id_db EXCEPT ![m][x.account] = Nil]
                /\ suspect' = suspect \cup {c \in {x.status.char} : chrif[m] = "down"}
                /\ UNCHANGED clash
           ELSE /\ clash' = clash \cup PointedTo(m, k)
                /\ UNCHANGED <<toChar, id_db, suspect>>
    BY DEF Drop, map_quit, SdOf
  <1>3. x.auth => x.status \in Status
    BY <1>1 DEF SessionInv, ChunksTyped
  <1> HIDE DEF k, x
  <1>a. /\ id_db' \in [Maps -> [Accounts -> Chunks \cup {Nil}]]
        /\ \A n \in Maps, b \in Accounts :
             id_db'[n][b] = IF x.auth /\ n = m /\ b = x.account THEN Nil ELSE id_db[n][b]
    <2>0. id_db \in [Maps -> [Accounts -> Chunks \cup {Nil}]]
      BY <1>1 DEF TypeOK
    <2>1. CASE x.auth
      BY <1>1, <1>2, <2>0, <2>1
    <2>2. CASE ~x.auth
      BY <1>1, <1>2, <2>0, <2>2
    <2>3. QED
      BY <2>1, <2>2
  <1>4. TypeOK'
    <2>1. PointedTo(m, k) \subseteq Accounts
      BY DEF PointedTo
    <2>2. conn' \in [Maps -> [Fds -> [st : {"closed", "open", "eof"}, sd : Chunks \cup {Nil}]]]
      BY <1>1, <1>2 DEF TypeOK, Closed
    <2>3. suspect' \subseteq Chars
      BY <1>1, <1>2, <1>3 DEF TypeOK, Status
    <2>4. QED
      BY <1>1, <1>2, <1>a, <2>1, <2>2, <2>3 DEF TypeOK, chars
  <1>5. LinksTyped'
    <2>1. ASSUME x.auth PROVE <<SaveOf(x)>> \in Seq(Packet)
      <3>1. SaveOf(x) \in Packet
        BY <1>1, <1>3, <2>1, MsgTyped DEF SaveOf, Kinds, Session
      <3>2. QED
        BY <3>1
    <2>2. QED
      BY <1>1, <1>2, <2>1, SentTyped DEF LinksTyped
  <1>6. /\ conn'[m][f] = Closed
        /\ \A n \in Maps, g \in Fds : n # m \/ g # f => conn'[n][g] = conn[n][g]
        /\ \A g \in Fds : conn[m][g].sd = k => g = f
        /\ Nil \notin Chunks
    BY <1>1, <1>2, MapSessionAssumption DEF TypeOK, SessionInv, ChunksInUse, Open, k
  <1>7. \A j \in Chunks : j = k => ~InUse(m, j)'
    BY <1>1, <1>6 DEF InUse, Closed
  <1>8. \A n \in Maps, j \in Chunks : n # m \/ j # k => (InUse(n, j)' <=> InUse(n, j))
    BY <1>1, <1>6 DEF InUse, Closed, k
  <1>9. ChunksInUse'
    BY <1>2, <1>6 DEF SessionInv, ChunksInUse, Open, SdOf, Closed
  <1>10. ChunksTyped'
    BY <1>2, <1>a DEF SessionInv, ChunksTyped
  <1>11. PointersTrue'
    <2>1. SUFFICES ASSUME NEW n \in Maps, NEW b \in Accounts, NEW j \in Chunks,
                          id_db'[n][b] = j
                   PROVE  \/ InUse(n, j)' /\ sd[n][j].account = b
                          \/ b \in clash' /\ (InUse(n, j)' => sd[n][j].account \in clash')
      BY <1>2, <1>a DEF PointersTrue
    <2>2. id_db[n][b] = j /\ Nil \notin Chunks
      BY <1>6, <1>a, <2>1
    <2>3. \/ InUse(n, j) /\ sd[n][j].account = b
          \/ b \in clash /\ (InUse(n, j) => sd[n][j].account \in clash)
      BY <2>2 DEF SessionInv, PointersTrue
    <2>4. clash \subseteq clash'
      BY <1>2
    <2>5. CASE n # m \/ j # k
      BY <1>8, <2>3, <2>4, <2>5
    <2>6. CASE n = m /\ j = k /\ x.auth
      BY <1>7, <1>a, <2>1, <2>2, <2>3, <2>4, <2>6 DEF x
    <2>7. CASE n = m /\ j = k /\ ~x.auth
      BY <1>2, <1>7, <2>2, <2>7 DEF PointedTo
    <2>8. QED
      BY <2>5, <2>6, <2>7
  <1>12. LoggedInFound'
    <2>1. ASSUME NEW n \in Maps, NEW g \in Fds, n # m \/ g # f, Open(n, g)',
                 SdOf(n, g)'.auth, SdOf(n, g)'.account \notin clash'
          PROVE  id_db'[n][SdOf(n, g)'.account] = conn'[n][g].sd
      <3>1. conn'[n][g] = conn[n][g] /\ (n = m => conn[n][g].sd # k) /\ Open(n, g)
        BY <1>6, <2>1 DEF Open
      <3>2. SdOf(n, g)' = SdOf(n, g) /\ SdOf(n, g).account \in Accounts
        BY <1>2, <3>1 DEF SdOf, SessionInv, ChunksInUse
      <3>3. id_db[n][SdOf(n, g).account] = conn[n][g].sd
        BY <1>2, <2>1, <3>1, <3>2 DEF SessionInv, LoggedInFound
      <3>4. x.auth /\ x.account \notin clash => id_db[m][x.account] = k
        BY <1>1 DEF SessionInv, LoggedInFound, SdOf, x, k
      <3>5. QED
        BY <1>1, <1>a, <2>1, <3>1, <3>2, <3>3, <3>4, <1>2
    <2>2. QED
      BY <1>6, <2>1 DEF LoggedInFound, Open, Closed
  <1>13. QED
    BY <1>4, <1>5, <1>9, <1>10, <1>11, <1>12 DEF SessionInv

(* Steps that neither open, close nor move a session. *)
SamePlaces ==
  /\ UNCHANGED <<id_db, clash>>
  /\ \A n \in Maps, g \in Fds :
       conn'[n][g].sd = conn[n][g].sd /\ (Open(n, g)' <=> Open(n, g))
  /\ \A n \in Maps, j \in Chunks :
       sd'[n][j].account = sd[n][j].account /\ sd'[n][j].fd = sd[n][j].fd

LEMMA PlacesKept ==
  ASSUME SessionInv, SamePlaces,
         \A n \in Maps, j \in Chunks : sd'[n][j].auth => sd'[n][j].status \in Status
  PROVE  /\ ChunksInUse' /\ ChunksTyped' /\ PointersTrue'
         /\ \A n \in Maps, g \in Fds :
              Open(n, g) => conn[n][g].sd \in Chunks
                            /\ SdOf(n, g)'.account = SdOf(n, g).account
  <1>1. \A n \in Maps, g \in Fds :
          Open(n, g) => conn[n][g].sd \in Chunks /\ SdOf(n, g)'.account = SdOf(n, g).account
    BY DEF SessionInv, ChunksInUse, SamePlaces, SdOf
  <1>2. ChunksInUse'
    BY <1>1 DEF SessionInv, ChunksInUse, SamePlaces
  <1>3. \A n \in Maps : \A a \in Accounts : id_db[n][a] # Nil => id_db[n][a] \in Chunks
    BY DEF SessionInv, TypeOK
  <1>4. ChunksTyped'
    BY <1>3 DEF SessionInv, ChunksTyped, SamePlaces
  <1>5. \A n \in Maps, j \in Chunks : InUse(n, j)' <=> InUse(n, j)
    BY DEF InUse, SamePlaces
  <1>6. PointersTrue'
    BY <1>3, <1>5 DEF SessionInv, PointersTrue, SamePlaces
  <1>7. QED
    BY <1>1, <1>2, <1>4, <1>6

LEMMA SessionsKept ==
  ASSUME SessionInv, SamePlaces,
         \A n \in Maps, j \in Chunks :
           sd'[n][j].auth => sd[n][j].auth /\ sd'[n][j].status \in Status
  PROVE  ChunksInUse' /\ ChunksTyped' /\ PointersTrue' /\ LoggedInFound'
  <1>1. ChunksInUse' /\ ChunksTyped' /\ PointersTrue'
    BY PlacesKept
  <1>2. ASSUME NEW n \in Maps, NEW g \in Fds, Open(n, g)', SdOf(n, g)'.auth,
               SdOf(n, g)'.account \notin clash'
        PROVE  id_db'[n][SdOf(n, g)'.account] = conn'[n][g].sd
    <2>1. Open(n, g) /\ conn[n][g].sd \in Chunks /\ SdOf(n, g)'.account = SdOf(n, g).account
      BY <1>2, PlacesKept DEF SamePlaces
    <2>2. SdOf(n, g).auth
      BY <1>2, <2>1 DEF SdOf, SamePlaces
    <2>3. QED
      BY <1>2, <2>1, <2>2 DEF SessionInv, LoggedInFound, SamePlaces
  <1>3. QED
    BY <1>1, <1>2 DEF LoggedInFound

LEMMA CloseTyped ==
  ASSUME SessionInv, NEW m \in Maps, NEW f \in Fds, Open(m, f),
         conn' = [conn EXCEPT ![m][f].st = "eof"], UNCHANGED <<sd, id_db, clash>>
  PROVE  /\ conn' \in [Maps -> [Fds -> [st : {"closed", "open", "eof"}, sd : Chunks \cup {Nil}]]]
         /\ ChunksInUse' /\ ChunksTyped' /\ PointersTrue' /\ LoggedInFound'
  <1> DEFINE Conns == [st : {"closed", "open", "eof"}, sd : Chunks \cup {Nil}]
             shut  == [conn[m][f] EXCEPT !.st = "eof"]
  <1>1. conn \in [Maps -> [Fds -> Conns]]
    BY DEF SessionInv, TypeOK
  <1>2. shut \in Conns /\ shut.st = "eof" /\ shut.sd = conn[m][f].sd
    BY <1>1
  <1>3. conn' = [conn EXCEPT ![m][f] = shut]
    OBVIOUS
  <1> HIDE DEF Conns, shut
  <1>4. conn' \in [Maps -> [Fds -> Conns]] /\ conn'[m][f] = shut
        /\ \A n \in Maps, g \in Fds : n # m \/ g # f => conn'[n][g] = conn[n][g]
    BY <1>1, <1>2, <1>3
  <1>5. SamePlaces
    BY <1>2, <1>4 DEF SamePlaces, Open
  <1>6. \A n \in Maps, j \in Chunks : sd'[n][j].auth => sd[n][j].auth /\ sd'[n][j].status \in Status
    BY DEF SessionInv, ChunksTyped
  <1>7. QED
    BY <1>4, <1>5, <1>6, SessionsKept DEF Conns

LEMMA CloseInv ==
  ASSUME SessionInv, NEW m \in Maps, NEW f \in Fds, Disconnect(m, f) \/ WaitClose(m, f)
  PROVE  SessionInv'
  <1>1. waitclose' \in [Maps -> SUBSET Fds]
        /\ UNCHANGED <<chars, links, sd, id_db, hist>>
    BY DEF SessionInv, TypeOK, Disconnect, WaitClose
  <1>2. CASE Open(m, f) /\ conn' = [conn EXCEPT ![m][f].st = "eof"]
    BY <1>1, <1>2, CloseTyped DEF SessionInv, TypeOK, LinksTyped, chars, links, hist
  <1>3. CASE conn' = conn
    BY <1>1, <1>3, SessionsUntouched DEF SessionInv, TypeOK, LinksTyped, chars, links, hist
  <1>4. QED
    BY <1>2, <1>3 DEF Disconnect, WaitClose, Open

LEMMA CrashInv ==
  ASSUME SessionInv, NEW m \in Maps, Crash(m), UNCHANGED chars
  PROVE  SessionInv'
  <1>1. TypeOK /\ LinksTyped
    BY DEF SessionInv
  <1>2. conn' \in [Maps -> [Fds -> [st : {"closed", "open", "eof"}, sd : Chunks \cup {Nil}]]]
    BY <1>1 DEF TypeOK, Crash, Closed
  <1>3. sd' \in Memory /\ \A k \in Chunks : sd'[m][k] = FreeSd
    BY <1>1, MemoryTyped DEF Memory, Session, Crash, FreeSd
  <1>4. id_db' \in [Maps -> [Accounts -> Chunks \cup {Nil}]]
    BY <1>1 DEF TypeOK, Crash
  <1>5. TypeOK'
    BY <1>1, <1>2, <1>3, <1>4 DEF TypeOK, Crash, chars, Memory, Session
  <1>6. LinksTyped'
    BY <1>1 DEF LinksTyped, Crash
  <1>7. /\ \A g \in Fds : conn'[m][g] = Closed
        /\ \A a \in Accounts : id_db'[m][a] = Nil
        /\ \A n \in Maps : n # m => conn'[n] = conn[n] /\ sd'[n] = sd[n] /\ id_db'[n] = id_db[n]
        /\ UNCHANGED clash
    BY <1>1 DEF Crash, TypeOK
  <1>8. ChunksInUse'
    BY <1>7, MapSessionAssumption DEF SessionInv, ChunksInUse, Open, SdOf, Closed
  <1>9. ChunksTyped'
    BY <1>3, <1>7 DEF SessionInv, ChunksTyped, FreeSd
  <1>10. \A n \in Maps, j \in Chunks : n # m => (InUse(n, j)' <=> InUse(n, j))
    BY <1>7 DEF InUse
  <1>11. PointersTrue'
    <2>1. \A n \in Maps : \A a \in Accounts : id_db[n][a] # Nil => id_db[n][a] \in Chunks
      BY <1>1 DEF TypeOK
    <2>2. QED
      BY <1>7, <1>10, <2>1 DEF SessionInv, PointersTrue
  <1>12. LoggedInFound'
    <2>1. ASSUME NEW n \in Maps, NEW g \in Fds, Open(n, g)', SdOf(n, g)'.auth,
                 SdOf(n, g)'.account \notin clash'
          PROVE  id_db'[n][SdOf(n, g)'.account] = conn'[n][g].sd
      <3>1. n # m
        BY <1>7, <2>1 DEF Open, Closed
      <3>2. conn'[n] = conn[n] /\ sd'[n] = sd[n] /\ id_db'[n] = id_db[n] /\ UNCHANGED clash
        BY <1>7, <3>1
      <3>3. Open(n, g) /\ SdOf(n, g)' = SdOf(n, g)
        BY <2>1, <3>2 DEF Open, SdOf
      <3>4. id_db[n][SdOf(n, g).account] = conn[n][g].sd
        BY <2>1, <3>2, <3>3 DEF SessionInv, LoggedInFound
      <3>5. QED
        BY <3>2, <3>3, <3>4
    <2>2. QED
      BY <2>1 DEF LoggedInFound
  <1>13. QED
    BY <1>5, <1>6, <1>8, <1>9, <1>11, <1>12 DEF SessionInv

(* The packets of the char server go to fds the sessions have. *)
LEMMA RecipientsTyped ==
  ASSUME SessionInv, NEW m \in Maps, NEW msg \in Packet
  PROVE  Recipients(m, msg) \subseteq Fds
  <1> DEFINE k == id_db[m][msg.account]
  <1>1. msg.account \in Accounts
    BY DEF Packet
  <1>2. CASE k # Nil
    <2>1. k \in Chunks /\ sd[m][k].fd \in Fds /\ sd[m][k].new_fd \in Fds \cup {Nil}
      BY <1>1, <1>2 DEF SessionInv, TypeOK, ChunksTyped
    <2>2. QED
      BY <1>2, <2>1 DEF Recipients
  <1>3. CASE k = Nil
    BY <1>3 DEF Recipients
  <1>4. QED
    BY <1>2, <1>3

(* A field of one session changes. *)
LEMMA SessionChanged ==
  ASSUME SessionInv, NEW m \in Maps, NEW k \in Chunks, NEW new \in Session,
         sd' = [sd EXCEPT ![m][k] = new]
  PROVE  /\ sd' \in Memory /\ sd'[m][k] = new
         /\ \A n \in Maps, j \in Chunks : n # m \/ j # k => sd'[n][j] = sd[n][j]
  BY MemoryTyped DEF SessionInv, Memory

(* Three fields of a session changed in turn are one change of the session. *)
Put(F, m, k, u) == [F EXCEPT ![m][k] = u]
Login(F, m, k, s) ==
  [F EXCEPT ![m][k].status = s, ![m][k].auth = TRUE, ![m][k].waiting = FALSE]
LoggedInAs(x, s) == [x EXCEPT !.status = s, !.auth = TRUE, !.waiting = FALSE]

LEMMA PutTyped ==
  ASSUME NEW F \in Memory, NEW m \in Maps, NEW k \in Chunks, NEW u \in Session
  PROVE  Put(F, m, k, u) \in Memory /\ Put(F, m, k, u)[m][k] = u
  BY DEF Memory, Put

LEMMA PutTwice ==
  ASSUME NEW F \in Memory, NEW m \in Maps, NEW k \in Chunks, NEW u \in Session, NEW v \in Session
  PROVE  Put(Put(F, m, k, u), m, k, v) = Put(F, m, k, v)
  <1>1. [F EXCEPT ![m][k] = u][m] = [F[m] EXCEPT ![k] = u]
    BY DEF Memory
  <1>2. [[F EXCEPT ![m][k] = u][m] EXCEPT ![k] = v] = [F[m] EXCEPT ![k] = v]
    BY <1>1 DEF Memory
  <1>3. QED
    BY <1>2 DEF Memory, Put

LEMMA LoggedIn ==
  ASSUME NEW F \in Memory, NEW m \in Maps, NEW k \in Chunks, NEW s \in Status
  PROVE  Login(F, m, k, s) = Put(F, m, k, LoggedInAs(F[m][k], s))
  <1> DEFINE u == [F[m][k] EXCEPT !.status = s]
             v == [u EXCEPT !.auth = TRUE]
             w == [v EXCEPT !.waiting = FALSE]
             U == Put(F, m, k, u)
             V == Put(F, m, k, v)
  <1>1. F[m][k] \in Session
    BY DEF Memory
  <1>2. u \in Session /\ v \in Session /\ w \in Session
    BY <1>1 DEF Session
  <1>3. U \in Memory /\ V \in Memory /\ U[m][k] = u /\ V[m][k] = v
    BY <1>2, PutTyped
  <1>4. [U EXCEPT ![m][k].auth = TRUE] = V
    <2>1. [U EXCEPT ![m][k].auth = TRUE] = Put(U, m, k, [U[m][k] EXCEPT !.auth = TRUE])
      BY DEF Put
    <2>2. Put(U, m, k, v) = V
      BY <1>2, PutTwice
    <2>3. QED
      BY <1>3, <2>1, <2>2
  <1>5. [V EXCEPT ![m][k].waiting = FALSE] = Put(F, m, k, w)
    <2>1. [V EXCEPT ![m][k].waiting = FALSE] = Put(V, m, k, [V[m][k] EXCEPT !.waiting = FALSE])
      BY DEF Put
    <2>2. Put(V, m, k, w) = Put(F, m, k, w)
      BY <1>2, PutTwice
    <2>3. QED
      BY <1>3, <2>1, <2>2
  <1>6. [F EXCEPT ![m][k].status = s] = U
    BY DEF Put
  <1>7. QED
    BY <1>4, <1>5, <1>6 DEF Login, LoggedInAs

LEMMA AuthokInv ==
  ASSUME SessionInv, NEW m \in Maps, NEW msg \in Packet, pc_authok(m, msg),
         UNCHANGED <<conn, id_db, clash>>
  PROVE  /\ sd' \in Memory /\ waitclose' \in [Maps -> SUBSET Fds]
         /\ announced' \subseteq Chars /\ suspect' \subseteq Chars
         /\ ChunksInUse' /\ ChunksTyped' /\ PointersTrue' /\ LoggedInFound'
  <1> DEFINE a == msg.account
             k == id_db[m][a]
             Kept == ChunksInUse' /\ ChunksTyped' /\ PointersTrue' /\ LoggedInFound'
             Typed == /\ sd' \in Memory /\ waitclose' \in [Maps -> SUBSET Fds]
                      /\ announced' \subseteq Chars /\ suspect' \subseteq Chars
  <1>1. /\ TypeOK /\ a \in Accounts /\ msg.status \in Status /\ sd \in Memory
        /\ k \in Chunks \cup {Nil}
    BY MemoryTyped DEF pc_authok, Packet, SessionInv, TypeOK
  <1>2. msg.status.char \in Chars
    BY <1>1 DEF Status
  <1>3. [waitclose EXCEPT ![m] = @ \cup Recipients(m, msg)] \in [Maps -> SUBSET Fds]
    BY <1>1, RecipientsTyped DEF TypeOK
  <1>4. CASE k = Nil \/ DoubleLogin(m, k)
    <2>1. UNCHANGED <<sd, announced, suspect>> /\ waitclose' \in [Maps -> SUBSET Fds]
      BY <1>1, <1>3, <1>4 DEF pc_authok, TypeOK
    <2>2. Kept
      BY <2>1, SessionsUntouched
    <2>3. QED
      BY <1>1, <2>1, <2>2 DEF TypeOK
  <1>5. CASE k # Nil /\ ~DoubleLogin(m, k)
    <2> DEFINE in  == LoggedInAs(sd[m][k], msg.status)
               out == [sd[m][k] EXCEPT !.status = msg.status]
    <2>1. k \in Chunks /\ sd[m][k] \in Session
      BY <1>1, <1>5 DEF Memory
    <2>2. in \in Session /\ out \in Session
      BY <1>1, <2>1 DEF Session, LoggedInAs
    <2>3. /\ in.account = sd[m][k].account /\ in.fd = sd[m][k].fd /\ in.status = msg.status
          /\ out.account = sd[m][k].account /\ out.fd = sd[m][k].fd /\ out.status = msg.status
          /\ out.auth = sd[m][k].auth
      BY <2>1 DEF Session, LoggedInAs
    <2>4. \/ /\ sd' = [sd EXCEPT ![m][k] = in]
             /\ suspect \subseteq suspect' /\ suspect' \subseteq suspect \cup {msg.status.char}
             /\ announced' = announced \ {msg.status.char} /\ UNCHANGED waitclose
          \/ /\ sd' = [sd EXCEPT ![m][k] = out] /\ UNCHANGED announced
             /\ suspect \subseteq suspect' /\ suspect' \subseteq suspect \cup {msg.status.char}
             /\ waitclose' = [waitclose EXCEPT ![m] = @ \cup Recipients(m, msg)]
      <3>1. Login(sd, m, k, msg.status) = Put(sd, m, k, in)
        BY <1>1, <2>1, LoggedIn
      <3>2. [sd EXCEPT ![m][k].status = msg.status] = [sd EXCEPT ![m][k] = out]
        OBVIOUS
      <3>3. \/ /\ sd' = Login(sd, m, k, msg.status)
               /\ suspect' = suspect \cup {c \in {msg.status.char} :
                    (msg.parted /\ ~sd[m][k].auth) \/ AccountOf[c] # msg.account}
               /\ announced' = announced \ {msg.status.char} /\ UNCHANGED waitclose
            \/ /\ sd' = [sd EXCEPT ![m][k].status = msg.status] /\ UNCHANGED announced
               /\ suspect' = suspect \cup {c \in {msg.status.char} : AccountOf[c] # msg.account}
               /\ waitclose' = [waitclose EXCEPT ![m] = @ \cup Recipients(m, msg)]
        BY <1>5, Zenon DEF pc_authok, Login
      <3>4. suspect \subseteq suspect' /\ suspect' \subseteq suspect \cup {msg.status.char}
        BY <3>3
      <3> HIDE DEF in, out
      <3>5. QED
        BY <3>1, <3>2, <3>3, <3>4, Zenon DEF Put
    <2> HIDE DEF in, out, k, a
    <2>5. Typed
      BY <1>1, <1>2, <1>3, <2>1, <2>2, <2>4, SessionChanged DEF TypeOK
    <2>6. /\ sd'[m][k].account = sd[m][k].account /\ sd'[m][k].fd = sd[m][k].fd
          /\ sd'[m][k].status \in Status
          /\ \A n \in Maps, j \in Chunks : n # m \/ j # k => sd'[n][j] = sd[n][j]
      BY <1>1, <2>1, <2>2, <2>3, <2>4, SessionChanged
    <2>7. SamePlaces
      BY <2>6 DEF SamePlaces, Open
    <2>8. \A n \in Maps, j \in Chunks : sd'[n][j].auth => sd'[n][j].status \in Status
      BY <2>6 DEF SessionInv, ChunksTyped
    <2>9. ASSUME NEW n \in Maps, NEW g \in Fds, Open(n, g)', SdOf(n, g)'.auth,
                 SdOf(n, g)'.account \notin clash'
          PROVE  id_db'[n][SdOf(n, g)'.account] = conn'[n][g].sd
      <3>1. Open(n, g) /\ conn[n][g].sd \in Chunks /\ SdOf(n, g)'.account = SdOf(n, g).account
        BY <2>7, <2>8, <2>9, PlacesKept DEF SamePlaces
      <3>2. CASE n = m /\ conn[n][g].sd = k
        <4>1. InUse(m, k) /\ id_db[m][a] = k /\ k # Nil
          BY <1>5, <3>2 DEF InUse, k
        <4>2. sd[m][k].account = a \/ sd[m][k].account \in clash
          BY <1>1, <4>1 DEF SessionInv, PointersTrue
        <4>3. sd[m][k].account = SdOf(n, g).account
          BY <3>2 DEF SdOf
        <4>4. QED
          BY <2>7, <2>9, <3>1, <3>2, <4>1, <4>2, <4>3 DEF SamePlaces
      <3>3. CASE n # m \/ conn[n][g].sd # k
        <4>1. SdOf(n, g)' = SdOf(n, g)
          BY <2>6, <3>1, <3>3 DEF SdOf
        <4>2. QED
          BY <2>9, <3>1, <4>1 DEF SessionInv, LoggedInFound
      <3>4. QED
        BY <3>2, <3>3
    <2>10. Kept
      BY <2>7, <2>8, <2>9, PlacesKept DEF LoggedInFound
    <2>11. QED
      BY <2>5, <2>10
  <1>6. QED
    BY <1>4, <1>5

(* A handler that writes to one session, without logging it in. *)
LEMMA OneSessionWritten ==
  ASSUME SessionInv, NEW m \in Maps, NEW k \in Chunks, NEW new \in Session,
         sd' = Put(sd, m, k, new), UNCHANGED <<conn, id_db, clash>>,
         new.account = sd[m][k].account, new.fd = sd[m][k].fd,
         new.auth => sd[m][k].auth /\ new.status \in Status
  PROVE  sd' \in Memory /\ ChunksInUse' /\ ChunksTyped' /\ PointersTrue' /\ LoggedInFound'
  <1>1. /\ sd' \in Memory /\ sd'[m][k] = new
        /\ \A n \in Maps, j \in Chunks : n # m \/ j # k => sd'[n][j] = sd[n][j]
    BY SessionChanged DEF Put
  <1>2. SamePlaces
    BY <1>1 DEF SamePlaces, Open
  <1>3. \A n \in Maps, j \in Chunks : sd'[n][j].auth => sd[n][j].auth /\ sd'[n][j].status \in Status
    BY <1>1 DEF SessionInv, ChunksTyped
  <1>4. QED
    BY <1>1, <1>2, <1>3, SessionsKept

LEMMA AuthfailInv ==
  ASSUME SessionInv, NEW m \in Maps, NEW msg \in Packet, pc_authfail(m, msg),
         UNCHANGED <<conn, id_db, clash>>
  PROVE  /\ sd' \in Memory /\ waitclose' \in [Maps -> SUBSET Fds]
         /\ announced' \subseteq Chars /\ suspect' \subseteq Chars
         /\ ChunksInUse' /\ ChunksTyped' /\ PointersTrue' /\ LoggedInFound'
  <1> DEFINE k == id_db[m][msg.account]
             new == [sd[m][k] EXCEPT !.new_fd = Nil]
             Kept == ChunksInUse' /\ ChunksTyped' /\ PointersTrue' /\ LoggedInFound'
  <1>1. TypeOK /\ sd \in Memory /\ k \in Chunks \cup {Nil}
    BY MemoryTyped DEF Packet, SessionInv, TypeOK
  <1>2. waitclose' \in [Maps -> SUBSET Fds] /\ announced' \subseteq Chars /\ suspect' \subseteq Chars
    BY <1>1, RecipientsTyped DEF TypeOK, pc_authfail
  <1>3. CASE k = Nil
    <2>1. UNCHANGED sd
      BY <1>3 DEF pc_authfail
    <2>2. QED
      BY <1>1, <1>2, <2>1, SessionsUntouched
  <1>4. CASE k # Nil
    <2>1. k \in Chunks /\ sd[m][k] \in Session
      BY <1>1, <1>4 DEF Memory
    <2>2. /\ new \in Session /\ new.account = sd[m][k].account /\ new.fd = sd[m][k].fd
          /\ new.auth = sd[m][k].auth /\ new.status = sd[m][k].status
      BY <2>1 DEF Session
    <2>3. sd' = Put(sd, m, k, new)
      BY <1>4 DEF pc_authfail, Put
    <2>4. sd[m][k].auth => sd[m][k].status \in Status
      BY <2>1 DEF SessionInv, ChunksTyped
    <2> HIDE DEF new, k
    <2>5. QED
      BY <1>2, <2>1, <2>2, <2>3, <2>4, OneSessionWritten
  <1>5. QED
    BY <1>3, <1>4

LEMMA FromCharInv ==
  ASSUME SessionInv, NEW m \in Maps, FromChar(m)
  PROVE  SessionInv'
  <1> DEFINE msg == Head(toMap[m])
  <1>1. TypeOK /\ LinksTyped /\ UNCHANGED chars /\ toMap[m] # <<>>
    BY DEF SessionInv, FromChar
  <1>2. msg \in Packet /\ Tail(toMap[m]) \in Seq(Packet)
    BY <1>1, HeadTyped DEF LinksTyped
  <1>3. CASE Crash(m)
    BY <1>1, <1>3, CrashInv
  <1>4. CASE /\ toMap' = [toMap EXCEPT ![m] = Tail(@)]
             /\ pc_authok(m, msg) \/ pc_authfail(m, msg) \/ OtherAnswer(m, msg)
             /\ UNCHANGED <<toChar, chrif, conn, id_db, latest, clash>>
    <2> HIDE DEF msg
    <2>1. LinksTyped'
      BY <1>1, <1>2, <1>4 DEF LinksTyped
    <2>2. /\ sd' \in Memory /\ waitclose' \in [Maps -> SUBSET Fds]
          /\ announced' \subseteq Chars /\ suspect' \subseteq Chars
          /\ ChunksInUse' /\ ChunksTyped' /\ PointersTrue' /\ LoggedInFound'
      <3>1. CASE pc_authok(m, msg)
        BY <1>2, <1>4, <3>1, AuthokInv
      <3>2. CASE pc_authfail(m, msg)
        BY <1>2, <1>4, <3>2, AuthfailInv
      <3>3. CASE OtherAnswer(m, msg)
        <4>1. UNCHANGED <<sd, waitclose, announced, suspect>>
          BY <3>3 DEF OtherAnswer
        <4>2. QED
          BY <1>1, <1>4, <4>1, MemoryTyped, SessionsUntouched DEF TypeOK
      <3>4. QED
        BY <1>4, <3>1, <3>2, <3>3
    <2>3. TypeOK'
      BY <1>1, <1>4, <2>2 DEF TypeOK, chars, Memory, Session
    <2>4. QED
      BY <2>1, <2>2, <2>3 DEF SessionInv
  <1>5. QED
    BY <1>3, <1>4 DEF FromChar

-----------------------------------------------------------------------------
(* What clients that are logged in do. *)
LEMMA ActsTyped ==
  ASSUME SessionInv, NEW m \in Maps, NEW f \in Fds, Open(m, f), SdOf(m, f).auth
  PROVE  /\ conn[m][f].sd \in Chunks /\ SdOf(m, f) \in Session
         /\ SdOf(m, f).account \in Accounts /\ SdOf(m, f).status \in Status
         /\ SdOf(m, f).status.char \in Chars
         /\ SaveOf(SdOf(m, f)) \in Packet
  <1> DEFINE x == SdOf(m, f)
  <1>1. conn[m][f].sd \in Chunks /\ x \in Session /\ x.account \in Accounts /\ x.status \in Status
    BY MemoryTyped DEF SessionInv, ChunksInUse, ChunksTyped, SdOf, Memory
  <1>2. x.status.char \in Chars
    BY <1>1 DEF Status
  <1>3. x.char_id \in Chars \cup {Nil}
    BY <1>1 DEF Session
  <1> HIDE DEF x
  <1>4. SaveOf(x) \in Packet
    BY <1>1, <1>3, MsgTyped DEF SaveOf, Kinds
  <1>5. QED
    BY <1>1, <1>2, <1>4 DEF x

LEMMA PlayInv ==
  ASSUME SessionInv, NEW m \in Maps, NEW f \in Fds, Play(m, f)
  PROVE  SessionInv'
  <1> DEFINE k == conn[m][f].sd
             c == SdOf(m, f).status.char
             new == [sd[m][k] EXCEPT !.status.ver = latest[c] + 1]
  <1>1. TypeOK /\ LinksTyped /\ Open(m, f) /\ SdOf(m, f).auth
    BY DEF SessionInv, Play, Acts, Open
  <1>2. k \in Chunks /\ sd[m][k] \in Session /\ sd[m][k].status \in Status /\ c \in Chars
    BY <1>1, ActsTyped DEF SdOf
  <1>3. latest[c] + 1 \in 0 .. MaxVersion
    BY <1>1, <1>2, MapSessionAssumption DEF TypeOK, Play
  <1>4. /\ new \in Session /\ new.account = sd[m][k].account /\ new.fd = sd[m][k].fd
        /\ new.auth = sd[m][k].auth /\ new.status \in Status
    BY <1>2, <1>3 DEF Session, Status
  <1>5. sd' = Put(sd, m, k, new)
    BY DEF Play, Put
  <1>6. /\ latest' = [latest EXCEPT ![c] = latest[c] + 1] /\ suspect' \subseteq suspect \cup {c}
        /\ UNCHANGED <<chars, links, conn, id_db, waitclose, clash, announced>>
    BY DEF Play
  <1>7. sd[m][k].auth
    BY <1>1 DEF SdOf
  <1> HIDE DEF new, k, c
  <1>8. sd' \in Memory /\ ChunksInUse' /\ ChunksTyped' /\ PointersTrue' /\ LoggedInFound'
    BY <1>2, <1>4, <1>5, <1>6, <1>7, OneSessionWritten
  <1>9. latest' \in [Chars -> 0 .. MaxVersion] /\ suspect' \subseteq Chars
    BY <1>1, <1>2, <1>3, <1>6 DEF TypeOK
  <1>10. TypeOK' /\ LinksTyped'
    BY <1>1, <1>6, <1>8, <1>9 DEF TypeOK, LinksTyped, chars, links, Memory, Session
  <1>11. QED
    BY <1>8, <1>10 DEF SessionInv

LEMMA ChangeMapServerInv ==
  ASSUME SessionInv, NEW m \in Maps, NEW f \in Fds, ChangeMapServer(m, f)
  PROVE  SessionInv'
  <1> DEFINE k == conn[m][f].sd
             x == SdOf(m, f)
             new == [sd[m][k] EXCEPT !.waiting = TRUE]
  <1>1. TypeOK /\ LinksTyped /\ Open(m, f) /\ x.auth
    BY DEF SessionInv, ChangeMapServer, Acts, Open
  <1>2. /\ k \in Chunks /\ sd[m][k] \in Session /\ sd[m][k].status \in Status
        /\ x.account \in Accounts /\ x.status.char \in Chars /\ SaveOf(x) \in Packet
    BY <1>1, ActsTyped DEF SdOf
  <1>3. /\ new \in Session /\ new.account = sd[m][k].account /\ new.fd = sd[m][k].fd
        /\ new.auth = sd[m][k].auth /\ new.status \in Status
    BY <1>2 DEF Session
  <1>4. /\ sd' = Put(sd, m, k, new) /\ toChar' = Sent(m, SaveAndChange(x))
        /\ suspect' \subseteq suspect \cup {x.status.char}
        /\ UNCHANGED <<chars, toMap, chrif, conn, id_db, waitclose, latest, clash, announced>>
    BY DEF ChangeMapServer, Put
  <1>5. sd[m][k].auth
    BY <1>1 DEF SdOf
  <1> HIDE DEF new, k, x
  <1>6. sd' \in Memory /\ ChunksInUse' /\ ChunksTyped' /\ PointersTrue' /\ LoggedInFound'
    BY <1>2, <1>3, <1>4, <1>5, OneSessionWritten
  <1>7. SaveAndChange(x) \in Seq(Packet)
    <2>1. Msg("change", x.account, x.status.char, NoStatus) \in Packet
      BY <1>2, MsgTyped DEF Kinds
    <2>2. QED
      BY <1>2, <2>1 DEF SaveAndChange
  <1>8. LinksTyped'
    BY <1>1, <1>4, <1>7, SentTyped DEF LinksTyped
  <1>9. TypeOK'
    BY <1>1, <1>2, <1>4, <1>6 DEF TypeOK, chars, Memory, Session
  <1>10. QED
    BY <1>6, <1>8, <1>9 DEF SessionInv

(* Handlers that only send, or only arm a timer. *)
LEMMA OnlyTalksInv ==
  ASSUME SessionInv, NEW m \in Maps, NEW f \in Fds,
         Restart(m, f) \/ QuitGame(m, f) \/ Autosave(m, f)
  PROVE  SessionInv'
  <1>1. TypeOK /\ LinksTyped /\ Open(m, f) /\ SdOf(m, f).auth
    BY DEF SessionInv, Restart, QuitGame, Autosave, Acts, Open
  <1> DEFINE x == SdOf(m, f)
  <1>2. x.account \in Accounts /\ SaveOf(x) \in Packet
    BY <1>1, ActsTyped
  <1>3. Msg("charselect", x.account, Nil, NoStatus) \in Packet
    BY <1>2, MsgTyped DEF Kinds
  <1>4. /\ UNCHANGED <<chars, toMap, chrif, conn, sd, id_db, hist>>
        /\ waitclose' \in [Maps -> SUBSET Fds]
        /\ \/ toChar' = Sent(m, <<Msg("charselect", x.account, Nil, NoStatus)>>)
           \/ toChar' = Sent(m, <<SaveOf(x)>>)
           \/ UNCHANGED toChar
    BY <1>1 DEF Restart, QuitGame, Autosave, TypeOK, server, links
  <1> HIDE DEF x
  <1>5. toChar' \in [Maps -> Seq(Packet)]
    <2>1. <<Msg("charselect", x.account, Nil, NoStatus)>> \in Seq(Packet) /\ <<SaveOf(x)>> \in Seq(Packet)
      BY <1>2, <1>3
    <2>2. QED
      BY <1>1, <1>4, <2>1, SentTyped DEF LinksTyped
  <1>6. TypeOK' /\ LinksTyped'
    BY <1>1, <1>4, <1>5 DEF TypeOK, LinksTyped, chars, hist
  <1>7. QED
    BY <1>4, <1>6, SessionsUntouched DEF SessionInv, hist

LEMMA LinkInv ==
  ASSUME SessionInv, NEW m \in Maps,
         LinkLost(m) \/ check_connect_char_server(m) \/ chrif_sendmapack(m)
  PROVE  SessionInv'
  <1>1. TypeOK /\ LinksTyped
    BY DEF SessionInv
  <1>2. /\ chrif' \in [Maps -> {"up", "down", "joining"}] /\ suspect' \subseteq Chars
        /\ UNCHANGED <<chars, server, latest, clash, announced>>
    BY <1>1 DEF TypeOK, LinkLost, check_connect_char_server, chrif_sendmapack, hist
  <1>3. LinksTyped'
    <2>1. <<>> \in Seq(Packet)
      OBVIOUS
    <2>2. CASE LinkLost(m)
      BY <1>1, <2>1, <2>2 DEF LinksTyped, LinkLost
    <2>3. CASE check_connect_char_server(m) \/ chrif_sendmapack(m)
      BY <1>1, <2>3 DEF LinksTyped, check_connect_char_server, chrif_sendmapack
    <2>4. QED
      BY <2>2, <2>3
  <1>4. TypeOK'
    BY <1>1, <1>2 DEF TypeOK, chars, server
  <1>5. QED
    BY <1>2, <1>3, <1>4, SessionsUntouched DEF SessionInv, server

LEMMA NextInv == SessionInv /\ [Next]_vars => SessionInv'
  <1> SUFFICES ASSUME SessionInv, [Next]_vars PROVE SessionInv'
    OBVIOUS
  <1>1. ASSUME NEW c \in Chars, SelectChar(c) PROVE SessionInv'
    BY <1>1, SelectCharInv
  <1>2. ASSUME NEW m \in Maps, ClientStep(m) PROVE SessionInv'
    BY <1>2, ConnectInv, CloseInv, PlayInv, OnlyTalksInv, ChangeMapServerInv DEF ClientStep
  <1>3. ASSUME NEW m \in Maps, ServerStep(m) PROVE SessionInv'
    BY <1>3, FromMapInv, FromCharInv, DropInv, CloseInv, OnlyTalksInv, LinkInv DEF ServerStep
  <1>4. ASSUME UNCHANGED vars PROVE SessionInv'
    <2>1. TypeOK' /\ LinksTyped'
      BY <1>4 DEF SessionInv, TypeOK, LinksTyped, vars, chars, links, server, hist
    <2>2. QED
      BY <1>4, <2>1, SessionsUntouched DEF SessionInv, vars, server, hist
  <1>5. QED
    BY <1>1, <1>2, <1>3, <1>4 DEF Next

(* The invariant the others follow from. *)
LEMMA SessionInvAlways == Spec => []SessionInv
  BY InitInv, NextInv, PTL DEF Spec

(* Whatever clients, servers and links do, every variable keeps its type. *)
THEOREM SessionTypes == Spec => []TypeOK
  <1>1. SessionInv => TypeOK
    BY DEF SessionInv
  <1>2. QED
    BY <1>1, SessionInvAlways, PTL

(* An account is logged in at most once on each map server, and id_db finds
   that session, unless one of its connections left unanswered: for any number
   of servers, accounts, characters, sockets and chunks. *)
THEOREM OneSessionAlways == Spec => []OneSessionPerAccount
  <1>1. SessionInv => OneSessionPerAccount
    <2> SUFFICES ASSUME SessionInv, NEW m \in Maps, NEW f \in Fds, NEW g \in Fds,
                        Open(m, f), SdOf(m, f).auth, SdOf(m, f).account \notin clash
                 PROVE  /\ id_db[m][SdOf(m, f).account] = conn[m][f].sd
                        /\ Open(m, g) /\ SdOf(m, g).auth
                           /\ SdOf(m, g).account = SdOf(m, f).account => f = g
      BY DEF OneSessionPerAccount
    <2>1. id_db[m][SdOf(m, f).account] = conn[m][f].sd
      BY DEF SessionInv, LoggedInFound
    <2>2. ASSUME Open(m, g), SdOf(m, g).auth, SdOf(m, g).account = SdOf(m, f).account
          PROVE  f = g
      <3>1. id_db[m][SdOf(m, f).account] = conn[m][g].sd
        BY <2>2 DEF SessionInv, LoggedInFound
      <3>2. QED
        BY <2>1, <3>1 DEF SessionInv, ChunksInUse
    <2>3. QED
      BY <2>1, <2>2
  <1>2. QED
    BY <1>1, SessionInvAlways, PTL

(***************************************************************************)
(* A session of a map server plays the character its client chose.  What   *)
(* keeps that true is spread over two programs and the links between them: *)
(* the expected logins of the char server, the requests and answers under  *)
(* way, the sessions, and what the char server has stored.                 *)
(***************************************************************************)

(* Queues: that a packet of S is in q, and that there is no second one. *)
Has(q, S)  == \E i \in DOMAIN q : q[i] \in S
Once(q, S) == \A i, j \in DOMAIN q : q[i] \in S /\ q[j] \in S => i = j

(* As far as the packets of T go, r is no more than q. *)
Fewer(r, q, T) ==
  \A S \in SUBSET T : (Has(r, S) => Has(q, S)) /\ (Once(q, S) => Once(r, S))

LEMMA HasTail ==
  ASSUME NEW q \in Seq(Packet), q # <<>>, NEW S
  PROVE  /\ Has(Tail(q), S) => Has(q, S)
         /\ Head(q) \in S => Has(q, S)
         /\ Once(q, S) => Once(Tail(q), S)
         /\ Once(q, S) /\ Head(q) \in S => ~Has(Tail(q), S)
  <1>1. /\ Len(q) \in Nat /\ Len(q) # 0 /\ DOMAIN q = 1 .. Len(q) /\ Head(q) = q[1]
        /\ DOMAIN Tail(q) = 1 .. Len(q) - 1
        /\ \A i \in 1 .. Len(q) - 1 : Tail(q)[i] = q[i + 1]
    BY HeadTailProperties
  <1>2. \A i \in DOMAIN Tail(q) : i \in Nat /\ i + 1 \in DOMAIN q /\ Tail(q)[i] = q[i + 1] /\ i + 1 # 1
    BY <1>1
  <1>3. 1 \in DOMAIN q
    BY <1>1
  <1>4. QED
    BY <1>1, <1>2, <1>3 DEF Has, Once

LEMMA HasConcat ==
  ASSUME NEW q \in Seq(Packet), NEW r \in Seq(Packet), NEW S
  PROVE  /\ Has(q \o r, S) <=> Has(q, S) \/ Has(r, S)
         /\ Once(q, S) /\ ~Has(r, S) => Once(q \o r, S)
  <1> DEFINE s == q \o r
  <1>1. /\ Len(q) \in Nat /\ DOMAIN q = 1 .. Len(q) /\ Len(r) \in Nat /\ DOMAIN r = 1 .. Len(r)
        /\ DOMAIN s = 1 .. Len(q) + Len(r)
        /\ \A i \in 1 .. Len(q) + Len(r) : s[i] = IF i <= Len(q) THEN q[i] ELSE r[i - Len(q)]
    BY ConcatProperties
  <1>2. \A i \in DOMAIN s : (i \in DOMAIN q /\ s[i] = q[i])
                            \/ (i - Len(q) \in DOMAIN r /\ s[i] = r[i - Len(q)])
    BY <1>1
  <1>3. \A i \in DOMAIN q : i \in DOMAIN s /\ s[i] = q[i]
    BY <1>1
  <1>4. \A i \in DOMAIN r : i + Len(q) \in DOMAIN s /\ s[i + Len(q)] = r[i]
    BY <1>1
  <1> HIDE DEF s
  <1>5. QED
    BY <1>2, <1>3, <1>4 DEF Has, Once, s

LEMMA HasAppend ==
  ASSUME NEW q \in Seq(Packet), NEW p \in Packet, NEW S
  PROVE  /\ Has(Append(q, p), S) <=> Has(q, S) \/ p \in S
         /\ ~Has(q, S) => Once(Append(q, p), S)
         /\ Once(q, S) /\ p \notin S => Once(Append(q, p), S)
  <1> DEFINE s == Append(q, p)
             n == Len(q) + 1
  <1>1. /\ DOMAIN q = 1 .. Len(q) /\ Len(q) \in Nat /\ DOMAIN s = 1 .. n /\ s[n] = p
        /\ \A i \in 1 .. Len(q) : s[i] = q[i]
    BY AppendProperties
  <1>2. \A i \in DOMAIN s : i = n \/ (i \in DOMAIN q /\ s[i] = q[i])
    BY <1>1
  <1>3. n \in DOMAIN s /\ \A i \in DOMAIN q : i \in DOMAIN s /\ s[i] = q[i]
    BY <1>1
  <1> HIDE DEF s, n
  <1>4. QED
    BY <1>1, <1>2, <1>3 DEF Has, Once, s

LEMMA FewerPackets ==
  ASSUME NEW q \in Seq(Packet), NEW T
  PROVE  /\ Fewer(q, q, T) /\ Fewer(<<>>, q, T)
         /\ q # <<>> => Fewer(Tail(q), q, T)
         /\ \A r \in Seq(Packet) : ~Has(r, T) => Fewer(q \o r, q, T)
         /\ \A p \in Packet : p \notin T => Fewer(Append(q, p), q, T)
  <1>1. Fewer(q, q, T)
    BY DEF Fewer
  <1>2. Fewer(<<>>, q, T)
    BY DEF Fewer, Has, Once
  <1>3. ASSUME q # <<>> PROVE Fewer(Tail(q), q, T)
    BY <1>3, HasTail DEF Fewer
  <1>4. ASSUME NEW r \in Seq(Packet), ~Has(r, T) PROVE Fewer(q \o r, q, T)
    <2>1. \A S \in SUBSET T : ~Has(r, S)
      BY <1>4 DEF Has
    <2>2. QED
      BY <2>1, HasConcat DEF Fewer
  <1>5. ASSUME NEW p \in Packet, p \notin T PROVE Fewer(Append(q, p), q, T)
    BY <1>5, HasAppend DEF Fewer
  <1>6. QED
    BY <1>1, <1>2, <1>3, <1>4, <1>5

-----------------------------------------------------------------------------
(* The invariant.  dat is the char server's data, bad the clashed accounts. *)
Owns(dat, a, c) == AccountOf[c] = a /\ \E i \in Slots : dat[i].char = c

TrueEntries(fifo, dat, bad) ==
  \A i \in Ring :
    fifo[i].delflag = 0 /\ fifo[i].account \notin bad /\ fifo[i].char # Nil =>
      dat[fifo[i].pos].char = fifo[i].char /\ AccountOf[fifo[i].char] = fifo[i].account

(* Packets that no account sends or is sent, unless it has clashed. *)
Untrue(dat, bad) ==
  {p \in Packet :
     \/ p.kind = "authreq" /\ p.char \notin Chars
     \/ p.account \notin bad /\ p.kind = "save" /\ p.status.char # p.char
     \/ p.account \notin bad /\ p.kind = "change" /\ ~Owns(dat, p.account, p.char)
     \/ p.account \notin bad /\ p.kind = "authok" /\ ~Owns(dat, p.account, p.status.char)}

Asks(a)    == {p \in Packet : p.kind = "authreq" /\ p.account = a}
Answers(a) == {p \in Packet : p.kind \in {"authok", "authfail"} /\ p.account = a}

(* One login of an account is under way at most ... *)
Waits(qc, qm, a) ==
  /\ Once(qc, Asks(a)) /\ Once(qm, Answers(a))
  /\ ~(Has(qc, Asks(a)) /\ Has(qm, Answers(a)))

(* ... and it is that of character c. *)
Fits(qc, qm, a, c) ==
  /\ ~Has(qc, {p \in Asks(a) : p.char # c})
  /\ ~Has(qm, {p \in Answers(a) : p.kind = "authok" /\ p.status.char # c})

Fitted(qc, qm, a, k, chunks) ==
  k # Nil => chunks[k].new_fd # Nil \/ Fits(qc, qm, a, chunks[k].char_id)

EntriesTrue == TrueEntries(auth_fifo, char_dat, clash)

PacketsTrue ==
  \A m \in Maps : ~Has(toChar[m], Untrue(char_dat, clash)) /\ ~Has(toMap[m], Untrue(char_dat, clash))

SessionsTrue ==
  \A m \in Maps, f \in Fds :
    Open(m, f) /\ SdOf(m, f).auth /\ SdOf(m, f).account \notin clash =>
      /\ SdOf(m, f).status.char = SdOf(m, f).char_id
      /\ Owns(char_dat, SdOf(m, f).account, SdOf(m, f).char_id)

OneLogin == \A m \in Maps, a \in Accounts : a \notin clash => Waits(toChar[m], toMap[m], a)

LoginFits ==
  \A m \in Maps, a \in Accounts :
    a \notin clash => Fitted(toChar[m], toMap[m], a, id_db[m][a], sd[m])

CharacterInv == EntriesTrue /\ PacketsTrue /\ SessionsTrue /\ OneLogin /\ LoginFits

LEMMA CharacterInit == Init => CharacterInv
  <1> SUFFICES ASSUME Init PROVE CharacterInv
    OBVIOUS
  <1>1. \A S : ~Has(<<>>, S) /\ Once(<<>>, S)
    BY DEF Has, Once
  <1>2. \A m \in Maps : toChar[m] = <<>> /\ toMap[m] = <<>>
    BY DEF Init
  <1>3. EntriesTrue
    BY DEF Init, EntriesTrue, TrueEntries
  <1>4. SessionsTrue
    BY DEF Init, SessionsTrue, Open, Closed
  <1>5. QED
    BY <1>1, <1>2, <1>3, <1>4
    DEF CharacterInv, PacketsTrue, OneLogin, LoginFits, Waits, Fits, Fitted

-----------------------------------------------------------------------------
(* What the char server has stored changes at most the data of the characters
   of clashed accounts, as to which character is where. *)
CharsKept ==
  /\ clash \subseteq clash'
  /\ \A i \in Slots : AccountOf[char_dat[i].char] \notin clash => char_dat'[i].char = char_dat[i].char

LEMMA DataKept ==
  ASSUME SessionInv, CharacterInv, CharsKept
  PROVE  /\ \A a \in Accounts \ clash' : \A c : Owns(char_dat, a, c) => Owns(char_dat', a, c)
         /\ Untrue(char_dat', clash') \subseteq Untrue(char_dat, clash)
         /\ UNCHANGED auth_fifo => EntriesTrue'
  <1>1. ASSUME NEW a, a \notin clash', NEW c, Owns(char_dat, a, c)
        PROVE  Owns(char_dat', a, c)
    BY <1>1 DEF Owns, CharsKept
  <1>2. Untrue(char_dat', clash') \subseteq Untrue(char_dat, clash)
    BY <1>1 DEF Untrue, CharsKept
  <1>3. ASSUME UNCHANGED auth_fifo PROVE EntriesTrue'
    <2>1. \A i \in Ring : auth_fifo[i].pos \in Slots
      BY DEF SessionInv, TypeOK
    <2>2. QED
      BY <1>3, <2>1 DEF CharacterInv, EntriesTrue, TrueEntries, CharsKept
  <1>4. QED
    BY <1>1, <1>2, <1>3

LEMMA SameData == UNCHANGED char_dat /\ clash \subseteq clash' => CharsKept
  BY DEF CharsKept

(* Links on which nothing untrue was put. *)
LEMMA PacketsKept ==
  ASSUME SessionInv, CharacterInv, CharsKept,
         \A m \in Maps : Has(toChar'[m], Untrue(char_dat, clash)) => Has(toChar[m], Untrue(char_dat, clash)),
         \A m \in Maps : Has(toMap'[m], Untrue(char_dat, clash)) => Has(toMap[m], Untrue(char_dat, clash))
  PROVE  PacketsTrue'
  <1>1. Untrue(char_dat', clash') \subseteq Untrue(char_dat, clash)
    BY DataKept
  <1>2. ASSUME NEW m \in Maps
        PROVE  /\ ~Has(toChar'[m], Untrue(char_dat', clash'))
               /\ ~Has(toMap'[m], Untrue(char_dat', clash'))
    <2>1. ~Has(toChar'[m], Untrue(char_dat, clash)) /\ ~Has(toMap'[m], Untrue(char_dat, clash))
      BY DEF CharacterInv, PacketsTrue
    <2>2. QED
      BY <1>1, <2>1 DEF Has
  <1>3. QED
    BY <1>2 DEF PacketsTrue

(* Sessions none of which is new, or another character's. *)
SameSession(x, y) ==
  x.auth /\ x.account = y.account /\ x.char_id = y.char_id /\ x.status.char = y.status.char

LEMMA SessionsStay ==
  ASSUME SessionInv, CharacterInv, CharsKept,
         \A m \in Maps, f \in Fds : Open(m, f)' /\ SdOf(m, f)'.auth =>
           Open(m, f) /\ SameSession(SdOf(m, f), SdOf(m, f)')
  PROVE  SessionsTrue'
  <1>1. ASSUME NEW m \in Maps, NEW f \in Fds, Open(m, f)', SdOf(m, f)'.auth,
               SdOf(m, f)'.account \notin clash'
        PROVE  /\ SdOf(m, f)'.status.char = SdOf(m, f)'.char_id
               /\ Owns(char_dat', SdOf(m, f)'.account, SdOf(m, f)'.char_id)
    <2>1. Open(m, f) /\ SameSession(SdOf(m, f), SdOf(m, f)') /\ SdOf(m, f).account \in Accounts
      BY <1>1 DEF SessionInv, ChunksInUse
    <2>2. /\ SdOf(m, f).status.char = SdOf(m, f).char_id
          /\ Owns(char_dat, SdOf(m, f).account, SdOf(m, f).char_id)
      BY <1>1, <2>1 DEF CharacterInv, SessionsTrue, CharsKept, SameSession
    <2>3. QED
      BY <1>1, <2>1, <2>2, DataKept DEF SameSession
  <1>2. QED
    BY <1>1 DEF SessionsTrue

(* The login of an account, in a step that adds nothing to it. *)
LEMMA LoginKept ==
  ASSUME SessionInv, CharacterInv, NEW m \in Maps, NEW a \in Accounts, a \notin clash,
         Fewer(toChar'[m], toChar[m], Asks(a)), Fewer(toMap'[m], toMap[m], Answers(a))
  PROVE  /\ Waits(toChar'[m], toMap'[m], a)
         /\ (id_db'[m][a] # Nil =>
               /\ id_db'[m][a] = id_db[m][a]
               /\ \/ sd'[m][id_db'[m][a]].new_fd # Nil
                  \/ /\ sd'[m][id_db'[m][a]].new_fd = sd[m][id_db'[m][a]].new_fd
                     /\ sd'[m][id_db'[m][a]].char_id = sd[m][id_db'[m][a]].char_id)
            => Fitted(toChar'[m], toMap'[m], a, id_db'[m][a], sd'[m])
  <1>1. Waits(toChar[m], toMap[m], a) /\ Fitted(toChar[m], toMap[m], a, id_db[m][a], sd[m])
    BY DEF CharacterInv, OneLogin, LoginFits
  <1>2. Waits(toChar'[m], toMap'[m], a)
    BY <1>1 DEF Waits, Fewer
  <1>3. \A c : Fits(toChar[m], toMap[m], a, c) => Fits(toChar'[m], toMap'[m], a, c)
    BY DEF Fits, Fewer
  <1>4. QED
    BY <1>1, <1>2, <1>3 DEF Fitted
-----------------------------------------------------------------------------
(* Steps that put no login, and nothing untrue, on the links of m. *)
QuietLink(m) ==
  /\ Fewer(toChar'[m], toChar[m], Untrue(char_dat, clash))
  /\ Fewer(toMap'[m], toMap[m], Untrue(char_dat, clash))
  /\ \A a \in Accounts : /\ Fewer(toChar'[m], toChar[m], Asks(a))
                         /\ Fewer(toMap'[m], toMap[m], Answers(a))

(* Session k, as the pending login of its account sees it. *)
SameLogin(m, k) ==
  sd'[m][k].new_fd = sd[m][k].new_fd /\ sd'[m][k].char_id = sd[m][k].char_id

LEMMA LinksKept ==
  ASSUME SessionInv, CharacterInv, CharsKept,
         \A m \in Maps : QuietLink(m)
  PROVE  /\ PacketsTrue'
         /\ \A m \in Maps, a \in Accounts \ clash' :
              /\ Waits(toChar'[m], toMap'[m], a)
              /\ (id_db'[m][a] # Nil => id_db'[m][a] = id_db[m][a] /\ SameLogin(m, id_db[m][a]))
                 => Fitted(toChar'[m], toMap'[m], a, id_db'[m][a], sd'[m])
  <1>1. PacketsTrue'
    <2>1. ASSUME NEW m \in Maps
          PROVE  /\ Has(toChar'[m], Untrue(char_dat, clash)) => Has(toChar[m], Untrue(char_dat, clash))
                 /\ Has(toMap'[m], Untrue(char_dat, clash)) => Has(toMap[m], Untrue(char_dat, clash))
      BY DEF QuietLink, Fewer
    <2>2. QED
      BY <2>1, PacketsKept
  <1>2. ASSUME NEW m \in Maps, NEW a \in Accounts, a \notin clash'
        PROVE  /\ Waits(toChar'[m], toMap'[m], a)
               /\ (id_db'[m][a] # Nil => id_db'[m][a] = id_db[m][a] /\ SameLogin(m, id_db[m][a]))
                  => Fitted(toChar'[m], toMap'[m], a, id_db'[m][a], sd'[m])
    <2>1. a \notin clash /\ Fewer(toChar'[m], toChar[m], Asks(a))
          /\ Fewer(toMap'[m], toMap[m], Answers(a))
      BY <1>2 DEF CharsKept, QuietLink
    <2>2. QED
      BY <2>1, LoginKept DEF SameLogin
  <1>3. QED
    BY <1>1, <1>2

LEMMA StepKept ==
  ASSUME SessionInv, CharacterInv, CharsKept,
         \A m \in Maps : QuietLink(m),
         \A m \in Maps, f \in Fds : Open(m, f)' /\ SdOf(m, f)'.auth =>
           Open(m, f) /\ SameSession(SdOf(m, f), SdOf(m, f)'),
         \A m \in Maps, a \in Accounts \ clash' : id_db'[m][a] # Nil =>
           id_db'[m][a] = id_db[m][a] /\ SameLogin(m, id_db[m][a])
  PROVE  PacketsTrue' /\ SessionsTrue' /\ OneLogin' /\ LoginFits'
         /\ (UNCHANGED auth_fifo => CharacterInv')
  <1>1. PacketsTrue' /\ OneLogin' /\ LoginFits'
    BY LinksKept DEF OneLogin, LoginFits
  <1>2. SessionsTrue'
    BY SessionsStay
  <1>3. UNCHANGED auth_fifo => EntriesTrue'
    BY DataKept
  <1>4. QED
    BY <1>1, <1>2, <1>3 DEF CharacterInv

LEMMA LinksUntouched ==
  ASSUME SessionInv, NEW m \in Maps, toChar'[m] = toChar[m], toMap'[m] = toMap[m]
  PROVE  QuietLink(m)
  <1>1. toChar[m] \in Seq(Packet) /\ toMap[m] \in Seq(Packet)
    BY DEF SessionInv, LinksTyped
  <1>2. QED
    BY <1>1, FewerPackets DEF QuietLink

LEMMA SendingKeeps ==
  ASSUME SessionInv, NEW m \in Maps, NEW msgs \in Seq(Packet), ~Has(msgs, Untrue(char_dat, clash)),
         \A a \in Accounts : ~Has(msgs, Asks(a)),
         toChar' = Sent(m, msgs), UNCHANGED toMap
  PROVE  \A n \in Maps : QuietLink(n)
  <1> SUFFICES ASSUME NEW n \in Maps PROVE QuietLink(n)
    OBVIOUS
  <1>1. toChar \in [Maps -> Seq(Packet)] /\ toChar[n] \in Seq(Packet) /\ toMap[n] \in Seq(Packet)
    BY DEF SessionInv, LinksTyped
  <1>2. CASE toChar'[n] = toChar[n]
    BY <1>2, LinksUntouched
  <1>3. CASE toChar'[n] # toChar[n]
    <2>1. toChar'[n] = toChar[n] \o msgs
      BY <1>1, <1>3 DEF Sent
    <2>2. QED
      BY <1>1, <2>1, FewerPackets DEF QuietLink
  <1>4. QED
    BY <1>2, <1>3

(* The saves of a session that is logged in are its own character's. *)
LEMMA SaveIsTrue ==
  ASSUME SessionInv, CharacterInv, NEW m \in Maps, NEW f \in Fds, Open(m, f), SdOf(m, f).auth
  PROVE  /\ SaveOf(SdOf(m, f)) \in Packet \ Untrue(char_dat, clash)
         /\ \A a \in Accounts : SaveOf(SdOf(m, f)) \notin Asks(a)
  <1>1. SaveOf(SdOf(m, f)) \in Packet
    BY ActsTyped
  <1>2. SdOf(m, f).account \notin clash => SdOf(m, f).status.char = SdOf(m, f).char_id
    BY DEF CharacterInv, SessionsTrue
  <1>3. QED
    BY <1>1, <1>2 DEF SaveOf, Msg, Untrue, Asks

LEMMA OneMessage ==
  ASSUME NEW p \in Packet, NEW S, p \notin S
  PROVE  <<p>> \in Seq(Packet) /\ ~Has(<<p>>, S)
  BY DEF Has

(* Sessions, and what id_db says, are as they were. *)
LEMMA SessionsSame ==
  ASSUME SessionInv, \A m \in Maps, f \in Fds : conn'[m][f].sd = conn[m][f].sd
                                                /\ (Open(m, f)' => Open(m, f)),
         UNCHANGED <<sd, id_db>>
  PROVE  /\ \A m \in Maps, f \in Fds : Open(m, f)' /\ SdOf(m, f)'.auth =>
              Open(m, f) /\ SameSession(SdOf(m, f), SdOf(m, f)')
         /\ \A m \in Maps, a \in Accounts \ clash' : id_db'[m][a] # Nil =>
              id_db'[m][a] = id_db[m][a] /\ SameLogin(m, id_db[m][a])
  BY DEF SdOf, SameSession, SameLogin

LEMMA TalkKeeps ==
  ASSUME SessionInv, CharacterInv, NEW m \in Maps, NEW f \in Fds,
         Restart(m, f) \/ QuitGame(m, f) \/ Autosave(m, f)
  PROVE  CharacterInv'
  <1>1. Open(m, f) /\ SdOf(m, f).auth
    BY DEF Restart, QuitGame, Autosave, Acts, Open
  <1> DEFINE x == SdOf(m, f)
             p == Msg("charselect", x.account, Nil, NoStatus)
  <1>2. x.account \in Accounts /\ SaveOf(x) \in Packet \ Untrue(char_dat, clash)
        /\ \A a \in Accounts : SaveOf(x) \notin Asks(a)
    BY <1>1, ActsTyped, SaveIsTrue
  <1>3. p \in Packet \ Untrue(char_dat, clash) /\ \A a \in Accounts : p \notin Asks(a)
    <2>1. p \in Packet
      BY <1>2, MsgTyped DEF Kinds
    <2>2. QED
      BY <2>1 DEF Msg, Untrue, Asks
  <1>4. /\ UNCHANGED <<chars, toMap, conn, sd, id_db, hist>>
        /\ toChar' = Sent(m, <<p>>) \/ toChar' = Sent(m, <<SaveOf(x)>>) \/ UNCHANGED toChar
    BY <1>1 DEF Restart, QuitGame, Autosave, server, links
  <1> HIDE DEF x, p
  <1>5. \A n \in Maps : QuietLink(n)
    <2>1. CASE toChar' = Sent(m, <<p>>)
      <3>1. <<p>> \in Seq(Packet) /\ ~Has(<<p>>, Untrue(char_dat, clash))
            /\ \A a \in Accounts : ~Has(<<p>>, Asks(a))
        BY <1>3, OneMessage
      <3>2. QED
        BY <1>4, <2>1, <3>1, SendingKeeps
    <2>2. CASE toChar' = Sent(m, <<SaveOf(x)>>)
      <3>1. <<SaveOf(x)>> \in Seq(Packet) /\ ~Has(<<SaveOf(x)>>, Untrue(char_dat, clash))
            /\ \A a \in Accounts : ~Has(<<SaveOf(x)>>, Asks(a))
        BY <1>2, OneMessage
      <3>2. QED
        BY <1>4, <2>2, <3>1, SendingKeeps
    <2>3. CASE UNCHANGED toChar
      BY <1>4, <2>3, LinksUntouched
    <2>4. QED
      BY <1>4, <2>1, <2>2, <2>3
  <1>6. CharsKept
    BY <1>4, SameData DEF chars, hist
  <1>7. /\ \A n \in Maps, g \in Fds : Open(n, g)' /\ SdOf(n, g)'.auth =>
              Open(n, g) /\ SameSession(SdOf(n, g), SdOf(n, g)')
        /\ \A n \in Maps, a \in Accounts \ clash' : id_db'[n][a] # Nil =>
              id_db'[n][a] = id_db[n][a] /\ SameLogin(n, id_db[n][a])
    BY <1>4, SessionsSame DEF Open
  <1>8. UNCHANGED auth_fifo
    BY <1>4 DEF chars
  <1>9. QED
    BY <1>5, <1>6, <1>7, <1>8, StepKept
LEMMA CloseKeeps ==
  ASSUME SessionInv, CharacterInv, NEW m \in Maps, NEW f \in Fds,
         Disconnect(m, f) \/ WaitClose(m, f)
  PROVE  CharacterInv'
  <1>1. /\ UNCHANGED <<chars, links, sd, id_db, hist>>
        /\ \/ Open(m, f) /\ conn' = [conn EXCEPT ![m][f].st = "eof"]
           \/ conn' = conn
    BY DEF Disconnect, WaitClose, Open
  <1>2. \A n \in Maps, g \in Fds : conn'[n][g].sd = conn[n][g].sd /\ (Open(n, g)' => Open(n, g))
    <2>1. CASE conn' = conn
      BY <2>1 DEF Open
    <2>2. CASE Open(m, f) /\ conn' = [conn EXCEPT ![m][f].st = "eof"]
      <3> DEFINE shut == [conn[m][f] EXCEPT !.st = "eof"]
      <3>1. conn' = [conn EXCEPT ![m][f] = shut] /\ shut.sd = conn[m][f].sd
        BY <2>2 DEF SessionInv, TypeOK
      <3> HIDE DEF shut
      <3>2. \A n \in Maps, g \in Fds :
              conn'[n][g] = IF n = m /\ g = f THEN shut ELSE conn[n][g]
        BY <3>1 DEF SessionInv, TypeOK
      <3>3. QED
        BY <2>2, <3>1, <3>2 DEF Open
    <2>3. QED
      BY <1>1, <2>1, <2>2
  <1>3. \A n \in Maps : QuietLink(n)
    BY <1>1, LinksUntouched DEF links
  <1>4. CharsKept
    BY <1>1, SameData DEF chars, hist
  <1>5. UNCHANGED <<auth_fifo, sd, id_db>>
    BY <1>1 DEF chars
  <1>6. QED
    BY <1>2, <1>3, <1>4, <1>5, SessionsSame, StepKept

(* One session is written to, and stays its account's and character's. *)
LEMMA SessionRewritten ==
  ASSUME SessionInv, NEW m \in Maps, NEW k \in Chunks, NEW new \in Session,
         sd' = Put(sd, m, k, new), UNCHANGED <<conn, id_db>>,
         new.new_fd = sd[m][k].new_fd, new.char_id = sd[m][k].char_id,
         new.auth => SameSession(sd[m][k], new)
  PROVE  /\ \A n \in Maps, f \in Fds : Open(n, f)' /\ SdOf(n, f)'.auth =>
              Open(n, f) /\ SameSession(SdOf(n, f), SdOf(n, f)')
         /\ \A n \in Maps, a \in Accounts \ clash' : id_db'[n][a] # Nil =>
              id_db'[n][a] = id_db[n][a] /\ SameLogin(n, id_db[n][a])
  <1>0. sd' = [sd EXCEPT ![m][k] = new]
    BY DEF Put
  <1>1. /\ sd'[m][k] = new
        /\ \A n \in Maps, j \in Chunks : n # m \/ j # k => sd'[n][j] = sd[n][j]
    <2>1. sd \in Memory
      BY MemoryTyped DEF SessionInv
    <2>2. QED
      BY <1>0, <2>1 DEF Memory
  <1>2. ASSUME NEW n \in Maps, NEW f \in Fds, Open(n, f)', SdOf(n, f)'.auth
        PROVE  Open(n, f) /\ SameSession(SdOf(n, f), SdOf(n, f)')
    <2>1. Open(n, f) /\ conn[n][f].sd \in Chunks
      BY <1>2 DEF SessionInv, ChunksInUse, Open
    <2>2. QED
      BY <1>1, <1>2, <2>1 DEF SdOf, SameSession
  <1>3. \A n \in Maps, j \in Chunks : SameLogin(n, j)
    BY <1>1 DEF SameLogin
  <1>4. \A n \in Maps, a \in Accounts : id_db[n][a] # Nil => id_db[n][a] \in Chunks
    BY DEF SessionInv, TypeOK
  <1>5. QED
    BY <1>2, <1>3, <1>4

LEMMA PlayKeeps ==
  ASSUME SessionInv, CharacterInv, NEW m \in Maps, NEW f \in Fds, Play(m, f)
  PROVE  CharacterInv'
  <1> DEFINE k == conn[m][f].sd
             c == SdOf(m, f).status.char
             new == [sd[m][k] EXCEPT !.status.ver = latest[c] + 1]
  <1>1. TypeOK /\ Open(m, f) /\ SdOf(m, f).auth
    BY DEF SessionInv, Play, Acts, Open
  <1>2. k \in Chunks /\ sd[m][k] \in Session /\ sd[m][k].status \in Status /\ c \in Chars /\ sd[m][k].auth
    BY <1>1, ActsTyped DEF SdOf
  <1>3. latest[c] + 1 \in 0 .. MaxVersion
    BY <1>1, <1>2, MapSessionAssumption DEF TypeOK, Play
  <1>4. /\ new \in Session /\ SameSession(sd[m][k], new)
        /\ new.new_fd = sd[m][k].new_fd /\ new.char_id = sd[m][k].char_id
    BY <1>2, <1>3 DEF Session, Status, SameSession
  <1>5. sd' = Put(sd, m, k, new) /\ UNCHANGED <<chars, links, conn, id_db, clash>>
    BY DEF Play, Put
  <1> HIDE DEF new, k, c
  <1>6. \A n \in Maps : QuietLink(n)
    BY <1>5, LinksUntouched DEF links
  <1>7. CharsKept /\ UNCHANGED auth_fifo
    BY <1>5, SameData DEF chars
  <1>8. QED
    BY <1>2, <1>4, <1>5, <1>6, <1>7, SessionRewritten, StepKept

LEMMA ChangeMapServerKeeps ==
  ASSUME SessionInv, CharacterInv, NEW m \in Maps, NEW f \in Fds, ChangeMapServer(m, f)
  PROVE  CharacterInv'
  <1> DEFINE k == conn[m][f].sd
             x == SdOf(m, f)
             new == [sd[m][k] EXCEPT !.waiting = TRUE]
             p == Msg("change", x.account, x.status.char, NoStatus)
  <1>1. Open(m, f) /\ x.auth
    BY DEF SessionInv, ChangeMapServer, Acts, Open
  <1>2. /\ k \in Chunks /\ sd[m][k] \in Session /\ sd[m][k].status \in Status /\ sd[m][k].auth
        /\ x.account \in Accounts /\ x.status.char \in Chars
    BY <1>1, ActsTyped DEF SdOf
  <1>3. /\ new \in Session /\ SameSession(sd[m][k], new)
        /\ new.new_fd = sd[m][k].new_fd /\ new.char_id = sd[m][k].char_id
    BY <1>2 DEF Session, SameSession
  <1>4. /\ sd' = Put(sd, m, k, new) /\ toChar' = Sent(m, <<SaveOf(x), p>>)
        /\ UNCHANGED <<chars, toMap, conn, id_db, clash>>
    BY DEF ChangeMapServer, Put, SaveAndChange
  <1>5. /\ SaveOf(x) \in Packet \ Untrue(char_dat, clash)
        /\ \A a \in Accounts : SaveOf(x) \notin Asks(a)
    BY <1>1, SaveIsTrue
  <1>6. /\ p \in Packet \ Untrue(char_dat, clash)
        /\ \A a \in Accounts : p \notin Asks(a)
    <2>1. p \in Packet
      BY <1>2, MsgTyped DEF Kinds
    <2>2. x.account \notin clash => Owns(char_dat, x.account, x.status.char)
      BY <1>1 DEF CharacterInv, SessionsTrue
    <2>3. QED
      BY <2>1, <2>2 DEF Msg, Untrue, Asks
  <1> HIDE DEF new, k, x, p
  <1>7. \A n \in Maps : QuietLink(n)
    <2> DEFINE msgs == <<SaveOf(x), p>>
    <2>1. msgs \in Seq(Packet) /\ DOMAIN msgs = {1, 2} /\ msgs[1] = SaveOf(x) /\ msgs[2] = p
      BY <1>5, <1>6
    <2> HIDE DEF msgs
    <2>2. ~Has(msgs, Untrue(char_dat, clash)) /\ \A a \in Accounts : ~Has(msgs, Asks(a))
      BY <1>5, <1>6, <2>1 DEF Has
    <2>3. toChar' = Sent(m, msgs) /\ UNCHANGED toMap
      BY <1>4 DEF msgs
    <2>4. QED
      BY <2>1, <2>2, <2>3, SendingKeeps
  <1>8. CharsKept /\ UNCHANGED auth_fifo
    BY <1>4, SameData DEF chars
  <1>9. QED
    BY <1>2, <1>3, <1>4, <1>7, <1>8, SessionRewritten, StepKept

(* A connection ends: what is left of its account is a save, at most. *)
LEMMA DropKeeps ==
  ASSUME SessionInv, CharacterInv, NEW m \in Maps, NEW f \in Fds, Drop(m, f)
  PROVE  CharacterInv'
  <1> DEFINE x == SdOf(m, f)
  <1>1. /\ Open(m, f) /\ conn' = [conn EXCEPT ![m][f] = Closed]
        /\ UNCHANGED <<chars, toMap, sd>> /\ clash \subseteq clash'
        /\ \/ /\ x.auth /\ toChar' = Sent(m, <<SaveOf(x)>>)
              /\ id_db' = [id_db EXCEPT ![m][x.account] = Nil]
           \/ UNCHANGED <<toChar, id_db>>
    BY DEF Drop, map_quit, Open
  <1>2. \A n \in Maps, g \in Fds :
          Open(n, g)' => Open(n, g) /\ conn'[n][g].sd = conn[n][g].sd
    BY <1>1 DEF SessionInv, TypeOK, Open, Closed
  <1>3. \A n \in Maps, g \in Fds : Open(n, g)' /\ SdOf(n, g)'.auth =>
          Open(n, g) /\ SameSession(SdOf(n, g), SdOf(n, g)')
    BY <1>1, <1>2 DEF SdOf, SameSession
  <1>4. \A n \in Maps, a \in Accounts \ clash' : id_db'[n][a] # Nil =>
          id_db'[n][a] = id_db[n][a] /\ SameLogin(n, id_db[n][a])
    <2>0. id_db \in [Maps -> [Accounts -> Chunks \cup {Nil}]]
      BY DEF SessionInv, TypeOK
    <2>1. \A n \in Maps, a \in Accounts : id_db'[n][a] # Nil => id_db'[n][a] = id_db[n][a]
      <3>1. CASE id_db' = [id_db EXCEPT ![m][x.account] = Nil]
        BY <2>0, <3>1
      <3>2. QED
        BY <1>1, <3>1
    <2>2. QED
      BY <1>1, <2>1 DEF SameLogin
  <1>5. CharsKept /\ UNCHANGED auth_fifo
    BY <1>1, SameData DEF chars
  <1>6. x.auth => /\ SaveOf(x) \in Packet \ Untrue(char_dat, clash)
                  /\ \A a \in Accounts : SaveOf(x) \notin Asks(a)
    BY <1>1, SaveIsTrue
  <1> HIDE DEF x
  <1>7. \A n \in Maps : QuietLink(n)
    <2>1. CASE x.auth /\ toChar' = Sent(m, <<SaveOf(x)>>)
      <3>1. <<SaveOf(x)>> \in Seq(Packet) /\ ~Has(<<SaveOf(x)>>, Untrue(char_dat, clash))
            /\ \A a \in Accounts : ~Has(<<SaveOf(x)>>, Asks(a))
        BY <1>6, <2>1, OneMessage
      <3>2. QED
        BY <1>1, <2>1, <3>1, SendingKeeps
    <2>2. CASE UNCHANGED toChar
      BY <1>1, <2>2, LinksUntouched
    <2>3. QED
      BY <1>1, <2>1, <2>2
  <1>8. QED
    BY <1>3, <1>4, <1>5, <1>7, StepKept

(* A link, or a server, loses what is under way on its link. *)
LEMMA LinksEmptied ==
  ASSUME SessionInv, NEW m \in Maps,
         toChar' = [toChar EXCEPT ![m] = <<>>], toMap' = [toMap EXCEPT ![m] = <<>>]
  PROVE  \A n \in Maps : QuietLink(n)
  <1> SUFFICES ASSUME NEW n \in Maps PROVE QuietLink(n)
    OBVIOUS
  <1>1. toChar \in [Maps -> Seq(Packet)] /\ toMap \in [Maps -> Seq(Packet)]
    BY DEF SessionInv, LinksTyped
  <1>2. CASE n = m
    <2>1. toChar'[n] = <<>> /\ toMap'[n] = <<>> /\ toChar[n] \in Seq(Packet) /\ toMap[n] \in Seq(Packet)
      BY <1>1, <1>2
    <2>2. QED
      BY <2>1, FewerPackets DEF QuietLink
  <1>3. CASE n # m
    BY <1>1, <1>3, LinksUntouched
  <1>4. QED
    BY <1>2, <1>3

LEMMA LinkKeeps ==
  ASSUME SessionInv, CharacterInv, NEW m \in Maps,
         LinkLost(m) \/ check_connect_char_server(m) \/ chrif_sendmapack(m)
  PROVE  CharacterInv'
  <1>1. UNCHANGED <<chars, server, clash>>
    BY DEF LinkLost, check_connect_char_server, chrif_sendmapack, hist
  <1>2. \A n \in Maps : QuietLink(n)
    <2>1. CASE LinkLost(m)
      BY <2>1, LinksEmptied DEF LinkLost
    <2>2. CASE check_connect_char_server(m) \/ chrif_sendmapack(m)
      BY <2>2, LinksUntouched DEF check_connect_char_server, chrif_sendmapack
    <2>3. QED
      BY <2>1, <2>2
  <1>3. CharsKept /\ UNCHANGED auth_fifo
    BY <1>1, SameData DEF chars
  <1>4. /\ UNCHANGED <<sd, id_db>>
        /\ \A n \in Maps, g \in Fds : conn'[n][g].sd = conn[n][g].sd /\ (Open(n, g)' => Open(n, g))
    BY <1>1 DEF server, Open
  <1>5. QED
    BY <1>2, <1>3, <1>4, SessionsSame, StepKept

LEMMA CrashKeeps ==
  ASSUME SessionInv, CharacterInv, NEW m \in Maps, Crash(m), UNCHANGED chars
  PROVE  CharacterInv'
  <1>1. \A n \in Maps : QuietLink(n)
    BY LinksEmptied DEF Crash
  <1>2. CharsKept /\ UNCHANGED auth_fifo
    BY SameData DEF chars, Crash
  <1>3. /\ \A g \in Fds : conn'[m][g] = Closed
        /\ \A a \in Accounts : id_db'[m][a] = Nil
        /\ \A n \in Maps : n # m => conn'[n] = conn[n] /\ sd'[n] = sd[n] /\ id_db'[n] = id_db[n]
    BY DEF Crash, SessionInv, TypeOK
  <1>4. \A n \in Maps, g \in Fds : Open(n, g)' => n # m /\ Open(n, g) /\ SdOf(n, g)' = SdOf(n, g)
    BY <1>3 DEF Open, Closed, SdOf
  <1>5. \A n \in Maps, g \in Fds : Open(n, g)' /\ SdOf(n, g)'.auth =>
          Open(n, g) /\ SameSession(SdOf(n, g), SdOf(n, g)')
    BY <1>4 DEF SameSession
  <1>6. \A n \in Maps, a \in Accounts \ clash' : id_db'[n][a] # Nil =>
          id_db'[n][a] = id_db[n][a] /\ SameLogin(n, id_db[n][a])
    BY <1>3 DEF SameLogin
  <1>7. QED
    BY <1>1, <1>2, <1>5, <1>6, StepKept
-----------------------------------------------------------------------------
(* The char server's steps. *)
LEMMA EntryWritten ==
  ASSUME SessionInv, CharacterInv, UNCHANGED <<char_dat, clash>>, NEW i \in Ring, NEW e,
         auth_fifo' = [auth_fifo EXCEPT ![i] = e],
         e.delflag = 0 /\ e.account \notin clash /\ e.char # Nil =>
           char_dat[e.pos].char = e.char /\ AccountOf[e.char] = e.account
  PROVE  EntriesTrue'
  <1>1. \A j \in Ring : auth_fifo'[j] = IF j = i THEN e ELSE auth_fifo[j]
    BY DEF SessionInv, TypeOK
  <1>2. QED
    BY <1>1 DEF CharacterInv, EntriesTrue, TrueEntries

LEMMA PlaceInRing ==
  ASSUME SessionInv
  PROVE  auth_fifo_pos % AUTH_FIFO_SIZE \in Ring
  <1>1. AUTH_FIFO_SIZE \in Nat /\ auth_fifo_pos \in Nat
    BY MapSessionAssumption DEF SessionInv, TypeOK
  <1>2. QED
    BY <1>1, RingWraps

LEMMA FoundSlot ==
  ASSUME SessionInv, NEW a, NEW c, SlotsOf(a, c) # {}
  PROVE  /\ First(SlotsOf(a, c)) \in Slots
         /\ char_dat[First(SlotsOf(a, c))].char = c /\ AccountOf[c] = a
  BY FirstIsIn, SlotsAreNat DEF SlotsOf

LEMMA SelectCharKeeps ==
  ASSUME SessionInv, CharacterInv, NEW c \in Chars, SelectChar(c)
  PROVE  CharacterInv'
  <1> DEFINE pos == First(SlotsOf(AccountOf[c], c))
             e   == Entry(AccountOf[c], c, 0, pos)
             i   == auth_fifo_pos % AUTH_FIFO_SIZE
  <1>1. /\ auth_fifo' = [auth_fifo EXCEPT ![i] = e]
        /\ UNCHANGED <<char_dat, links, server, hist>>
    BY DEF SelectChar, Expect
  <1>2. i \in Ring /\ char_dat[pos].char = c
    BY PlaceInRing, FoundSlot DEF SelectChar
  <1>3. e.account = AccountOf[c] /\ e.char = c /\ e.pos = pos
    BY DEF Entry
  <1> HIDE DEF i, e, pos
  <1>4. EntriesTrue'
    BY <1>1, <1>2, <1>3, EntryWritten DEF hist
  <1>5. \A n \in Maps : QuietLink(n)
    BY <1>1, LinksUntouched DEF links
  <1>6. CharsKept
    BY <1>1, SameData DEF hist
  <1>7. /\ UNCHANGED <<sd, id_db>>
        /\ \A n \in Maps, g \in Fds : conn'[n][g].sd = conn[n][g].sd /\ (Open(n, g)' => Open(n, g))
    BY <1>1 DEF server, Open
  <1>8. QED
    BY <1>4, <1>5, <1>6, <1>7, SessionsSame, StepKept DEF CharacterInv

(* The head of a link is taken off. *)
LEMMA HeadIsTrue ==
  ASSUME SessionInv, CharacterInv, NEW m \in Maps
  PROVE  /\ toChar[m] # <<>> => /\ Head(toChar[m]) \in Packet \ Untrue(char_dat, clash)
                                /\ Tail(toChar[m]) \in Seq(Packet)
         /\ toMap[m] # <<>> => /\ Head(toMap[m]) \in Packet \ Untrue(char_dat, clash)
                               /\ Tail(toMap[m]) \in Seq(Packet)
  <1>1. toChar[m] \in Seq(Packet) /\ toMap[m] \in Seq(Packet)
    BY DEF SessionInv, LinksTyped
  <1>2. ~Has(toChar[m], Untrue(char_dat, clash)) /\ ~Has(toMap[m], Untrue(char_dat, clash))
    BY DEF CharacterInv, PacketsTrue
  <1>3. QED
    BY <1>1, <1>2, HeadTyped, HasTail

(* A request is taken off its link and, as p, what is no login is answered. *)
LEMMA AnsweringKeeps ==
  ASSUME SessionInv, NEW m \in Maps, toChar[m] # <<>>,
         toChar' = [toChar EXCEPT ![m] = Tail(@)],
         NEW p \in Packet, p \notin Untrue(char_dat, clash), p.kind \notin {"authok", "authfail"},
         toMap' = [toMap EXCEPT ![m] = Append(@, p)] \/ UNCHANGED toMap
  PROVE  \A n \in Maps : QuietLink(n)
  <1> SUFFICES ASSUME NEW n \in Maps PROVE QuietLink(n)
    OBVIOUS
  <1>1. /\ toChar \in [Maps -> Seq(Packet)] /\ toMap \in [Maps -> Seq(Packet)]
        /\ toChar[n] \in Seq(Packet) /\ toMap[n] \in Seq(Packet)
    BY DEF SessionInv, LinksTyped
  <1>2. toChar'[n] = IF n = m THEN Tail(toChar[n]) ELSE toChar[n]
    BY <1>1
  <1>3. toMap'[n] = toMap[n] \/ toMap'[n] = Append(toMap[n], p)
    BY <1>1
  <1>4. \A T : Fewer(toChar'[n], toChar[n], T)
    BY <1>1, <1>2, FewerPackets
  <1>5. \A T : p \notin T => Fewer(toMap'[n], toMap[n], T)
    BY <1>1, <1>3, FewerPackets
  <1>6. \A a \in Accounts : p \notin Answers(a)
    BY DEF Answers
  <1>7. QED
    BY <1>4, <1>5, <1>6 DEF QuietLink

(* An expected login is answered with the character that was asked for. *)
LEMMA AuthreqAnswer ==
  ASSUME SessionInv, CharacterInv, NEW m \in Maps, NEW msg \in Packet \ Untrue(char_dat, clash),
         char_authreq(m, msg)
  PROVE  /\ \E p \in Packet :
              /\ toMap' = [toMap EXCEPT ![m] = Append(@, p)]
              /\ p.account = msg.account /\ p.kind \in {"authok", "authfail"}
              /\ p.kind = "authok" /\ msg.account \notin clash =>
                   p.status.char = msg.char /\ Owns(char_dat, msg.account, msg.char)
         /\ EntriesTrue' /\ UNCHANGED <<char_dat, clash>>
  <1> DEFINE found == Expected(msg.account, msg.char)
  <1>1. msg.account \in Accounts /\ msg.char \in Chars
    BY DEF Packet, Untrue, char_authreq
  <1>2. UNCHANGED <<char_dat, clash>>
    BY DEF char_authreq, hist
  <1>3. CASE found = {}
    <2> DEFINE p == Msg("authfail", msg.account, Nil, NoStatus)
    <2>1. p \in Packet /\ p.account = msg.account /\ p.kind = "authfail"
      BY <1>1, MsgTyped DEF Kinds, Msg
    <2>2. toMap' = [toMap EXCEPT ![m] = Append(@, p)] /\ UNCHANGED auth_fifo
      BY <1>3 DEF char_authreq
    <2> HIDE DEF p
    <2>3. EntriesTrue'
      BY <1>2, <2>2, DataKept, SameData
    <2>4. QED
      BY <1>2, <2>1, <2>2, <2>3
  <1>4. CASE found # {}
    <2> DEFINE i == First(found)
               e == auth_fifo[i]
               s == char_dat[e.pos]
               p == [Msg("authok", msg.account, Nil, s) EXCEPT !.parted = Parted(s.char)]
    <2>1. i \in Ring /\ e.account = msg.account /\ e.char = msg.char /\ e.delflag = 0
      <3>1. i \in found
        BY <1>4, FirstIsIn DEF Expected, Ring
      <3>2. QED
        BY <3>1 DEF Expected
    <2>2. e.pos \in Slots /\ s \in Status
      BY <2>1 DEF SessionInv, TypeOK
    <2>3. p \in Packet /\ p.account = msg.account /\ p.kind = "authok" /\ p.status = s
      <3>1. Msg("authok", msg.account, Nil, s) \in Packet
        BY <1>1, <2>2, MsgTyped DEF Kinds
      <3>2. Parted(s.char) \in BOOLEAN
        BY DEF Parted
      <3> HIDE DEF s
      <3>3. QED
        BY <3>1, <3>2 DEF Packet, Msg
    <2>4. /\ toMap' = [toMap EXCEPT ![m] = Append(@, p)]
          /\ auth_fifo' = [auth_fifo EXCEPT ![i].delflag = 1]
      BY <1>4 DEF char_authreq
    <2>5. msg.account \notin clash => s.char = msg.char /\ AccountOf[msg.char] = msg.account
      BY <1>1, <2>1, MapSessionAssumption DEF CharacterInv, EntriesTrue, TrueEntries
    <2>6. msg.account \notin clash => s.char = msg.char /\ Owns(char_dat, msg.account, msg.char)
      BY <2>2, <2>5 DEF Owns
    <2>7. EntriesTrue'
      <3> DEFINE used == [e EXCEPT !.delflag = 1]
      <3>1. auth_fifo' = [auth_fifo EXCEPT ![i] = used]
        BY <2>4
      <3>2. used.delflag # 0
        BY <2>1 DEF SessionInv, TypeOK
      <3>3. i \in Ring
        BY <2>1
      <3> HIDE DEF used, i
      <3>4. QED
        BY <1>2, <3>1, <3>2, <3>3, EntryWritten
    <2> HIDE DEF p, s
    <2>8. QED
      BY <1>2, <2>3, <2>4, <2>6, <2>7
  <1>5. QED
    BY <1>3, <1>4

LEMMA AuthreqKeeps ==
  ASSUME SessionInv, CharacterInv, NEW m \in Maps, FromMap(m), char_authreq(m, Head(toChar[m]))
  PROVE  CharacterInv'
  <1> DEFINE msg == Head(toChar[m])
             a   == msg.account
  <1>1. toChar[m] # <<>> /\ toChar' = [toChar EXCEPT ![m] = Tail(@)] /\ UNCHANGED server
    BY DEF FromMap
  <1>2. msg \in Packet \ Untrue(char_dat, clash)
    BY <1>1, HeadIsTrue
  <1>3. msg.kind = "authreq" /\ a \in Accounts
    BY <1>2 DEF char_authreq, Packet
  <1>4. PICK p \in Packet :
          /\ toMap' = [toMap EXCEPT ![m] = Append(@, p)]
          /\ p.account = a /\ p.kind \in {"authok", "authfail"}
          /\ p.kind = "authok" /\ a \notin clash =>
               p.status.char = msg.char /\ Owns(char_dat, a, msg.char)
    BY <1>2, AuthreqAnswer
  <1>5. EntriesTrue' /\ UNCHANGED <<char_dat, clash>>
    BY <1>2, AuthreqAnswer
  <1> HIDE DEF msg
  <1>6. CharsKept
    BY <1>5, SameData
  <1>7. p \notin Untrue(char_dat, clash)
    BY <1>4 DEF Untrue
  <1>8. /\ toChar \in [Maps -> Seq(Packet)] /\ toMap \in [Maps -> Seq(Packet)]
        /\ \A n \in Maps : toChar[n] \in Seq(Packet) /\ toMap[n] \in Seq(Packet)
    BY DEF SessionInv, LinksTyped
  <1>9. /\ toChar'[m] = Tail(toChar[m]) /\ toMap'[m] = Append(toMap[m], p)
        /\ \A n \in Maps : n # m => toChar'[n] = toChar[n] /\ toMap'[n] = toMap[n]
    BY <1>1, <1>4, <1>8
  <1>10. PacketsTrue'
    <2>1. ASSUME NEW n \in Maps
          PROVE  /\ Has(toChar'[n], Untrue(char_dat, clash)) => Has(toChar[n], Untrue(char_dat, clash))
                 /\ Has(toMap'[n], Untrue(char_dat, clash)) => Has(toMap[n], Untrue(char_dat, clash))
      <3>1. CASE n = m
        <4>1. Fewer(toChar'[n], toChar[n], Untrue(char_dat, clash))
          BY <1>1, <1>8, <1>9, <3>1, FewerPackets
        <4>2. Fewer(toMap'[n], toMap[n], Untrue(char_dat, clash))
          BY <1>7, <1>8, <1>9, <3>1, FewerPackets
        <4>3. QED
          BY <4>1, <4>2 DEF Fewer
      <3>2. CASE n # m
        BY <1>9, <3>2
      <3>3. QED
        BY <3>1, <3>2
    <2>2. QED
      BY <1>6, <2>1, PacketsKept
  <1>11. /\ UNCHANGED <<sd, id_db>>
         /\ \A n \in Maps, g \in Fds : conn'[n][g].sd = conn[n][g].sd /\ (Open(n, g)' => Open(n, g))
    BY <1>1 DEF server, Open
  <1>12. SessionsTrue'
    BY <1>6, <1>11, SessionsSame, SessionsStay
  <1>13. ASSUME NEW n \in Maps, NEW b \in Accounts, b \notin clash, n # m \/ b # a
         PROVE  /\ Waits(toChar'[n], toMap'[n], b)
                /\ Fitted(toChar'[n], toMap'[n], b, id_db'[n][b], sd'[n])
    <2>1. Fewer(toChar'[n], toChar[n], Asks(b))
      BY <1>1, <1>8, <1>9, FewerPackets
    <2>2. Fewer(toMap'[n], toMap[n], Answers(b))
      <3>1. CASE n = m
        <4>1. p \notin Answers(b)
          BY <1>4, <1>13, <3>1 DEF Answers
        <4>2. QED
          BY <1>8, <1>9, <3>1, <4>1, FewerPackets
      <3>2. CASE n # m
        BY <1>8, <1>9, <3>2, FewerPackets
      <3>3. QED
        BY <3>1, <3>2
    <2>3. QED
      BY <1>11, <1>13, <2>1, <2>2, LoginKept
  <1>14. ASSUME a \notin clash
         PROVE  /\ Waits(toChar'[m], toMap'[m], a)
                /\ Fitted(toChar'[m], toMap'[m], a, id_db'[m][a], sd'[m])
    <2>1. Waits(toChar[m], toMap[m], a) /\ Fitted(toChar[m], toMap[m], a, id_db[m][a], sd[m])
      BY <1>3, <1>14 DEF CharacterInv, OneLogin, LoginFits
    <2>2. msg \in Asks(a) /\ msg = Head(toChar[m])
      BY <1>2, <1>3 DEF Asks, msg
    <2>3. Has(toChar[m], Asks(a)) /\ ~Has(Tail(toChar[m]), Asks(a)) /\ Once(Tail(toChar[m]), Asks(a))
      BY <1>1, <1>8, <2>1, <2>2, HasTail DEF Waits
    <2>4. ~Has(toMap[m], Answers(a))
      BY <2>1, <2>3 DEF Waits
    <2>5. Once(Append(toMap[m], p), Answers(a))
      BY <1>8, <2>4, HasAppend
    <2>6. ASSUME NEW c, Fits(toChar[m], toMap[m], a, c)
          PROVE  Fits(Tail(toChar[m]), Append(toMap[m], p), a, c)
      <3>1. msg.char = c
        <4>1. msg \notin {q \in Asks(a) : q.char # c}
          BY <1>1, <1>8, <2>2, <2>6, HasTail DEF Fits
        <4>2. QED
          BY <2>2, <4>1
      <3>2. p \notin {q \in Answers(a) : q.kind = "authok" /\ q.status.char # c}
        BY <1>4, <1>14, <3>1
      <3>3. QED
        BY <1>1, <1>8, <2>6, <3>2, HasTail, HasAppend DEF Fits
    <2>7. QED
      BY <1>9, <1>11, <2>1, <2>3, <2>5, <2>6 DEF Waits, Fitted
  <1>15. OneLogin' /\ LoginFits'
    BY <1>5, <1>13, <1>14 DEF OneLogin, LoginFits
  <1>16. QED
    BY <1>5, <1>10, <1>12, <1>15 DEF CharacterInv
(* What a map server saves is stored where that character is. *)
LEMMA SaveKeepsChars ==
  ASSUME SessionInv, NEW m \in Maps, NEW msg \in Packet \ Untrue(char_dat, clash), char_save(m, msg)
  PROVE  CharsKept /\ UNCHANGED <<auth_fifo, toMap, clash>>
  <1> DEFINE found == SlotsOf(msg.account, msg.char)
             i == First(found)
  <1>1. UNCHANGED <<auth_fifo, toMap, clash>> /\ msg.kind = "save"
    BY DEF char_save, hist
  <1>2. CASE found = {}
    <2>1. UNCHANGED char_dat
      BY <1>2 DEF char_save
    <2>2. QED
      BY <1>1, <2>1, SameData
  <1>3. CASE found # {}
    <2>1. i \in Slots /\ char_dat[i].char = msg.char /\ AccountOf[msg.char] = msg.account
      BY <1>3, FoundSlot
    <2>2. msg.account \notin clash => msg.status.char = msg.char
      BY <1>1 DEF Untrue
    <2>3. char_dat' = [char_dat EXCEPT ![i] = msg.status]
      BY <1>3 DEF char_save
    <2> HIDE DEF i
    <2>4. \A j \in Slots : char_dat'[j] = IF j = i THEN msg.status ELSE char_dat[j]
      BY <2>3 DEF SessionInv, TypeOK
    <2>5. QED
      BY <1>1, <2>1, <2>2, <2>4 DEF CharsKept
  <1>4. QED
    BY <1>2, <1>3

LEMMA FromMapKeeps ==
  ASSUME SessionInv, CharacterInv, NEW m \in Maps, FromMap(m)
  PROVE  CharacterInv'
  <1> DEFINE msg == Head(toChar[m])
             i   == auth_fifo_pos % AUTH_FIFO_SIZE
  <1>1. toChar[m] # <<>> /\ toChar' = [toChar EXCEPT ![m] = Tail(@)] /\ UNCHANGED server
        /\ (char_authreq(m, msg) \/ char_save(m, msg)
            \/ char_charselectreq(m, msg) \/ char_changemapserver(m, msg))
    BY DEF FromMap
  <1>2. msg \in Packet \ Untrue(char_dat, clash) /\ msg.account \in Accounts /\ i \in Ring
    <2>1. msg \in Packet \ Untrue(char_dat, clash)
      BY <1>1, HeadIsTrue
    <2>2. QED
      BY <2>1, PlaceInRing DEF Packet
  <1> HIDE DEF msg
  <1>3. /\ UNCHANGED <<sd, id_db>>
        /\ \A n \in Maps, g \in Fds : conn'[n][g].sd = conn[n][g].sd /\ (Open(n, g)' => Open(n, g))
    BY <1>1 DEF server, Open
  <1>4. ASSUME NEW kind \in {"authfail", "charselectok", "changeok", "changefail"},
               NEW c \in Chars \cup {Nil}
        PROVE  LET p == Msg(kind, msg.account, c, NoStatus) IN
               p \in Packet \ Untrue(char_dat, clash) /\ p.kind = kind
    <2>1. Msg(kind, msg.account, c, NoStatus) \in Packet
      BY <1>2, MsgTyped DEF Kinds
    <2>2. QED
      BY <2>1 DEF Untrue, Msg
  <1>5. ASSUME \A n \in Maps : QuietLink(n), CharsKept, EntriesTrue' \/ UNCHANGED auth_fifo
        PROVE  CharacterInv'
    BY <1>3, <1>5, SessionsSame, StepKept DEF CharacterInv
  <1>6. CASE char_authreq(m, msg)
    BY <1>6, AuthreqKeeps DEF msg
  <1>7. CASE char_save(m, msg)
    <2>1. CharsKept /\ UNCHANGED <<auth_fifo, toMap>>
      BY <1>2, <1>7, SaveKeepsChars
    <2> DEFINE p == Msg("changeok", msg.account, Nil, NoStatus)
    <2>2. p \in Packet \ Untrue(char_dat, clash) /\ p.kind = "changeok"
      BY <1>4
    <2> HIDE DEF p
    <2>3. \A n \in Maps : QuietLink(n)
      BY <1>1, <2>1, <2>2, AnsweringKeeps
    <2>4. QED
      BY <1>5, <2>1, <2>3
  <1>8. CASE char_charselectreq(m, msg)
    <2> DEFINE p == Msg("charselectok", msg.account, Nil, NoStatus)
               e == Entry(msg.account, Nil, 2, 1)
    <2>1. p \in Packet \ Untrue(char_dat, clash) /\ p.kind = "charselectok"
      BY <1>4
    <2>2. /\ auth_fifo' = [auth_fifo EXCEPT ![i] = e] /\ UNCHANGED <<char_dat, clash>>
          /\ toMap' = [toMap EXCEPT ![m] = Append(@, p)] /\ e.delflag # 0
      BY <1>8 DEF char_charselectreq, Expect, hist, Entry
    <2> HIDE DEF p, e, i
    <2>3. EntriesTrue'
      BY <1>2, <2>2, EntryWritten
    <2>4. \A n \in Maps : QuietLink(n)
      BY <1>1, <2>1, <2>2, AnsweringKeeps
    <2>5. QED
      BY <1>5, <2>2, <2>3, <2>4, SameData
  <1>9. CASE char_changemapserver(m, msg)
    <2> DEFINE found == SlotsOf(msg.account, msg.char)
    <2>1. msg.char \in Chars /\ UNCHANGED <<char_dat, clash>>
      BY <1>2, <1>9 DEF char_changemapserver, Packet
    <2>2. msg.account \notin clash => found # {}
      BY <1>2, <1>9 DEF char_changemapserver, Untrue, Owns, SlotsOf
    <2>3. CASE found = {}
      <3> DEFINE p == Msg("changefail", msg.account, msg.char, NoStatus)
                 e == Entry(msg.account, msg.char, 0, auth_fifo[i].pos)
      <3>1. p \in Packet \ Untrue(char_dat, clash) /\ p.kind = "changefail"
        BY <1>4, <2>1
      <3>2. /\ auth_fifo' = [auth_fifo EXCEPT ![i] = e]
            /\ toMap' = [toMap EXCEPT ![m] = Append(@, p)]
        BY <1>9, <2>3 DEF char_changemapserver
      <3>3. e.account \in clash
        BY <2>2, <2>3 DEF Entry
      <3> HIDE DEF p, e, i, found
      <3>4. EntriesTrue'
        BY <1>2, <2>1, <3>2, <3>3, EntryWritten
      <3>5. \A n \in Maps : QuietLink(n)
        BY <1>1, <3>1, <3>2, AnsweringKeeps
      <3>6. QED
        BY <1>5, <2>1, <3>4, <3>5, SameData
    <2>4. CASE found # {}
      <3> DEFINE pos == First(found)
                 p == Msg("changeok", msg.account, msg.char, NoStatus)
                 e == Entry(msg.account, msg.char, 0, pos)
      <3>1. p \in Packet \ Untrue(char_dat, clash) /\ p.kind = "changeok"
        BY <1>4, <2>1
      <3>2. /\ auth_fifo' = [auth_fifo EXCEPT ![i] = e]
            /\ toMap' = [toMap EXCEPT ![m] = Append(@, p)]
        BY <1>9, <2>4 DEF char_changemapserver, Expect
      <3>3. char_dat[pos].char = msg.char /\ AccountOf[msg.char] = msg.account
        BY <2>4, FoundSlot
      <3>4. e.account = msg.account /\ e.char = msg.char /\ e.pos = pos
        BY DEF Entry
      <3> HIDE DEF p, e, i, found, pos
      <3>5. EntriesTrue'
        BY <1>2, <2>1, <3>2, <3>3, <3>4, EntryWritten
      <3>6. \A n \in Maps : QuietLink(n)
        BY <1>1, <3>1, <3>2, AnsweringKeeps
      <3>7. QED
        BY <1>5, <2>1, <3>5, <3>6, SameData
    <2>5. QED
      BY <2>3, <2>4
  <1>10. QED
    BY <1>1, <1>6, <1>7, <1>8, <1>9
-----------------------------------------------------------------------------
(* A client connects. *)
LEMMA ConnectMemory ==
  ASSUME SessionInv, NEW m \in Maps, NEW f \in Fds, NEW c \in Chars, NEW k \in Chunks,
         Connect(m, f, c, k), NEW old, old = id_db[m][AccountOf[c]]
  PROVE  /\ \A n \in Maps, j \in Chunks : n # m \/ j # k =>
              /\ sd'[n][j].account = sd[n][j].account /\ sd'[n][j].auth = sd[n][j].auth
              /\ sd'[n][j].char_id = sd[n][j].char_id /\ sd'[n][j].status = sd[n][j].status
              /\ sd'[n][j].waiting = sd[n][j].waiting
         /\ ~sd'[m][k].auth /\ sd'[m][k].char_id = c
         /\ \A n \in Maps, j \in Chunks : n # m \/ j \notin {k, old} =>
              sd'[n][j].new_fd = sd[n][j].new_fd
         /\ old # Nil => sd'[m][old].new_fd # Nil
  <1> DEFINE a      == AccountOf[c]
             fresh  == [FreeSd EXCEPT !.account = a, !.char_id = c, !.fd = f]
             placed == [sd EXCEPT ![m][k] = fresh]
  <1>1. /\ TypeOK /\ a \in Accounts /\ old \in Chunks \cup {Nil} /\ sd \in Memory /\ f # Nil
    BY MapSessionAssumption, MemoryTyped DEF SessionInv, TypeOK
  <1>2. sd' = IF old # Nil THEN [placed EXCEPT ![m][old].new_fd = f] ELSE placed
    BY DEF Connect
  <1> HIDE DEF a
  <1>3. fresh \in Session /\ fresh.char_id = c /\ ~fresh.auth
    BY <1>1 DEF FreeSd, Session
  <1> HIDE DEF fresh
  <1>4. /\ placed \in Memory /\ placed[m][k] = fresh
        /\ \A n \in Maps, j \in Chunks : n # m \/ j # k => placed[n][j] = sd[n][j]
    BY <1>1, <1>3 DEF Memory
  <1> HIDE DEF placed
  <1>5. CASE old = Nil
    BY <1>2, <1>3, <1>4, <1>5
  <1>6. CASE old # Nil
    <2> DEFINE x    == placed[m][old]
               told == [x EXCEPT !.new_fd = f]
    <2>1. x \in Session /\ old \in Chunks
      BY <1>1, <1>4, <1>6 DEF Memory
    <2>2. /\ told.new_fd = f /\ told.account = x.account /\ told.auth = x.auth
          /\ told.char_id = x.char_id /\ told.status = x.status /\ told.waiting = x.waiting
      BY <2>1 DEF Session
    <2>3. sd' = [placed EXCEPT ![m][old] = told]
      BY <1>2, <1>6
    <2> HIDE DEF told
    <2>4. \A n \in Maps, j \in Chunks : sd'[n][j] = IF n = m /\ j = old THEN told ELSE placed[n][j]
      BY <1>4, <2>1, <2>3 DEF Memory
    <2>5. /\ \A n \in Maps, j \in Chunks :
                /\ sd'[n][j].account = placed[n][j].account /\ sd'[n][j].auth = placed[n][j].auth
                /\ sd'[n][j].char_id = placed[n][j].char_id
                /\ sd'[n][j].status = placed[n][j].status
                /\ sd'[n][j].waiting = placed[n][j].waiting
          /\ \A n \in Maps, j \in Chunks : n # m \/ j # old => sd'[n][j] = placed[n][j]
          /\ sd'[m][old].new_fd = f
      BY <2>1, <2>2, <2>4
    <2>6. QED
      BY <1>1, <1>3, <1>4, <1>6, <2>5
  <1>7. QED
    BY <1>5, <1>6

LEMMA ConnectKeeps ==
  ASSUME SessionInv, CharacterInv, NEW m \in Maps, NEW f \in Fds, NEW c \in Chars, NEW k \in Chunks,
         Connect(m, f, c, k)
  PROVE  CharacterInv'
  <1> DEFINE a   == AccountOf[c]
             old == id_db[m][a]
             p   == Msg("authreq", a, c, NoStatus)
  <1>1. a \in Accounts /\ old \in Chunks \cup {Nil} /\ Nil \notin Chunks /\ Nil \notin Fds
    BY MapSessionAssumption DEF SessionInv, TypeOK
  <1>2. /\ conn' = [conn EXCEPT ![m][f] = [st |-> "open", sd |-> k]]
        /\ ~Open(m, f) /\ ~InUse(m, k)
        /\ id_db' = IF old # Nil THEN id_db ELSE [id_db EXCEPT ![m][a] = k]
        /\ toChar' = Sent(m, <<p>>) /\ UNCHANGED <<chars, toMap>>
        /\ clash' = clash \cup PointedTo(m, k)
             \cup {x \in {a} : Pending(m, a) \/ PointedTo(m, k) # {}
                         \/ (old # Nil /\ ~(InUse(m, old) /\ sd[m][old].auth))}
    BY DEF Connect
  <1>3. /\ \A n \in Maps, j \in Chunks : n # m \/ j # k =>
              /\ sd'[n][j].account = sd[n][j].account /\ sd'[n][j].auth = sd[n][j].auth
              /\ sd'[n][j].char_id = sd[n][j].char_id /\ sd'[n][j].status = sd[n][j].status
        /\ ~sd'[m][k].auth /\ sd'[m][k].char_id = c
        /\ \A n \in Maps, j \in Chunks : n # m \/ j \notin {k, old} =>
              sd'[n][j].new_fd = sd[n][j].new_fd
        /\ old # Nil => sd'[m][old].new_fd # Nil
    BY ConnectMemory
  <1>4. p \in Packet \ Untrue(char_dat, clash) /\ p.kind = "authreq" /\ p.account = a /\ p.char = c
    <2>1. p \in Packet
      BY <1>1, MsgTyped DEF Kinds
    <2>2. QED
      BY <2>1 DEF Msg, Untrue
  <1> HIDE DEF a, old, p
  <1>5. /\ toChar \in [Maps -> Seq(Packet)] /\ toMap \in [Maps -> Seq(Packet)]
        /\ \A n \in Maps : toChar[n] \in Seq(Packet) /\ toMap[n] \in Seq(Packet)
    BY DEF SessionInv, LinksTyped
  <1>6. \A n \in Maps : toChar'[n] = toChar[n] \/ (n = m /\ toChar'[n] = toChar[n] \o <<p>>)
    BY <1>2, <1>5 DEF Sent
  <1>7. \A n \in Maps : \A S : n # m \/ p \notin S => Fewer(toChar'[n], toChar[n], S)
    BY <1>4, <1>5, <1>6, FewerPackets, OneMessage
  <1>8. CharsKept /\ UNCHANGED auth_fifo
    BY <1>2, SameData DEF chars
  <1>9. EntriesTrue'
    BY <1>8, DataKept
  <1>10. PacketsTrue'
    <2>1. ASSUME NEW n \in Maps
          PROVE  /\ Has(toChar'[n], Untrue(char_dat, clash)) => Has(toChar[n], Untrue(char_dat, clash))
                 /\ Has(toMap'[n], Untrue(char_dat, clash)) => Has(toMap[n], Untrue(char_dat, clash))
      BY <1>2, <1>4, <1>7 DEF Fewer
    <2>2. QED
      BY <1>8, <2>1, PacketsKept
  <1>11. SessionsTrue'
    <2>1. /\ conn'[m][f].sd = k
          /\ \A n \in Maps, g \in Fds : n # m \/ g # f => conn'[n][g] = conn[n][g]
          /\ \A g \in Fds : conn[m][g].sd # k
      BY <1>2 DEF SessionInv, TypeOK, InUse
    <2>2. ASSUME NEW n \in Maps, NEW g \in Fds, Open(n, g)', SdOf(n, g)'.auth
          PROVE  Open(n, g) /\ SameSession(SdOf(n, g), SdOf(n, g)')
      <3>1. n # m \/ g # f
        BY <1>3, <2>1, <2>2 DEF SdOf
      <3>2. Open(n, g) /\ conn'[n][g].sd = conn[n][g].sd /\ conn[n][g].sd \in Chunks
            /\ (n = m => conn[n][g].sd # k)
        BY <2>1, <2>2, <3>1 DEF Open, SessionInv, ChunksInUse
      <3>3. QED
        BY <1>3, <2>2, <3>2 DEF SdOf, SameSession
    <2>3. QED
      BY <1>8, <2>2, SessionsStay
  <1>12. ASSUME NEW n \in Maps, NEW b \in Accounts, b \notin clash', n # m \/ b # a
         PROVE  /\ Waits(toChar'[n], toMap'[n], b)
                /\ Fitted(toChar'[n], toMap'[n], b, id_db'[n][b], sd'[n])
    <2>1. b \notin clash /\ id_db'[n][b] = id_db[n][b] /\ id_db[n][b] \in Chunks \cup {Nil}
      BY <1>2, <1>12 DEF SessionInv, TypeOK
    <2>2. n = m => p \notin Asks(b)
      BY <1>4, <1>12 DEF Asks
    <2>3. Fewer(toChar'[n], toChar[n], Asks(b)) /\ Fewer(toMap'[n], toMap[n], Answers(b))
      BY <1>2, <1>5, <1>7, <2>2, FewerPackets
    <2>4. n = m => id_db[n][b] # k
      BY <1>2, <1>12 DEF PointedTo
    <2>5. ASSUME id_db[n][b] # Nil
          PROVE  \/ sd'[n][id_db[n][b]].new_fd # Nil
                 \/ /\ sd'[n][id_db[n][b]].new_fd = sd[n][id_db[n][b]].new_fd
                    /\ sd'[n][id_db[n][b]].char_id = sd[n][id_db[n][b]].char_id
      BY <1>3, <2>1, <2>4, <2>5
    <2>6. QED
      BY <2>1, <2>3, <2>5, LoginKept
  <1>13. ASSUME a \notin clash'
         PROVE  /\ Waits(toChar'[m], toMap'[m], a)
                /\ Fitted(toChar'[m], toMap'[m], a, id_db'[m][a], sd'[m])
    <2>1. ~Has(toChar[m], Asks(a)) /\ ~Has(toMap[m], Answers(a))
      <3>1. ~Pending(m, a)
        BY <1>2, <1>13
      <3>2. QED
        BY <3>1 DEF Pending, Has, Asks, Answers
    <2>2. toMap'[m] = toMap[m]
      BY <1>2
    <2>3. CASE toChar'[m] = toChar[m]
      BY <2>1, <2>2, <2>3 DEF Waits, Fitted, Fits, Has, Once
    <2>4. CASE toChar'[m] = toChar[m] \o <<p>>
      <3>1. <<p>> \in Seq(Packet) /\ DOMAIN <<p>> = {1} /\ <<p>>[1] = p
        BY <1>4
      <3>2. toChar'[m] = Append(toChar[m], p)
        BY <1>4, <1>5, <2>4
      <3>3. Once(toChar'[m], Asks(a))
        BY <1>4, <1>5, <2>1, <3>2, HasAppend
      <3>4. Fits(toChar'[m], toMap'[m], a, c)
        <4> DEFINE S == {q \in Asks(a) : q.char # c}
        <4>1. p \notin S /\ ~Has(toChar[m], S)
          BY <1>4, <2>1 DEF Has
        <4>2. ~Has(toChar'[m], S)
          BY <1>4, <1>5, <3>2, <4>1, HasAppend
        <4>3. QED
          BY <2>1, <2>2, <4>2 DEF Fits, Has
      <3>5. Fitted(toChar'[m], toMap'[m], a, id_db'[m][a], sd'[m])
        <4>1. CASE old = Nil
          <5>1. id_db'[m][a] = k
            BY <1>1, <1>2, <4>1 DEF SessionInv, TypeOK
          <5>2. QED
            BY <1>3, <3>4, <5>1 DEF Fitted
        <4>2. CASE old # Nil
          <5>1. id_db'[m][a] = old
            BY <1>2, <4>2 DEF old
          <5>2. QED
            BY <1>3, <4>2, <5>1 DEF Fitted
        <4>3. QED
          BY <4>1, <4>2
      <3>6. QED
        BY <2>1, <2>2, <3>3, <3>5 DEF Waits, Once, Has
    <2>5. QED
      BY <1>6, <2>3, <2>4
  <1>14. OneLogin' /\ LoginFits'
    BY <1>12, <1>13 DEF OneLogin, LoginFits
  <1>15. QED
    BY <1>9, <1>10, <1>11, <1>14 DEF CharacterInv
-----------------------------------------------------------------------------
(* The char server's answers are taken off their link. *)
LEMMA TakingKeeps ==
  ASSUME SessionInv, NEW m \in Maps, toMap[m] # <<>>,
         toMap' = [toMap EXCEPT ![m] = Tail(@)], UNCHANGED toChar
  PROVE  \A n \in Maps : QuietLink(n)
  <1>1. /\ toChar \in [Maps -> Seq(Packet)] /\ toMap \in [Maps -> Seq(Packet)]
        /\ \A n \in Maps : toChar[n] \in Seq(Packet) /\ toMap[n] \in Seq(Packet)
    BY DEF SessionInv, LinksTyped
  <1>2. \A n \in Maps : toMap'[n] = toMap[n] \/ (n = m /\ toMap'[n] = Tail(toMap[n]))
    BY <1>1
  <1>3. QED
    BY <1>1, <1>2, FewerPackets DEF QuietLink

(* Two accounts share an entry of id_db only if one of them has clashed. *)
LEMMA OwnPointer ==
  ASSUME SessionInv, NEW m \in Maps, NEW a \in Accounts, NEW b \in Accounts, b \notin clash,
         id_db[m][a] # Nil, id_db[m][b] = id_db[m][a]
  PROVE  a = b
  BY DEF SessionInv, PointersTrue

LEMMA AuthokKeeps ==
  ASSUME SessionInv, CharacterInv, NEW m \in Maps, toMap[m] # <<>>, pc_authok(m, Head(toMap[m])),
         toMap' = [toMap EXCEPT ![m] = Tail(@)],
         UNCHANGED <<chars, toChar, conn, id_db, clash>>
  PROVE  CharacterInv'
  <1> DEFINE msg == Head(toMap[m])
             a   == msg.account
             k   == id_db[m][a]
             Write(s) == /\ s.account = sd[m][k].account /\ s.char_id = sd[m][k].char_id
                         /\ s.new_fd = sd[m][k].new_fd /\ s.status = msg.status
                         /\ sd' = Put(sd, m, k, s)
  <1>1. msg \in Packet \ Untrue(char_dat, clash) /\ msg.kind = "authok"
    BY HeadIsTrue DEF pc_authok
  <1>2. a \in Accounts /\ msg.status \in Status /\ k \in Chunks \cup {Nil}
    BY <1>1 DEF Packet, SessionInv, TypeOK
  <1>3. \A n \in Maps : QuietLink(n)
    BY TakingKeeps
  <1>4. CharsKept /\ UNCHANGED auth_fifo
    BY SameData DEF chars
  <1>5. CASE UNCHANGED sd
    BY <1>3, <1>4, <1>5, SessionsSame, StepKept DEF Open
  <1>6. ASSUME k # Nil, ~DoubleLogin(m, k), NEW s \in Session, Write(s)
        PROVE  CharacterInv'
    <2>1. k \in Chunks /\ sd \in Memory /\ sd[m][k].new_fd = Nil
      BY <1>2, <1>6, MemoryTyped DEF SessionInv, DoubleLogin
    <2>2. /\ sd'[m][k] = s
          /\ \A n \in Maps, j \in Chunks : n # m \/ j # k => sd'[n][j] = sd[n][j]
      BY <1>6, <2>1 DEF Put, Memory
    <2>3. a \notin clash =>
            msg.status.char = sd[m][k].char_id /\ Owns(char_dat, a, msg.status.char)
      <3>1. SUFFICES ASSUME a \notin clash
                     PROVE  /\ msg.status.char = sd[m][k].char_id
                            /\ Owns(char_dat, a, msg.status.char)
        OBVIOUS
      <3>2. Owns(char_dat, a, msg.status.char)
        BY <1>1, <3>1 DEF Untrue
      <3>3. Fits(toChar[m], toMap[m], a, sd[m][k].char_id)
        BY <1>2, <1>6, <2>1, <3>1 DEF CharacterInv, LoginFits, Fitted
      <3> DEFINE S == {p \in Answers(a) : p.kind = "authok" /\ p.status.char # sd[m][k].char_id}
      <3>4. msg \in Answers(a)
        BY <1>1 DEF Answers
      <3>5. toMap[m] \in Seq(Packet) /\ ~Has(toMap[m], S)
        BY <3>3 DEF Fits, SessionInv, LinksTyped
      <3>6. msg \notin S
        BY <3>5, HasTail
      <3> HIDE DEF msg
      <3>7. QED
        BY <1>1, <3>2, <3>4, <3>6
    <2> HIDE DEF msg, k, a
    <2>4. SessionsTrue'
      <3>1. ASSUME NEW n \in Maps, NEW g \in Fds, Open(n, g)', SdOf(n, g)'.auth,
                   SdOf(n, g)'.account \notin clash'
            PROVE  /\ SdOf(n, g)'.status.char = SdOf(n, g)'.char_id
                   /\ Owns(char_dat', SdOf(n, g)'.account, SdOf(n, g)'.char_id)
        <4>1. Open(n, g) /\ conn[n][g].sd \in Chunks /\ conn'[n][g].sd = conn[n][g].sd
          BY <3>1 DEF Open, SessionInv, ChunksInUse
        <4>2. CASE n = m /\ conn[n][g].sd = k
          <5>1. SdOf(n, g)' = s /\ sd[m][k].account \notin clash
            BY <1>6, <2>2, <3>1, <4>1, <4>2 DEF SdOf
          <5>2. InUse(m, k)
            BY <4>2 DEF InUse
          <5>3. sd[m][k].account = a
            BY <1>2, <1>6, <5>1, <5>2 DEF SessionInv, PointersTrue, k
          <5>4. QED
            BY <1>6, <2>3, <5>1, <5>3 DEF chars
        <4>3. CASE n # m \/ conn[n][g].sd # k
          <5>1. SdOf(n, g)' = SdOf(n, g)
            BY <2>2, <4>1, <4>3 DEF SdOf
          <5>2. QED
            BY <3>1, <4>1, <5>1 DEF CharacterInv, SessionsTrue, chars
        <4>4. QED
          BY <4>2, <4>3
      <3>2. QED
        BY <3>1 DEF SessionsTrue
    <2>5. \A n \in Maps, b \in Accounts : id_db[n][b] # Nil => SameLogin(n, id_db[n][b])
      <3>1. \A n \in Maps, b \in Accounts : id_db[n][b] # Nil => id_db[n][b] \in Chunks
        BY DEF SessionInv, TypeOK
      <3>2. \A n \in Maps, j \in Chunks : SameLogin(n, j)
        BY <1>6, <2>2 DEF SameLogin
      <3>3. QED
        BY <3>1, <3>2
    <2>6. PacketsTrue' /\ OneLogin' /\ LoginFits'
      BY <1>3, <1>4, <2>5, LinksKept DEF OneLogin, LoginFits
    <2>7. EntriesTrue'
      BY <1>4, DataKept
    <2>8. QED
      BY <2>4, <2>6, <2>7 DEF CharacterInv
  <1>7. CASE k # Nil /\ ~DoubleLogin(m, k)
    <2> DEFINE x   == sd[m][k]
               in  == LoggedInAs(x, msg.status)
               out == [x EXCEPT !.status = msg.status]
    <2>1. k \in Chunks /\ sd \in Memory /\ x \in Session
      BY <1>2, <1>7, MemoryTyped DEF SessionInv, Memory
    <2>2. /\ in \in Session /\ in.account = x.account /\ in.char_id = x.char_id
          /\ in.new_fd = x.new_fd /\ in.status = msg.status
      BY <1>2, <2>1 DEF Session, LoggedInAs
    <2>3. /\ out \in Session /\ out.account = x.account /\ out.char_id = x.char_id
          /\ out.new_fd = x.new_fd /\ out.status = msg.status
      BY <1>2, <2>1 DEF Session
    <2>4. sd' = Put(sd, m, k, in) \/ sd' = Put(sd, m, k, out)
      <3>1. Login(sd, m, k, msg.status) = Put(sd, m, k, in)
        BY <1>2, <2>1, LoggedIn
      <3>2. [sd EXCEPT ![m][k].status = msg.status] = [sd EXCEPT ![m][k] = out]
        OBVIOUS
      <3>3. \/ sd' = Login(sd, m, k, msg.status)
            \/ sd' = [sd EXCEPT ![m][k].status = msg.status]
        BY <1>7, Zenon DEF pc_authok, Login
      <3> HIDE DEF in, out
      <3>4. QED
        BY <3>1, <3>2, <3>3, Zenon DEF Put
    <2> HIDE DEF in, out, k, a, msg
    <2>5. QED
      BY <1>6, <1>7, <2>2, <2>3, <2>4
  <1>8. QED
    BY <1>5, <1>7 DEF pc_authok

LEMMA AuthfailKeeps ==
  ASSUME SessionInv, CharacterInv, NEW m \in Maps, toMap[m] # <<>>, pc_authfail(m, Head(toMap[m])),
         toMap' = [toMap EXCEPT ![m] = Tail(@)],
         UNCHANGED <<chars, toChar, conn, id_db, clash>>
  PROVE  CharacterInv'
  <1> DEFINE msg == Head(toMap[m])
             a   == msg.account
             k   == id_db[m][a]
  <1>1. msg \in Packet /\ msg.kind = "authfail" /\ a \in Accounts /\ k \in Chunks \cup {Nil}
    <2>1. msg \in Packet /\ msg.kind = "authfail"
      BY HeadIsTrue DEF pc_authfail
    <2>2. QED
      BY <2>1 DEF Packet, SessionInv, TypeOK
  <1>2. (\A n \in Maps : QuietLink(n)) /\ CharsKept /\ UNCHANGED auth_fifo
    BY TakingKeeps, SameData DEF chars
  <1>3. CASE k = Nil
    <2>1. UNCHANGED sd
      BY <1>3 DEF pc_authfail
    <2>2. QED
      BY <1>2, <2>1, SessionsSame, StepKept DEF Open
  <1>4. CASE k # Nil
    <2> DEFINE s == [sd[m][k] EXCEPT !.new_fd = Nil]
    <2>1. k \in Chunks /\ sd \in Memory /\ sd[m][k] \in Session
      BY <1>1, <1>4, MemoryTyped DEF SessionInv, Memory
    <2>2. /\ s.account = sd[m][k].account /\ s.char_id = sd[m][k].char_id
          /\ s.auth = sd[m][k].auth /\ s.status = sd[m][k].status
      BY <2>1 DEF Session
    <2>3. sd' = [sd EXCEPT ![m][k] = s]
      BY <1>4 DEF pc_authfail
    <2> HIDE DEF s, k, a, msg
    <2>4. \A n \in Maps, j \in Chunks : sd'[n][j] = IF n = m /\ j = k THEN s ELSE sd[n][j]
      BY <2>1, <2>3 DEF Memory
    <2>5. SessionsTrue'
      <3>1. ASSUME NEW n \in Maps, NEW g \in Fds, Open(n, g)', SdOf(n, g)'.auth
            PROVE  Open(n, g) /\ SameSession(SdOf(n, g), SdOf(n, g)')
        <4>1. Open(n, g) /\ conn[n][g].sd \in Chunks
          BY <3>1 DEF Open, SessionInv, ChunksInUse
        <4>2. QED
          BY <2>2, <2>4, <3>1, <4>1 DEF SdOf, SameSession
      <3>2. QED
        BY <1>2, <3>1, SessionsStay
    <2>6. ASSUME NEW n \in Maps, NEW b \in Accounts, b \notin clash
          PROVE  /\ Waits(toChar'[n], toMap'[n], b)
                 /\ Fitted(toChar'[n], toMap'[n], b, id_db'[n][b], sd'[n])
      <3>1. Waits(toChar'[n], toMap'[n], b)
        BY <1>2, <2>6, LinksKept
      <3>2. CASE n # m \/ b # a
        <4>1. id_db[n][b] # Nil => id_db[n][b] \in Chunks /\ (n # m \/ id_db[n][b] # k)
          <5>1. n = m /\ id_db[n][b] # Nil => id_db[n][b] # k
            BY <1>1, <2>6, <3>2, OwnPointer DEF k
          <5>2. QED
            BY <5>1 DEF SessionInv, TypeOK
        <4>2. id_db[n][b] # Nil => SameLogin(n, id_db[n][b])
          BY <2>4, <4>1 DEF SameLogin
        <4>3. QED
          BY <1>2, <2>6, <3>1, <4>2, LinksKept
      <3>3. CASE n = m /\ b = a
        <4>1. msg \in Answers(a) /\ msg = Head(toMap[m]) /\ toMap[m] \in Seq(Packet)
          BY <1>1 DEF Answers, msg, a, SessionInv, LinksTyped
        <4>2. Waits(toChar[m], toMap[m], a)
          BY <1>1, <2>6, <3>3 DEF CharacterInv, OneLogin
        <4>3. Has(toMap[m], Answers(a)) /\ ~Has(Tail(toMap[m]), Answers(a))
          BY <4>1, <4>2, HasTail DEF Waits
        <4>4. ~Has(toChar[m], Asks(a))
          BY <4>2, <4>3 DEF Waits
        <4>5. toMap'[m] = Tail(toMap[m]) /\ toChar'[m] = toChar[m]
          BY DEF SessionInv, LinksTyped
        <4>6. QED
          BY <3>1, <3>3, <4>3, <4>4, <4>5 DEF Fitted, Fits, Has
      <3>4. QED
        BY <3>2, <3>3
    <2>7. OneLogin' /\ LoginFits'
      BY <2>6 DEF OneLogin, LoginFits
    <2>8. PacketsTrue' /\ EntriesTrue'
      BY <1>2, LinksKept, DataKept
    <2>9. QED
      BY <2>5, <2>7, <2>8 DEF CharacterInv
  <1>5. QED
    BY <1>3, <1>4

LEMMA FromCharKeeps ==
  ASSUME SessionInv, CharacterInv, NEW m \in Maps, FromChar(m)
  PROVE  CharacterInv'
  <1> DEFINE msg == Head(toMap[m])
  <1>1. toMap[m] # <<>> /\ UNCHANGED chars
    BY DEF FromChar
  <1>2. CASE Crash(m)
    BY <1>1, <1>2, CrashKeeps
  <1>3. CASE /\ toMap' = [toMap EXCEPT ![m] = Tail(@)]
             /\ pc_authok(m, msg) \/ pc_authfail(m, msg) \/ OtherAnswer(m, msg)
             /\ UNCHANGED <<toChar, chrif, conn, id_db, latest, clash>>
    <2>1. CASE pc_authok(m, msg)
      BY <1>1, <1>3, <2>1, AuthokKeeps
    <2>2. CASE pc_authfail(m, msg)
      BY <1>1, <1>3, <2>2, AuthfailKeeps
    <2>3. CASE OtherAnswer(m, msg)
      <3>1. UNCHANGED <<conn, sd, id_db>>
        BY <1>3, <2>3 DEF OtherAnswer
      <3>2. (\A n \in Maps : QuietLink(n)) /\ CharsKept /\ UNCHANGED auth_fifo
        BY <1>1, <1>3, TakingKeeps, SameData DEF chars
      <3>3. QED
        BY <3>1, <3>2, SessionsSame, StepKept DEF Open
    <2>4. QED
      BY <1>3, <2>1, <2>2, <2>3
  <1>4. QED
    BY <1>2, <1>3 DEF FromChar

-----------------------------------------------------------------------------
LEMMA CharacterNext ==
  SessionInv /\ CharacterInv /\ [Next]_vars => CharacterInv'
  <1> SUFFICES ASSUME SessionInv, CharacterInv, [Next]_vars PROVE CharacterInv'
    OBVIOUS
  <1>1. ASSUME NEW c \in Chars, SelectChar(c) PROVE CharacterInv'
    BY <1>1, SelectCharKeeps
  <1>2. ASSUME NEW m \in Maps, ClientStep(m) PROVE CharacterInv'
    BY <1>2, ConnectKeeps, CloseKeeps, PlayKeeps, TalkKeeps, ChangeMapServerKeeps DEF ClientStep
  <1>3. ASSUME NEW m \in Maps, ServerStep(m) PROVE CharacterInv'
    BY <1>3, FromMapKeeps, FromCharKeeps, DropKeeps, CloseKeeps, TalkKeeps, LinkKeeps DEF ServerStep
  <1>4. ASSUME UNCHANGED vars PROVE CharacterInv'
    <2>1. \A n \in Maps : QuietLink(n)
      BY <1>4, LinksUntouched DEF vars, links
    <2>2. CharsKept /\ UNCHANGED <<auth_fifo, conn, sd, id_db>>
      BY <1>4, SameData DEF vars, chars, server, hist
    <2>3. QED
      BY <2>1, <2>2, SessionsSame, StepKept DEF Open
  <1>5. QED
    BY <1>1, <1>2, <1>3, <1>4 DEF Next

(* A session that is logged in plays the character its client chose, and not
   one of another account or another login: whatever logins wait in the char
   server's ring and on the links, whatever map servers save, and whoever
   crashes, unless a connection of that account left unanswered. *)
THEOREM RightCharacterAlways == Spec => []RightCharacter
  <1>1. Init => SessionInv /\ CharacterInv
    BY InitInv, CharacterInit
  <1>2. SessionInv /\ CharacterInv /\ [Next]_vars => SessionInv' /\ CharacterInv'
    BY NextInv, CharacterNext
  <1>3. CharacterInv => RightCharacter
    BY DEF CharacterInv, SessionsTrue, RightCharacter
  <1>4. QED
    BY <1>1, <1>2, <1>3, PTL DEF Spec

-----------------------------------------------------------------------------
(* No update of a character is lost: what a session plays, what is saved and
   what the char server has stored are followed for one character, through the
   saves, the announcements of a change of map server and the grants of a login
   that are under way between any number of servers. *)

(* Queues: a packet of S is somewhere before one of U. *)
Precedes(q, S, U) == \E i, j \in DOMAIN q : i < j /\ q[i] \in S /\ q[j] \in U

(* As far as the packets of T go, r and q are the same. *)
Alike(r, q, T) ==
  /\ \A S \in SUBSET T : (Has(r, S) <=> Has(q, S)) /\ (Once(q, S) => Once(r, S))
  /\ \A S, U \in SUBSET T : Precedes(r, S, U) <=> Precedes(q, S, U)

LEMMA QueueTail ==
  ASSUME NEW q \in Seq(Packet), q # <<>>, NEW S, NEW U
  PROVE  /\ Has(q, S) <=> Head(q) \in S \/ Has(Tail(q), S)
         /\ Once(q, S) => Once(Tail(q), S)
         /\ Once(q, S) /\ Head(q) \in S => ~Has(Tail(q), S)
         /\ Precedes(q, S, U) <=> Precedes(Tail(q), S, U) \/ (Head(q) \in S /\ Has(Tail(q), U))
  <1> DEFINE r == Tail(q)
  <1>1. /\ Len(q) \in Nat /\ Len(q) # 0 /\ DOMAIN q = 1 .. Len(q) /\ Head(q) = q[1]
        /\ DOMAIN r = 1 .. Len(q) - 1
        /\ \A i \in 1 .. Len(q) - 1 : r[i] = q[i + 1]
    BY HeadTailProperties
  <1>2. \A i \in DOMAIN r : i \in Nat /\ i + 1 \in DOMAIN q /\ r[i] = q[i + 1] /\ 1 < i + 1
    BY <1>1
  <1>3. \A i \in DOMAIN q : i = 1 \/ (i - 1 \in DOMAIN r /\ q[i] = r[i - 1])
    BY <1>1
  <1>4. 1 \in DOMAIN q /\ Head(q) = q[1] /\ DOMAIN q \subseteq Nat /\ \A i \in DOMAIN q : 1 <= i
    BY <1>1
  <1> HIDE DEF r
  <1>5. Has(q, S) <=> Head(q) \in S \/ Has(r, S)
    BY <1>2, <1>3, <1>4 DEF Has
  <1>6. Once(q, S) => Once(r, S)
    BY <1>2 DEF Once
  <1>7. Once(q, S) /\ Head(q) \in S => ~Has(r, S)
    BY <1>2, <1>4 DEF Once, Has
  <1>8. Precedes(q, S, U) => Precedes(r, S, U) \/ (Head(q) \in S /\ Has(r, U))
    <2> SUFFICES ASSUME NEW i \in DOMAIN q, NEW j \in DOMAIN q, i < j, q[i] \in S, q[j] \in U
                 PROVE  Precedes(r, S, U) \/ (Head(q) \in S /\ Has(r, U))
      BY DEF Precedes
    <2>1. j - 1 \in DOMAIN r /\ q[j] = r[j - 1] /\ i \in Nat /\ j \in Nat
      BY <1>3, <1>4
    <2>2. CASE i = 1
      BY <1>4, <2>1, <2>2 DEF Has
    <2>3. CASE i # 1
      <3>1. i - 1 \in DOMAIN r /\ q[i] = r[i - 1] /\ i - 1 < j - 1
        BY <1>3, <2>1, <2>3
      <3>2. QED
        BY <2>1, <3>1 DEF Precedes
    <2>4. QED
      BY <2>2, <2>3
  <1>9. Precedes(r, S, U) => Precedes(q, S, U)
    <2> SUFFICES ASSUME NEW i \in DOMAIN r, NEW j \in DOMAIN r, i < j, r[i] \in S, r[j] \in U
                 PROVE  Precedes(q, S, U)
      BY DEF Precedes
    <2>1. i + 1 \in DOMAIN q /\ j + 1 \in DOMAIN q /\ i + 1 < j + 1 /\ q[i + 1] \in S /\ q[j + 1] \in U
      BY <1>2
    <2>2. QED
      BY <2>1 DEF Precedes
  <1>10. Head(q) \in S /\ Has(r, U) => Precedes(q, S, U)
    BY <1>2, <1>4 DEF Has, Precedes
  <1>11. QED
    BY <1>5, <1>6, <1>7, <1>8, <1>9, <1>10 DEF r

LEMMA QueueAppend ==
  ASSUME NEW q \in Seq(Packet), NEW p \in Packet, NEW S, NEW U
  PROVE  /\ Has(Append(q, p), S) <=> Has(q, S) \/ p \in S
         /\ Once(q, S) /\ (p \in S => ~Has(q, S)) => Once(Append(q, p), S)
         /\ Precedes(Append(q, p), S, U) <=> Precedes(q, S, U) \/ (Has(q, S) /\ p \in U)
  <1> DEFINE r == Append(q, p)
             n == Len(q) + 1
  <1>1. /\ DOMAIN q = 1 .. Len(q) /\ Len(q) \in Nat /\ DOMAIN r = 1 .. n /\ r[n] = p
        /\ \A i \in 1 .. Len(q) : r[i] = q[i]
    BY AppendProperties
  <1>2. \A i \in DOMAIN r : i = n \/ (i \in DOMAIN q /\ r[i] = q[i])
    BY <1>1
  <1>3. /\ n \in DOMAIN r /\ n \in Nat
        /\ \A i \in DOMAIN q : i \in DOMAIN r /\ r[i] = q[i] /\ i < n /\ i \in Nat
    BY <1>1
  <1>4. r[n] = p /\ \A i \in DOMAIN r : i <= n /\ i \in Nat
    BY <1>1
  <1> HIDE DEF r, n
  <1>5. Has(r, S) <=> Has(q, S) \/ p \in S
    BY <1>2, <1>3, <1>4 DEF Has
  <1>6. Once(q, S) /\ (p \in S => ~Has(q, S)) => Once(r, S)
    BY <1>2, <1>3, <1>4 DEF Has, Once
  <1>7. Precedes(r, S, U) => Precedes(q, S, U) \/ (Has(q, S) /\ p \in U)
    <2> SUFFICES ASSUME NEW i \in DOMAIN r, NEW j \in DOMAIN r, i < j, r[i] \in S, r[j] \in U
                 PROVE  Precedes(q, S, U) \/ (Has(q, S) /\ p \in U)
      BY DEF Precedes
    <2>1. i # n /\ i \in DOMAIN q /\ r[i] = q[i]
      BY <1>2, <1>3, <1>4
    <2>2. CASE j = n
      BY <1>4, <2>1, <2>2 DEF Has
    <2>3. CASE j # n
      BY <1>2, <2>1, <2>3 DEF Precedes
    <2>4. QED
      BY <2>2, <2>3
  <1>8. Precedes(q, S, U) => Precedes(r, S, U)
    BY <1>3 DEF Precedes
  <1>9. Has(q, S) /\ p \in U => Precedes(r, S, U)
    BY <1>3, <1>4 DEF Has, Precedes
  <1>10. QED
    BY <1>5, <1>6, <1>7, <1>8, <1>9 DEF r

LEMMA QueueEmpty ==
  ASSUME NEW S, NEW U
  PROVE  ~Has(<<>>, S) /\ Once(<<>>, S) /\ ~Precedes(<<>>, S, U)
  BY DEF Has, Once, Precedes

LEMMA PrecedesHas ==
  ASSUME NEW q, NEW S, NEW U, Precedes(q, S, U)
  PROVE  Has(q, S) /\ Has(q, U)
  BY DEF Precedes, Has

LEMMA AlikeQueues ==
  ASSUME NEW q \in Seq(Packet), NEW T
  PROVE  /\ Alike(q, q, T)
         /\ q # <<>> /\ Head(q) \notin T => Alike(Tail(q), q, T)
         /\ \A p \in Packet : p \notin T => Alike(Append(q, p), q, T)
  <1>1. Alike(q, q, T)
    BY DEF Alike
  <1>2. ASSUME q # <<>>, Head(q) \notin T PROVE Alike(Tail(q), q, T)
    BY <1>2, QueueTail DEF Alike
  <1>3. ASSUME NEW p \in Packet, p \notin T PROVE Alike(Append(q, p), q, T)
    BY <1>3, QueueAppend DEF Alike
  <1>4. QED
    BY <1>1, <1>2, <1>3

-----------------------------------------------------------------------------
(* The invariant, for a character c whose newest status is v and that the char
   server has stored as st.  live and act are the map servers where a session
   plays it, and where the client of one still acts; ann, whether c is on its
   way to another; qc and qm, the packets under way. *)
Saves(c)     == {p \in Packet : p.kind = "save" /\ p.status.char = c}
Older(c, n)  == {p \in Saves(c) : p.status.ver < n}
Newest(c, v) == {p \in Saves(c) : p.status.ver = v}
WrongSaves(c, v, st) ==
  {p \in Saves(c) : p.account # AccountOf[c] \/ p.status.ver < st \/ p.status.ver > v}
Changes(c)   == {p \in Packet : p.kind = "change" /\ p.char = c}
Grants(c)    == {p \in Packet : p.kind = "authok" /\ p.status.char = c}
Fresh(c)     == {p \in Grants(c) : ~p.parted}
Current(c, v) == {p \in Fresh(c) : p.status.ver = v}

(* Saves arrive at a char server that knows nothing newer, in their order. *)
SavesOrdered(c, v, st, qc) ==
  /\ st <= v
  /\ \A m \in Maps :
       /\ ~Has(qc[m], WrongSaves(c, v, st))
       /\ \A n \in Nat : ~Precedes(qc[m], Saves(c) \ Older(c, n), Older(c, n))

(* While a save that is not the newest is on its way, no other map server has
   anything to do with the character. *)
OlderAlone(c, v, live, qc, qm) ==
  \A m \in Maps : Has(qc[m], Older(c, v)) =>
    /\ live \subseteq {m}
    /\ \A n \in Maps : (n # m => ~Has(qc[n], Saves(c))) /\ ~Has(qm[n], Fresh(c))

(* A login granted while no other copy was about is the only one. *)
GrantAlone(c, v, act, qm) ==
  \A m \in Maps : Has(qm[m], Fresh(c)) =>
    /\ act = {} /\ Once(qm[m], Fresh(c))
    /\ ~Has(qm[m], {p \in Fresh(c) : p.status.ver # v})
    /\ \A n \in Maps : n # m => ~Has(qm[n], Fresh(c))

(* A character on its way to another map server is stored as it is. *)
AnnouncedStored(v, st, ann, act) == ann => act = {} /\ st = v

(* The newest status is played, stored or under way. *)
NewestSomewhere(c, v, st, act, qc) ==
  act # {} \/ st = v \/ \E m \in Maps : Has(qc[m], Newest(c, v))

(* A change of map server is under way once, behind the newest status, from a
   server that nobody acts on, and as long as there is none to act elsewhere:
   its session is still there, or has sent its last save. *)
ChangesLast(c, v, st, live, act, qc) ==
  \A m \in Maps : Has(qc[m], Changes(c)) =>
    /\ m \notin act /\ Once(qc[m], Changes(c))
    /\ m \in live \/ Precedes(qc[m], Changes(c), Saves(c))
    /\ st = v \/ Precedes(qc[m], Newest(c, v), Changes(c))

Followed(c, v, st, ann, live, act, qc, qm) ==
  /\ SavesOrdered(c, v, st, qc) /\ OlderAlone(c, v, live, qc, qm)
  /\ GrantAlone(c, v, act, qm) /\ AnnouncedStored(v, st, ann, act)
  /\ NewestSomewhere(c, v, st, act, qc) /\ ChangesLast(c, v, st, live, act, qc)

(* The steps that matter to one character, in turn.  First those in which only
   grants of it may disappear. *)
LEMMA QuietFollowed ==
  ASSUME NEW c \in Chars, NEW v \in Nat, NEW st \in Nat, NEW ann \in BOOLEAN,
         NEW live \in SUBSET Maps, NEW act \in SUBSET live,
         NEW qc \in [Maps -> Seq(Packet)], NEW qm \in [Maps -> Seq(Packet)],
         NEW rc \in [Maps -> Seq(Packet)], NEW rm \in [Maps -> Seq(Packet)],
         Followed(c, v, st, ann, live, act, qc, qm),
         \A m \in Maps : Alike(rc[m], qc[m], Saves(c) \cup Changes(c)),
         \A m \in Maps : Fewer(rm[m], qm[m], Fresh(c))
  PROVE  Followed(c, v, st, ann, live, act, rc, rm)
  <1> DEFINE T == Saves(c) \cup Changes(c)
  <1>1. /\ WrongSaves(c, v, st) \subseteq T /\ Saves(c) \subseteq T /\ Changes(c) \subseteq T
        /\ Newest(c, v) \subseteq T /\ \A n \in Nat : Older(c, n) \subseteq T
        /\ \A n \in Nat : Saves(c) \ Older(c, n) \subseteq T
    BY DEF WrongSaves, Newest, Older
  <1>2. \A m \in Maps, S \in SUBSET T : (Has(rc[m], S) <=> Has(qc[m], S)) /\ (Once(qc[m], S) => Once(rc[m], S))
    BY DEF Alike
  <1>3. \A m \in Maps, S, U \in SUBSET T : Precedes(rc[m], S, U) <=> Precedes(qc[m], S, U)
    BY DEF Alike
  <1>4. \A m \in Maps : (Has(rm[m], Fresh(c)) => Has(qm[m], Fresh(c))) /\ (Once(qm[m], Fresh(c)) => Once(rm[m], Fresh(c)))
    BY DEF Fewer
  <1>5. \A m \in Maps : Has(rm[m], {p \in Fresh(c) : p.status.ver # v}) => Has(qm[m], {p \in Fresh(c) : p.status.ver # v})
    BY DEF Fewer
  <1> HIDE DEF T
  <1>6. SavesOrdered(c, v, st, rc)
    BY <1>1, <1>2, <1>3 DEF Followed, SavesOrdered
  <1>7. OlderAlone(c, v, live, rc, rm)
    BY <1>1, <1>2, <1>4 DEF Followed, OlderAlone
  <1>8. GrantAlone(c, v, act, rm)
    BY <1>4, <1>5 DEF Followed, GrantAlone
  <1>9. NewestSomewhere(c, v, st, act, rc)
    BY <1>1, <1>2 DEF Followed, NewestSomewhere
  <1>10. ChangesLast(c, v, st, live, act, rc)
    BY <1>1, <1>2, <1>3 DEF Followed, ChangesLast
  <1>11. QED
    BY <1>6, <1>7, <1>8, <1>9, <1>10 DEF Followed

(* The character changes, in the only session that plays it. *)
LEMMA PlayFollowed ==
  ASSUME NEW c \in Chars, NEW v \in Nat, NEW st \in Nat, NEW ann \in BOOLEAN,
         NEW live \in SUBSET Maps, NEW act \in SUBSET live,
         NEW qc \in [Maps -> Seq(Packet)], NEW qm \in [Maps -> Seq(Packet)],
         Followed(c, v, st, ann, live, act, qc, qm),
         NEW m \in act, live \subseteq {m}, \A n \in Maps \ {m} : ~Has(qc[n], Saves(c))
  PROVE  Followed(c, v + 1, st, ann, live, act, qc, qm)
  <1>1. SavesOrdered(c, v + 1, st, qc)
    <2>1. \A p \in Packet : p.status.ver \in Nat
      BY MapSessionAssumption DEF Packet, Status, NoStatus
    <2>2. WrongSaves(c, v + 1, st) \subseteq WrongSaves(c, v, st)
      BY <2>1 DEF WrongSaves, Saves
    <2>3. QED
      BY <2>2 DEF Followed, SavesOrdered, Has
  <1>2. \A n \in Maps : ~Has(qm[n], Fresh(c))
    BY DEF Followed, GrantAlone
  <1>3. OlderAlone(c, v + 1, live, qc, qm)
    <2>1. \A n \in Maps \ {m} : ~Has(qc[n], Older(c, v + 1))
      BY DEF Has, Older
    <2>2. QED
      BY <1>2, <2>1 DEF OlderAlone
  <1>4. GrantAlone(c, v + 1, act, qm)
    BY <1>2 DEF GrantAlone
  <1>5. ~ann /\ NewestSomewhere(c, v + 1, st, act, qc)
    BY DEF Followed, AnnouncedStored, NewestSomewhere
  <1>6. \A n \in Maps : ~Has(qc[n], Changes(c))
    BY PrecedesHas DEF Followed, ChangesLast
  <1>7. QED
    BY <1>1, <1>3, <1>4, <1>5, <1>6 DEF Followed, AnnouncedStored, ChangesLast

(* A session saves it, and may leave or fall still with that. *)
Leaves(m, live, act, live2, act2) ==
  live2 \in SUBSET live /\ act2 \in SUBSET act /\ live \ {m} \subseteq live2

LEMMA SaveFollowed ==
  ASSUME NEW c \in Chars, NEW v \in Nat, NEW st \in Nat, NEW ann \in BOOLEAN,
         NEW live \in SUBSET Maps, NEW act \in SUBSET live,
         NEW qc \in [Maps -> Seq(Packet)], NEW qm \in [Maps -> Seq(Packet)],
         Followed(c, v, st, ann, live, act, qc, qm),
         NEW m \in live, NEW p \in Newest(c, v), p.account = AccountOf[c],
         NEW live2, NEW act2, Leaves(m, live, act, live2, act2),
         NEW rc, rc = [qc EXCEPT ![m] = Append(@, p)]
  PROVE  Followed(c, v, st, ann, live2, act2, rc, qm)
  <1>0. live2 \in SUBSET live /\ act2 \in SUBSET act /\ live \ {m} \subseteq live2
    BY DEF Leaves
  <1> USE <1>0
  <1>1. /\ m \in Maps /\ p \in Packet /\ p \in Saves(c) /\ p.status.ver = v
        /\ rc[m] = Append(qc[m], p) /\ \A n \in Maps : n # m => rc[n] = qc[n]
        /\ qc[m] \in Seq(Packet)
    BY DEF Newest, Saves
  <1>2. st <= v
    BY DEF Followed, SavesOrdered
  <1>3. p \notin WrongSaves(c, v, st) /\ p \notin Changes(c) /\ p \notin Older(c, v)
    BY <1>1, <1>2 DEF WrongSaves, Changes, Older, Saves
  <1>4. \A S, U : /\ Has(rc[m], S) <=> Has(qc[m], S) \/ p \in S
                  /\ Once(qc[m], S) /\ p \notin S => Once(rc[m], S)
                  /\ Precedes(rc[m], S, U) <=> Precedes(qc[m], S, U) \/ (Has(qc[m], S) /\ p \in U)
    BY <1>1, QueueAppend
  <1>5. SavesOrdered(c, v, st, rc)
    <2>1. ASSUME NEW n \in Nat PROVE ~Precedes(rc[m], Saves(c) \ Older(c, n), Older(c, n))
      <3>1. \A q \in Packet : q.status.ver \in Nat
        BY MapSessionAssumption DEF Packet, Status, NoStatus
      <3>2. CASE v < n
        <4>1. Saves(c) \ Older(c, n) \subseteq WrongSaves(c, v, st)
          BY <3>1, <3>2 DEF Older, WrongSaves, Saves
        <4>2. ~Has(qc[m], Saves(c) \ Older(c, n))
          BY <1>1, <4>1 DEF Followed, SavesOrdered, Has
        <4>3. QED
          BY <1>1, <1>4, <4>2 DEF Followed, SavesOrdered
      <3>3. CASE ~(v < n)
        <4>1. p \notin Older(c, n)
          BY <1>1, <3>3 DEF Older
        <4>2. QED
          BY <1>1, <1>4, <4>1 DEF Followed, SavesOrdered
      <3>4. QED
        BY <3>2, <3>3
    <2>2. QED
      BY <1>1, <1>2, <1>3, <1>4, <2>1 DEF Followed, SavesOrdered
  <1>6. OlderAlone(c, v, live2, rc, qm)
    <2>1. ASSUME NEW n \in Maps, Has(rc[n], Older(c, v))
          PROVE  n = m /\ Has(qc[n], Older(c, v))
      BY <1>1, <1>3, <1>4, <2>1 DEF Followed, OlderAlone
    <2>2. QED
      BY <1>1, <2>1 DEF Followed, OlderAlone
  <1>7. GrantAlone(c, v, act2, qm) /\ AnnouncedStored(v, st, ann, act2)
    BY DEF Followed, GrantAlone, AnnouncedStored
  <1>8. NewestSomewhere(c, v, st, act2, rc)
    BY <1>1, <1>4 DEF NewestSomewhere
  <1>9. ASSUME NEW n \in Maps, Has(rc[n], Changes(c))
        PROVE  /\ n \notin act2 /\ Once(rc[n], Changes(c))
               /\ n \in live2 \/ Precedes(rc[n], Changes(c), Saves(c))
               /\ st = v \/ Precedes(rc[n], Newest(c, v), Changes(c))
    <2>1. Has(qc[n], Changes(c))
      BY <1>1, <1>3, <1>4, <1>9
    <2>2. /\ n \notin act /\ Once(qc[n], Changes(c))
          /\ n \in live \/ Precedes(qc[n], Changes(c), Saves(c))
          /\ st = v \/ Precedes(qc[n], Newest(c, v), Changes(c))
      BY <2>1 DEF Followed, ChangesLast
    <2>3. CASE n # m
      BY <1>1, <2>2, <2>3
    <2>4. CASE n = m
      <3>1. Once(rc[m], Changes(c))
        BY <1>3, <1>4, <2>2, <2>4
      <3>2. QED
        BY <1>1, <1>4, <2>1, <2>2, <2>4, <3>1
    <2>5. QED
      BY <2>3, <2>4
  <1>10. QED
    BY <1>5, <1>6, <1>7, <1>8, <1>9 DEF Followed, ChangesLast

(* The change of map server is announced behind it. *)
LEMMA ChangeFollowed ==
  ASSUME NEW c \in Chars, NEW v \in Nat, NEW st \in Nat, NEW ann \in BOOLEAN,
         NEW live \in SUBSET Maps, NEW act \in SUBSET live,
         NEW qc \in [Maps -> Seq(Packet)], NEW qm \in [Maps -> Seq(Packet)],
         Followed(c, v, st, ann, live, act, qc, qm),
         NEW m \in live, m \notin act, NEW p \in Changes(c),
         ~Has(qc[m], Changes(c)), Has(qc[m], Newest(c, v)),
         NEW rc, rc = [qc EXCEPT ![m] = Append(@, p)]
  PROVE  Followed(c, v, st, ann, live, act, rc, qm)
  <1>1. /\ m \in Maps /\ p \in Packet /\ p \notin Saves(c)
        /\ rc[m] = Append(qc[m], p) /\ \A n \in Maps : n # m => rc[n] = qc[n]
        /\ qc[m] \in Seq(Packet)
    BY DEF Changes, Saves
  <1>2. \A S, U : /\ Has(rc[m], S) <=> Has(qc[m], S) \/ p \in S
                  /\ Once(qc[m], S) /\ (p \in S => ~Has(qc[m], S)) => Once(rc[m], S)
                  /\ Precedes(rc[m], S, U) <=> Precedes(qc[m], S, U) \/ (Has(qc[m], S) /\ p \in U)
    BY <1>1, QueueAppend
  <1>3. p \notin WrongSaves(c, v, st) /\ p \notin Newest(c, v) /\ \A n : p \notin Older(c, n)
    BY <1>1 DEF WrongSaves, Newest, Older
  <1>4. SavesOrdered(c, v, st, rc)
    BY <1>1, <1>2, <1>3 DEF Followed, SavesOrdered
  <1>5. OlderAlone(c, v, live, rc, qm)
    BY <1>1, <1>2, <1>3 DEF Followed, OlderAlone
  <1>6. NewestSomewhere(c, v, st, act, rc)
    BY <1>1, <1>2, <1>3 DEF Followed, NewestSomewhere
  <1>7. Once(rc[m], Changes(c)) /\ Precedes(rc[m], Newest(c, v), Changes(c))
    <2>1. Once(qc[m], Changes(c))
      BY DEF Has, Once
    <2>2. QED
      BY <1>2, <2>1
  <1>8. ChangesLast(c, v, st, live, act, rc)
    BY <1>1, <1>7 DEF Followed, ChangesLast
  <1>9. QED
    BY <1>4, <1>5, <1>6, <1>8 DEF Followed

(* p is the first packet of the link of m, and the rest stays. *)
Taken(q, m, p, r) == q[m] # <<>> /\ p = Head(q[m]) /\ r = [q EXCEPT ![m] = Tail(@)]

(* The char server stores it. *)
LEMMA StoreFollowed ==
  ASSUME NEW c \in Chars, NEW v \in Nat, NEW st \in Nat, NEW ann \in BOOLEAN,
         NEW live \in SUBSET Maps, NEW act \in SUBSET live,
         NEW qc \in [Maps -> Seq(Packet)], NEW qm \in [Maps -> Seq(Packet)],
         Followed(c, v, st, ann, live, act, qc, qm),
         NEW m \in Maps, NEW p \in Saves(c), NEW rc, Taken(qc, m, p, rc),
         NEW st2 \in Nat, st2 = p.status.ver
  PROVE  Followed(c, v, st2, ann, live, act, rc, qm)
  <1>1. /\ rc[m] = Tail(qc[m]) /\ \A n \in Maps : n # m => rc[n] = qc[n]
        /\ qc[m] \in Seq(Packet) /\ qc[m] # <<>> /\ p = Head(qc[m]) /\ p \in Packet
    BY HeadTyped DEF Taken
  <1>2. \A q \in Packet : q.status.ver \in Nat
    BY MapSessionAssumption DEF Packet, Status, NoStatus
  <1>3. /\ p \in Saves(c) /\ p \notin Changes(c) /\ st2 \in Nat
        /\ p \in Older(c, v) <=> st2 < v
        /\ p \in Newest(c, v) <=> st2 = v
    BY <1>1, <1>2 DEF Saves, Changes, Older, Newest
  <1>4. /\ \A S, U : /\ Has(qc[m], S) <=> p \in S \/ Has(rc[m], S)
                     /\ Once(qc[m], S) => Once(rc[m], S)
                     /\ Precedes(qc[m], S, U) <=> Precedes(rc[m], S, U) \/ (p \in S /\ Has(rc[m], U))
    <2> DEFINE q == qc[m]
    <2>1. \A S, U : /\ Has(q, S) <=> Head(q) \in S \/ Has(Tail(q), S)
                    /\ Once(q, S) => Once(Tail(q), S)
                    /\ Precedes(q, S, U) <=> Precedes(Tail(q), S, U) \/ (Head(q) \in S /\ Has(Tail(q), U))
      BY <1>1, QueueTail
    <2>2. rc[m] = Tail(q) /\ p = Head(q)
      BY <1>1
    <2> HIDE DEF q
    <2>3. ASSUME NEW S, NEW U
          PROVE  /\ Has(q, S) <=> p \in S \/ Has(rc[m], S)
                 /\ Once(q, S) => Once(rc[m], S)
                 /\ Precedes(q, S, U) <=> Precedes(rc[m], S, U) \/ (p \in S /\ Has(rc[m], U))
      BY <2>1, <2>2
    <2>4. QED
      BY <2>3 DEF q
  <1>5. p.account = AccountOf[c] /\ st <= st2 /\ st2 <= v
    <2>1. p \notin WrongSaves(c, v, st)
      BY <1>4 DEF Followed, SavesOrdered
    <2>2. QED
      BY <1>3, <2>1 DEF WrongSaves
  <1>6. SavesOrdered(c, v, st2, rc)
    <2>1. ASSUME NEW n \in Maps PROVE ~Has(rc[n], Older(c, st2))
      <3>1. CASE n = m
        <4>1. p \in Saves(c) \ Older(c, st2)
          BY <1>3 DEF Older
        <4>2. QED
          BY <1>3, <1>4, <3>1, <4>1 DEF Followed, SavesOrdered
      <3>2. CASE n # m
        <4>1. Older(c, st2) \subseteq Older(c, v)
          BY <1>2, <1>3, <1>5 DEF Older, Saves
        <4>2. Has(rc[n], Older(c, st2)) => Has(qc[n], Older(c, v))
          BY <1>1, <3>2, <4>1 DEF Has
        <4>3. Has(qc[m], Saves(c))
          BY <1>3, <1>4
        <4>4. QED
          BY <3>2, <4>2, <4>3 DEF Followed, OlderAlone
      <3>3. QED
        BY <3>1, <3>2
    <2>2. ASSUME NEW n \in Maps PROVE ~Has(rc[n], WrongSaves(c, v, st2))
      <3>1. ~Has(rc[n], WrongSaves(c, v, st))
        BY <1>1, <1>4 DEF Followed, SavesOrdered
      <3>2. WrongSaves(c, v, st2) \subseteq WrongSaves(c, v, st) \cup Older(c, st2)
        BY DEF WrongSaves, Older
      <3>3. QED
        BY <2>1, <3>1, <3>2 DEF Has
    <2>3. QED
      BY <1>1, <1>4, <1>5, <2>2 DEF Followed, SavesOrdered
  <1>7. OlderAlone(c, v, live, rc, qm)
    BY <1>1, <1>4 DEF Followed, OlderAlone
  <1>8. st = v => st2 = v
    BY <1>3, <1>5
  <1>9. NewestSomewhere(c, v, st2, act, rc)
    BY <1>1, <1>3, <1>4, <1>8 DEF Followed, NewestSomewhere
  <1>10. AnnouncedStored(v, st2, ann, act)
    BY <1>8 DEF Followed, AnnouncedStored
  <1>11. ChangesLast(c, v, st2, live, act, rc)
    BY <1>1, <1>3, <1>4, <1>8 DEF Followed, ChangesLast
  <1>12. QED
    BY <1>5, <1>6, <1>7, <1>9, <1>10, <1>11 DEF Followed

(* The char server learns that it is on its way. *)
LEMMA AnnounceFollowed ==
  ASSUME NEW c \in Chars, NEW v \in Nat, NEW st \in Nat, NEW ann \in BOOLEAN,
         NEW live \in SUBSET Maps, NEW act \in SUBSET live,
         NEW qc \in [Maps -> Seq(Packet)], NEW qm \in [Maps -> Seq(Packet)],
         Followed(c, v, st, ann, live, act, qc, qm),
         NEW m \in Maps, NEW p \in Changes(c), NEW rc, Taken(qc, m, p, rc)
  PROVE  /\ Followed(c, v, st, ann, live, act, rc, qm)
         /\ act = {} => Followed(c, v, st, TRUE, live, act, rc, qm)
  <1>1. /\ rc[m] = Tail(qc[m]) /\ \A n \in Maps : n # m => rc[n] = qc[n]
        /\ qc[m] \in Seq(Packet) /\ qc[m] # <<>> /\ p = Head(qc[m]) /\ p \in Packet
    BY HeadTyped DEF Taken
  <1>2. \A S, U : /\ Has(qc[m], S) <=> p \in S \/ Has(rc[m], S)
                  /\ Once(qc[m], S) /\ p \in S => ~Has(rc[m], S)
                  /\ Precedes(qc[m], S, U) <=> Precedes(rc[m], S, U) \/ (p \in S /\ Has(rc[m], U))
    BY <1>1, QueueTail
  <1>3. p \in Changes(c) /\ p \notin Saves(c) /\ p \notin Newest(c, v)
    BY DEF Changes, Saves, Newest
  <1>4. Has(qc[m], Changes(c)) /\ ~Has(rc[m], Changes(c))
    BY <1>2, <1>3 DEF Followed, ChangesLast
  <1>5. st = v
    <2>1. ~Precedes(rc[m], Newest(c, v), Changes(c))
      BY <1>4, PrecedesHas
    <2>2. QED
      BY <1>2, <1>3, <1>4, <2>1 DEF Followed, ChangesLast
  <1>6. SavesOrdered(c, v, st, rc)
    BY <1>1, <1>2 DEF Followed, SavesOrdered
  <1>7. OlderAlone(c, v, live, rc, qm)
    BY <1>1, <1>2 DEF Followed, OlderAlone
  <1>8. NewestSomewhere(c, v, st, act, rc)
    BY <1>5 DEF NewestSomewhere
  <1>9. ChangesLast(c, v, st, live, act, rc)
    BY <1>1, <1>4 DEF Followed, ChangesLast
  <1>10. QED
    BY <1>5, <1>6, <1>7, <1>8, <1>9 DEF Followed, AnnouncedStored

(* A login is granted with what is stored: parted, or with no other copy
   about, and then no save is on its way that says something else. *)
LEMMA GrantFollowed ==
  ASSUME NEW c \in Chars, NEW v \in Nat, NEW st \in Nat, NEW ann \in BOOLEAN,
         NEW live \in SUBSET Maps, NEW act \in SUBSET live,
         NEW qc \in [Maps -> Seq(Packet)], NEW qm \in [Maps -> Seq(Packet)],
         Followed(c, v, st, ann, live, act, qc, qm),
         NEW m \in Maps, NEW p \in Fresh(c), p.status.ver = st, act = {},
         \A n \in Maps : ~Has(qm[n], Fresh(c)),
         ann \/ \A n \in Maps : ~Has(qc[n], Saves(c))
  PROVE  Followed(c, v, st, ann, live, act, qc, [qm EXCEPT ![m] = Append(@, p)])
  <1> DEFINE rm == [qm EXCEPT ![m] = Append(@, p)]
  <1>1. /\ p \in Packet /\ qm[m] \in Seq(Packet)
        /\ rm[m] = Append(qm[m], p) /\ \A n \in Maps : n # m => rm[n] = qm[n]
    BY DEF Fresh, Grants
  <1> HIDE DEF rm
  <1>2. /\ \A S : Has(rm[m], S) <=> Has(qm[m], S) \/ p \in S
        /\ Once(rm[m], Fresh(c))
    <2>1. Once(qm[m], Fresh(c)) /\ ~Has(qm[m], Fresh(c))
      BY DEF Once, Has
    <2>2. \A S : Has(rm[m], S) <=> Has(qm[m], S) \/ p \in S
      BY <1>1, HasAppend
    <2>3. Once(Append(qm[m], p), Fresh(c))
      BY <1>1, <2>1, QueueAppend
    <2>4. QED
      BY <1>1, <2>2, <2>3
  <1>3. st = v
    <2>1. \A n \in Maps : Has(qc[n], Newest(c, v)) => Has(qc[n], Saves(c))
      BY DEF Newest, Has
    <2>2. QED
      BY <2>1 DEF Followed, AnnouncedStored, NewestSomewhere
  <1>4. \A n \in Maps : ~Has(qc[n], Older(c, v))
    <2>1. Older(c, v) \subseteq WrongSaves(c, v, st)
      BY <1>3 DEF Older, WrongSaves
    <2>2. QED
      BY <2>1 DEF Followed, SavesOrdered, Has
  <1>5. OlderAlone(c, v, live, qc, rm)
    BY <1>4 DEF OlderAlone
  <1>6. GrantAlone(c, v, act, rm)
    <2>1. ~Has(rm[m], {q \in Fresh(c) : q.status.ver # v})
      <3>1. ~Has(qm[m], {q \in Fresh(c) : q.status.ver # v})
        BY DEF Has
      <3>2. QED
        BY <1>2, <1>3, <3>1
    <2>2. QED
      BY <1>1, <1>2, <2>1 DEF GrantAlone
  <1>7. QED
    BY <1>5, <1>6 DEF Followed, rm

(* A session logs in with it. *)
LEMMA LoginFollowed ==
  ASSUME NEW c \in Chars, NEW v \in Nat, NEW st \in Nat, NEW ann \in BOOLEAN,
         NEW live \in SUBSET Maps, NEW act \in SUBSET live,
         NEW qc \in [Maps -> Seq(Packet)], NEW qm \in [Maps -> Seq(Packet)],
         Followed(c, v, st, ann, live, act, qc, qm),
         NEW m \in Maps, NEW p \in Fresh(c), NEW rm, Taken(qm, m, p, rm),
         ~Has(qc[m], Changes(c)),
         NEW live2, live2 = live \cup {m}, NEW act2, act2 = act \cup {m}
  PROVE  p \in Current(c, v) /\ Followed(c, v, st, FALSE, live2, act2, qc, rm)
  <1>1. /\ rm[m] = Tail(qm[m]) /\ \A n \in Maps : n # m => rm[n] = qm[n]
        /\ qm[m] \in Seq(Packet) /\ qm[m] # <<>> /\ p = Head(qm[m]) /\ p \in Packet
    BY HeadTyped DEF Taken
  <1>2. \A S : /\ Has(qm[m], S) <=> p \in S \/ Has(rm[m], S)
               /\ Once(qm[m], S) /\ p \in S => ~Has(rm[m], S)
    BY <1>1, QueueTail
  <1>3. p \in Fresh(c)
    OBVIOUS
  <1>4. p.status.ver = v /\ act = {} /\ \A n \in Maps : ~Has(rm[n], Fresh(c))
    <2>1. \A n \in Maps : n # m => rm[n] = qm[n]
      BY <1>1
    <2>2. Has(qm[m], Fresh(c)) /\ ~Has(rm[m], Fresh(c))
      BY <1>2, <1>3 DEF Followed, GrantAlone
    <2>3. p.status.ver = v
      <3> DEFINE S == {q \in Fresh(c) : q.status.ver # v}
      <3>1. ~Has(qm[m], S)
        BY <2>2 DEF Followed, GrantAlone
      <3>2. p \notin S
        BY <1>2, <3>1
      <3>3. QED
        BY <1>3, <3>2
    <2>4. QED
      BY <2>1, <2>2, <2>3 DEF Followed, GrantAlone
  <1>5. \A n \in Maps : ~Has(qc[n], Older(c, v))
    BY <1>2, <1>3 DEF Followed, OlderAlone
  <1>6. OlderAlone(c, v, live \cup {m}, qc, rm) /\ GrantAlone(c, v, act \cup {m}, rm)
    BY <1>4, <1>5 DEF OlderAlone, GrantAlone
  <1>7. NewestSomewhere(c, v, st, act \cup {m}, qc) /\ AnnouncedStored(v, st, FALSE, act \cup {m})
    BY DEF NewestSomewhere, AnnouncedStored
  <1>8. ChangesLast(c, v, st, live \cup {m}, act \cup {m}, qc)
    BY DEF Followed, ChangesLast
  <1>9. QED
    BY <1>3, <1>4, <1>6, <1>7, <1>8 DEF Followed, Current

(* What is under way to and from a map server is lost, without a save of it,
   or with its client still acting. *)
LEMMA LossFollowed ==
  ASSUME NEW c \in Chars, NEW v \in Nat, NEW st \in Nat, NEW ann \in BOOLEAN,
         NEW live \in SUBSET Maps, NEW act \in SUBSET live,
         NEW qc \in [Maps -> Seq(Packet)], NEW qm \in [Maps -> Seq(Packet)],
         Followed(c, v, st, ann, live, act, qc, qm),
         NEW m \in Maps, m \in act \/ ~Has(qc[m], Saves(c))
  PROVE  Followed(c, v, st, ann, live, act, [qc EXCEPT ![m] = <<>>], [qm EXCEPT ![m] = <<>>])
  <1> DEFINE rc == [qc EXCEPT ![m] = <<>>]
             rm == [qm EXCEPT ![m] = <<>>]
  <1>1. /\ rc[m] = <<>> /\ \A n \in Maps : n # m => rc[n] = qc[n]
        /\ rm[m] = <<>> /\ \A n \in Maps : n # m => rm[n] = qm[n]
    OBVIOUS
  <1>2. \A S, U : ~Has(rc[m], S) /\ ~Has(rm[m], S) /\ ~Precedes(rc[m], S, U)
    BY <1>1, QueueEmpty
  <1> HIDE DEF rc, rm
  <1>3. SavesOrdered(c, v, st, rc) /\ OlderAlone(c, v, live, rc, rm) /\ GrantAlone(c, v, act, rm)
    BY <1>1, <1>2 DEF Followed, SavesOrdered, OlderAlone, GrantAlone
  <1>4. NewestSomewhere(c, v, st, act, rc)
    <2>1. Has(qc[m], Newest(c, v)) => Has(qc[m], Saves(c))
      BY DEF Newest, Has
    <2>2. QED
      BY <1>1, <2>1 DEF Followed, NewestSomewhere
  <1>5. ChangesLast(c, v, st, live, act, rc)
    BY <1>1, <1>2 DEF Followed, ChangesLast
  <1>6. QED
    BY <1>3, <1>4, <1>5 DEF Followed, rc, rm

-----------------------------------------------------------------------------
(* The invariant of the servers. *)
Place(c)  == CHOOSE i \in Slots : CharList[i] = c
Stored(c) == char_dat[Place(c)].ver
LiveOn(c) == {m \in Maps : \E f \in Fds : Playing(m, f, c)}
ActOn(c)  == {m \in Maps : \E f \in Fds : Playing(m, f, c) /\ ~SdOf(m, f).waiting}

InPlace(c) == \A i \in Slots : char_dat[i].char = c <=> i = Place(c)

PlaysNewest(c) ==
  \A m \in Maps, f \in Fds : Playing(m, f, c) =>
    SdOf(m, f).status.ver = latest[c] /\ SdOf(m, f).account = AccountOf[c]

Sees(c) ==
  Followed(c, latest[c], Stored(c), c \in announced, LiveOn(c), ActOn(c), toChar, toMap)

(* An account whose session waits for a login asked for it after the character
   left the server: the answer comes once that is announced. *)
BehindOn(m, c) ==
  LET k == id_db[m][AccountOf[c]] IN
  k # Nil /\ ~sd[m][k].auth /\ Has(toChar[m], Changes(c)) =>
    /\ ~Has(toMap[m], Answers(AccountOf[c]))
    /\ ~Precedes(toChar[m], Asks(AccountOf[c]), Changes(c))

(* A login that is under way for a session that is logged in is a second one,
   and the session knows. *)
DoubledOn(m, a) ==
  LET k == id_db[m][a] IN
  k # Nil /\ sd[m][k].auth /\ (Has(toChar[m], Asks(a)) \/ Has(toMap[m], Answers(a))) =>
    sd[m][k].new_fd # Nil

LoginBehind(c)  == \A m \in Maps : BehindOn(m, c)
LoginsDoubled   == \A m \in Maps, a \in Accounts : a \notin clash => DoubledOn(m, a)
CharNewest(c)   == InPlace(c) /\ PlaysNewest(c) /\ Sees(c) /\ LoginBehind(c)

UpdateInv == LoginsDoubled /\ \A c \in Chars : Clean(c) => CharNewest(c)

LEMMA PlaceIs ==
  ASSUME NEW c \in Chars
  PROVE  /\ Place(c) \in Slots /\ CharList[Place(c)] = c
         /\ \A i \in Slots : CharList[i] = c => i = Place(c)
  BY MapSessionAssumption DEF Place, Slots

LEMMA ViewTyped ==
  ASSUME SessionInv, NEW c \in Chars
  PROVE  /\ latest[c] \in Nat /\ Stored(c) \in Nat /\ (c \in announced) \in BOOLEAN
         /\ LiveOn(c) \in SUBSET Maps /\ ActOn(c) \in SUBSET LiveOn(c)
         /\ toChar \in [Maps -> Seq(Packet)] /\ toMap \in [Maps -> Seq(Packet)]
         /\ \A i \in Slots : char_dat[i] \in Status
  <1>1. MaxVersion \in Nat /\ Place(c) \in Slots
    BY MapSessionAssumption, PlaceIs
  <1>2. latest[c] \in Nat /\ Stored(c) \in Nat /\ \A i \in Slots : char_dat[i] \in Status
    BY <1>1 DEF SessionInv, TypeOK, Stored, Status
  <1>3. QED
    BY <1>2 DEF LiveOn, ActOn, SessionInv, LinksTyped

(* The steps of one character, where the servers stand. *)
LEMMA PlaySeen ==
  ASSUME SessionInv, NEW c \in Chars, Sees(c), NEW m \in ActOn(c), LiveOn(c) \subseteq {m},
         \A n \in Maps \ {m} : ~Has(toChar[n], Saves(c))
  PROVE  Followed(c, latest[c] + 1, Stored(c), c \in announced, LiveOn(c), ActOn(c), toChar, toMap)
  <1>1. PICK v, st, ann, live, act, qc, qm :
          /\ v = latest[c] /\ st = Stored(c) /\ ann = (c \in announced)
          /\ live = LiveOn(c) /\ act = ActOn(c) /\ qc = toChar /\ qm = toMap
    OBVIOUS
  <1>2. /\ v \in Nat /\ st \in Nat /\ ann \in BOOLEAN /\ live \in SUBSET Maps /\ act \in SUBSET live
        /\ qc \in [Maps -> Seq(Packet)] /\ qm \in [Maps -> Seq(Packet)]
    BY <1>1, ViewTyped
  <1>3. Followed(c, v, st, ann, live, act, qc, qm)
    BY <1>1 DEF Sees
  <1>4. m \in act /\ live \subseteq {m} /\ \A n \in Maps \ {m} : ~Has(qc[n], Saves(c))
    BY <1>1
  <1>5. Followed(c, v + 1, st, ann, live, act, qc, qm)
    BY ONLY <1>2, <1>3, <1>4, PlayFollowed, c \in Chars
  <1>6. QED
    BY <1>1, <1>5

LEMMA SaveSeen ==
  ASSUME SessionInv, NEW c \in Chars, Sees(c), NEW m \in LiveOn(c),
         NEW p \in Newest(c, latest[c]), p.account = AccountOf[c],
         NEW live2 \in SUBSET LiveOn(c), NEW act2 \in SUBSET ActOn(c), LiveOn(c) \ {m} \subseteq live2
  PROVE  Followed(c, latest[c], Stored(c), c \in announced, live2, act2,
                  [toChar EXCEPT ![m] = Append(@, p)], toMap)
  <1>1. PICK v, st, ann, live, act, qc, qm :
          /\ v = latest[c] /\ st = Stored(c) /\ ann = (c \in announced)
          /\ live = LiveOn(c) /\ act = ActOn(c) /\ qc = toChar /\ qm = toMap
    OBVIOUS
  <1>2. /\ v \in Nat /\ st \in Nat /\ ann \in BOOLEAN /\ live \in SUBSET Maps /\ act \in SUBSET live
        /\ qc \in [Maps -> Seq(Packet)] /\ qm \in [Maps -> Seq(Packet)]
    BY <1>1, ViewTyped
  <1>3. Followed(c, v, st, ann, live, act, qc, qm)
    BY <1>1 DEF Sees
  <1>4. /\ m \in live /\ p \in Newest(c, v) /\ p.account = AccountOf[c]
        /\ Leaves(m, live, act, live2, act2)
    BY <1>1 DEF Leaves
  <1>q. PICK rc : rc = [qc EXCEPT ![m] = Append(@, p)]
    OBVIOUS
  <1>5. Followed(c, v, st, ann, live2, act2, rc, qm)
    BY ONLY <1>2, <1>3, <1>4, <1>q, SaveFollowed, c \in Chars
  <1>6. QED
    BY <1>1, <1>5, <1>q

LEMMA UpdateInit == Init => UpdateInv
  <1> SUFFICES ASSUME Init PROVE UpdateInv
    OBVIOUS
  <1>1. \A m \in Maps : /\ toChar[m] = <<>> /\ toMap[m] = <<>>
                        /\ \A a \in Accounts : id_db[m][a] = Nil
                        /\ \A f \in Fds : ~Open(m, f)
    BY DEF Init, Open, Closed
  <1>2. LoginsDoubled
    BY <1>1 DEF LoginsDoubled, DoubledOn
  <1>3. ASSUME NEW c \in Chars PROVE CharNewest(c)
    <2>1. InPlace(c) /\ Stored(c) = 0 /\ latest[c] = 0
      BY PlaceIs DEF InPlace, Stored, Init
    <2>2. \A m \in Maps, f \in Fds : ~Playing(m, f, c)
      BY <1>1 DEF Playing
    <2>3. PlaysNewest(c) /\ LiveOn(c) = {} /\ ActOn(c) = {} /\ c \notin announced
      BY <2>2 DEF PlaysNewest, LiveOn, ActOn, Init
    <2>4. \A m \in Maps : \A S, U : ~Has(toChar[m], S) /\ ~Has(toMap[m], S) /\ ~Precedes(toChar[m], S, U)
      BY <1>1, QueueEmpty
    <2>5. Sees(c)
      BY <2>1, <2>3, <2>4
      DEF Sees, Followed, SavesOrdered, OlderAlone, GrantAlone, AnnouncedStored,
          NewestSomewhere, ChangesLast
    <2>6. LoginBehind(c)
      BY <1>1, MapSessionAssumption DEF LoginBehind, BehindOn
    <2>7. QED
      BY <2>1, <2>3, <2>5, <2>6 DEF CharNewest
  <1>4. QED
    BY <1>2, <1>3 DEF UpdateInv

-----------------------------------------------------------------------------
(* Steps that leave alone what matters to a character. *)
SameCopies(c) ==
  \A m \in Maps, f \in Fds :
    /\ Playing(m, f, c)' <=> Playing(m, f, c)
    /\ Playing(m, f, c) =>
         /\ SdOf(m, f)'.status = SdOf(m, f).status /\ SdOf(m, f)'.account = SdOf(m, f).account
         /\ SdOf(m, f)'.waiting = SdOf(m, f).waiting

SameLinks(c) ==
  \A m \in Maps : /\ Alike(toChar'[m], toChar[m], Saves(c) \cup Changes(c))
                  /\ Fewer(toMap'[m], toMap[m], Fresh(c))

SameNews(c) == /\ Stored(c)' = Stored(c) /\ latest'[c] = latest[c]
               /\ (c \in announced') = (c \in announced)

LEMMA CopiesSame ==
  ASSUME NEW c \in Chars, SameCopies(c)
  PROVE  /\ LiveOn(c)' = LiveOn(c) /\ ActOn(c)' = ActOn(c)
         /\ PlaysNewest(c) /\ latest'[c] = latest[c] => PlaysNewest(c)'
  <1>1. LiveOn(c)' = LiveOn(c)
    BY DEF LiveOn, SameCopies
  <1>2. ActOn(c)' = ActOn(c)
    BY DEF ActOn, SameCopies
  <1>3. PlaysNewest(c) /\ latest'[c] = latest[c] => PlaysNewest(c)'
    BY DEF PlaysNewest, SameCopies
  <1>4. QED
    BY <1>1, <1>2, <1>3

LEMMA QuietCharacter ==
  ASSUME SessionInv, SessionInv', NEW c \in Chars, CharNewest(c),
         SameCopies(c), SameLinks(c), SameNews(c)
  PROVE  PlaysNewest(c)' /\ Sees(c)'
  <1>1. /\ LiveOn(c)' = LiveOn(c) /\ ActOn(c)' = ActOn(c) /\ PlaysNewest(c)'
    BY CopiesSame DEF CharNewest, SameNews
  <1>2. /\ latest[c] \in Nat /\ Stored(c) \in Nat /\ (c \in announced) \in BOOLEAN
        /\ LiveOn(c) \in SUBSET Maps /\ ActOn(c) \in SUBSET LiveOn(c)
        /\ toChar \in [Maps -> Seq(Packet)] /\ toMap \in [Maps -> Seq(Packet)]
    BY ViewTyped
  <1>3. toChar' \in [Maps -> Seq(Packet)] /\ toMap' \in [Maps -> Seq(Packet)]
    BY DEF SessionInv, LinksTyped
  <1>4. Followed(c, latest[c], Stored(c), c \in announced, LiveOn(c), ActOn(c), toChar', toMap')
    BY <1>2, <1>3, QuietFollowed DEF CharNewest, Sees, SameLinks
  <1>5. QED
    BY <1>1, <1>4 DEF Sees, SameNews

(* The logins under way, in a step that adds none. *)
LoginStays(m, a) ==
  id_db'[m][a] # Nil =>
    /\ id_db'[m][a] = id_db[m][a]
    /\ sd'[m][id_db[m][a]].auth = sd[m][id_db[m][a]].auth
    /\ sd'[m][id_db[m][a]].new_fd = sd[m][id_db[m][a]].new_fd

NoneAsked(m, a) ==
  Has(toChar'[m], Asks(a)) \/ Has(toMap'[m], Answers(a)) =>
    Has(toChar[m], Asks(a)) \/ Has(toMap[m], Answers(a))

NoneBehind(m, c) ==
  /\ Has(toChar'[m], Changes(c)) => Has(toChar[m], Changes(c))
  /\ Precedes(toChar'[m], Asks(AccountOf[c]), Changes(c)) =>
       Precedes(toChar[m], Asks(AccountOf[c]), Changes(c))
  /\ Has(toMap'[m], Answers(AccountOf[c])) => Has(toMap[m], Answers(AccountOf[c]))

LEMMA DoubledStays ==
  ASSUME LoginsDoubled, NEW m \in Maps, NEW a \in Accounts, a \notin clash,
         LoginStays(m, a), NoneAsked(m, a)
  PROVE  DoubledOn(m, a)'
  BY DEF LoginsDoubled, DoubledOn, LoginStays, NoneAsked

LEMMA BehindStays ==
  ASSUME NEW m \in Maps, NEW c \in Chars, LoginBehind(c),
         LoginStays(m, AccountOf[c]), NoneBehind(m, c)
  PROVE  BehindOn(m, c)'
  BY DEF LoginBehind, BehindOn, LoginStays, NoneBehind

(* A step of the servers, with regard to the characters that stay clean. *)
Grows == clash \subseteq clash' /\ suspect \subseteq suspect'

LEMMA StaysClean ==
  ASSUME UpdateInv, Grows, NEW c \in Chars, Clean(c)'
  PROVE  /\ Clean(c) /\ CharNewest(c) /\ AccountOf[c] \in Accounts
         /\ AccountOf[c] \notin clash /\ AccountOf[c] \notin clash'
         /\ c \notin suspect /\ c \notin suspect'
  BY MapSessionAssumption DEF UpdateInv, Grows, Clean

LEMMA QuietUpdates ==
  ASSUME SessionInv, SessionInv', UpdateInv, Grows,
         \A m \in Maps, a \in Accounts \ clash' : LoginStays(m, a) /\ NoneAsked(m, a),
         \A c \in Chars : Clean(c)' =>
           /\ InPlace(c)' /\ SameNews(c) /\ SameCopies(c) /\ SameLinks(c)
           /\ \A m \in Maps : NoneBehind(m, c)
  PROVE  UpdateInv'
  <1>1. LoginsDoubled'
    BY DoubledStays DEF UpdateInv, LoginsDoubled, Grows
  <1>2. ASSUME NEW c \in Chars, Clean(c)' PROVE CharNewest(c)'
    <2>1. CharNewest(c) /\ AccountOf[c] \in Accounts \ clash'
      BY <1>2, StaysClean
    <2>2. PlaysNewest(c)' /\ Sees(c)'
      BY <1>2, <2>1, QuietCharacter
    <2>3. LoginBehind(c)'
      BY <1>2, <2>1, BehindStays DEF LoginBehind, CharNewest
    <2>4. QED
      BY <1>2, <2>2, <2>3 DEF CharNewest
  <1>3. QED
    BY <1>1, <1>2 DEF UpdateInv

(* What is stored, and who plays, when nothing touches it. *)
LEMMA StoreSame ==
  ASSUME UNCHANGED <<char_dat, latest, announced>>, NEW c \in Chars, InPlace(c)
  PROVE  InPlace(c)' /\ SameNews(c)
  BY DEF InPlace, SameNews, Stored, Place, Slots

LEMMA SessionsUnmoved ==
  ASSUME SessionInv,
         \A m \in Maps, f \in Fds : conn'[m][f].sd = conn[m][f].sd /\ (Open(m, f)' <=> Open(m, f)),
         UNCHANGED <<sd, id_db>>
  PROVE  /\ \A c \in Chars : SameCopies(c)
         /\ \A m \in Maps, a \in Accounts : LoginStays(m, a)
  <1>1. ASSUME NEW m \in Maps, NEW f \in Fds
        PROVE  /\ SdOf(m, f)' = SdOf(m, f)
               /\ \A c \in Chars : Playing(m, f, c)' <=> Playing(m, f, c)
    <2>1. SdOf(m, f)' = SdOf(m, f)
      BY DEF SdOf
    <2>2. QED
      BY <2>1 DEF Playing
  <1>2. ASSUME NEW m \in Maps, NEW a \in Accounts PROVE LoginStays(m, a)
    BY DEF LoginStays
  <1>3. QED
    BY <1>1, <1>2 DEF SameCopies

(* Links on which at most one packet is put, or taken from. *)
LEMMA SentOne ==
  ASSUME SessionInv, NEW m \in Maps, NEW p \in Packet
  PROVE  /\ Sent(m, <<p>>) = IF chrif[m] = "down" THEN toChar
                             ELSE [toChar EXCEPT ![m] = Append(@, p)]
         /\ Sent(m, <<p>>) \in [Maps -> Seq(Packet)]
  <1>1. toChar \in [Maps -> Seq(Packet)]
    BY DEF SessionInv, LinksTyped
  <1>2. toChar[m] \o <<p>> = Append(toChar[m], p) /\ Append(toChar[m], p) \in Seq(Packet)
    BY <1>1
  <1> DEFINE q == Append(toChar[m], p)
  <1>3. Sent(m, <<p>>) = IF chrif[m] = "down" THEN toChar ELSE [toChar EXCEPT ![m] = q]
    BY <1>2, Zenon DEF Sent
  <1> HIDE DEF q
  <1>4. Sent(m, <<p>>) \in [Maps -> Seq(Packet)]
    <2>1. q \in Seq(Packet)
      BY <1>2 DEF q
    <2>2. QED
      BY <1>1, <1>3, <2>1
  <1>5. QED
    BY <1>3, <1>4, Zenon DEF q

LEMMA LinkUnmoved ==
  ASSUME SessionInv, NEW m \in Maps, NEW c \in Chars,
         toChar'[m] = toChar[m], toMap'[m] = toMap[m]
  PROVE  /\ Alike(toChar'[m], toChar[m], Saves(c) \cup Changes(c))
         /\ Fewer(toMap'[m], toMap[m], Fresh(c)) /\ NoneBehind(m, c)
         /\ \A a \in Accounts : NoneAsked(m, a)
  <1>1. toChar[m] \in Seq(Packet) /\ toMap[m] \in Seq(Packet)
    BY DEF SessionInv, LinksTyped
  <1>2. QED
    BY <1>1, AlikeQueues, FewerPackets DEF NoneBehind, NoneAsked

LEMMA SendingQuiet ==
  ASSUME SessionInv, NEW m \in Maps, NEW p \in Packet, NEW c \in Chars,
         toChar' = Sent(m, <<p>>) \/ UNCHANGED toChar, UNCHANGED toMap,
         p.kind # "change"
  PROVE  /\ \A n \in Maps : NoneBehind(n, c)
         /\ p \notin Saves(c) => SameLinks(c)
         /\ \A a \in Accounts : p \notin Asks(a) => \A n \in Maps : NoneAsked(n, a)
  <1>1. toChar \in [Maps -> Seq(Packet)] /\ toMap \in [Maps -> Seq(Packet)] /\ p \notin Changes(c)
    BY DEF SessionInv, LinksTyped, Changes
  <1>2. ASSUME NEW n \in Maps, toChar'[n] # toChar[n]
        PROVE  toChar'[n] = Append(toChar[n], p)
    <2>1. toChar' = [toChar EXCEPT ![m] = Append(@, p)]
      BY <1>2, SentOne, Zenon
    <2>2. QED
      BY <1>1, <1>2, <2>1
  <1>3. ASSUME NEW n \in Maps
        PROVE  /\ NoneBehind(n, c)
               /\ p \notin Saves(c) => /\ Alike(toChar'[n], toChar[n], Saves(c) \cup Changes(c))
                                       /\ Fewer(toMap'[n], toMap[n], Fresh(c))
               /\ \A a \in Accounts : p \notin Asks(a) => NoneAsked(n, a)
    <2>1. CASE toChar'[n] = toChar[n]
      BY <2>1, LinkUnmoved
    <2>2. CASE toChar'[n] = Append(toChar[n], p)
      <3>1. toChar[n] \in Seq(Packet) /\ toMap[n] \in Seq(Packet) /\ toMap'[n] = toMap[n]
        BY <1>1
      <3>2. NoneBehind(n, c)
        <4>1. \A S, U : Precedes(Append(toChar[n], p), S, U) <=>
                 Precedes(toChar[n], S, U) \/ (Has(toChar[n], S) /\ p \in U)
          BY <3>1, QueueAppend
        <4>2. \A S : Has(Append(toChar[n], p), S) <=> Has(toChar[n], S) \/ p \in S
          BY <3>1, HasAppend
        <4>3. QED
          BY <1>1, <2>2, <3>1, <4>1, <4>2 DEF NoneBehind
      <3>3. p \notin Saves(c) => /\ Alike(toChar'[n], toChar[n], Saves(c) \cup Changes(c))
                                 /\ Fewer(toMap'[n], toMap[n], Fresh(c))
        BY <1>1, <2>2, <3>1, AlikeQueues, FewerPackets
      <3>4. \A a \in Accounts : p \notin Asks(a) => NoneAsked(n, a)
        BY <2>2, <3>1, HasAppend DEF NoneAsked
      <3>5. QED
        BY <3>2, <3>3, <3>4
    <2>3. QED
      BY <1>2, <2>1, <2>2
  <1>4. QED
    BY <1>3 DEF SameLinks

-----------------------------------------------------------------------------
(* Steps that send at most one packet that says nothing of any character. *)
LEMMA TalkUpdates ==
  ASSUME SessionInv, SessionInv', UpdateInv, NEW m \in Maps, NEW p \in Packet,
         p.kind \notin {"save", "change", "authreq"},
         toChar' = Sent(m, <<p>>) \/ UNCHANGED toChar, UNCHANGED toMap,
         UNCHANGED <<char_dat, sd, id_db, hist>>,
         \A n \in Maps, g \in Fds : conn'[n][g].sd = conn[n][g].sd /\ (Open(n, g)' <=> Open(n, g))
  PROVE  UpdateInv'
  <1>1. UNCHANGED <<latest, clash, announced, suspect>> /\ Grows
    BY DEF hist, Grows
  <1>2. /\ \A c \in Chars : SameCopies(c)
        /\ \A n \in Maps, a \in Accounts : LoginStays(n, a)
    BY SessionsUnmoved
  <1>3. /\ \A c \in Chars : p \notin Saves(c)
        /\ \A a \in Accounts : p \notin Asks(a)
    BY DEF Saves, Asks
  <1>4. ASSUME NEW c \in Chars
        PROVE  /\ SameLinks(c) /\ \A n \in Maps : NoneBehind(n, c)
               /\ \A n \in Maps, a \in Accounts : NoneAsked(n, a)
    BY <1>3, SendingQuiet
  <1>5. Chars # {}
    BY MapSessionAssumption
  <1>6. ASSUME NEW c \in Chars, Clean(c)' PROVE InPlace(c)' /\ SameNews(c)
    <2>1. InPlace(c)
      BY <1>1, <1>6, StaysClean DEF CharNewest
    <2>2. QED
      BY <1>1, <2>1, StoreSame
  <1>7. QED
    BY <1>1, <1>2, <1>4, <1>5, <1>6, QuietUpdates

LEMMA StillUpdates ==
  ASSUME SessionInv, SessionInv', UpdateInv,
         UNCHANGED <<char_dat, toChar, toMap, sd, id_db, hist>>,
         \A n \in Maps, g \in Fds : conn'[n][g].sd = conn[n][g].sd /\ (Open(n, g)' <=> Open(n, g))
  PROVE  UpdateInv'
  <1>1. UNCHANGED <<latest, clash, announced, suspect>> /\ Grows
    BY DEF hist, Grows
  <1>2. /\ \A c \in Chars : SameCopies(c)
        /\ \A n \in Maps, a \in Accounts : LoginStays(n, a)
    BY SessionsUnmoved
  <1>3. ASSUME NEW c \in Chars
        PROVE  /\ SameLinks(c) /\ \A n \in Maps : NoneBehind(n, c)
               /\ \A n \in Maps, a \in Accounts : NoneAsked(n, a)
    BY LinkUnmoved DEF SameLinks
  <1>4. Chars # {}
    BY MapSessionAssumption
  <1>5. ASSUME NEW c \in Chars, Clean(c)' PROVE InPlace(c)' /\ SameNews(c)
    <2>1. InPlace(c)
      BY <1>1, <1>5, StaysClean DEF CharNewest
    <2>2. QED
      BY <1>1, <2>1, StoreSame
  <1>6. QED
    BY <1>1, <1>2, <1>3, <1>4, <1>5, QuietUpdates

LEMMA SelectCharUpdates ==
  ASSUME SessionInv, SessionInv', UpdateInv, NEW c \in Chars, SelectChar(c)
  PROVE  UpdateInv'
  BY StillUpdates DEF SelectChar, links, server, Open

LEMMA QuietStepUpdates ==
  ASSUME SessionInv, SessionInv', UpdateInv, NEW m \in Maps, NEW f \in Fds,
         Restart(m, f) \/ QuitGame(m, f) \/ Disconnect(m, f) \/ WaitClose(m, f)
  PROVE  UpdateInv'
  <1> DEFINE a == SdOf(m, f).account
             p == Msg("charselect", a, Nil, NoStatus)
  <1>1. CASE Restart(m, f) \/ QuitGame(m, f)
    <2>1. Open(m, f) /\ SdOf(m, f).auth
      BY <1>1 DEF Restart, QuitGame, Acts, Open
    <2>2. a \in Accounts
      BY <2>1, ActsTyped
    <2>3. p \in Packet /\ p.kind = "charselect"
      BY <2>2, MsgTyped DEF Kinds, Msg
    <2>4. /\ toChar' = Sent(m, <<p>>) \/ UNCHANGED toChar
          /\ UNCHANGED <<char_dat, conn, sd, id_db, toMap, hist>>
      BY <1>1 DEF Restart, QuitGame, chars, links, server
    <2> HIDE DEF p
    <2>5. QED
      BY <2>3, <2>4, TalkUpdates DEF Open
  <1>2. CASE Disconnect(m, f) \/ WaitClose(m, f)
    <2>1. /\ UNCHANGED <<char_dat, toChar, toMap, sd, id_db, hist>>
          /\ \/ Open(m, f) /\ conn' = [conn EXCEPT ![m][f].st = "eof"]
             \/ conn' = conn
      BY <1>2 DEF Disconnect, WaitClose, Open, chars, links
    <2>2. \A n \in Maps, g \in Fds : conn'[n][g].sd = conn[n][g].sd /\ (Open(n, g)' <=> Open(n, g))
      <3>1. CASE conn' = conn
        BY <3>1 DEF Open
      <3>2. CASE Open(m, f) /\ conn' = [conn EXCEPT ![m][f].st = "eof"]
        <4> DEFINE shut == [conn[m][f] EXCEPT !.st = "eof"]
        <4>1. conn' = [conn EXCEPT ![m][f] = shut] /\ shut.sd = conn[m][f].sd /\ shut.st = "eof"
          BY <3>2 DEF SessionInv, TypeOK
        <4> HIDE DEF shut
        <4>2. \A n \in Maps, g \in Fds :
                conn'[n][g] = IF n = m /\ g = f THEN shut ELSE conn[n][g]
          BY <4>1 DEF SessionInv, TypeOK
        <4>3. QED
          BY <3>2, <4>1, <4>2 DEF Open
      <3>3. QED
        BY <2>1, <3>1, <3>2
    <2>3. QED
      BY <2>1, <2>2, StillUpdates
  <1>3. QED
    BY <1>1, <1>2

LEMMA RelinkUpdates ==
  ASSUME SessionInv, SessionInv', UpdateInv, NEW m \in Maps,
         check_connect_char_server(m) \/ chrif_sendmapack(m)
  PROVE  UpdateInv'
  <1>1. UNCHANGED <<char_dat, toChar, toMap, conn, sd, id_db, hist>>
    BY DEF check_connect_char_server, chrif_sendmapack, chars, server
  <1>2. QED
    BY <1>1, StillUpdates DEF Open

-----------------------------------------------------------------------------
(* The session of a character whose account did not clash is alone on its map
   server, and id_db knows it. *)
LEMMA OnlySession ==
  ASSUME SessionInv, NEW c \in Chars, PlaysNewest(c), AccountOf[c] \notin clash,
         NEW m \in Maps, NEW f \in Fds, Playing(m, f, c)
  PROVE  /\ id_db[m][AccountOf[c]] = conn[m][f].sd
         /\ conn[m][f].sd \in Chunks /\ conn[m][f].sd # Nil
         /\ \A g \in Fds : Playing(m, g, c) => g = f
  <1>1. \A g \in Fds : Playing(m, g, c) => id_db[m][AccountOf[c]] = conn[m][g].sd /\ Open(m, g)
    BY DEF SessionInv, LoggedInFound, PlaysNewest, Playing
  <1>2. QED
    BY <1>1, MapSessionAssumption DEF SessionInv, ChunksInUse

(* One session is written to. *)
LEMMA WrittenAt ==
  ASSUME SessionInv, NEW m \in Maps, NEW f \in Fds, Open(m, f), NEW new \in Session,
         sd' = Put(sd, m, conn[m][f].sd, new), UNCHANGED conn
  PROVE  /\ \A n \in Maps, g \in Fds : Open(n, g)' <=> Open(n, g)
         /\ SdOf(m, f)' = new /\ sd'[m][conn[m][f].sd] = new
         /\ \A n \in Maps, g \in Fds : Open(n, g) /\ (n # m \/ g # f) => SdOf(n, g)' = SdOf(n, g)
         /\ \A n \in Maps, j \in Chunks : n # m \/ j # conn[m][f].sd => sd'[n][j] = sd[n][j]
  <1> DEFINE k == conn[m][f].sd
  <1>1. k \in Chunks /\ \A g \in Fds : Open(m, f) /\ conn[m][f].sd = conn[m][g].sd => f = g
    BY DEF SessionInv, ChunksInUse
  <1>2. sd' = [sd EXCEPT ![m][k] = new]
    BY DEF Put
  <1> HIDE DEF k
  <1>3. /\ sd'[m][k] = new
        /\ \A n \in Maps, j \in Chunks : n # m \/ j # k => sd'[n][j] = sd[n][j]
    <2>1. sd \in Memory
      BY MemoryTyped DEF SessionInv
    <2>2. QED
      BY <1>1, <1>2, <2>1 DEF Memory
  <1>4. \A n \in Maps, g \in Fds : Open(n, g) => conn[n][g].sd \in Chunks
    BY DEF SessionInv, ChunksInUse
  <1>5. QED
    BY <1>1, <1>3, <1>4 DEF k, Open, SdOf

(* What such a session is for the logins of its account, and of others. *)
LEMMA WrittenLogins ==
  ASSUME SessionInv, NEW m \in Maps, NEW f \in Fds, Open(m, f), NEW new \in Session,
         sd' = Put(sd, m, conn[m][f].sd, new), UNCHANGED <<conn, id_db>>,
         new.auth = SdOf(m, f).auth, new.new_fd = SdOf(m, f).new_fd
  PROVE  \A n \in Maps, a \in Accounts : LoginStays(n, a)
  <1>1. \A n \in Maps, a \in Accounts : id_db[n][a] # Nil => id_db[n][a] \in Chunks
    BY DEF SessionInv, TypeOK
  <1>2. /\ sd'[m][conn[m][f].sd] = new
        /\ \A n \in Maps, j \in Chunks : n # m \/ j # conn[m][f].sd => sd'[n][j] = sd[n][j]
    BY WrittenAt
  <1>3. QED
    BY <1>1, <1>2 DEF LoginStays, SdOf

LEMMA OthersKept ==
  ASSUME SessionInv, NEW m \in Maps, NEW f \in Fds, Open(m, f), NEW new \in Session,
         sd' = Put(sd, m, conn[m][f].sd, new), UNCHANGED conn,
         NEW d, SdOf(m, f).status.char # d, new.status.char # d
  PROVE  SameCopies(d)
  <1>1. /\ \A n \in Maps, g \in Fds : Open(n, g)' <=> Open(n, g)
        /\ SdOf(m, f)' = new
        /\ \A n \in Maps, g \in Fds : Open(n, g) /\ (n # m \/ g # f) => SdOf(n, g)' = SdOf(n, g)
    BY WrittenAt
  <1>2. ~Playing(m, f, d) /\ ~Playing(m, f, d)'
    BY <1>1 DEF Playing
  <1>3. ASSUME NEW n \in Maps, NEW g \in Fds, n # m \/ g # f
        PROVE  /\ Playing(n, g, d)' <=> Playing(n, g, d)
               /\ Playing(n, g, d) => SdOf(n, g)' = SdOf(n, g)
    BY <1>1, <1>3 DEF Playing
  <1>4. QED
    BY <1>2, <1>3 DEF SameCopies

LEMMA PlayUpdates ==
  ASSUME SessionInv, SessionInv', UpdateInv, NEW m \in Maps, NEW f \in Fds, Play(m, f)
  PROVE  UpdateInv'
  <1>0. PICK c \in Chars : c = SdOf(m, f).status.char
    BY ActsTyped DEF Play, Acts, Open
  <1> DEFINE k == conn[m][f].sd
             new == [sd[m][k] EXCEPT !.status.ver = latest[c] + 1]
  <1>1. TypeOK /\ Open(m, f) /\ SdOf(m, f).auth /\ ~SdOf(m, f).waiting
    BY DEF SessionInv, Play, Acts, Open
  <1>2. /\ k \in Chunks /\ sd[m][k] \in Session /\ sd[m][k].status \in Status /\ c \in Chars
        /\ sd[m][k] = SdOf(m, f)
    BY <1>0, <1>1, ActsTyped DEF SdOf
  <1>3. latest[c] \in Nat /\ latest[c] + 1 \in 0 .. MaxVersion
    BY <1>0, <1>1, <1>2, MapSessionAssumption DEF TypeOK, Play
  <1>4. /\ new \in Session /\ new.account = sd[m][k].account /\ new.auth = sd[m][k].auth
        /\ new.new_fd = sd[m][k].new_fd /\ new.waiting = sd[m][k].waiting
        /\ new.status.char = c /\ new.status.ver = latest[c] + 1
    BY <1>0, <1>2, <1>3 DEF Session, Status
  <1>5. /\ sd' = Put(sd, m, k, new) /\ UNCHANGED <<chars, links, conn, id_db, clash, announced>>
        /\ latest' = [latest EXCEPT ![c] = @ + 1]
        /\ suspect' = suspect \cup
             {x \in {c} : Live(c) # {<<m, f>>} \/ \E n \in Maps \ {m} : SaveOnWay(n, c)}
    BY <1>0 DEF Play, Put
  <1> HIDE DEF new
  <1>6. UNCHANGED <<char_dat, toChar, toMap>> /\ Grows
    BY <1>5 DEF chars, links, Grows
  <1>7. /\ \A n \in Maps, g \in Fds : Open(n, g)' <=> Open(n, g)
        /\ SdOf(m, f)' = new
        /\ \A n \in Maps, g \in Fds : Open(n, g) /\ (n # m \/ g # f) => SdOf(n, g)' = SdOf(n, g)
    BY <1>1, <1>4, <1>5, WrittenAt
  <1>8. \A n \in Maps, a \in Accounts : LoginStays(n, a)
    BY <1>1, <1>2, <1>4, <1>5, WrittenLogins
  <1>9. ASSUME NEW d \in Chars
        PROVE  /\ \A n \in Maps, a \in Accounts : NoneAsked(n, a)
               /\ \A n \in Maps : NoneBehind(n, d)
               /\ SameLinks(d)
    BY <1>6, LinkUnmoved DEF SameLinks
  <1>10. LoginsDoubled'
    BY <1>2, <1>6, <1>8, <1>9, DoubledStays DEF UpdateInv, LoginsDoubled, Grows
  <1>11. ASSUME NEW d \in Chars, Clean(d)' PROVE CharNewest(d)'
    <2>1. CharNewest(d) /\ AccountOf[d] \in Accounts /\ AccountOf[d] \notin clash /\ d \notin suspect'
      BY <1>6, <1>11, StaysClean
    <2>2. LoginBehind(d)'
      BY <1>8, <1>9, <2>1, BehindStays DEF LoginBehind, CharNewest
    <2>3. InPlace(d)' /\ Stored(d)' = Stored(d) /\ (d \in announced') = (d \in announced)
      BY <1>5, <1>6, <2>1 DEF CharNewest, InPlace, Stored, Place, Slots
    <2>4. CASE d # c
      <3>1. SameCopies(d)
        BY <1>0, <1>1, <1>4, <1>5, <2>4, OthersKept
      <3>2. latest'[d] = latest[d]
        BY <1>1, <1>5, <2>4 DEF TypeOK
      <3>3. PlaysNewest(d)' /\ Sees(d)'
        BY <1>9, <2>1, <2>3, <3>1, <3>2, QuietCharacter DEF SameNews
      <3>4. QED
        BY <2>2, <2>3, <3>3 DEF CharNewest
    <2>5. CASE d = c
      <3>1. Live(c) = {<<m, f>>} /\ \A n \in Maps \ {m} : ~SaveOnWay(n, c)
        BY <1>5, <2>1, <2>5
      <3>2. \A n \in Maps, g \in Fds : Playing(n, g, c) => n = m /\ g = f
        <4>1. ASSUME NEW n \in Maps, NEW g \in Fds, Playing(n, g, c) PROVE n = m /\ g = f
          <5>1. <<n, g>> \in Live(c)
            BY <4>1 DEF Live
          <5>2. QED
            BY <3>1, <5>1
        <4>2. QED
          BY <4>1
      <3>3. Playing(m, f, c)
        BY <1>0, <1>1 DEF Playing
      <3>4. LiveOn(c) = {m} /\ m \in ActOn(c)
        BY <1>1, <3>2, <3>3 DEF LiveOn, ActOn
      <3>5. \A n \in Maps \ {m} : ~Has(toChar[n], Saves(c))
        BY <3>1 DEF Has, Saves, SaveOnWay
      <3>6. Followed(c, latest[c] + 1, Stored(c), c \in announced, LiveOn(c), ActOn(c), toChar, toMap)
        <4>1. Sees(c)
          BY <2>1, <2>5 DEF CharNewest
        <4>2. QED
          BY <1>2, <3>4, <3>5, <4>1, PlaySeen
      <3>7. latest'[c] = latest[c] + 1
        BY <1>1, <1>2, <1>5 DEF TypeOK
      <3>8. \A n \in Maps, g \in Fds : Playing(n, g, c)' <=> Playing(n, g, c)
        <4>1. Playing(m, f, c)'
          BY <1>1, <1>2, <1>4, <1>7 DEF Playing
        <4>2. ASSUME NEW n \in Maps, NEW g \in Fds, n # m \/ g # f
              PROVE  Playing(n, g, c)' <=> Playing(n, g, c)
          BY <1>7, <4>2 DEF Playing
        <4>3. QED
          BY <3>3, <4>1, <4>2
      <3>9. SdOf(m, f)'.waiting = SdOf(m, f).waiting /\ SdOf(m, f)'.account = SdOf(m, f).account
            /\ SdOf(m, f)'.status.ver = latest'[c]
        BY <1>2, <1>4, <1>7, <3>7
      <3>10. LiveOn(c)' = LiveOn(c) /\ ActOn(c)' = ActOn(c)
        BY <3>2, <3>8, <3>9 DEF LiveOn, ActOn
      <3>11. PlaysNewest(c)'
        BY <2>1, <2>5, <3>2, <3>3, <3>8, <3>9 DEF CharNewest, PlaysNewest
      <3>12. Sees(c)'
        BY <1>6, <2>3, <2>5, <3>6, <3>7, <3>10 DEF Sees
      <3>13. QED
        BY <2>2, <2>3, <2>5, <3>11, <3>12 DEF CharNewest
    <2>6. QED
      BY <2>4, <2>5
  <1>12. QED
    BY <1>10, <1>11 DEF UpdateInv

(* The save of a session that plays a character is its newest status. *)
LEMMA SaveIsNewest ==
  ASSUME SessionInv, NEW c \in Chars, PlaysNewest(c), NEW m \in Maps, NEW f \in Fds, Playing(m, f, c)
  PROVE  SaveOf(SdOf(m, f)) \in Newest(c, latest[c]) /\ SaveOf(SdOf(m, f)).account = AccountOf[c]
  <1>1. SaveOf(SdOf(m, f)) \in Packet
    BY ActsTyped DEF Playing
  <1>2. QED
    BY <1>1 DEF PlaysNewest, Playing, SaveOf, Msg, Newest, Saves

LEMMA SaveOfOther ==
  ASSUME NEW x, NEW d, x.status.char # d
  PROVE  SaveOf(x) \notin Saves(d) /\ \A a : SaveOf(x) \notin Asks(a)
  BY DEF SaveOf, Msg, Saves, Asks

(* pc_autosave: the save of a session that stays. *)
LEMMA AutosaveUpdates ==
  ASSUME SessionInv, SessionInv', UpdateInv, NEW m \in Maps, NEW f \in Fds, Autosave(m, f)
  PROVE  UpdateInv'
  <1> DEFINE x == SdOf(m, f)
             p == SaveOf(x)
  <1>1. /\ Open(m, f) /\ x.auth /\ toChar' = Sent(m, <<p>>)
        /\ UNCHANGED <<char_dat, toMap, conn, sd, id_db, latest, clash, announced, suspect>> /\ Grows
    BY DEF Autosave, chars, server, hist, Grows
  <1>2. p \in Packet /\ p.kind = "save" /\ x.status.char \in Chars
    BY <1>1, ActsTyped DEF SaveOf, Msg
  <1>3. /\ \A d \in Chars : SameCopies(d)
        /\ \A n \in Maps, a \in Accounts : LoginStays(n, a)
    BY <1>1, SessionsUnmoved DEF Open
  <1>4. \A d \in Chars : /\ \A n \in Maps : NoneBehind(n, d)
                         /\ x.status.char # d => SameLinks(d)
                         /\ \A n \in Maps, a \in Accounts : NoneAsked(n, a)
    BY <1>1, <1>2, SendingQuiet, SaveOfOther
  <1>5. LoginsDoubled'
    BY <1>1, <1>2, <1>3, <1>4, DoubledStays DEF UpdateInv, LoginsDoubled, Grows
  <1>6. ASSUME NEW d \in Chars, Clean(d)' PROVE CharNewest(d)'
    <2>1. CharNewest(d) /\ AccountOf[d] \in Accounts
      BY <1>1, <1>6, StaysClean
    <2>2. InPlace(d)' /\ SameNews(d)
      BY <1>1, <2>1, StoreSame DEF CharNewest
    <2>3. LoginBehind(d)'
      BY <1>3, <1>4, <2>1, BehindStays DEF LoginBehind, CharNewest
    <2>4. CASE x.status.char # d \/ chrif[m] = "down"
      <3>1. SameLinks(d)
        <4>1. CASE chrif[m] = "down"
          <5>1. UNCHANGED toChar
            BY <1>1, <4>1 DEF Sent
          <5>2. QED
            BY <1>1, <5>1, LinkUnmoved DEF SameLinks
        <4>2. QED
          BY <1>4, <2>4, <4>1
      <3>2. QED
        BY <1>3, <2>1, <2>2, <2>3, <3>1, QuietCharacter DEF CharNewest
    <2>5. CASE x.status.char = d /\ chrif[m] # "down"
      <3>1. Playing(m, f, d)
        BY <1>1, <2>5 DEF Playing
      <3>2. m \in LiveOn(d)
        BY <3>1 DEF LiveOn
      <3>3. p \in Newest(d, latest[d]) /\ p.account = AccountOf[d]
        BY <2>1, <3>1, SaveIsNewest DEF CharNewest
      <3> HIDE DEF p
      <3>4. toChar' = [toChar EXCEPT ![m] = Append(@, p)]
        BY <1>1, <1>2, <2>5, SentOne
      <3>5. Followed(d, latest[d], Stored(d), d \in announced, LiveOn(d), ActOn(d), toChar', toMap)
        <4>1. Sees(d) /\ LiveOn(d) \ {m} \subseteq LiveOn(d)
          BY <2>1 DEF CharNewest
        <4>2. QED
          BY <3>2, <3>3, <3>4, <4>1, SaveSeen
      <3>6. /\ LiveOn(d)' = LiveOn(d) /\ ActOn(d)' = ActOn(d) /\ PlaysNewest(d)'
        BY <1>1, <1>3, <2>1, CopiesSame DEF CharNewest
      <3>7. Sees(d)'
        BY <1>1, <2>2, <3>5, <3>6 DEF Sees, SameNews
      <3>8. QED
        BY <2>2, <2>3, <3>6, <3>7 DEF CharNewest
    <2>6. QED
      BY <2>4, <2>5
  <1>7. QED
    BY <1>5, <1>6 DEF UpdateInv

(* A connection ends: the session leaves its newest status behind. *)
LEMMA DropUpdates ==
  ASSUME SessionInv, SessionInv', UpdateInv, NEW m \in Maps, NEW f \in Fds, Drop(m, f)
  PROVE  UpdateInv'
  <1> DEFINE x == SdOf(m, f)
             p == SaveOf(x)
  <1>1. /\ Open(m, f) /\ conn' = [conn EXCEPT ![m][f] = Closed]
        /\ UNCHANGED <<char_dat, toMap, sd, latest, announced>> /\ clash \subseteq clash'
        /\ \/ /\ x.auth /\ toChar' = Sent(m, <<p>>)
              /\ id_db' = [id_db EXCEPT ![m][x.account] = Nil]
              /\ suspect' = suspect \cup {c \in {x.status.char} : chrif[m] = "down"}
           \/ ~x.auth /\ UNCHANGED <<toChar, id_db, suspect>>
    BY DEF Drop, map_quit, Open, chars
  <1>2. Grows
    BY <1>1 DEF Grows
  <1>3. x.auth => p \in Packet /\ p.kind = "save" /\ x.status.char \in Chars /\ x.account \in Accounts
    BY <1>1, ActsTyped DEF SaveOf, Msg
  <1>4. /\ ~Open(m, f)'
        /\ \A n \in Maps, g \in Fds : n # m \/ g # f =>
             (Open(n, g)' <=> Open(n, g)) /\ SdOf(n, g)' = SdOf(n, g)
    <2>1. \A n \in Maps, g \in Fds : conn'[n][g] = IF n = m /\ g = f THEN Closed ELSE conn[n][g]
      BY <1>1 DEF SessionInv, TypeOK
    <2>2. ~Open(m, f)'
      BY <2>1 DEF Open, Closed
    <2>3. UNCHANGED sd
      BY <1>1
    <2>4. QED
      BY <2>1, <2>2, <2>3 DEF Open, SdOf
  <1>5. \A n \in Maps, a \in Accounts : LoginStays(n, a)
    <2>1. \A n \in Maps, a \in Accounts : id_db'[n][a] # Nil => id_db'[n][a] = id_db[n][a]
      <3>1. id_db \in [Maps -> [Accounts -> Chunks \cup {Nil}]]
        BY DEF SessionInv, TypeOK
      <3>2. CASE id_db' = [id_db EXCEPT ![m][x.account] = Nil]
        BY <3>1, <3>2
      <3>3. QED
        BY <1>1, <3>2
    <2>2. QED
      BY <1>1, <2>1 DEF LoginStays
  <1>6. \A d \in Chars : /\ \A n \in Maps : NoneBehind(n, d)
                         /\ ~x.auth \/ x.status.char # d => SameLinks(d)
                         /\ \A n \in Maps, a \in Accounts : NoneAsked(n, a)
    <2>1. CASE x.auth
      BY <1>1, <1>3, <2>1, SendingQuiet, SaveOfOther
    <2>2. CASE ~x.auth
      BY <1>1, <2>2, LinkUnmoved DEF SameLinks
    <2>3. QED
      BY <2>1, <2>2
  <1>7. LoginsDoubled'
    <2>1. Chars # {}
      BY MapSessionAssumption
    <2>2. QED
      BY <1>2, <1>5, <1>6, <2>1, DoubledStays DEF UpdateInv, LoginsDoubled, Grows
  <1>8. ASSUME NEW d \in Chars, Clean(d)' PROVE CharNewest(d)'
    <2>1. CharNewest(d) /\ AccountOf[d] \in Accounts \ clash /\ d \notin suspect'
      BY <1>2, <1>8, StaysClean
    <2>2. InPlace(d)' /\ SameNews(d)
      BY <1>1, <2>1, StoreSame DEF CharNewest
    <2>3. LoginBehind(d)'
      BY <1>5, <1>6, <2>1, BehindStays DEF LoginBehind, CharNewest
    <2>4. CASE ~x.auth \/ x.status.char # d
      <3>1. ~Playing(m, f, d) /\ ~Playing(m, f, d)'
        BY <1>4, <2>4 DEF Playing
      <3>2. ASSUME NEW n \in Maps, NEW g \in Fds, n # m \/ g # f
            PROVE  /\ Playing(n, g, d)' <=> Playing(n, g, d)
                   /\ SdOf(n, g)' = SdOf(n, g)
        BY <1>4, <3>2 DEF Playing
      <3>3. SameCopies(d)
        BY <3>1, <3>2 DEF SameCopies
      <3>4. QED
        BY <1>6, <2>1, <2>2, <2>3, <2>4, <3>3, QuietCharacter DEF CharNewest
    <2>5. CASE x.auth /\ x.status.char = d
      <3>1. Playing(m, f, d) /\ chrif[m] # "down"
        BY <1>1, <2>1, <2>5 DEF Playing
      <3>2. m \in LiveOn(d)
        BY <3>1 DEF LiveOn
      <3>3. p \in Newest(d, latest[d]) /\ p.account = AccountOf[d]
        BY <2>1, <3>1, SaveIsNewest DEF CharNewest
      <3>4. toChar' = [toChar EXCEPT ![m] = Append(@, p)]
        BY <1>1, <1>3, <2>5, <3>1, SentOne
      <3> HIDE DEF p, x
      <3>6. Sees(d)
        BY <2>1 DEF CharNewest
      <3> DEFINE live == LiveOn(d) \ {m}
                 act  == ActOn(d) \ {m}
      <3>7. Followed(d, latest[d], Stored(d), d \in announced, live, act, toChar', toMap)
        <4>1. live \in SUBSET LiveOn(d) /\ act \in SUBSET ActOn(d) /\ LiveOn(d) \ {m} \subseteq live
          OBVIOUS
        <4> HIDE DEF live, act
        <4>2. QED
          BY <3>2, <3>3, <3>4, <3>6, <4>1, SaveSeen
      <3>8. \A n \in Maps, g \in Fds :
              Playing(n, g, d)' <=> Playing(n, g, d) /\ n # m
        <4>1. \A g \in Fds : Playing(m, g, d) => g = f
          BY <2>1, <3>1, OnlySession DEF CharNewest
        <4>2. \A n \in Maps, g \in Fds : n # m \/ g # f => (Playing(n, g, d)' <=> Playing(n, g, d))
          BY <1>4 DEF Playing
        <4>3. ~Playing(m, f, d)'
          BY <1>4 DEF Playing
        <4>4. QED
          BY <4>1, <4>2, <4>3
      <3>9. LiveOn(d)' = live /\ ActOn(d)' = act
        BY <1>4, <3>8 DEF LiveOn, ActOn
      <3>10. PlaysNewest(d)'
        BY <1>1, <1>4, <2>1, <3>8 DEF CharNewest, PlaysNewest
      <3>11. Sees(d)'
        BY <1>1, <2>2, <3>7, <3>9 DEF Sees, SameNews
      <3>12. QED
        BY <2>2, <2>3, <3>10, <3>11 DEF CharNewest
    <2>6. QED
      BY <2>4, <2>5
  <1>9. QED
    BY <1>7, <1>8 DEF UpdateInv

(* pc_setpos to another map server: it is saved, the change is announced, and
   the session waits. *)
LEMMA SentTwo ==
  ASSUME SessionInv, NEW m \in Maps, NEW p \in Packet, NEW r \in Packet, chrif[m] # "down"
  PROVE  Sent(m, <<p, r>>) = [toChar EXCEPT ![m] = Append(Append(@, p), r)]
  <1>1. toChar[m] \o <<p, r>> = Append(Append(toChar[m], p), r)
    BY DEF SessionInv, LinksTyped
  <1>2. QED
    BY <1>1, Zenon DEF Sent

LEMMA ChangeMapServerUpdates ==
  ASSUME SessionInv, SessionInv', UpdateInv, NEW m \in Maps, NEW f \in Fds, ChangeMapServer(m, f)
  PROVE  UpdateInv'
  <1> DEFINE x == SdOf(m, f)
             p == SaveOf(x)
             r == Msg("change", x.account, x.status.char, NoStatus)
             new == [x EXCEPT !.waiting = TRUE]
  <1>1. /\ Open(m, f) /\ x.auth /\ ~x.waiting /\ toChar' = Sent(m, <<p, r>>)
        /\ sd' = Put(sd, m, conn[m][f].sd, new)
        /\ UNCHANGED <<char_dat, toMap, conn, id_db, latest, clash, announced>>
        /\ suspect' = suspect \cup {c \in {x.status.char} : chrif[m] = "down"}
    BY DEF ChangeMapServer, Acts, Open, Put, SdOf, SaveAndChange, chars
  <1>2. Grows
    BY <1>1 DEF Grows
  <1>3. /\ x \in Session /\ x.status.char \in Chars /\ x.account \in Accounts
        /\ p \in Packet /\ p.kind = "save" /\ r \in Packet /\ r.kind = "change" /\ r.char = x.status.char
    <2>1. /\ x \in Session /\ x.status.char \in Chars /\ x.account \in Accounts
          /\ p \in Packet /\ p.kind = "save"
      BY <1>1, ActsTyped DEF SaveOf, Msg
    <2>2. QED
      BY <2>1, MsgTyped DEF Msg, Kinds
  <1>4. /\ new \in Session /\ new.status = x.status /\ new.account = x.account
        /\ new.auth = x.auth /\ new.new_fd = x.new_fd /\ new.waiting
    BY <1>3 DEF Session
  <1> HIDE DEF new
  <1>5. \A n \in Maps, a \in Accounts : LoginStays(n, a)
    BY <1>1, <1>4, WrittenLogins
  <1>6. ASSUME NEW n \in Maps
        PROVE  \/ toChar'[n] = toChar[n]
               \/ chrif[m] # "down" /\ n = m /\ toChar'[n] = Append(Append(toChar[n], p), r)
    <2>1. CASE chrif[m] = "down"
      BY <1>1, <2>1 DEF Sent
    <2>2. CASE chrif[m] # "down"
      <3>1. p \in Packet /\ r \in Packet /\ toChar' = Sent(m, <<p, r>>)
        BY <1>1, <1>3
      <3> HIDE DEF p, r
      <3>2. toChar' = [toChar EXCEPT ![m] = Append(Append(@, p), r)]
        <4>1. Sent(m, <<p, r>>) = [toChar EXCEPT ![m] = Append(Append(@, p), r)]
          BY <2>2, <3>1, SentTwo
        <4>2. QED
          BY <3>1, <4>1, Zenon
      <3>3. toChar \in [Maps -> Seq(Packet)]
        BY DEF SessionInv, LinksTyped
      <3>4. QED
        BY <2>2, <3>2, <3>3
    <2>3. QED
      BY <2>1, <2>2
  <1> HIDE DEF p, r
  <1>7. ASSUME NEW n \in Maps
        PROVE  /\ toChar[n] \in Seq(Packet) /\ toMap[n] \in Seq(Packet)
               /\ Append(toChar[n], p) \in Seq(Packet)
               /\ \A S : Has(Append(Append(toChar[n], p), r), S) <=> Has(toChar[n], S) \/ p \in S \/ r \in S
               /\ \A S, U : Precedes(Append(Append(toChar[n], p), r), S, U) <=>
                    \/ Precedes(toChar[n], S, U) \/ (Has(toChar[n], S) /\ p \in U)
                    \/ ((Has(toChar[n], S) \/ p \in S) /\ r \in U)
    <2>1. toChar[n] \in Seq(Packet) /\ toMap[n] \in Seq(Packet)
      BY DEF SessionInv, LinksTyped
    <2>2. Append(toChar[n], p) \in Seq(Packet)
      BY <1>3, <2>1
    <2>3. \A S : Has(Append(Append(toChar[n], p), r), S) <=> Has(toChar[n], S) \/ p \in S \/ r \in S
      BY <1>3, <2>1, <2>2, HasAppend
    <2>4. \A S, U : /\ Precedes(Append(Append(toChar[n], p), r), S, U) <=>
                         Precedes(Append(toChar[n], p), S, U) \/ (Has(Append(toChar[n], p), S) /\ r \in U)
                    /\ Precedes(Append(toChar[n], p), S, U) <=>
                         Precedes(toChar[n], S, U) \/ (Has(toChar[n], S) /\ p \in U)
      BY <1>3, <2>1, <2>2, QueueAppend
    <2>5. \A S : Has(Append(toChar[n], p), S) <=> Has(toChar[n], S) \/ p \in S
      BY <1>3, <2>1, HasAppend
    <2>6. QED
      BY <2>1, <2>2, <2>3, <2>4, <2>5
  <1>8. \A n \in Maps, a \in Accounts : NoneAsked(n, a)
    BY <1>1, <1>3, <1>6, <1>7 DEF NoneAsked, Asks
  <1>9. LoginsDoubled'
    BY <1>2, <1>5, <1>8, DoubledStays DEF UpdateInv, LoginsDoubled, Grows
  <1>10. ASSUME NEW d \in Chars, Clean(d)' PROVE CharNewest(d)'
    <2>1. CharNewest(d) /\ AccountOf[d] \in Accounts \ clash /\ d \notin suspect'
      BY <1>2, <1>10, StaysClean
    <2>2. InPlace(d)' /\ SameNews(d)
      BY <1>1, <2>1, StoreSame DEF CharNewest
    <2>3. CASE x.status.char # d
      <3>1. SameCopies(d)
        BY <1>1, <1>4, <2>3, OthersKept
      <3>2. p \notin Saves(d) \cup Changes(d) /\ r \notin Saves(d) \cup Changes(d)
        BY <1>3, <2>3, SaveOfOther DEF Saves, Changes, p
      <3>3. ASSUME NEW n \in Maps
            PROVE  /\ Alike(toChar'[n], toChar[n], Saves(d) \cup Changes(d))
                   /\ Fewer(toMap'[n], toMap[n], Fresh(d)) /\ NoneBehind(n, d)
        <4>1. CASE toChar'[n] = toChar[n]
          BY <1>1, <4>1, LinkUnmoved
        <4>2. CASE toChar'[n] = Append(Append(toChar[n], p), r)
          <5> DEFINE T == Saves(d) \cup Changes(d)
                     q == Append(toChar[n], p)
          <5>1. Alike(q, toChar[n], T) /\ Alike(Append(q, r), q, T)
            BY <1>3, <1>7, <3>2, AlikeQueues
          <5>2. Alike(toChar'[n], toChar[n], T)
            BY <4>2, <5>1 DEF Alike
          <5>3. Fewer(toMap'[n], toMap[n], Fresh(d))
            BY <1>1, <1>7, FewerPackets
          <5>4. NoneBehind(n, d)
            BY <1>1, <1>7, <3>2, <4>2 DEF NoneBehind
          <5>5. QED
            BY <5>2, <5>3, <5>4
        <4>3. QED
          BY <1>6, <4>1, <4>2
      <3>4. PlaysNewest(d)' /\ Sees(d)'
        BY <2>1, <2>2, <3>1, <3>3, QuietCharacter DEF SameLinks
      <3>5. LoginBehind(d)'
        BY <1>5, <2>1, <3>3, BehindStays DEF LoginBehind, CharNewest
      <3>6. QED
        BY <2>2, <3>4, <3>5 DEF CharNewest
    <2>4. CASE x.status.char = d
      <3>1. Playing(m, f, d) /\ chrif[m] # "down"
        BY <1>1, <2>1, <2>4 DEF Playing
      <3>2. /\ id_db[m][AccountOf[d]] = conn[m][f].sd /\ conn[m][f].sd # Nil
            /\ conn[m][f].sd \in Chunks /\ \A g \in Fds : Playing(m, g, d) => g = f
        BY <2>1, <3>1, OnlySession DEF CharNewest
      <3>3. p \in Newest(d, latest[d]) /\ p.account = AccountOf[d]
        BY <2>1, <3>1, SaveIsNewest DEF CharNewest, p
      <3>4. r \in Changes(d)
        BY <1>3, <2>4 DEF Changes
      <3>5. toChar' = [toChar EXCEPT ![m] = Append(Append(@, p), r)]
        BY <1>1, <1>3, <3>1, SentTwo
      <3>6. /\ \A n \in Maps, g \in Fds : Open(n, g)' <=> Open(n, g)
            /\ SdOf(m, f)' = new /\ sd'[m][conn[m][f].sd] = new
            /\ \A n \in Maps, g \in Fds : Open(n, g) /\ (n # m \/ g # f) => SdOf(n, g)' = SdOf(n, g)
        BY <1>1, <1>4, WrittenAt
      <3>7. /\ Playing(m, f, d)'
            /\ \A n \in Maps, g \in Fds : n # m \/ g # f =>
                 /\ Playing(n, g, d)' <=> Playing(n, g, d)
                 /\ Playing(n, g, d) => SdOf(n, g)' = SdOf(n, g)
        BY <1>1, <1>4, <2>4, <3>6 DEF Playing
      <3>8. /\ latest[d] \in Nat /\ Stored(d) \in Nat /\ (d \in announced) \in BOOLEAN
            /\ LiveOn(d) \in SUBSET Maps /\ ActOn(d) \in SUBSET LiveOn(d)
            /\ toChar \in [Maps -> Seq(Packet)] /\ toMap \in [Maps -> Seq(Packet)]
        BY ViewTyped
      <3>9. Followed(d, latest[d], Stored(d), d \in announced, LiveOn(d), ActOn(d), toChar, toMap)
        BY <2>1 DEF CharNewest, Sees
      <3>10. m \in LiveOn(d) /\ m \in ActOn(d)
        BY <1>1, <3>1 DEF LiveOn, ActOn
      <3> DEFINE act == ActOn(d) \ {m}
                 q   == Append(toChar[m], p)
                 qc  == [toChar EXCEPT ![m] = Append(@, p)]
      <3> HIDE DEF x
      <3>11. Followed(d, latest[d], Stored(d), d \in announced, LiveOn(d), act, qc, toMap)
        <4> DEFINE live == LiveOn(d)
        <4>1. live \in SUBSET LiveOn(d) /\ act \in SUBSET ActOn(d) /\ LiveOn(d) \ {m} \subseteq live
          OBVIOUS
        <4>2. qc = [toChar EXCEPT ![m] = Append(@, p)]
          OBVIOUS
        <4> HIDE DEF act, live, qc
        <4>3. Followed(d, latest[d], Stored(d), d \in announced, live, act, qc, toMap)
          <5>1. Sees(d)
            BY <2>1 DEF CharNewest
          <5>2. Followed(d, latest[d], Stored(d), d \in announced, live, act,
                         [toChar EXCEPT ![m] = Append(@, p)], toMap)
            BY <3>3, <3>10, <4>1, <5>1, SaveSeen
          <5>3. QED
            BY <4>2, <5>2
        <4>4. QED
          BY <4>3 DEF live
      <3>12. ~Has(toChar[m], Changes(d))
        BY <3>9, <3>10 DEF Followed, ChangesLast
      <3>13. /\ qc[m] = q /\ qc \in [Maps -> Seq(Packet)] /\ toChar[m] \in Seq(Packet)
             /\ toChar' = [qc EXCEPT ![m] = Append(@, r)]
        BY <1>3, <3>5, <3>8
      <3>14. ~Has(qc[m], Changes(d)) /\ Has(qc[m], Newest(d, latest[d]))
        <4>1. p \notin Changes(d)
          BY <1>3 DEF Changes
        <4>2. \A S : Has(q, S) <=> Has(toChar[m], S) \/ p \in S
          BY <1>3, <3>13, HasAppend
        <4>3. QED
          BY <3>3, <3>12, <3>13, <4>1, <4>2
      <3>15. Followed(d, latest[d], Stored(d), d \in announced, LiveOn(d), act, toChar', toMap)
        <4>1. act \in SUBSET LiveOn(d) /\ m \notin act
          BY <3>8
        <4>2. Followed(d, latest[d], Stored(d), d \in announced, LiveOn(d), act, qc, toMap)
          BY <3>11
        <4> HIDE DEF act, qc, q
        <4>3. Followed(d, latest[d], Stored(d), d \in announced, LiveOn(d), act,
                       [qc EXCEPT ![m] = Append(@, r)], toMap)
          <5>1. PICK v, st, ann, live, qm :
                  /\ v = latest[d] /\ st = Stored(d) /\ ann = (d \in announced)
                  /\ live = LiveOn(d) /\ qm = toMap
            OBVIOUS
          <5>2. /\ v \in Nat /\ st \in Nat /\ ann \in BOOLEAN
                /\ live \in SUBSET Maps /\ act \in SUBSET live
                /\ qc \in [Maps -> Seq(Packet)] /\ qm \in [Maps -> Seq(Packet)]
                /\ Followed(d, v, st, ann, live, act, qc, qm)
            BY <3>8, <3>13, <4>1, <4>2, <5>1
          <5>3. /\ m \in live /\ m \notin act /\ r \in Changes(d)
                /\ ~Has(qc[m], Changes(d)) /\ Has(qc[m], Newest(d, v))
            BY <3>4, <3>10, <3>14, <4>1, <5>1
          <5>q. PICK rc : rc = [qc EXCEPT ![m] = Append(@, r)]
            OBVIOUS
          <5>4. Followed(d, v, st, ann, live, act, rc, qm)
            BY ONLY <5>2, <5>3, <5>q, ChangeFollowed, d \in Chars
          <5>5. QED
            BY <5>1, <5>4, <5>q
        <4>4. QED
          BY <3>13, <4>3
      <3>16. LiveOn(d)' = LiveOn(d)
        BY <3>1, <3>7 DEF LiveOn
      <3>17. ActOn(d)' = act
        <4>1. \A g \in Fds : Playing(m, g, d)' => g = f
          BY <3>2, <3>7
        <4>2. SdOf(m, f)'.waiting
          BY <1>4, <3>6
        <4>3. \A n \in Maps, g \in Fds : n # m =>
                /\ Playing(n, g, d)' <=> Playing(n, g, d)
                /\ Playing(n, g, d) => SdOf(n, g)' = SdOf(n, g)
          BY <3>7
        <4>4. QED
          BY <4>1, <4>2, <4>3 DEF ActOn
      <3>18. PlaysNewest(d)'
        <4>1. SdOf(m, f)'.status.ver = latest'[d] /\ SdOf(m, f)'.account = AccountOf[d]
          BY <1>1, <1>4, <2>1, <3>1, <3>6 DEF CharNewest, PlaysNewest, x
        <4>2. QED
          BY <1>1, <2>1, <3>7, <4>1 DEF CharNewest, PlaysNewest
      <3>19. Sees(d)'
        BY <1>1, <2>2, <3>15, <3>16, <3>17 DEF Sees, SameNews
      <3>20. ASSUME NEW n \in Maps PROVE BehindOn(n, d)'
        <4>1. CASE n = m
          <5>1. id_db'[m][AccountOf[d]] = conn[m][f].sd /\ sd'[m][conn[m][f].sd].auth
            BY <1>1, <1>4, <3>2, <3>6
          <5>2. QED
            BY <4>1, <5>1 DEF BehindOn
        <4>2. CASE n # m
          <5>1. toChar'[n] = toChar[n] /\ toMap'[n] = toMap[n]
            BY <1>1, <1>6, <4>2
          <5>2. NoneBehind(n, d)
            BY <5>1, LinkUnmoved
          <5>3. QED
            BY <1>5, <2>1, <5>2, BehindStays DEF CharNewest
        <4>3. QED
          BY <4>1, <4>2
      <3>21. QED
        BY <2>2, <3>18, <3>19, <3>20 DEF CharNewest, LoginBehind
    <2>5. QED
      BY <2>3, <2>4
  <1>11. QED
    BY <1>9, <1>10 DEF UpdateInv

-----------------------------------------------------------------------------
(* Steps in which all that is under way to and from a map server is lost. *)
LEMMA LostUpdates ==
  ASSUME SessionInv, SessionInv', UpdateInv, Grows, NEW m \in Maps,
         toChar' = [toChar EXCEPT ![m] = <<>>], toMap' = [toMap EXCEPT ![m] = <<>>],
         UNCHANGED <<char_dat, latest, announced>>,
         \A n \in Maps, a \in Accounts : LoginStays(n, a),
         \A d \in Chars : Clean(d)' =>
           SameCopies(d) /\ (m \in ActOn(d) \/ ~Has(toChar[m], Saves(d)))
  PROVE  UpdateInv'
  <1>1. toChar \in [Maps -> Seq(Packet)] /\ toMap \in [Maps -> Seq(Packet)]
    BY DEF SessionInv, LinksTyped
  <1>2. ASSUME NEW n \in Maps
        PROVE  /\ \A d \in Chars : NoneBehind(n, d)
               /\ \A a \in Accounts : NoneAsked(n, a)
    <2>1. (toChar'[n] = toChar[n] /\ toMap'[n] = toMap[n]) \/ (toChar'[n] = <<>> /\ toMap'[n] = <<>>)
      BY <1>1
    <2>2. QED
      BY <2>1, QueueEmpty DEF NoneBehind, NoneAsked
  <1>3. LoginsDoubled'
    BY <1>2, DoubledStays DEF UpdateInv, LoginsDoubled, Grows
  <1>4. ASSUME NEW d \in Chars, Clean(d)' PROVE CharNewest(d)'
    <2>1. CharNewest(d) /\ AccountOf[d] \in Accounts
      BY <1>4, StaysClean
    <2>2. InPlace(d)' /\ SameNews(d)
      BY <2>1, StoreSame DEF CharNewest
    <2>3. LoginBehind(d)'
      BY <1>2, <2>1, BehindStays DEF LoginBehind, CharNewest
    <2>4. LiveOn(d)' = LiveOn(d) /\ ActOn(d)' = ActOn(d) /\ PlaysNewest(d)'
      BY <1>4, <2>1, CopiesSame DEF CharNewest
    <2>5. /\ latest[d] \in Nat /\ Stored(d) \in Nat /\ (d \in announced) \in BOOLEAN
          /\ LiveOn(d) \in SUBSET Maps /\ ActOn(d) \in SUBSET LiveOn(d)
      BY ViewTyped
    <2>6. Followed(d, latest[d], Stored(d), d \in announced, LiveOn(d), ActOn(d), toChar, toMap)
      BY <2>1 DEF CharNewest, Sees
    <2>7. m \in ActOn(d) \/ ~Has(toChar[m], Saves(d))
      BY <1>4
    <2>8. Followed(d, latest[d], Stored(d), d \in announced, LiveOn(d), ActOn(d),
                   [toChar EXCEPT ![m] = <<>>], [toMap EXCEPT ![m] = <<>>])
      BY <1>1, <2>5, <2>6, <2>7, LossFollowed
    <2>9. Sees(d)'
      BY <2>2, <2>4, <2>8 DEF Sees, SameNews
    <2>10. QED
      BY <2>2, <2>3, <2>4, <2>9 DEF CharNewest
  <1>5. QED
    BY <1>3, <1>4 DEF UpdateInv

LEMMA LinkLostUpdates ==
  ASSUME SessionInv, SessionInv', UpdateInv, NEW m \in Maps, LinkLost(m)
  PROVE  UpdateInv'
  <1>1. /\ toChar' = [toChar EXCEPT ![m] = <<>>] /\ toMap' = [toMap EXCEPT ![m] = <<>>]
        /\ UNCHANGED <<char_dat, conn, sd, id_db, latest, clash, announced>>
        /\ suspect' = suspect \cup
             {c \in Chars : SaveOnWay(m, c) /\ ~\E f \in Fds : <<m, f>> \in Active(c)}
    BY DEF LinkLost, chars, server
  <1>2. Grows
    BY <1>1 DEF Grows
  <1>3. /\ \A d \in Chars : SameCopies(d)
        /\ \A n \in Maps, a \in Accounts : LoginStays(n, a)
    BY <1>1, SessionsUnmoved DEF Open
  <1>4. ASSUME NEW d \in Chars, Clean(d)', Has(toChar[m], Saves(d)) PROVE m \in ActOn(d)
    <2>1. SaveOnWay(m, d)
      BY <1>4 DEF Has, Saves, SaveOnWay
    <2>2. d \notin suspect'
      BY <1>4 DEF Clean
    <2>3. PICK f \in Fds : <<m, f>> \in Active(d)
      BY <1>1, <2>1, <2>2
    <2>4. Playing(m, f, d) /\ ~SdOf(m, f).waiting
      BY <2>3 DEF Active, Live
    <2>5. QED
      BY <2>4 DEF ActOn
  <1>5. QED
    BY <1>1, <1>2, <1>3, <1>4, LostUpdates

LEMMA CrashUpdates ==
  ASSUME SessionInv, SessionInv', UpdateInv, NEW m \in Maps, Crash(m), UNCHANGED chars
  PROVE  UpdateInv'
  <1>1. /\ toChar' = [toChar EXCEPT ![m] = <<>>] /\ toMap' = [toMap EXCEPT ![m] = <<>>]
        /\ UNCHANGED <<char_dat, latest, clash, announced>>
        /\ suspect' = suspect \cup {c \in Chars : SaveOnWay(m, c) \/ \E f \in Fds : Playing(m, f, c)}
    BY DEF Crash, chars
  <1>2. Grows
    BY <1>1 DEF Grows
  <1>3. /\ \A a \in Accounts : id_db'[m][a] = Nil
        /\ \A f \in Fds : ~Open(m, f)'
        /\ \A n \in Maps : n # m =>
             /\ id_db'[n] = id_db[n] /\ sd'[n] = sd[n] /\ conn'[n] = conn[n]
    BY DEF Crash, SessionInv, TypeOK, Open, Closed
  <1>4. \A n \in Maps, a \in Accounts : LoginStays(n, a)
    BY <1>3 DEF LoginStays
  <1>5. ASSUME NEW d \in Chars, Clean(d)' PROVE SameCopies(d) /\ ~Has(toChar[m], Saves(d))
    <2>1. ~SaveOnWay(m, d) /\ \A f \in Fds : ~Playing(m, f, d)
      BY <1>1, <1>5 DEF Clean
    <2>2. \A n \in Maps, g \in Fds : n # m =>
            (Playing(n, g, d)' <=> Playing(n, g, d)) /\ SdOf(n, g)' = SdOf(n, g)
      BY <1>3 DEF Playing, Open, SdOf
    <2>3. SameCopies(d)
      BY <1>3, <2>1, <2>2 DEF SameCopies, Playing
    <2>4. QED
      BY <2>1, <2>3 DEF Has, Saves, SaveOnWay
  <1>6. QED
    BY <1>1, <1>2, <1>4, <1>5, LostUpdates

-----------------------------------------------------------------------------
(* A client connects, and asks for its login. *)
LEMMA ConnectUpdates ==
  ASSUME SessionInv, SessionInv', UpdateInv,
         NEW m \in Maps, NEW f \in Fds, NEW c \in Chars, NEW k \in Chunks, Connect(m, f, c, k)
  PROVE  UpdateInv'
  <1> DEFINE a   == AccountOf[c]
             old == id_db[m][a]
             p   == Msg("authreq", a, c, NoStatus)
  <1>1. a \in Accounts /\ old \in Chunks \cup {Nil} /\ k # Nil
    BY MapSessionAssumption DEF SessionInv, TypeOK
  <1>2. /\ conn' = [conn EXCEPT ![m][f] = [st |-> "open", sd |-> k]]
        /\ ~Open(m, f) /\ ~InUse(m, k)
        /\ id_db' = IF old # Nil THEN id_db ELSE [id_db EXCEPT ![m][a] = k]
        /\ toChar' = Sent(m, <<p>>) /\ UNCHANGED <<char_dat, toMap, latest, announced>>
        /\ clash' = clash \cup PointedTo(m, k)
             \cup {x \in {a} : Pending(m, a) \/ PointedTo(m, k) # {}
                         \/ (old # Nil /\ ~(InUse(m, old) /\ sd[m][old].auth))}
        /\ Grows
    BY DEF Connect, chars, Grows
  <1>3. /\ \A n \in Maps, j \in Chunks : n # m \/ j # k =>
              /\ sd'[n][j].account = sd[n][j].account /\ sd'[n][j].auth = sd[n][j].auth
              /\ sd'[n][j].status = sd[n][j].status /\ sd'[n][j].waiting = sd[n][j].waiting
        /\ ~sd'[m][k].auth
        /\ \A n \in Maps, j \in Chunks : n # m \/ j \notin {k, old} =>
              sd'[n][j].new_fd = sd[n][j].new_fd
        /\ old # Nil => sd'[m][old].new_fd # Nil
    BY ConnectMemory
  <1>4. p \in Packet /\ p.kind = "authreq" /\ p.account = a
    <2>1. p \in Packet
      BY <1>1, MsgTyped DEF Kinds
    <2>2. QED
      BY <2>1 DEF Msg
  <1> HIDE DEF p, old
  <1>5. \A d \in Chars : p \notin Saves(d) /\ p \notin Changes(d)
    BY <1>4 DEF Saves, Changes
  <1>6. \A b \in Accounts \ {a} : p \notin Asks(b)
    BY <1>4 DEF Asks
  <1>7. /\ \A n \in Maps, b \in Accounts : n # m \/ b # a => NoneAsked(n, b)
        /\ \A n \in Maps, d \in Chars : NoneBehind(n, d)
        /\ \A d \in Chars : SameLinks(d)
    <2>1. \A n \in Maps : n # m => toChar'[n] = toChar[n] /\ toMap'[n] = toMap[n]
      BY <1>2 DEF Sent, SessionInv, LinksTyped
    <2>2. QED
      BY <1>2, <1>4, <1>5, <1>6, <2>1, LinkUnmoved, SendingQuiet
  <1>8. ASSUME NEW n \in Maps, NEW b \in Accounts \ clash', n # m \/ b # a
        PROVE  LoginStays(n, b)
    <2>1. id_db'[n][b] = id_db[n][b] /\ id_db[n][b] \in Chunks \cup {Nil} /\ b \notin clash
      BY <1>2, <1>8 DEF SessionInv, TypeOK
    <2>2. n = m => id_db[n][b] # k
      BY <1>2, <1>8 DEF PointedTo
    <2>3. ASSUME n = m, id_db[n][b] # Nil, id_db[n][b] = old PROVE FALSE
      <3>1. InUse(m, old) /\ sd[m][old].account = b
        BY <2>1, <2>3 DEF SessionInv, PointersTrue
      <3>2. id_db[m][a] = old /\ old # Nil /\ a \in Accounts /\ b # a
        BY <1>1, <1>8, <2>3 DEF old
      <3>3. QED
        BY <2>1, <3>1, <3>2 DEF SessionInv, PointersTrue
    <2>4. QED
      BY <1>3, <2>1, <2>2, <2>3 DEF LoginStays
  <1>9. /\ old = Nil => id_db'[m][a] = k
        /\ old # Nil => id_db'[m][a] = old
    BY <1>1, <1>2 DEF SessionInv, TypeOK, old
  <1>10. LoginsDoubled'
    <2>1. ASSUME NEW n \in Maps, NEW b \in Accounts, b \notin clash' PROVE DoubledOn(n, b)'
      <3>1. CASE n = m /\ b = a
        BY <1>3, <1>9, <3>1 DEF DoubledOn
      <3>2. CASE n # m \/ b # a
        BY <1>2, <1>7, <1>8, <2>1, <3>2, DoubledStays DEF UpdateInv, Grows
      <3>3. QED
        BY <3>1, <3>2
    <2>2. QED
      BY <2>1 DEF LoginsDoubled
  <1>11. \A d \in Chars : SameCopies(d)
    <2>1. /\ conn'[m][f].sd = k
          /\ \A n \in Maps, g \in Fds : n # m \/ g # f => conn'[n][g] = conn[n][g]
          /\ \A g \in Fds : conn[m][g].sd # k
      BY <1>2 DEF SessionInv, TypeOK, InUse
    <2>2. ASSUME NEW d \in Chars PROVE ~Playing(m, f, d) /\ ~Playing(m, f, d)'
      BY <1>2, <1>3, <2>1 DEF Playing, SdOf
    <2>3. ASSUME NEW d \in Chars, NEW n \in Maps, NEW g \in Fds, n # m \/ g # f
          PROVE  /\ Playing(n, g, d)' <=> Playing(n, g, d)
                 /\ Playing(n, g, d) =>
                      /\ SdOf(n, g)'.status = SdOf(n, g).status
                      /\ SdOf(n, g)'.account = SdOf(n, g).account
                      /\ SdOf(n, g)'.waiting = SdOf(n, g).waiting
      <3>1. Open(n, g)' <=> Open(n, g)
        BY <2>1, <2>3 DEF Open
      <3>2. CASE Open(n, g)
        <4>1. /\ conn'[n][g].sd = conn[n][g].sd /\ conn[n][g].sd \in Chunks
              /\ n # m \/ conn[n][g].sd # k
          BY <2>1, <2>3, <3>2 DEF SessionInv, ChunksInUse
        <4>2. SdOf(n, g) = sd[n][conn[n][g].sd] /\ SdOf(n, g)' = sd'[n][conn[n][g].sd]
          BY <4>1 DEF SdOf
        <4>3. PICK j : j = conn[n][g].sd /\ j \in Chunks /\ (n # m \/ j # k)
          BY <4>1
        <4>4. /\ sd'[n][j].account = sd[n][j].account /\ sd'[n][j].auth = sd[n][j].auth
              /\ sd'[n][j].status = sd[n][j].status /\ sd'[n][j].waiting = sd[n][j].waiting
          BY <1>3, <4>3
        <4>5. QED
          BY <3>1, <4>2, <4>3, <4>4 DEF Playing
      <3>3. QED
        BY <3>1, <3>2 DEF Playing
    <2>4. QED
      BY <2>2, <2>3 DEF SameCopies
  <1>12. ASSUME NEW d \in Chars, Clean(d)' PROVE CharNewest(d)'
    <2>1. CharNewest(d) /\ AccountOf[d] \in Accounts \ clash'
      BY <1>2, <1>12, StaysClean
    <2>2. InPlace(d)' /\ SameNews(d)
      BY <1>2, <2>1, StoreSame DEF CharNewest
    <2>3. PlaysNewest(d)' /\ Sees(d)'
      BY <1>7, <1>11, <2>1, <2>2, QuietCharacter
    <2>4. ASSUME NEW n \in Maps PROVE BehindOn(n, d)'
      <3>1. CASE n # m \/ AccountOf[d] # a
        BY <1>7, <1>8, <2>1, <3>1, BehindStays DEF CharNewest
      <3>2. CASE n = m /\ AccountOf[d] = a
        <4>1. ~Has(toChar[m], Asks(a)) /\ ~Has(toMap[m], Answers(a))
          <5>1. ~Pending(m, a)
            BY <1>2, <2>1, <3>2
          <5>2. QED
            BY <5>1 DEF Pending, Has, Asks, Answers
        <4>2. ~Precedes(toChar'[m], Asks(a), Changes(d)) /\ ~Has(toMap'[m], Answers(a))
          BY <1>2, <1>7, <3>2, <4>1, PrecedesHas DEF NoneBehind
        <4>3. QED
          BY <3>2, <4>2 DEF BehindOn
      <3>3. QED
        BY <3>1, <3>2
    <2>5. QED
      BY <2>2, <2>3, <2>4 DEF CharNewest, LoginBehind
  <1>13. QED
    BY <1>10, <1>12 DEF UpdateInv

-----------------------------------------------------------------------------
(* The char server takes a packet off its link, and may answer it with p. *)
LEMMA AnsweringQuiet ==
  ASSUME SessionInv, NEW m \in Maps, toChar[m] # <<>>,
         toChar' = [toChar EXCEPT ![m] = Tail(@)],
         NEW p \in Packet, toMap' = [toMap EXCEPT ![m] = Append(@, p)] \/ UNCHANGED toMap
  PROVE  /\ \A n \in Maps, d \in Chars : n # m \/ p \notin Answers(AccountOf[d]) => NoneBehind(n, d)
         /\ \A n \in Maps, a \in Accounts : n # m \/ p \notin Answers(a) => NoneAsked(n, a)
         /\ \A d \in Chars : /\ Head(toChar[m]) \notin Saves(d) \cup Changes(d)
                             /\ p \notin Fresh(d)
                             => SameLinks(d)
  <1>1. toChar \in [Maps -> Seq(Packet)] /\ toMap \in [Maps -> Seq(Packet)]
    BY DEF SessionInv, LinksTyped
  <1>2. toChar[m] \in Seq(Packet) /\ toMap[m] \in Seq(Packet)
    BY <1>1
  <1>3. /\ toChar'[m] = Tail(toChar[m])
        /\ toMap'[m] = toMap[m] \/ toMap'[m] = Append(toMap[m], p)
        /\ \A n \in Maps : n # m => toChar'[n] = toChar[n] /\ toMap'[n] = toMap[n]
    BY <1>1
  <1>4. /\ \A S : Has(toChar'[m], S) => Has(toChar[m], S)
        /\ \A S, U : Precedes(toChar'[m], S, U) => Precedes(toChar[m], S, U)
        /\ \A S : p \notin S /\ Has(toMap'[m], S) => Has(toMap[m], S)
    <2>1. \A S : Has(toChar'[m], S) => Has(toChar[m], S)
      BY <1>2, <1>3, HasTail
    <2>2. \A S, U : Precedes(toChar'[m], S, U) => Precedes(toChar[m], S, U)
      BY <1>2, <1>3, QueueTail
    <2>3. \A S : Has(Append(toMap[m], p), S) => Has(toMap[m], S) \/ p \in S
      BY <1>2, HasAppend
    <2>4. QED
      BY <1>3, <2>1, <2>2, <2>3
  <1>5. /\ \A d \in Chars : p \notin Answers(AccountOf[d]) => NoneBehind(m, d)
        /\ \A a \in Accounts : p \notin Answers(a) => NoneAsked(m, a)
    BY <1>4 DEF NoneBehind, NoneAsked
  <1>6. ASSUME NEW d \in Chars, Head(toChar[m]) \notin Saves(d) \cup Changes(d), p \notin Fresh(d)
        PROVE  /\ Alike(toChar'[m], toChar[m], Saves(d) \cup Changes(d))
               /\ Fewer(toMap'[m], toMap[m], Fresh(d))
    BY <1>2, <1>3, <1>6, AlikeQueues, FewerPackets
  <1>7. ASSUME NEW n \in Maps, n # m, NEW d \in Chars
        PROVE  /\ Alike(toChar'[n], toChar[n], Saves(d) \cup Changes(d))
               /\ Fewer(toMap'[n], toMap[n], Fresh(d)) /\ NoneBehind(n, d)
               /\ \A a \in Accounts : NoneAsked(n, a)
    BY <1>3, <1>7, LinkUnmoved
  <1>8. Chars # {}
    BY MapSessionAssumption
  <1>9. QED
    BY <1>5, <1>6, <1>7, <1>8 DEF SameLinks

(* What the map servers have is left alone when a packet is taken off. *)
LEMMA TakenFromMap ==
  ASSUME SessionInv, NEW m \in Maps, FromMap(m)
  PROVE  /\ toChar[m] # <<>> /\ toChar' = [toChar EXCEPT ![m] = Tail(@)]
         /\ Head(toChar[m]) \in Packet /\ Head(toChar[m]).account \in Accounts
         /\ \A d \in Chars : SameCopies(d)
         /\ \A n \in Maps, a \in Accounts : LoginStays(n, a)
  <1>1. toChar[m] # <<>> /\ toChar' = [toChar EXCEPT ![m] = Tail(@)] /\ UNCHANGED server
    BY DEF FromMap
  <1>2. toChar[m] \in Seq(Packet)
    BY DEF SessionInv, LinksTyped
  <1>3. Head(toChar[m]) \in Packet
    BY <1>1, <1>2, HeadTyped
  <1>4. UNCHANGED <<sd, id_db, conn>>
    BY <1>1 DEF server
  <1>5. QED
    BY <1>1, <1>3, <1>4, SessionsUnmoved DEF Open, Packet

LEMMA SelectAnswered ==
  ASSUME SessionInv, SessionInv', UpdateInv, NEW m \in Maps, FromMap(m),
         char_charselectreq(m, Head(toChar[m]))
  PROVE  UpdateInv'
  <1> DEFINE msg == Head(toChar[m])
             p   == Msg("charselectok", msg.account, Nil, NoStatus)
  <1>1. /\ toChar[m] # <<>> /\ toChar' = [toChar EXCEPT ![m] = Tail(@)]
        /\ msg \in Packet /\ msg.account \in Accounts
        /\ \A d \in Chars : SameCopies(d)
        /\ \A n \in Maps, a \in Accounts : LoginStays(n, a)
    BY TakenFromMap
  <1>2. /\ msg.kind = "charselect" /\ toMap' = [toMap EXCEPT ![m] = Append(@, p)]
        /\ UNCHANGED <<char_dat, latest, clash, announced, suspect>> /\ Grows
    BY DEF char_charselectreq, hist, Grows
  <1>3. p \in Packet /\ p.kind = "charselectok"
    <2>1. p \in Packet
      BY <1>1, MsgTyped DEF Kinds
    <2>2. QED
      BY <2>1 DEF Msg
  <1> HIDE DEF p, msg
  <1>4. /\ \A d \in Chars : msg \notin Saves(d) \cup Changes(d) /\ p \notin Fresh(d)
        /\ \A a : p \notin Answers(a)
    BY <1>2, <1>3 DEF Saves, Changes, Fresh, Grants, Answers
  <1>5. /\ \A n \in Maps, d \in Chars : NoneBehind(n, d)
        /\ \A n \in Maps, a \in Accounts : NoneAsked(n, a)
        /\ \A d \in Chars : SameLinks(d)
    BY <1>1, <1>2, <1>3, <1>4, AnsweringQuiet DEF msg
  <1>6. ASSUME NEW d \in Chars, Clean(d)' PROVE InPlace(d)' /\ SameNews(d)
    <2>1. InPlace(d)
      BY <1>2, <1>6, StaysClean DEF CharNewest
    <2>2. QED
      BY <1>2, <2>1, StoreSame
  <1>7. QED
    BY <1>1, <1>2, <1>5, <1>6, QuietUpdates

(* 0x2b05: a change of map server is announced. *)
LEMMA ChangeAnswered ==
  ASSUME SessionInv, SessionInv', UpdateInv, NEW m \in Maps, FromMap(m),
         char_changemapserver(m, Head(toChar[m]))
  PROVE  UpdateInv'
  <1> DEFINE msg == Head(toChar[m])
  <1>1. /\ toChar[m] # <<>> /\ toChar' = [toChar EXCEPT ![m] = Tail(@)]
        /\ msg \in Packet /\ msg.account \in Accounts
        /\ \A d \in Chars : SameCopies(d)
        /\ \A n \in Maps, a \in Accounts : LoginStays(n, a)
    BY TakenFromMap
  <1>2. msg.kind = "change" /\ msg.char \in Chars
    BY <1>1 DEF char_changemapserver, Packet
  <1>3. /\ UNCHANGED <<char_dat, latest, clash, suspect>> /\ announced \subseteq announced'
        /\ \A d \in announced' \ announced : d = msg.char /\ Active(d) = {}
    BY DEF char_changemapserver
  <1>4. PICK p \in Packet : /\ toMap' = [toMap EXCEPT ![m] = Append(@, p)]
                            /\ p.kind \in {"changeok", "changefail"}
    <2>1. ASSUME NEW kind \in {"changeok", "changefail"}
          PROVE  LET p == Msg(kind, msg.account, msg.char, NoStatus) IN p \in Packet /\ p.kind = kind
      <3>1. Msg(kind, msg.account, msg.char, NoStatus) \in Packet
        BY <1>1, <1>2, MsgTyped DEF Kinds
      <3>2. QED
        BY <3>1 DEF Msg
    <2>2. \E kind \in {"changeok", "changefail"} :
            toMap' = [toMap EXCEPT ![m] = Append(@, Msg(kind, msg.account, msg.char, NoStatus))]
      BY DEF char_changemapserver
    <2>3. QED
      BY <2>1, <2>2
  <1> HIDE DEF msg
  <1>5. Grows
    BY <1>3 DEF Grows
  <1>6. /\ \A d \in Chars : msg.char # d => msg \notin Saves(d) \cup Changes(d)
        /\ \A d \in Chars : p \notin Fresh(d)
        /\ \A a : p \notin Answers(a)
    BY <1>2, <1>4 DEF Saves, Changes, Fresh, Grants, Answers
  <1>7. /\ \A n \in Maps, d \in Chars : NoneBehind(n, d)
        /\ \A n \in Maps, a \in Accounts : NoneAsked(n, a)
        /\ \A d \in Chars : msg.char # d => SameLinks(d)
    BY <1>1, <1>4, <1>6, AnsweringQuiet DEF msg
  <1>8. LoginsDoubled'
    BY <1>1, <1>5, <1>7, DoubledStays DEF UpdateInv, LoginsDoubled, Grows
  <1>9. ASSUME NEW d \in Chars, Clean(d)' PROVE CharNewest(d)'
    <2>1. CharNewest(d) /\ AccountOf[d] \in Accounts
      BY <1>5, <1>9, StaysClean
    <2>2. InPlace(d)' /\ Stored(d)' = Stored(d) /\ latest'[d] = latest[d]
      BY <1>3, <2>1 DEF CharNewest, InPlace, Stored, Place, Slots
    <2>3. LoginBehind(d)'
      BY <1>1, <1>7, <2>1, BehindStays DEF LoginBehind, CharNewest
    <2>4. CASE msg.char # d
      <3>1. SameNews(d)
        BY <1>3, <2>2, <2>4 DEF SameNews
      <3>2. PlaysNewest(d)' /\ Sees(d)'
        BY <1>1, <1>7, <2>1, <2>4, <3>1, QuietCharacter
      <3>3. QED
        BY <2>2, <2>3, <3>2 DEF CharNewest
    <2>5. CASE msg.char = d
      <3>1. LiveOn(d)' = LiveOn(d) /\ ActOn(d)' = ActOn(d) /\ PlaysNewest(d)'
        BY <1>1, <2>1, <2>2, CopiesSame DEF CharNewest
      <3>2. /\ latest[d] \in Nat /\ Stored(d) \in Nat /\ (d \in announced) \in BOOLEAN
            /\ LiveOn(d) \in SUBSET Maps /\ ActOn(d) \in SUBSET LiveOn(d)
            /\ toChar \in [Maps -> Seq(Packet)] /\ toMap \in [Maps -> Seq(Packet)]
        BY ViewTyped
      <3>3. Followed(d, latest[d], Stored(d), d \in announced, LiveOn(d), ActOn(d), toChar, toMap)
        BY <2>1 DEF CharNewest, Sees
      <3> DEFINE ann == d \in announced
                 qc  == [toChar EXCEPT ![m] = Tail(@)]
      <3>4. d \in announced' => ann \/ ActOn(d) = {}
        <4>1. ASSUME Active(d) = {} PROVE ActOn(d) = {}
          <5>1. ASSUME NEW n \in Maps, NEW g \in Fds, Playing(n, g, d), ~SdOf(n, g).waiting PROVE FALSE
            <6>1. <<n, g>> \in Active(d)
              BY <5>1 DEF Active, Live
            <6>2. QED
              BY <4>1, <6>1
          <5>2. QED
            BY <5>1 DEF ActOn
        <4>2. QED
          BY <1>3, <4>1
      <3>6. qc \in [Maps -> Seq(Packet)] /\ qc = toChar'
        BY <1>1 DEF SessionInv, LinksTyped
      <3>7. /\ Followed(d, latest[d], Stored(d), ann, LiveOn(d), ActOn(d), qc, toMap)
            /\ ActOn(d) = {} => Followed(d, latest[d], Stored(d), TRUE, LiveOn(d), ActOn(d), qc, toMap)
        <4>1. ann \in BOOLEAN /\ msg \in Changes(d) /\ Taken(toChar, m, msg, qc)
          BY <1>1, <1>2, <2>5 DEF Taken, Changes, msg
        <4> HIDE DEF ann, qc
        <4>2. Followed(d, latest[d], Stored(d), ann, LiveOn(d), ActOn(d), toChar, toMap)
          BY <3>3 DEF ann
        <4>3. Followed(d, latest[d], Stored(d), ann, LiveOn(d), ActOn(d), qc, toMap)
          BY <3>2, <4>1, <4>2, AnnounceFollowed
        <4>4. QED
          BY <3>2, <4>1, <4>2, <4>3, AnnounceFollowed
      <3>8. \A n \in Maps : /\ Alike(toChar'[n], qc[n], Saves(d) \cup Changes(d))
                            /\ Fewer(toMap'[n], toMap[n], Fresh(d))
        <4>1. ASSUME NEW n \in Maps
              PROVE  /\ qc[n] \in Seq(Packet) /\ toMap[n] \in Seq(Packet) /\ toChar'[n] = qc[n]
                     /\ toMap'[n] = toMap[n] \/ toMap'[n] = Append(toMap[n], p)
          BY <1>4, <3>2, <3>6
        <4> HIDE DEF qc
        <4>2. QED
          BY <1>6, <4>1, AlikeQueues, FewerPackets
      <3>9. toChar' \in [Maps -> Seq(Packet)] /\ toMap' \in [Maps -> Seq(Packet)]
        BY DEF SessionInv, LinksTyped
      <3>10. Followed(d, latest[d], Stored(d), ann, LiveOn(d), ActOn(d), toChar', toMap')
        <4>1. ann \in BOOLEAN
          OBVIOUS
        <4> HIDE DEF ann, qc
        <4>2. QED
          BY <3>2, <3>6, <3>7, <3>8, <3>9, <4>1, QuietFollowed
      <3>11. Followed(d, latest[d], Stored(d), d \in announced', LiveOn(d), ActOn(d), toChar', toMap')
        <4>1. AnnouncedStored(latest[d], Stored(d), d \in announced', ActOn(d))
          BY <3>4, <3>7 DEF Followed, AnnouncedStored
        <4>2. QED
          BY <3>10, <4>1 DEF Followed
      <3>12. Sees(d)'
        BY <2>2, <3>1, <3>11 DEF Sees
      <3>13. QED
        BY <2>2, <2>3, <3>1, <3>12 DEF CharNewest
    <2>6. QED
      BY <2>4, <2>5
  <1>10. QED
    BY <1>8, <1>9 DEF UpdateInv

(* 0x2b01: what a map server saves is stored, and is not older. *)
LEMMA SaveStored ==
  ASSUME SessionInv, SessionInv', CharacterInv, UpdateInv, NEW m \in Maps, FromMap(m),
         char_save(m, Head(toChar[m]))
  PROVE  UpdateInv' /\ \A d \in Chars : Clean(d)' => Stored(d) <= Stored(d)'
  <1> DEFINE msg == Head(toChar[m])
             found == SlotsOf(msg.account, msg.char)
             i == First(found)
  <1>1. /\ toChar[m] # <<>> /\ toChar' = [toChar EXCEPT ![m] = Tail(@)]
        /\ msg \in Packet /\ msg.account \in Accounts
        /\ \A d \in Chars : SameCopies(d)
        /\ \A n \in Maps, a \in Accounts : LoginStays(n, a)
    BY TakenFromMap
  <1>2. /\ msg.kind = "save" /\ UNCHANGED <<toMap, latest, clash, announced, suspect>> /\ Grows
        /\ char_dat' = IF found = {} THEN char_dat ELSE [char_dat EXCEPT ![i] = msg.status]
    BY DEF char_save, hist, Grows
  <1>3. msg.account \notin clash => msg.status.char = msg.char
    <2>1. msg \notin Untrue(char_dat, clash)
      BY <1>1, HeadIsTrue
    <2>2. QED
      BY <1>1, <1>2, <2>1 DEF Untrue
  <1> DEFINE p == Msg("changeok", msg.account, Nil, NoStatus)
  <1>4. p \in Packet /\ p.kind = "changeok"
    <2>1. p \in Packet
      BY <1>1, MsgTyped DEF Kinds
    <2>2. QED
      BY <2>1 DEF Msg
  <1> HIDE DEF p, msg
  <1>5. /\ \A d \in Chars : msg.status.char # d => msg \notin Saves(d) \cup Changes(d)
        /\ \A d \in Chars : p \notin Fresh(d)
        /\ \A a : p \notin Answers(a)
    BY <1>2, <1>4 DEF Saves, Changes, Fresh, Grants, Answers
  <1>6. /\ \A n \in Maps, d \in Chars : NoneBehind(n, d)
        /\ \A n \in Maps, a \in Accounts : NoneAsked(n, a)
        /\ \A d \in Chars : msg.status.char # d => SameLinks(d)
    BY <1>1, <1>2, <1>4, <1>5, AnsweringQuiet DEF msg
  <1>7. LoginsDoubled'
    BY <1>1, <1>2, <1>6, DoubledStays DEF UpdateInv, LoginsDoubled, Grows
  <1>8. found # {} => i \in Slots /\ char_dat[i].char = msg.char /\ AccountOf[msg.char] = msg.account
    BY FoundSlot
  <1>9. \A j \in Slots : char_dat'[j] = IF found # {} /\ j = i THEN msg.status ELSE char_dat[j]
    BY <1>2 DEF SessionInv, TypeOK
  <1> HIDE DEF i
  <1>10. ASSUME NEW d \in Chars, Clean(d)'
         PROVE  CharNewest(d)' /\ Stored(d) <= Stored(d)'
    <2>1. CharNewest(d) /\ AccountOf[d] \in Accounts \ clash
      BY <1>2, <1>10, StaysClean
    <2>2. Place(d) \in Slots /\ Place(d)' = Place(d) /\ \A j \in Slots : char_dat[j].char = d <=> j = Place(d)
      BY <2>1, PlaceIs DEF CharNewest, InPlace, Place, Slots
    <2>3. LoginBehind(d)'
      BY <1>1, <1>6, <2>1, BehindStays DEF LoginBehind, CharNewest
    <2>4. CASE msg.status.char # d
      <3>1. found = {} \/ i # Place(d)
        BY <1>3, <1>8, <2>1, <2>2, <2>4
      <3>2. \A j \in Slots : char_dat'[j].char = d <=> char_dat[j].char = d
        BY <1>8, <1>9, <2>2, <2>4, <3>1
      <3>3. InPlace(d)' /\ Stored(d)' = Stored(d)
        BY <1>9, <2>2, <3>1, <3>2 DEF InPlace, Stored, Slots
      <3>4. SameNews(d)
        BY <1>2, <3>3 DEF SameNews
      <3>5. PlaysNewest(d)' /\ Sees(d)'
        BY <1>1, <1>6, <2>1, <2>4, <3>4, QuietCharacter
      <3>6. Stored(d) \in Nat
        BY ViewTyped
      <3>7. QED
        BY <2>3, <3>3, <3>5, <3>6 DEF CharNewest
    <2>5. CASE msg.status.char = d
      <3>1. LiveOn(d)' = LiveOn(d) /\ ActOn(d)' = ActOn(d) /\ PlaysNewest(d)'
        BY <1>1, <1>2, <2>1, CopiesSame DEF CharNewest
      <3>2. /\ latest[d] \in Nat /\ Stored(d) \in Nat /\ (d \in announced) \in BOOLEAN
            /\ LiveOn(d) \in SUBSET Maps /\ ActOn(d) \in SUBSET LiveOn(d)
            /\ toChar \in [Maps -> Seq(Packet)] /\ toMap \in [Maps -> Seq(Packet)]
        BY ViewTyped
      <3>3. Followed(d, latest[d], Stored(d), d \in announced, LiveOn(d), ActOn(d), toChar, toMap)
        BY <2>1 DEF CharNewest, Sees
      <3>4. msg \in Saves(d) /\ Taken(toChar, m, msg, toChar')
        BY <1>1, <1>2, <2>5 DEF Taken, Saves, msg
      <3>5. /\ msg.account = AccountOf[d] /\ Stored(d) <= msg.status.ver
            /\ Followed(d, latest[d], msg.status.ver, d \in announced, LiveOn(d), ActOn(d), toChar', toMap)
        <4> DEFINE w == msg.status.ver
        <4>1. w \in Nat /\ w = msg.status.ver
          BY <1>1, MapSessionAssumption DEF Packet, Status, NoStatus
        <4>2. msg \notin WrongSaves(d, latest[d], Stored(d))
          <5>1. ~Has(toChar[m], WrongSaves(d, latest[d], Stored(d)))
            BY <3>3 DEF Followed, SavesOrdered
          <5>2. toChar[m] \in Seq(Packet)
            BY <3>2
          <5>3. QED
            BY <1>1, <5>1, <5>2, HasTail DEF msg
        <4>3. msg.account = AccountOf[d] /\ Stored(d) <= w
          BY <3>2, <3>4, <4>1, <4>2 DEF WrongSaves
        <4> HIDE DEF w
        <4>4. Followed(d, latest[d], w, d \in announced, LiveOn(d), ActOn(d), toChar', toMap)
          BY <3>2, <3>3, <3>4, <4>1, StoreFollowed
        <4>5. QED
          BY <4>3, <4>4 DEF w
      <3>6. found # {} /\ i = Place(d)
        <4>1. msg.char = d
          BY <1>3, <2>1, <2>5, <3>5
        <4>2. found # {}
          BY <2>2, <3>5, <4>1 DEF SlotsOf
        <4>3. QED
          BY <1>8, <2>2, <4>1, <4>2
      <3>7. \A j \in Slots : char_dat'[j].char = d <=> j = Place(d)
        BY <1>9, <2>2, <2>5, <3>6
      <3>8. InPlace(d)' /\ Stored(d)' = msg.status.ver
        BY <1>9, <2>2, <3>6, <3>7 DEF InPlace, Stored, Slots
      <3>9. Sees(d)'
        BY <1>2, <3>1, <3>5, <3>8 DEF Sees
      <3>10. QED
        BY <2>3, <3>1, <3>5, <3>8, <3>9 DEF CharNewest
    <2>6. QED
      BY <2>4, <2>5
  <1>11. QED
    BY <1>7, <1>10 DEF UpdateInv

(* 0x2afc: a login is answered, freshly if no other copy was about. *)
LEMMA AuthreqGrant ==
  ASSUME SessionInv, NEW m \in Maps, NEW msg \in Packet, msg.account \in Accounts,
         char_authreq(m, msg)
  PROVE  \E p \in Packet :
           /\ toMap' = [toMap EXCEPT ![m] = Append(@, p)]
           /\ p.account = msg.account /\ p.kind \in {"authok", "authfail"}
           /\ \A d \in Chars : p \in Fresh(d) =>
                ~Parted(d) /\ \E i \in Slots : char_dat[i].char = d /\ char_dat[i].ver = p.status.ver
  <1> DEFINE found == Expected(msg.account, msg.char)
  <1>1. CASE found = {}
    <2> DEFINE p == Msg("authfail", msg.account, Nil, NoStatus)
    <2>1. p \in Packet
      BY MsgTyped DEF Kinds
    <2>2. p.account = msg.account /\ p.kind = "authfail"
      BY <2>1 DEF Msg
    <2>3. toMap' = [toMap EXCEPT ![m] = Append(@, p)]
      BY <1>1 DEF char_authreq
    <2> HIDE DEF p
    <2>4. \A d : p \notin Fresh(d)
      BY <2>2 DEF Fresh, Grants
    <2>5. QED
      BY <2>1, <2>2, <2>3, <2>4
  <1>2. CASE found # {}
    <2> DEFINE i == First(found)
               pos == auth_fifo[i].pos
               s == char_dat[pos]
               p == [Msg("authok", msg.account, Nil, s) EXCEPT !.parted = Parted(s.char)]
    <2>1. i \in Ring
      <3>1. i \in found
        BY <1>2, FirstIsIn DEF Expected, Ring
      <3>2. QED
        BY <3>1 DEF Expected
    <2>2. pos \in Slots /\ s \in Status
      BY <2>1 DEF SessionInv, TypeOK
    <2>3. /\ p \in Packet /\ p.account = msg.account /\ p.kind = "authok" /\ p.status = s
          /\ p.parted = Parted(s.char)
      <3>1. Msg("authok", msg.account, Nil, s) \in Packet
        BY <2>2, MsgTyped DEF Kinds
      <3>2. Parted(s.char) \in BOOLEAN
        BY DEF Parted
      <3> HIDE DEF s
      <3>3. QED
        BY <3>1, <3>2 DEF Packet, Msg
    <2>4. toMap' = [toMap EXCEPT ![m] = Append(@, p)]
      BY <1>2 DEF char_authreq
    <2> HIDE DEF p, pos
    <2>5. ASSUME NEW d \in Chars, p \in Fresh(d)
          PROVE  ~Parted(d) /\ \E j \in Slots : char_dat[j].char = d /\ char_dat[j].ver = p.status.ver
      <3>1. s.char = d /\ ~p.parted
        BY <2>3, <2>5 DEF Fresh, Grants
      <3>2. ~Parted(d)
        BY <2>3, <3>1
      <3>3. QED
        BY <2>2, <2>3, <3>1, <3>2
    <2>6. QED
      BY <2>3, <2>4, <2>5
  <1>3. QED
    BY <1>1, <1>2

LEMMA AuthreqAnswered ==
  ASSUME SessionInv, SessionInv', UpdateInv, NEW m \in Maps, FromMap(m),
         char_authreq(m, Head(toChar[m]))
  PROVE  UpdateInv'
  <1> DEFINE msg == Head(toChar[m])
             a == msg.account
  <1>1. /\ toChar[m] # <<>> /\ toChar' = [toChar EXCEPT ![m] = Tail(@)]
        /\ msg \in Packet /\ a \in Accounts
        /\ \A d \in Chars : SameCopies(d)
        /\ \A n \in Maps, b \in Accounts : LoginStays(n, b)
    BY TakenFromMap
  <1>2. /\ msg.kind = "authreq" /\ UNCHANGED <<char_dat, latest, clash, announced, suspect>> /\ Grows
    BY DEF char_authreq, hist, Grows
  <1>3. PICK p \in Packet :
          /\ toMap' = [toMap EXCEPT ![m] = Append(@, p)]
          /\ p.account = a /\ p.kind \in {"authok", "authfail"}
          /\ \A d \in Chars : p \in Fresh(d) =>
               ~Parted(d) /\ \E i \in Slots : char_dat[i].char = d /\ char_dat[i].ver = p.status.ver
    BY <1>1, AuthreqGrant
  <1>4. msg \in Asks(a)
    BY <1>1, <1>2 DEF Asks
  <1> HIDE DEF a, msg
  <1>5. /\ \A d \in Chars : msg \notin Saves(d) \cup Changes(d)
        /\ \A b : b # a => p \notin Answers(b)
    BY <1>2, <1>3 DEF Saves, Changes, Answers
  <1>6. /\ \A n \in Maps, d \in Chars : n # m \/ AccountOf[d] # a => NoneBehind(n, d)
        /\ \A n \in Maps, b \in Accounts : n # m \/ b # a => NoneAsked(n, b)
        /\ \A d \in Chars : p \notin Fresh(d) => SameLinks(d)
    BY <1>1, <1>3, <1>5, AnsweringQuiet DEF msg
  <1>7. toChar[m] \in Seq(Packet) /\ toChar'[m] = Tail(toChar[m]) /\ toChar' \in [Maps -> Seq(Packet)]
    BY <1>1 DEF SessionInv, LinksTyped
  <1>8. Has(toChar[m], Asks(a)) /\ NoneAsked(m, a)
    BY <1>1, <1>4, <1>7, HasTail DEF NoneAsked, msg
  <1>9. LoginsDoubled'
    <2>1. \A n \in Maps, b \in Accounts : NoneAsked(n, b)
      BY <1>6, <1>8
    <2>2. QED
      BY <1>1, <1>2, <2>1, DoubledStays DEF UpdateInv, LoginsDoubled, Grows
  <1>10. ASSUME NEW d \in Chars, Clean(d)' PROVE CharNewest(d)'
    <2>1. CharNewest(d) /\ AccountOf[d] \in Accounts
      BY <1>2, <1>10, StaysClean
    <2>2. InPlace(d)' /\ SameNews(d)
      BY <1>2, <2>1, StoreSame DEF CharNewest
    <2>3. ASSUME NEW n \in Maps PROVE BehindOn(n, d)'
      <3>1. CASE n # m \/ AccountOf[d] # a
        BY <1>1, <1>6, <2>1, <3>1, BehindStays DEF CharNewest
      <3>2. CASE n = m /\ AccountOf[d] = a
        <4>1. LoginStays(m, a) /\ BehindOn(m, d)
          BY <1>1, <2>1 DEF CharNewest, LoginBehind
        <4>2. Has(toChar'[m], Changes(d)) =>
                Has(toChar[m], Changes(d)) /\ Precedes(toChar[m], Asks(a), Changes(d))
          <5> DEFINE q == toChar[m]
          <5>1. Has(Tail(q), Changes(d)) /\ Head(q) \in Asks(a) =>
                  Has(q, Changes(d)) /\ Precedes(q, Asks(a), Changes(d))
            BY <1>1, <1>7, QueueTail
          <5>2. QED
            BY <1>4, <1>7, <5>1 DEF msg
        <4>3. QED
          BY <3>2, <4>1, <4>2 DEF BehindOn, LoginStays
      <3>3. QED
        BY <3>1, <3>2
    <2>4. CASE p \notin Fresh(d)
      <3>1. PlaysNewest(d)' /\ Sees(d)'
        BY <1>1, <1>6, <2>1, <2>2, <2>4, QuietCharacter
      <3>2. QED
        BY <2>2, <2>3, <3>1 DEF CharNewest, LoginBehind
    <2>5. CASE p \in Fresh(d)
      <3>1. LiveOn(d)' = LiveOn(d) /\ ActOn(d)' = ActOn(d) /\ PlaysNewest(d)'
        BY <1>1, <2>1, <2>2, CopiesSame DEF CharNewest, SameNews
      <3>2. /\ latest[d] \in Nat /\ Stored(d) \in Nat /\ (d \in announced) \in BOOLEAN
            /\ LiveOn(d) \in SUBSET Maps /\ ActOn(d) \in SUBSET LiveOn(d)
            /\ toChar \in [Maps -> Seq(Packet)] /\ toMap \in [Maps -> Seq(Packet)]
        BY ViewTyped
      <3>3. Followed(d, latest[d], Stored(d), d \in announced, LiveOn(d), ActOn(d), toChar, toMap)
        BY <2>1 DEF CharNewest, Sees
      <3>4. ASSUME NEW n \in Maps
            PROVE  /\ Alike(toChar'[n], toChar[n], Saves(d) \cup Changes(d))
                   /\ Fewer(toMap[n], toMap[n], Fresh(d))
        <4>1. toChar[n] \in Seq(Packet) /\ toMap[n] \in Seq(Packet)
          BY <3>2
        <4>2. toChar'[n] = IF n = m THEN Tail(toChar[n]) ELSE toChar[n]
          BY <1>1, <3>2
        <4>3. n = m => toChar[n] # <<>> /\ Head(toChar[n]) \notin Saves(d) \cup Changes(d)
          BY <1>1, <1>5 DEF msg
        <4>4. QED
          BY <4>1, <4>2, <4>3, AlikeQueues, FewerPackets
      <3>5. Followed(d, latest[d], Stored(d), d \in announced, LiveOn(d), ActOn(d), toChar', toMap)
        BY <1>7, <3>2, <3>3, <3>4, QuietFollowed
      <3>6. /\ ~Parted(d)
            /\ \E i \in Slots : char_dat[i].char = d /\ char_dat[i].ver = p.status.ver
        BY <1>3, <2>5
      <3>7. p.status.ver = Stored(d)
        BY <2>1, <3>6 DEF CharNewest, InPlace, Stored
      <3>8. ActOn(d) = {}
        <4>1. Active(d) = {}
          BY <3>6 DEF Parted
        <4>2. ASSUME NEW n \in Maps, NEW g \in Fds, Playing(n, g, d), ~SdOf(n, g).waiting PROVE FALSE
          <5>1. <<n, g>> \in Active(d)
            BY <4>2 DEF Active, Live
          <5>2. QED
            BY <4>1, <5>1
        <4>3. QED
          BY <4>2 DEF ActOn
      <3>9. \A n \in Maps : ~Has(toMap[n], Fresh(d))
        BY <3>6 DEF Parted, GrantOnWay, Has, Fresh, Grants
      <3>10. d \in announced \/ \A n \in Maps : ~Has(toChar'[n], Saves(d))
        <4>1. d \in announced \/ \A n \in Maps : ~Has(toChar[n], Saves(d))
          BY <3>6 DEF Parted, SaveOnWay, Has, Saves
        <4>2. \A n \in Maps : Has(toChar'[n], Saves(d)) => Has(toChar[n], Saves(d))
          BY <3>4 DEF Alike
        <4>3. QED
          BY <4>1, <4>2
      <3>11. Followed(d, latest[d], Stored(d), d \in announced, LiveOn(d), ActOn(d), toChar', toMap')
        <4> DEFINE st == Stored(d)
                   act == ActOn(d)
        <4>1. p.status.ver = st /\ act = {} /\ st \in Nat /\ act \in SUBSET LiveOn(d)
          BY <3>2, <3>7, <3>8
        <4> HIDE DEF st, act
        <4>2. Followed(d, latest[d], st, d \in announced, LiveOn(d), act, toChar', toMap)
          BY <3>5 DEF st, act
        <4>3. Followed(d, latest[d], st, d \in announced, LiveOn(d), act, toChar',
                       [toMap EXCEPT ![m] = Append(@, p)])
          BY <1>7, <2>5, <3>2, <3>9, <3>10, <4>1, <4>2, GrantFollowed
        <4>4. QED
          BY <1>3, <4>3 DEF st, act
      <3>12. Sees(d)'
        BY <2>2, <3>1, <3>11 DEF Sees, SameNews
      <3>13. QED
        BY <2>2, <2>3, <3>1, <3>12 DEF CharNewest, LoginBehind
    <2>6. QED
      BY <2>4, <2>5
  <1>11. QED
    BY <1>9, <1>10 DEF UpdateInv

LEMMA FromMapUpdates ==
  ASSUME SessionInv, SessionInv', CharacterInv, UpdateInv, NEW m \in Maps, FromMap(m)
  PROVE  UpdateInv' /\ \A d \in Chars : Clean(d)' => Stored(d) <= Stored(d)'
  <1> DEFINE msg == Head(toChar[m])
  <1>1. CASE char_save(m, msg)
    BY <1>1, SaveStored
  <1>2. CASE char_authreq(m, msg) \/ char_charselectreq(m, msg) \/ char_changemapserver(m, msg)
    <2>1. UpdateInv'
      BY <1>2, AuthreqAnswered, SelectAnswered, ChangeAnswered
    <2>2. UNCHANGED char_dat
      BY <1>2 DEF char_authreq, char_charselectreq, char_changemapserver
    <2>3. ASSUME NEW d \in Chars PROVE Stored(d) <= Stored(d)'
      <3>1. Stored(d)' = Stored(d) /\ Stored(d) \in Nat
        BY <2>2, ViewTyped DEF Stored, Place, Slots
      <3>2. QED
        BY <3>1
    <2>4. QED
      BY <2>1, <2>3
  <1>3. QED
    BY <1>1, <1>2 DEF FromMap

-----------------------------------------------------------------------------
(* A map server takes an answer off its link. *)
LEMMA TakingQuiet ==
  ASSUME SessionInv, NEW m \in Maps, toMap[m] # <<>>,
         toMap' = [toMap EXCEPT ![m] = Tail(@)], UNCHANGED toChar
  PROVE  /\ \A d \in Chars : SameLinks(d) /\ \A n \in Maps : NoneBehind(n, d)
         /\ \A n \in Maps, a \in Accounts : NoneAsked(n, a)
  <1>1. \A n \in Maps : /\ toChar[n] \in Seq(Packet) /\ toMap[n] \in Seq(Packet)
                        /\ toChar'[n] = toChar[n]
                        /\ toMap'[n] = toMap[n] \/ (n = m /\ toMap'[n] = Tail(toMap[n]))
    BY DEF SessionInv, LinksTyped
  <1>2. \A n \in Maps : \A T : Alike(toChar'[n], toChar[n], T) /\ Fewer(toMap'[n], toMap[n], T)
    BY <1>1, AlikeQueues, FewerPackets
  <1>3. \A n \in Maps : \A S : Has(toMap'[n], S) => Has(toMap[n], S)
    BY <1>2 DEF Fewer
  <1>4. QED
    BY <1>1, <1>2, <1>3 DEF SameLinks, NoneBehind, NoneAsked

(* An answer that leaves the sessions alone. *)
LEMMA IgnoredUpdates ==
  ASSUME SessionInv, SessionInv', UpdateInv, NEW m \in Maps, toMap[m] # <<>>,
         toMap' = [toMap EXCEPT ![m] = Tail(@)],
         UNCHANGED <<char_dat, toChar, conn, sd, id_db, latest, clash, announced, suspect>>
  PROVE  UpdateInv'
  <1>1. /\ \A d \in Chars : SameCopies(d)
        /\ \A n \in Maps, a \in Accounts : LoginStays(n, a)
    BY SessionsUnmoved DEF Open
  <1>2. Grows
    BY DEF Grows
  <1>3. ASSUME NEW d \in Chars, Clean(d)' PROVE InPlace(d)' /\ SameNews(d)
    <2>1. InPlace(d)
      BY <1>2, <1>3, StaysClean DEF CharNewest
    <2>2. QED
      BY <2>1, StoreSame
  <1>4. QED
    BY <1>1, <1>2, <1>3, TakingQuiet, QuietUpdates

(* After the answer to a, whatever it makes of the session that id_db has for
   a, no login of a is under way. *)
LEMMA AnsweredLogins ==
  ASSUME SessionInv, CharacterInv, UpdateInv, Grows, NEW m \in Maps, toMap[m] # <<>>,
         toMap' = [toMap EXCEPT ![m] = Tail(@)],
         UNCHANGED <<toChar, id_db, clash>>, NEW a \in Accounts, Head(toMap[m]) \in Answers(a),
         \A n \in Maps, j \in Chunks : n # m \/ j # id_db[m][a] => sd'[n][j] = sd[n][j]
  PROVE  LoginsDoubled' /\ \A d \in Chars : Clean(d)' => LoginBehind(d)'
  <1> DEFINE k == id_db[m][a]
  <1>1. ASSUME NEW n \in Maps, NEW b \in Accounts, b \notin clash, n # m \/ b # a
        PROVE  LoginStays(n, b)
    <2>1. CASE id_db[n][b] = Nil
      BY <2>1 DEF LoginStays
    <2>2. CASE id_db[n][b] # Nil
      <3>1. n = m => id_db[n][b] # k
        BY <1>1, <2>2, OwnPointer
      <3>2. id_db[n][b] \in Chunks
        BY <2>2 DEF SessionInv, TypeOK
      <3>3. QED
        BY <3>1, <3>2 DEF LoginStays
    <2>3. QED
      BY <2>1, <2>2
  <1>2. /\ \A n \in Maps, b \in Accounts : NoneAsked(n, b)
        /\ \A n \in Maps, d \in Chars : NoneBehind(n, d)
    BY TakingQuiet
  <1>3. a \notin clash => ~Has(toChar'[m], Asks(a)) /\ ~Has(toMap'[m], Answers(a))
    <2>1. a \notin clash => Waits(toChar[m], toMap[m], a)
      BY DEF CharacterInv, OneLogin
    <2>2. toMap[m] \in Seq(Packet) /\ toMap'[m] = Tail(toMap[m]) /\ toChar'[m] = toChar[m]
      BY DEF SessionInv, LinksTyped
    <2>3. QED
      BY <2>1, <2>2, HasTail DEF Waits
  <1>4. LoginsDoubled'
    <2>1. ASSUME NEW n \in Maps, NEW b \in Accounts, b \notin clash PROVE DoubledOn(n, b)'
      <3>1. CASE n = m /\ b = a
        BY <1>3, <2>1, <3>1 DEF DoubledOn
      <3>2. CASE n # m \/ b # a
        BY <1>1, <1>2, <2>1, <3>2, DoubledStays DEF UpdateInv
      <3>3. QED
        BY <3>1, <3>2
    <2>2. QED
      BY <2>1 DEF LoginsDoubled
  <1>5. ASSUME NEW d \in Chars, Clean(d)', NEW n \in Maps PROVE BehindOn(n, d)'
    <2>1. LoginBehind(d) /\ AccountOf[d] \in Accounts \ clash
      BY <1>5, StaysClean DEF CharNewest
    <2>2. CASE n = m /\ AccountOf[d] = a
      BY <1>3, <2>1, <2>2, PrecedesHas DEF BehindOn
    <2>3. CASE n # m \/ AccountOf[d] # a
      BY <1>1, <1>2, <2>1, <2>3, BehindStays
    <2>4. QED
      BY <2>2, <2>3
  <1>6. QED
    BY <1>4, <1>5 DEF LoginBehind

(* A chunk is written to in which d neither was nor is played. *)
LEMMA ChunkRewritten ==
  ASSUME SessionInv, NEW m \in Maps, NEW k \in Chunks, NEW s, UNCHANGED conn,
         sd'[m][k] = s, \A n \in Maps, j \in Chunks : n # m \/ j # k => sd'[n][j] = sd[n][j],
         NEW d, ~(s.auth /\ s.status.char = d),
         \A f \in Fds : conn[m][f].sd = k => ~Playing(m, f, d)
  PROVE  SameCopies(d)
  <1>1. ASSUME NEW n \in Maps, NEW g \in Fds
        PROVE  /\ Playing(n, g, d)' <=> Playing(n, g, d)
               /\ Playing(n, g, d) => SdOf(n, g)' = SdOf(n, g)
    <2>1. CASE ~Open(n, g)
      BY <2>1 DEF Playing, Open
    <2>2. CASE Open(n, g) /\ n = m /\ conn[n][g].sd = k
      BY <2>2 DEF Playing, SdOf
    <2>3. CASE Open(n, g) /\ (n # m \/ conn[n][g].sd # k)
      <3>1. conn[n][g].sd \in Chunks
        BY <2>3 DEF SessionInv, ChunksInUse
      <3>2. SdOf(n, g)' = SdOf(n, g) /\ Open(n, g)'
        BY <2>3, <3>1 DEF SdOf, Open
      <3>3. QED
        BY <2>3, <3>2 DEF Playing
    <2>4. QED
      BY <2>1, <2>2, <2>3
  <1>2. QED
    BY <1>1 DEF SameCopies

(* pc_authfail *)
LEMMA AuthfailUpdates ==
  ASSUME SessionInv, SessionInv', CharacterInv, UpdateInv, NEW m \in Maps, toMap[m] # <<>>,
         pc_authfail(m, Head(toMap[m])), toMap' = [toMap EXCEPT ![m] = Tail(@)],
         UNCHANGED <<chars, toChar, conn, id_db, latest, clash>>
  PROVE  UpdateInv'
  <1> DEFINE msg == Head(toMap[m])
             a   == msg.account
             k   == id_db[m][a]
  <1>1. msg \in Packet /\ msg.kind = "authfail" /\ a \in Accounts /\ k \in Chunks \cup {Nil}
    <2>1. msg \in Packet /\ msg.kind = "authfail"
      BY HeadIsTrue DEF pc_authfail
    <2>2. QED
      BY <2>1 DEF Packet, SessionInv, TypeOK
  <1>2. UNCHANGED <<char_dat, announced, suspect>> /\ Grows
    BY DEF pc_authfail, chars, Grows
  <1>3. CASE k = Nil
    <2>1. UNCHANGED sd
      BY <1>3 DEF pc_authfail
    <2>2. QED
      BY <1>2, <2>1, IgnoredUpdates
  <1>4. CASE k # Nil
    <2> DEFINE s == [sd[m][k] EXCEPT !.new_fd = Nil]
    <2>1. k \in Chunks /\ sd \in Memory /\ sd[m][k] \in Session
      BY <1>1, <1>4, MemoryTyped DEF SessionInv, Memory
    <2>2. /\ s.account = sd[m][k].account /\ s.auth = sd[m][k].auth
          /\ s.status = sd[m][k].status /\ s.waiting = sd[m][k].waiting
      BY <2>1 DEF Session
    <2>3. sd' = [sd EXCEPT ![m][k] = s]
      BY <1>4 DEF pc_authfail
    <2> HIDE DEF s
    <2>4. \A n \in Maps, j \in Chunks : sd'[n][j] = IF n = m /\ j = k THEN s ELSE sd[n][j]
      BY <2>1, <2>3 DEF Memory
    <2>5. msg \in Answers(a)
      BY <1>1 DEF Answers
    <2>6. LoginsDoubled' /\ \A d \in Chars : Clean(d)' => LoginBehind(d)'
      BY <1>1, <1>2, <2>4, <2>5, AnsweredLogins
    <2>7. \A d : SameCopies(d)
      <3>1. ASSUME NEW n \in Maps, NEW g \in Fds, Open(n, g)
            PROVE  /\ SdOf(n, g)'.account = SdOf(n, g).account /\ SdOf(n, g)'.auth = SdOf(n, g).auth
                   /\ SdOf(n, g)'.status = SdOf(n, g).status /\ SdOf(n, g)'.waiting = SdOf(n, g).waiting
        <4>1. conn[n][g].sd \in Chunks
          BY <3>1 DEF SessionInv, ChunksInUse
        <4>2. QED
          BY <2>2, <2>4, <4>1 DEF SdOf
      <3>2. \A n \in Maps, g \in Fds : Open(n, g)' <=> Open(n, g)
        BY DEF Open
      <3>3. QED
        BY <3>1, <3>2 DEF SameCopies, Playing
    <2>8. ASSUME NEW d \in Chars, Clean(d)' PROVE CharNewest(d)'
      <3>1. CharNewest(d)
        BY <1>2, <2>8, StaysClean
      <3>2. InPlace(d)' /\ SameNews(d)
        BY <1>2, <3>1, StoreSame DEF CharNewest
      <3>3. PlaysNewest(d)' /\ Sees(d)'
        BY <2>7, <3>1, <3>2, TakingQuiet, QuietCharacter
      <3>4. QED
        BY <2>6, <2>8, <3>2, <3>3 DEF CharNewest
    <2>9. QED
      BY <2>6, <2>8 DEF UpdateInv
  <1>5. QED
    BY <1>3, <1>4

(* What a granted login makes of what is seen of the character. *)
LEMMA LoginSeen ==
  ASSUME SessionInv, NEW d \in Chars, Sees(d), NEW m \in Maps, NEW p \in Fresh(d),
         NEW rm, Taken(toMap, m, p, rm), ~Has(toChar[m], Changes(d)),
         NEW live2, live2 = LiveOn(d) \cup {m}, NEW act2, act2 = ActOn(d) \cup {m}
  PROVE  p \in Current(d, latest[d]) /\ Followed(d, latest[d], Stored(d), FALSE, live2, act2, toChar, rm)
  <1> DEFINE v    == latest[d]
             st   == Stored(d)
             ann  == d \in announced
             live == LiveOn(d)
             act  == ActOn(d)
  <1>1. /\ v \in Nat /\ st \in Nat /\ ann \in BOOLEAN
        /\ live \in SUBSET Maps /\ act \in SUBSET live
        /\ toChar \in [Maps -> Seq(Packet)] /\ toMap \in [Maps -> Seq(Packet)]
    BY ViewTyped
  <1>2. Followed(d, v, st, ann, live, act, toChar, toMap)
    BY DEF Sees
  <1>3. live2 = live \cup {m} /\ act2 = act \cup {m}
    OBVIOUS
  <1> HIDE DEF v, st, ann, live, act
  <1>4. p \in Current(d, v) /\ Followed(d, v, st, FALSE, live2, act2, toChar, rm)
    BY <1>1, <1>2, <1>3, LoginFollowed
  <1>5. QED
    BY <1>4 DEF v, st

(* pc_authok: a login that is granted. *)
LEMMA AuthokUpdates ==
  ASSUME SessionInv, SessionInv', CharacterInv, UpdateInv, NEW m \in Maps, toMap[m] # <<>>,
         pc_authok(m, Head(toMap[m])), toMap' = [toMap EXCEPT ![m] = Tail(@)],
         UNCHANGED <<chars, toChar, conn, id_db, latest, clash>>
  PROVE  UpdateInv'
  <1> DEFINE msg == Head(toMap[m])
             a   == msg.account
             k   == id_db[m][a]
             x   == sd[m][k]
             in  == LoggedInAs(x, msg.status)
             out == [x EXCEPT !.status = msg.status]
  <1>1. msg \in Packet /\ msg.kind = "authok" /\ a \in Accounts /\ k \in Chunks \cup {Nil}
        /\ msg.status \in Status
    <2>1. msg \in Packet /\ msg.kind = "authok"
      BY HeadIsTrue DEF pc_authok
    <2>2. QED
      BY <2>1 DEF Packet, SessionInv, TypeOK
  <1>2. UNCHANGED char_dat /\ Grows
    BY DEF pc_authok, chars, Grows
  <1>3. CASE UNCHANGED <<sd, announced, suspect>>
    BY <1>2, <1>3, IgnoredUpdates
  <1>4. ASSUME k # Nil, x.new_fd = Nil, NEW s \in Session, sd' = Put(sd, m, k, s),
               s.account = x.account, s.status = msg.status,
               \/ s.auth /\ ~s.waiting /\ announced' = announced \ {msg.status.char}
                  /\ (msg.parted /\ ~x.auth => msg.status.char \in suspect')
               \/ s.auth = x.auth /\ s.waiting = x.waiting /\ announced' = announced,
               AccountOf[msg.status.char] # a => msg.status.char \in suspect'
        PROVE  UpdateInv'
    <2>1. k \in Chunks /\ sd \in Memory /\ msg \in Answers(a) /\ Has(toMap[m], Answers(a))
      <3>1. k \in Chunks /\ sd \in Memory /\ msg \in Answers(a)
        BY <1>1, <1>4, MemoryTyped DEF SessionInv, Answers
      <3>2. toMap[m] \in Seq(Packet)
        BY DEF SessionInv, LinksTyped
      <3>3. QED
        BY <3>1, <3>2, HasTail
    <2>2. sd'[m][k] = s /\ \A n \in Maps, j \in Chunks : n # m \/ j # k => sd'[n][j] = sd[n][j]
      BY <1>4, <2>1 DEF Put, Memory
    <2> HIDE DEF in, out
    <2>3. LoginsDoubled' /\ \A d \in Chars : Clean(d)' => LoginBehind(d)'
      BY <1>1, <1>2, <2>1, <2>2, AnsweredLogins
    <2> HIDE DEF x
    <2>4. a \notin clash => ~x.auth
      BY <1>1, <1>4, <2>1 DEF UpdateInv, LoginsDoubled, DoubledOn, x
    <2> HIDE DEF msg, a, k
    <2>5. ASSUME NEW d \in Chars, Clean(d)', NEW f \in Fds, conn[m][f].sd = k
          PROVE  ~Playing(m, f, d)
      <3>1. SUFFICES ASSUME Playing(m, f, d) PROVE FALSE
        OBVIOUS
      <3>2. x.account \notin clash /\ x.auth /\ InUse(m, k)
        BY <1>2, <2>5, <3>1, StaysClean DEF CharNewest, PlaysNewest, Playing, SdOf, x, InUse
      <3>3. x.account = a
        BY <1>1, <1>4, <3>2 DEF SessionInv, PointersTrue, x, k
      <3>4. QED
        BY <2>4, <3>2, <3>3
    <2>6. \A d \in Chars : SameLinks(d)
      BY TakingQuiet
    <2>7. ASSUME NEW d \in Chars, Clean(d)' PROVE CharNewest(d)'
      <3>1. CharNewest(d) /\ d \notin suspect' /\ AccountOf[d] \in Accounts \ clash
        BY <1>2, <2>7, StaysClean
      <3>2. InPlace(d)' /\ Stored(d)' = Stored(d) /\ latest'[d] = latest[d]
        BY <1>2, <3>1 DEF CharNewest, InPlace, Stored, Place, Slots
      <3>3. CASE msg.status.char # d \/ (~s.auth /\ announced' = announced)
        <4>1. SameCopies(d)
          BY <1>4, <2>1, <2>2, <2>5, <2>7, <3>3, ChunkRewritten
        <4>2. SameNews(d)
          BY <1>4, <3>2, <3>3 DEF SameNews
        <4>3. PlaysNewest(d)' /\ Sees(d)'
          BY <2>6, <3>1, <4>1, <4>2, QuietCharacter
        <4>4. QED
          BY <2>3, <2>7, <3>2, <4>3 DEF CharNewest
      <3>4. CASE msg.status.char = d /\ s.auth /\ ~s.waiting /\ announced' = announced \ {d}
                 /\ ~x.auth /\ ~msg.parted
        <4>1. a = AccountOf[d] /\ a \notin clash
          BY <1>4, <3>1, <3>4
        <4>2. InUse(m, k) /\ x.account = a
          BY <1>1, <1>4, <4>1 DEF SessionInv, PointersTrue, x, k
        <4>3. PICK f \in Fds : conn[m][f].sd = k
          BY <4>2 DEF InUse
        <4>4. Open(m, f)
          BY <2>1, <4>3, MapSessionAssumption DEF SessionInv, ChunksInUse
        <4>5. \A g \in Fds : conn[m][g].sd = k => g = f
          BY <4>3, <4>4 DEF SessionInv, ChunksInUse
        <4>6. /\ Playing(m, f, d)' /\ SdOf(m, f)' = s /\ ~Playing(m, f, d)
              /\ \A n \in Maps, g \in Fds : n # m \/ g # f =>
                   /\ Playing(n, g, d)' <=> Playing(n, g, d)
                   /\ Playing(n, g, d) => SdOf(n, g)' = SdOf(n, g)
          <5>1. SdOf(m, f)' = s /\ Open(m, f)'
            BY <2>2, <4>3, <4>4 DEF SdOf, Open
          <5>2. Playing(m, f, d)' /\ ~Playing(m, f, d)
            BY <1>4, <2>5, <2>7, <3>4, <4>3, <5>1 DEF Playing
          <5>3. ASSUME NEW n \in Maps, NEW g \in Fds, n # m \/ g # f
                PROVE  /\ Playing(n, g, d)' <=> Playing(n, g, d)
                       /\ Playing(n, g, d) => SdOf(n, g)' = SdOf(n, g)
            <6>1. Open(n, g)' <=> Open(n, g)
              BY DEF Open
            <6>2. CASE Open(n, g)
              <7>1. conn[n][g].sd \in Chunks /\ (n # m \/ conn[n][g].sd # k)
                BY <4>5, <5>3, <6>2 DEF SessionInv, ChunksInUse
              <7>2. SdOf(n, g)' = SdOf(n, g)
                BY <2>2, <7>1 DEF SdOf
              <7>3. QED
                BY <6>1, <7>2 DEF Playing
            <6>3. QED
              BY <6>1, <6>2 DEF Playing
          <5>4. QED
            BY <5>1, <5>2, <5>3
        <4>7. msg \in Fresh(d) /\ Taken(toMap, m, msg, toMap')
          BY <1>1, <3>4 DEF Fresh, Grants, Taken, msg
        <4>8. ~Has(toChar[m], Changes(d))
          BY <1>4, <2>1, <3>1, <3>4, <4>1 DEF CharNewest, LoginBehind, BehindOn, x, k
        <4>9. Sees(d) /\ ~Has(toChar[m], Changes(d))
          BY <3>1, <4>8 DEF CharNewest
        <4>10. PICK live2, act2 : live2 = LiveOn(d) \cup {m} /\ act2 = ActOn(d) \cup {m}
          OBVIOUS
        <4>11. /\ msg.status.ver = latest[d]
               /\ Followed(d, latest[d], Stored(d), FALSE, live2, act2, toChar, toMap')
          <5>1. /\ msg \in Current(d, latest[d])
                /\ Followed(d, latest[d], Stored(d), FALSE, live2, act2, toChar, toMap')
            BY <4>7, <4>9, <4>10, LoginSeen
          <5>2. QED
            BY <5>1 DEF Current
        <4>12. LiveOn(d)' = live2
          BY <4>6, <4>10 DEF LiveOn
        <4>13. ActOn(d)' = act2
          BY <3>4, <4>6, <4>10 DEF ActOn
        <4>14. (d \in announced') = FALSE
          BY <3>4
        <4>15. Sees(d)'
          BY <3>2, <4>11, <4>12, <4>13, <4>14 DEF Sees
        <4>16. PlaysNewest(d)'
          BY <1>4, <3>1, <3>2, <4>1, <4>2, <4>6, <4>11 DEF CharNewest, PlaysNewest
        <4>17. QED
          BY <2>3, <2>7, <3>2, <4>15, <4>16 DEF CharNewest
      <3>5. msg.status.char = d => a \notin clash /\ ~x.auth
        BY <1>4, <2>4, <3>1
      <3>6. QED
        BY <1>4, <3>1, <3>3, <3>4, <3>5
    <2>8. QED
      BY <2>3, <2>7 DEF UpdateInv
  <1>5. CASE k # Nil /\ ~DoubleLogin(m, k)
    <2>1. k \in Chunks /\ sd \in Memory /\ x \in Session
      BY <1>1, <1>5, MemoryTyped DEF SessionInv, Memory
    <2>2. in \in Session /\ in.account = x.account /\ in.status = msg.status /\ in.auth /\ ~in.waiting
      BY <1>1, <2>1 DEF Session, LoggedInAs
    <2>3. /\ out \in Session /\ out.account = x.account /\ out.status = msg.status
          /\ out.auth = x.auth /\ out.waiting = x.waiting
      BY <1>1, <2>1 DEF Session
    <2>4. \/ /\ sd' = Login(sd, m, k, msg.status)
             /\ suspect' = suspect \cup {c \in {msg.status.char} :
                  (msg.parted /\ ~x.auth) \/ AccountOf[c] # a}
             /\ announced' = announced \ {msg.status.char}
          \/ /\ sd' = [sd EXCEPT ![m][k].status = msg.status]
             /\ suspect' = suspect \cup {c \in {msg.status.char} : AccountOf[c] # a}
             /\ announced' = announced
      BY <1>5, Zenon DEF pc_authok, Login
    <2>5. Login(sd, m, k, msg.status) = Put(sd, m, k, in)
      BY <1>1, <2>1, LoggedIn
    <2>6. [sd EXCEPT ![m][k].status = msg.status] = Put(sd, m, k, out)
      BY DEF Put
    <2>7. x.new_fd = Nil
      BY <1>5 DEF DoubleLogin
    <2> HIDE DEF in, out, x, k, a, msg
    <2>8. CASE sd' = Login(sd, m, k, msg.status)
               /\ suspect' = suspect \cup {c \in {msg.status.char} :
                    (msg.parted /\ ~x.auth) \/ AccountOf[c] # a}
               /\ announced' = announced \ {msg.status.char}
      <3>1. /\ sd' = Put(sd, m, k, in)
            /\ msg.parted /\ ~x.auth => msg.status.char \in suspect'
            /\ AccountOf[msg.status.char] # a => msg.status.char \in suspect'
            /\ announced' = announced \ {msg.status.char}
        BY <2>5, <2>8
      <3>2. QED
        BY <1>4, <1>5, <2>2, <2>7, <3>1
    <2>9. CASE sd' = [sd EXCEPT ![m][k].status = msg.status]
               /\ suspect' = suspect \cup {c \in {msg.status.char} : AccountOf[c] # a}
               /\ announced' = announced
      <3>1. /\ sd' = Put(sd, m, k, out) /\ announced' = announced
            /\ AccountOf[msg.status.char] # a => msg.status.char \in suspect'
        BY <2>6, <2>9
      <3>2. QED
        BY <1>4, <1>5, <2>3, <2>7, <3>1
    <2>10. QED
      BY <2>4, <2>8, <2>9
  <1>6. QED
    BY <1>3, <1>5 DEF pc_authok

LEMMA FromCharUpdates ==
  ASSUME SessionInv, SessionInv', CharacterInv, UpdateInv, NEW m \in Maps, FromChar(m)
  PROVE  UpdateInv'
  <1> DEFINE msg == Head(toMap[m])
  <1>1. toMap[m] # <<>> /\ UNCHANGED chars
    BY DEF FromChar
  <1>2. CASE Crash(m)
    BY <1>1, <1>2, CrashUpdates
  <1>3. CASE /\ toMap' = [toMap EXCEPT ![m] = Tail(@)]
             /\ pc_authok(m, msg) \/ pc_authfail(m, msg) \/ OtherAnswer(m, msg)
             /\ UNCHANGED <<toChar, chrif, conn, id_db, latest, clash>>
    <2>1. CASE pc_authok(m, msg)
      BY <1>1, <1>3, <2>1, AuthokUpdates
    <2>2. CASE pc_authfail(m, msg)
      BY <1>1, <1>3, <2>2, AuthfailUpdates
    <2>3. CASE OtherAnswer(m, msg)
      BY <1>1, <1>3, <2>3, IgnoredUpdates DEF OtherAnswer, chars
    <2>4. QED
      BY <1>3, <2>1, <2>2, <2>3
  <1>4. QED
    BY <1>2, <1>3 DEF FromChar

-----------------------------------------------------------------------------
LEMMA UpdateNext ==
  ASSUME SessionInv, SessionInv', CharacterInv, UpdateInv, [Next]_vars
  PROVE  UpdateInv' /\ \A d \in Chars : Clean(d)' => Stored(d) <= Stored(d)'
  <1>0. ASSUME UNCHANGED char_dat PROVE \A d \in Chars : Stored(d) <= Stored(d)'
    <2>1. ASSUME NEW d \in Chars PROVE Stored(d) <= Stored(d)'
      <3>1. Stored(d)' = Stored(d) /\ Stored(d) \in Nat
        BY <1>0, ViewTyped DEF Stored, Place, Slots
      <3>2. QED
        BY <3>1
    <2>2. QED
      BY <2>1
  <1>1. ASSUME NEW c \in Chars, SelectChar(c) PROVE UpdateInv' /\ UNCHANGED char_dat
    BY <1>1, SelectCharUpdates DEF SelectChar
  <1>2. ASSUME NEW m \in Maps, NEW f \in Fds, NEW c \in Chars, NEW k \in Chunks, Connect(m, f, c, k)
        PROVE  UpdateInv' /\ UNCHANGED char_dat
    BY <1>2, ConnectUpdates DEF Connect, chars
  <1>3. ASSUME NEW m \in Maps, NEW f \in Fds,
               Disconnect(m, f) \/ WaitClose(m, f) \/ Restart(m, f) \/ QuitGame(m, f)
        PROVE  UpdateInv' /\ UNCHANGED char_dat
    BY <1>3, QuietStepUpdates DEF Disconnect, WaitClose, Restart, QuitGame, chars
  <1>4. ASSUME NEW m \in Maps, NEW f \in Fds, Play(m, f) PROVE UpdateInv' /\ UNCHANGED char_dat
    BY <1>4, PlayUpdates DEF Play, chars
  <1>5. ASSUME NEW m \in Maps, NEW f \in Fds, ChangeMapServer(m, f)
        PROVE  UpdateInv' /\ UNCHANGED char_dat
    BY <1>5, ChangeMapServerUpdates DEF ChangeMapServer, chars
  <1>6. ASSUME NEW m \in Maps, NEW f \in Fds, Drop(m, f) PROVE UpdateInv' /\ UNCHANGED char_dat
    BY <1>6, DropUpdates DEF Drop, chars
  <1>7. ASSUME NEW m \in Maps, NEW f \in Fds, Autosave(m, f) PROVE UpdateInv' /\ UNCHANGED char_dat
    BY <1>7, AutosaveUpdates DEF Autosave, chars
  <1>8. ASSUME NEW m \in Maps, LinkLost(m) \/ check_connect_char_server(m) \/ chrif_sendmapack(m)
        PROVE  UpdateInv' /\ UNCHANGED char_dat
    BY <1>8, LinkLostUpdates, RelinkUpdates
    DEF LinkLost, check_connect_char_server, chrif_sendmapack, chars
  <1>9. ASSUME NEW m \in Maps, FromChar(m) PROVE UpdateInv' /\ UNCHANGED char_dat
    BY <1>9, FromCharUpdates DEF FromChar, chars
  <1>10. ASSUME NEW m \in Maps, FromMap(m)
         PROVE  UpdateInv' /\ \A d \in Chars : Clean(d)' => Stored(d) <= Stored(d)'
    BY <1>10, FromMapUpdates
  <1>11. CASE UNCHANGED vars
    <2>1. UNCHANGED <<char_dat, toChar, toMap, conn, sd, id_db, hist>>
      BY <1>11 DEF vars, chars, links, server
    <2>2. UpdateInv'
      BY <2>1, StillUpdates DEF Open
    <2>3. QED
      BY <1>0, <2>1, <2>2
  <1>12. QED
    BY <1>0, <1>1, <1>2, <1>3, <1>4, <1>5, <1>6, <1>7, <1>8, <1>9, <1>10, <1>11
    DEF Next, ClientStep, ServerStep

(* What the invariant says where no session plays the character and no save of
   it is under way. *)
LEMMA NothingLost ==
  ASSUME SessionInv, UpdateInv
  PROVE  NoLostUpdate
  <1> SUFFICES ASSUME NEW c \in Chars, Clean(c)
               PROVE  /\ \A mf \in Active(c) : SdOf(mf[1], mf[2]).status.ver = latest[c]
                      /\ Live(c) = {} /\ (\A m \in Maps : ~SaveOnWay(m, c))
                           => \E i \in Slots : char_dat[i] = [char |-> c, ver |-> latest[c]]
    BY DEF NoLostUpdate
  <1>1. InPlace(c) /\ PlaysNewest(c) /\ Sees(c) /\ Place(c) \in Slots
    BY PlaceIs DEF UpdateInv, CharNewest
  <1>2. ASSUME NEW mf \in Active(c) PROVE SdOf(mf[1], mf[2]).status.ver = latest[c]
    BY <1>1 DEF PlaysNewest, Active, Live
  <1>3. ASSUME Live(c) = {}, \A m \in Maps : ~SaveOnWay(m, c)
        PROVE  \E i \in Slots : char_dat[i] = [char |-> c, ver |-> latest[c]]
    <2>1. ActOn(c) = {}
      <3>1. \A m \in Maps, f \in Fds : ~Playing(m, f, c)
        <4>1. ASSUME NEW m \in Maps, NEW f \in Fds, Playing(m, f, c) PROVE FALSE
          <5>1. <<m, f>> \in Live(c)
            BY <4>1 DEF Live
          <5>2. QED
            BY <1>3, <5>1
        <4>2. QED
          BY <4>1
      <3>2. QED
        BY <3>1 DEF ActOn
    <2>2. \A m \in Maps : ~Has(toChar[m], Newest(c, latest[c]))
      BY <1>3 DEF SaveOnWay, Has, Newest, Saves
    <2>3. Stored(c) = latest[c]
      BY <1>1, <2>1, <2>2 DEF Sees, Followed, NewestSomewhere
    <2>4. char_dat[Place(c)] \in Status /\ char_dat[Place(c)].char = c
      BY <1>1, ViewTyped DEF InPlace
    <2>5. char_dat[Place(c)] = [char |-> c, ver |-> latest[c]]
      BY <2>3, <2>4 DEF Stored, Status
    <2>6. QED
      BY <1>1, <2>5
  <1>4. QED
    BY <1>2, <1>3

(* Only a save writes to the slots, and it leaves the characters that are clean
   in their places. *)
LEMMA SlotsInOrder ==
  ASSUME SessionInv, SessionInv', CharacterInv, UpdateInv, [Next]_vars
  PROVE  \A i \in Slots : Clean(char_dat[i].char)' =>
           /\ char_dat'[i].char = char_dat[i].char
           /\ char_dat'[i].ver >= char_dat[i].ver
  <1>1. \A i \in Slots : char_dat[i] \in Status /\ char_dat'[i] \in Status
    BY DEF SessionInv, TypeOK
  <1>2. MaxVersion \in Nat
    BY MapSessionAssumption
  <1>3. CASE UNCHANGED char_dat
    <2>1. \A i \in Slots : char_dat[i].ver \in Nat
      BY <1>1, <1>2 DEF Status
    <2>2. QED
      BY <1>3, <2>1
  <1>4. CASE UNCHANGED hist
    <2> SUFFICES ASSUME NEW i \in Slots, Clean(char_dat[i].char)'
                 PROVE  /\ char_dat'[i].char = char_dat[i].char
                        /\ char_dat'[i].ver >= char_dat[i].ver
      OBVIOUS
    <2>0. PICK d \in Chars : d = char_dat'[i].char
      BY <1>1 DEF Status
    <2>1. Clean(d)' /\ Clean(d)
      BY <1>4, <2>0 DEF Clean, hist
    <2>2. InPlace(d) /\ InPlace(d)' /\ Stored(d) <= Stored(d)'
      BY <2>1, UpdateNext DEF UpdateInv, CharNewest
    <2>3. i = Place(d)
      BY <2>0, <2>2 DEF InPlace, Place, Slots
    <2>4. char_dat[i].char = d /\ char_dat'[i].char = d
      BY <2>0, <2>2, <2>3 DEF InPlace
    <2>5. char_dat[i].ver <= char_dat'[i].ver
      <3>1. Stored(d)' = char_dat'[Place(d)].ver
        BY DEF Stored, Place, Slots
      <3>2. QED
        BY <2>2, <2>3, <3>1 DEF Stored
    <2>6. char_dat[i].ver \in Nat /\ char_dat'[i].ver \in Nat
      BY <1>1, <1>2 DEF Status
    <2>7. QED
      BY <2>4, <2>5, <2>6
  <1>5. UNCHANGED char_dat \/ UNCHANGED hist
    <2>1. ASSUME NEW m \in Maps, FromMap(m) PROVE UNCHANGED char_dat \/ UNCHANGED hist
      BY <2>1 DEF FromMap, char_save, char_authreq, char_charselectreq, char_changemapserver
    <2>2. ASSUME NEW m \in Maps, ServerStep(m) PROVE UNCHANGED char_dat \/ UNCHANGED hist
      BY <2>1, <2>2
      DEF ServerStep, FromChar, Drop, WaitClose, Autosave, LinkLost,
          check_connect_char_server, chrif_sendmapack, chars
    <2>3. ASSUME NEW m \in Maps, ClientStep(m) PROVE UNCHANGED char_dat
      <3>1. PICK f \in Fds : \/ \E c \in Chars, k \in Chunks : Connect(m, f, c, k)
                             \/ Disconnect(m, f) \/ Play(m, f) \/ Restart(m, f) \/ QuitGame(m, f)
                             \/ ChangeMapServer(m, f)
        BY <2>3 DEF ClientStep
      <3>2. CASE \E c \in Chars, k \in Chunks : Connect(m, f, c, k)
        BY <3>2 DEF Connect, chars
      <3>3. CASE Disconnect(m, f) \/ Play(m, f)
        BY <3>3 DEF Disconnect, Play, chars
      <3>4. CASE Restart(m, f) \/ QuitGame(m, f)
        BY <3>4 DEF Restart, QuitGame, chars
      <3>5. CASE ChangeMapServer(m, f)
        BY <3>5 DEF ChangeMapServer, chars
      <3>6. QED
        BY <3>1, <3>2, <3>3, <3>4, <3>5
    <2>4. QED
      BY <2>2, <2>3 DEF Next, SelectChar, vars, chars
  <1>6. QED
    BY <1>3, <1>4, <1>5

LEMMA UpdatesKept ==
  /\ Init => SessionInv /\ CharacterInv /\ UpdateInv
  /\ SessionInv /\ CharacterInv /\ UpdateInv /\ [Next]_vars =>
       SessionInv' /\ CharacterInv' /\ UpdateInv'
  BY InitInv, CharacterInit, UpdateInit, NextInv, CharacterNext, UpdateNext

(* Where a session plays a character it is the newest status of it, and when
   nobody plays it and no save of it is under way the char server has stored
   that status: whatever saves, changes of map server and logins the servers
   have under way, as long as no account plays at two places at a time and no
   last save met a broken link or a dying server. *)
THEOREM NoLostUpdateAlways == Spec => []NoLostUpdate
  <1>1. UpdateInv /\ SessionInv => NoLostUpdate
    BY NothingLost
  <1>2. QED
    BY <1>1, UpdatesKept, PTL DEF Spec

(* A save that reaches the char server never replaces a newer status of its
   character, nor the status of another, in any step of the servers. *)
THEOREM SavesAlwaysInOrder == Spec => SavesInOrder
  <1> DEFINE Step == \A i \in Slots : Clean(char_dat[i].char)' =>
                       /\ char_dat'[i].char = char_dat[i].char
                       /\ char_dat'[i].ver >= char_dat[i].ver
  <1>1. SessionInv /\ CharacterInv /\ UpdateInv /\ SessionInv' /\ [Next]_vars => [Step]_vars
    BY SlotsInOrder
  <1>2. QED
    BY <1>1, UpdatesKept, PTL DEF Spec, SavesInOrder
=============================================================================
