-------------------------- MODULE CharSelectProofs --------------------------
(***************************************************************************)
(* What holds of characters, lists and selections for every number of      *)
(* accounts, sessions, characters and logins, and rings of every size.     *)
(***************************************************************************)
EXTENDS CharSelect, SequenceTheorems, FunctionTheorems, FiniteSetTheorems, WellFoundedInduction, TLAPS

-----------------------------------------------------------------------------
(* A set of naturals that is not empty has a least element. *)
LEMMA LeastExists ==
  ASSUME NEW T, T \subseteq Nat, T # {}
  PROVE  \E x \in T : \A y \in T : x <= y
  <1> DEFINE R == {p \in Nat \X Nat : p[1] < p[2]}
  <1>0. IsWellFoundedOn(R, Nat)
    BY NatLessThanWellFounded DEF OpToRel
  <1>1. PICK x \in T : \A y \in T : <<y, x>> \notin R
    BY <1>0, WFMin
  <1>2. ASSUME NEW y \in T
        PROVE  x <= y
    <2>1. x \in Nat /\ y \in Nat /\ ~(y < x)
      BY <1>1
    <2>2. QED
      BY <2>1
  <1>3. QED
    BY <1>2

-----------------------------------------------------------------------------
(* Types *)

Logins   == LoginIds \cup {Nil}
Holders  == Accounts \cup {Nil}
States   == {"closed", "waitauth", "authok", "chosen"}
Record   == [account : Holders, char_id : Nat, num : Nums \cup {0}]
Tag      == [char_id : Nat, num : Nums]
List     == [1 .. Listed -> Array \cup {NoSlot}]
Session  == [account : Holders, login_id1 : Logins, state : States, found : List,
             shown : SUBSET Tag]
Entry    == [account : Holders, char_id : Nat, login_id1 : Logins, delflag : 0 .. 2,
             pos : Array, wanted : Nat, sound : BOOLEAN]
Ring     == 0 .. AUTH_FIFO_SIZE - 1
Yes      == [account : Accounts, ok : BOOLEAN]
Question == [account : Accounts, login_id1 : LoginIds]

(* The types, finer than TypeOK: records have their fields, and a session that
   is open is one of an account. *)
StateTyped ==
  /\ TypeOK
  /\ toLogin \in Seq(Question) /\ toChar \in Seq(Yes)
  /\ session \in [Fds -> Session]
  /\ \A f \in Fds : session[f].state # "closed" => session[f].account \in Accounts
  /\ char_dat \in [Array -> Record]
  /\ auth_fifo \in [Ring -> Entry]
  /\ playing \in [Accounts -> Seq(Logins)]

(* What is counted is a character, with an id handed out; ids and places differ. *)
CharsTyped ==
  \A i \in 1 .. char_num : /\ char_dat[i].account \in Accounts /\ char_dat[i].num \in Nums
                           /\ char_dat[i].char_id < char_id_count
CharsDiffer ==
  \A i, j \in 1 .. char_num : i # j =>
    /\ char_dat[i].char_id # char_dat[j].char_id
    /\ char_dat[i].account = char_dat[j].account => char_dat[i].num # char_dat[j].num

(* A list that is not outdated has the account's own slots, none twice, and its
   client was shown what they hold. *)
Current(f) == session[f].state = "authok" /\ f \notin outdated
NoneTwice(found) ==
  \A m, n \in 1 .. Listed : found[m] = found[n] /\ found[m] # NoSlot => m = n
HeldBy(a, dat, num) == {i \in 1 .. num : dat[i].account = a}
Tags(S, dat) == {[char_id |-> dat[i].char_id, num |-> dat[i].num] : i \in S}
TrueList(s, dat, num) ==
  /\ Slots(s.found) \subseteq HeldBy(s.account, dat, num)
  /\ Tags(Slots(s.found), dat) = s.shown
  /\ NoneTwice(s.found)
ListsTrue == \A f \in Fds : Current(f) => TrueList(session[f], char_dat, char_num)

(* A selection nothing has upset names a slot that still holds the character
   its client chose, and what was sent of it was true then. *)
SelectionsTrue ==
  \A k \in Ring : auth_fifo[k].sound =>
    /\ auth_fifo[k].pos \in 1 .. char_num
    /\ char_dat[auth_fifo[k].pos].account = auth_fifo[k].account
    /\ char_dat[auth_fifo[k].pos].char_id = auth_fifo[k].wanted

CharInv == /\ StateTyped /\ CharsTyped /\ CharsDiffer /\ ListsTrue /\ SelectionsTrue
           /\ GrantIsTheChoice

-----------------------------------------------------------------------------
(* Firsts, and the n-th of a set. *)
LEMMA FirstIsIn ==
  ASSUME NEW S, S \subseteq Nat, S # {}
  PROVE  First(S) \in S
  BY LeastExists DEF First

(* What TypeOK says of the numbers. *)
LEMMA NumbersTyped ==
  ASSUME StateTyped
  PROVE  /\ char_num \in 0 .. MaxChars /\ char_id_count \in 1 .. MaxCharId + 1
         /\ auth_fifo_pos \in 0 .. AUTH_FIFO_SIZE
  BY DEF StateTyped, TypeOK

LEMMA ReturningInRing ==
  ASSUME StateTyped, NEW a, NEW id
  PROVE  Returning(a, id) \subseteq Ring /\ Ring \subseteq Nat
  <1>1. auth_fifo \in [Ring -> Entry]
    BY DEF StateTyped
  <1>2. Returning(a, id) \subseteq DOMAIN auth_fifo /\ DOMAIN auth_fifo = Ring
    BY <1>1 DEF Returning
  <1>3. Ring \subseteq Nat
    BY CharSelectAssumption DEF Ring
  <1>4. QED
    BY <1>2, <1>3

LEMMA Counted ==
  ASSUME NEW S, S \subseteq Array
  PROVE  IsFiniteSet(S) /\ Cardinality(S) \in Nat
  <1>1. IsFiniteSet(Array)
    BY CharSelectAssumption, FS_Interval DEF Array
  <1>2. QED
    BY <1>1, FS_Subset, FS_CardinalityType

(* The first position up to which there are n elements holds the n-th. *)
LEMMA NthIsIn ==
  ASSUME NEW S, S \subseteq Array, NEW n \in 1 .. Cardinality(S)
  PROVE  Nth(S, n) \in S /\ Cardinality({y \in S : y < Nth(S, n)}) = n - 1
  <1> DEFINE UpTo(x) == {y \in S : y <= x}
             T == {x \in Nat : Cardinality(UpTo(x)) >= n}
  <1>1. \A x : UpTo(x) \subseteq Array /\ IsFiniteSet(UpTo(x)) /\ Cardinality(UpTo(x)) \in Nat
    BY Counted
  <1>0. MaxChars \in Nat /\ \A y \in S : y \in Nat \ {0} /\ y <= MaxChars
    BY CharSelectAssumption DEF Array
  <1>2. UpTo(MaxChars) = S
    BY <1>0
  <1>3. MaxChars \in T
    BY <1>0, <1>2, Counted
  <1>4. PICK x \in T : \A y \in T : x <= y
    BY <1>3, LeastExists, T \subseteq Nat
  <1>5. UpTo(0) = {} /\ Cardinality({}) = 0
    <2>1. \A y \in S : ~(y <= 0)
      BY <1>0
    <2>2. QED
      BY <2>1, FS_EmptySet
  <1>6. x \in Nat \ {0}
    BY <1>4, <1>5
  <1>7. x - 1 \in Nat /\ x - 1 \notin T
    BY <1>4, <1>6
  <1>8. Cardinality(UpTo(x - 1)) < n
    BY <1>1, <1>7
  <1>9. UpTo(x - 1) = {y \in S : y < x}
    <2>1. \A y \in S : y <= x - 1 <=> y < x
      BY <1>0, <1>6
    <2>2. QED
      BY <2>1
  <1>10. x \in S
    <2>1. x \notin S => UpTo(x) = UpTo(x - 1)
      <3>1. \A y \in S : y # x => (y <= x <=> y < x)
        BY <1>0, <1>6
      <3>2. QED
        BY <3>1, <1>9
    <2>2. QED
      BY <2>1, <1>4, <1>8, <1>1
  <1>11. UpTo(x) = UpTo(x - 1) \cup {x} /\ x \notin UpTo(x - 1)
    <2>1. \A y \in S : y <= x <=> (y < x \/ y = x)
      BY <1>0, <1>6
    <2>2. ~(x < x)
      BY <1>6
    <2>3. QED
      BY <2>1, <2>2, <1>9, <1>10
  <1>12. Cardinality(UpTo(x)) = Cardinality(UpTo(x - 1)) + 1
    BY <1>11, <1>1, FS_AddElement
  <1>13. Cardinality(UpTo(x - 1)) = n - 1
    BY <1>12, <1>8, <1>4, <1>1
  <1>14. \E z \in S : Cardinality({y \in S : y < z}) = n - 1
    BY <1>9, <1>10, <1>13
  <1>15. QED
    BY <1>14 DEF Nth

(* What mmo_char_send0007 collects: slots of the account, none twice. *)
LEMMA ListIsTrue ==
  ASSUME StateTyped, NEW a
  PROVE  /\ ListOf(a) \in List
         /\ Slots(ListOf(a)) \subseteq OwnSlots(a)
         /\ NoneTwice(ListOf(a))
  <1> DEFINE S == OwnSlots(a)
             Rank(z) == Cardinality({y \in S : y < z})
  <1>1. S \subseteq Array
    BY CharSelectAssumption DEF StateTyped, TypeOK, OwnSlots, Array
  <1>2. Cardinality(S) \in Nat
    BY <1>1, Counted
  <1>3. \A n \in 1 .. Cardinality(S) :
          Nth(S, n) \in S /\ Rank(Nth(S, n)) = n - 1
    BY <1>1, NthIsIn
  <1> HIDE DEF S, Rank
  <1>4. \A n \in 1 .. Listed :
          ListOf(a)[n] = IF n <= Cardinality(S) THEN Nth(S, n) ELSE NoSlot
    BY DEF ListOf, S
  <1>5. \A n \in 1 .. Listed : ListOf(a)[n] \in S \cup {NoSlot}
    BY <1>2, <1>3, <1>4, CharSelectAssumption
  <1>6. ListOf(a) \in List
    BY <1>1, <1>5 DEF ListOf, List
  <1>7. Slots(ListOf(a)) \subseteq S
    BY <1>5 DEF Slots
  <1>8. NoneTwice(ListOf(a))
    <2> SUFFICES ASSUME NEW m \in 1 .. Listed, NEW n \in 1 .. Listed,
                        ListOf(a)[m] = ListOf(a)[n], ListOf(a)[m] # NoSlot
                 PROVE  m = n
      BY DEF NoneTwice
    <2>1. m \in 1 .. Cardinality(S) /\ n \in 1 .. Cardinality(S)
      BY <1>2, <1>4, CharSelectAssumption
    <2>2. Nth(S, m) = Nth(S, n)
      BY <2>1, <1>4
    <2>3. QED
      BY <2>1, <2>2, <1>3
  <1>9. QED
    BY <1>6, <1>7, <1>8 DEF S

-----------------------------------------------------------------------------
LEMMA RosterTyped ==
  /\ Len(Roster) \in Nat /\ DOMAIN Roster = 1 .. Len(Roster)
  /\ \A i \in 1 .. Len(Roster) :
       Roster[i] \in [account : Accounts, char_id : 1 .. Len(Roster), num : Nums]
  <1> DEFINE R == [account : Accounts, char_id : 1 .. Len(Roster), num : Nums]
  <1>1. Roster \in Seq(R)
    BY RosterAssumption
  <1> HIDE DEF R
  <1>2. Len(Roster) \in Nat /\ DOMAIN Roster = 1 .. Len(Roster)
        /\ \A i \in 1 .. Len(Roster) : Roster[i] \in R
    BY <1>1, LenProperties, ElementOfSeq
  <1>3. QED
    BY <1>2 DEF R

LEMMA InitInv == Init => CharInv
  <1> SUFFICES ASSUME Init PROVE CharInv
    OBVIOUS
  <1> USE CharSelectAssumption, PlacesAssumption, RosterTyped
  <1>1. Closed \in Session /\ Closed.found \in List /\ Closed.state = "closed"
    BY DEF Closed, Session, List, Holders, Logins, States, Tag
  <1>2. TypeOK
    BY <1>1 DEF Init, TypeOK, List
  <1>3. char_dat \in [Array -> Record]
    BY DEF Init, Record, Holders, NoChar, Array
  <1>4. auth_fifo \in [Ring -> Entry] /\ answer.sound = FALSE
    BY DEF Init, Ring, Entry, NoEntry, NoAnswer, Holders, Logins, Array
  <1>5. StateTyped
    BY <1>1, <1>2, <1>3, <1>4 DEF Init, StateTyped, Fds
  <1>6. \A i \in 1 .. char_num : i \in DOMAIN Roster /\ char_dat[i] = Roster[i]
    BY DEF Init, Array
  <1>7. CharsTyped
    <2> SUFFICES ASSUME NEW i \in 1 .. Len(Roster)
                 PROVE  /\ Roster[i].account \in Accounts /\ Roster[i].num \in Nums
                        /\ Roster[i].char_id < Len(Roster) + 1
      BY <1>6 DEF CharsTyped, Init
    <2> QED
      OBVIOUS
  <1>8. CharsDiffer
    BY <1>6, RosterAssumption DEF CharsDiffer
  <1>9. ListsTrue
    BY <1>1 DEF Init, ListsTrue, Current
  <1>10. SelectionsTrue
    BY DEF Init, SelectionsTrue, NoEntry, Ring
  <1>11. QED
    BY <1>4, <1>5, <1>7, <1>8, <1>9, <1>10 DEF CharInv, GrantIsTheChoice

-----------------------------------------------------------------------------
(* The array and the lists do not change with anything else. *)
LEMMA CharsUntouched ==
  ASSUME CharsTyped, CharsDiffer, UNCHANGED charVars
  PROVE  CharsTyped' /\ CharsDiffer'
  BY DEF CharsTyped, CharsDiffer, charVars

LEMMA ListsUntouched ==
  ASSUME ListsTrue, UNCHANGED <<session, outdated, charVars>>
  PROVE  ListsTrue'
  BY DEF ListsTrue, charVars, Current

LEMMA SelectionsUntouched ==
  ASSUME SelectionsTrue, UNCHANGED <<auth_fifo, charVars>>
  PROVE  SelectionsTrue'
  BY DEF SelectionsTrue, charVars

(* Steps of the login server, of the link to it, and none at all. *)
LEMMA OtherInv ==
  ASSUME CharInv,
         \/ \E a \in Accounts, id \in LoginIds : ClientLogin(a, id)
         \/ AuthRequest \/ LinkLost \/ LinkBack \/ UNCHANGED vars
  PROVE  CharInv'
  <1> USE DEF linkVars, charVars, fifoVars, loginVars
  <1>1. UNCHANGED <<session, outdated, char_dat, char_num, char_id_count, auth_fifo,
                    auth_fifo_pos, answer, playing>>
    BY DEF ClientLogin, AuthRequest, LinkLost, LinkBack, vars
  <1>2. TypeOK /\ toLogin \in Seq(Question) /\ toChar \in Seq(Yes)
    BY DEF CharInv, StateTyped
  <1>3. TypeOK' /\ toLogin' \in Seq(Question) /\ toChar' \in Seq(Yes)
    <2>1. CASE \E a \in Accounts, id \in LoginIds : ClientLogin(a, id)
      BY <1>1, <1>2, <2>1, CharSelectAssumption DEF ClientLogin, TypeOK, Before
    <2>2. CASE AuthRequest
      <3> DEFINE q == Head(toLogin)
                 y == [account |-> q.account, ok |-> Ticket(q.account, q.login_id1) # {}]
      <3>1. q \in Question /\ toLogin' \in Seq(Question)
        BY <1>2, <2>2, HeadTailProperties DEF AuthRequest
      <3>2. y \in Yes /\ toChar' = Append(toChar, y)
        BY <2>2, <3>1 DEF AuthRequest, Question, Yes
      <3>3. DOMAIN tickets' = DOMAIN tickets
        BY <2>2 DEF AuthRequest, UseTicket
      <3>4. toChar' \in Seq(Yes)
        BY <1>2, <3>2, AppendProperties
      <3>5. TypeOK'
        BY <1>1, <1>2, <2>2, <3>3 DEF AuthRequest, TypeOK
      <3>6. QED
        BY <3>1, <3>4, <3>5
    <2>3. CASE LinkLost
      <3>1. <<>> \in Seq(Question) /\ <<>> \in Seq(Yes)
        BY EmptySeq
      <3>2. QED
        BY <1>1, <1>2, <2>3, <3>1 DEF LinkLost, TypeOK
    <2>4. CASE LinkBack
      BY <1>1, <1>2, <2>4 DEF LinkBack, TypeOK
    <2>5. CASE UNCHANGED vars
      BY <1>1, <1>2, <2>5 DEF vars, TypeOK
    <2>6. QED
      BY <2>1, <2>2, <2>3, <2>4, <2>5
  <1>4. StateTyped'
    BY <1>1, <1>3 DEF CharInv, StateTyped
  <1>5. QED
    BY <1>1, <1>4, CharsUntouched, ListsUntouched, SelectionsUntouched
       DEF CharInv, GrantIsTheChoice

(* The list is sent: the session may choose, and its list is true. *)
LEMMA SentInv ==
  ASSUME CharInv, NEW f \in Fds, NEW s \in Session, s.account \in Accounts,
         mmo_char_send0007(f, s), UNCHANGED charVars
  PROVE  /\ session' \in [Fds -> Session] /\ outdated' \subseteq Fds
         /\ \A g \in Fds : session'[g].state # "closed" => session'[g].account \in Accounts
         /\ ListsTrue'
  <1> DEFINE L == ListOf(s.account)
             r == [s EXCEPT !.state = "authok", !.found = L, !.shown = Shown(Slots(L))]
  <1>1. StateTyped /\ CharsTyped /\ ListsTrue
    BY DEF CharInv
  <1>2. L \in List /\ Slots(L) \subseteq OwnSlots(s.account) /\ NoneTwice(L)
    BY <1>1, ListIsTrue
  <1> HIDE DEF L
  <1>3. Shown(Slots(L)) \in SUBSET Tag
    <2>1. char_dat \in [Array -> Record] /\ 1 .. char_num \subseteq Array
      BY <1>1, CharSelectAssumption DEF StateTyped, TypeOK, Array
    <2>2. ASSUME NEW i \in Slots(L)
          PROVE  [char_id |-> char_dat[i].char_id, num |-> char_dat[i].num] \in Tag
      <3>1. i \in 1 .. char_num
        BY <1>2 DEF OwnSlots
      <3>2. char_dat[i] \in Record /\ char_dat[i].num \in Nums
        BY <1>1, <2>1, <3>1 DEF CharsTyped
      <3>3. QED
        BY <3>2 DEF Record, Tag
    <2>3. QED
      BY <2>2 DEF Shown
  <1>4. r \in Session /\ r.state = "authok" /\ r.found = L /\ r.shown = Shown(Slots(L))
        /\ r.account = s.account
    BY <1>2, <1>3 DEF Session, States
  <1>5. session' = [session EXCEPT ![f] = r] /\ outdated' = outdated \ {f}
    BY DEF mmo_char_send0007, L
  <1> HIDE DEF r
  <1>6. session \in [Fds -> Session]
    BY <1>1 DEF StateTyped
  <1>7. ListsTrue'
    <2> SUFFICES ASSUME NEW g \in Fds, Current(g)'
                 PROVE  TrueList(session'[g], char_dat', char_num')
      BY DEF ListsTrue
    <2>1. char_dat' = char_dat /\ char_num' = char_num
      BY DEF charVars
    <2>2. TrueList(r, char_dat, char_num)
      BY <1>2, <1>4 DEF TrueList, HeldBy, Tags, OwnSlots, Shown
    <2>3. CASE g = f
      BY <1>5, <1>6, <2>1, <2>2, <2>3
    <2>4. CASE g # f
      <3>1. session'[g] = session[g] /\ Current(g)
        BY <1>5, <1>6, <2>4 DEF Current
      <3>2. QED
        BY <1>1, <2>1, <3>1 DEF ListsTrue
    <2>5. QED
      BY <2>3, <2>4
  <1>8. QED
    BY <1>1, <1>4, <1>5, <1>6, <1>7 DEF StateTyped, TypeOK

LEMMA AuthAnswerInv == CharInv /\ AuthAnswer => CharInv'
  <1> SUFFICES ASSUME CharInv, AuthAnswer PROVE CharInv'
    OBVIOUS
  <1> USE DEF linkVars, charVars, fifoVars, loginVars
  <1>1. StateTyped
    BY DEF CharInv
  <1> DEFINE m == Head(toChar)
             f == First(SessionsOf(m.account))
  <1>2. m \in Yes /\ toChar' \in Seq(Yes)
    BY <1>1, HeadTailProperties DEF AuthAnswer, StateTyped
  <1>3. CASE m.ok /\ SessionsOf(m.account) # {}
    <2>1. f \in Fds /\ session[f].account = m.account
      <3>1. SessionsOf(m.account) \subseteq Nat
        BY DEF SessionsOf, Fds
      <3>2. f \in SessionsOf(m.account)
        BY <1>3, <3>1, FirstIsIn
      <3>3. QED
        BY <3>2 DEF SessionsOf
    <2>2. session[f] \in Session /\ session[f].account \in Accounts
      BY <1>1, <1>2, <2>1 DEF StateTyped, Yes
    <2>3. mmo_char_send0007(f, session[f])
      BY <1>3 DEF AuthAnswer
    <2> HIDE DEF f, m
    <2>4. /\ session' \in [Fds -> Session] /\ outdated' \subseteq Fds
          /\ \A g \in Fds : session'[g].state # "closed" => session'[g].account \in Accounts
          /\ ListsTrue'
      BY <2>1, <2>2, <2>3, SentInv DEF AuthAnswer
    <2>5. StateTyped'
      BY <1>1, <1>2, <2>4 DEF AuthAnswer, StateTyped, TypeOK, Session, List
    <2>6. QED
      BY <2>4, <2>5, CharsUntouched, SelectionsUntouched DEF AuthAnswer, CharInv, GrantIsTheChoice
  <1>4. CASE ~(m.ok /\ SessionsOf(m.account) # {})
    <2>1. UNCHANGED <<session, outdated>>
      BY <1>4 DEF AuthAnswer
    <2>2. StateTyped'
      BY <1>1, <1>2, <2>1 DEF AuthAnswer, StateTyped, TypeOK
    <2>3. QED
      BY <2>1, <2>2, CharsUntouched, ListsUntouched, SelectionsUntouched
         DEF AuthAnswer, CharInv, GrantIsTheChoice
  <1>5. QED
    BY <1>3, <1>4

(* Marking an entry of the ring as used takes nothing from the selections. *)
LEMMA UsedEntry ==
  ASSUME StateTyped, SelectionsTrue, NEW i \in Ring, UseEntry(i), UNCHANGED charVars
  PROVE  auth_fifo' \in [Ring -> Entry] /\ SelectionsTrue'
  <1>1. auth_fifo \in [Ring -> Entry] /\ auth_fifo' = [auth_fifo EXCEPT ![i].delflag = 1]
    BY DEF StateTyped, UseEntry
  <1>2. \A k \in Ring : /\ auth_fifo'[k] \in Entry
                        /\ auth_fifo'[k].sound = auth_fifo[k].sound
                        /\ auth_fifo'[k].pos = auth_fifo[k].pos
                        /\ auth_fifo'[k].account = auth_fifo[k].account
                        /\ auth_fifo'[k].wanted = auth_fifo[k].wanted
    BY <1>1 DEF Entry
  <1>3. auth_fifo' \in [Ring -> Entry]
    BY <1>1, <1>2
  <1>4. QED
    BY <1>2, <1>3 DEF SelectionsTrue, charVars

(* Noting a login in the ring, when the note is true or promises nothing. *)
LEMMA NotedEntry ==
  ASSUME StateTyped, SelectionsTrue, NEW e \in Entry, Expect(e), UNCHANGED charVars,
         e.sound => /\ e.pos \in 1 .. char_num /\ char_dat[e.pos].account = e.account
                    /\ char_dat[e.pos].char_id = e.wanted
  PROVE  /\ auth_fifo' \in [Ring -> Entry] /\ auth_fifo_pos' \in 0 .. AUTH_FIFO_SIZE
         /\ SelectionsTrue'
  <1> DEFINE p == Before(auth_fifo_pos, AUTH_FIFO_SIZE)
  <1>1. p \in Ring /\ p + 1 \in 0 .. AUTH_FIFO_SIZE
    BY CharSelectAssumption DEF StateTyped, TypeOK, Before, Ring
  <1>2. auth_fifo \in [Ring -> Entry] /\ auth_fifo' = [auth_fifo EXCEPT ![p] = e]
        /\ auth_fifo_pos' = p + 1
    BY DEF StateTyped, Expect
  <1> HIDE DEF p
  <1>3. auth_fifo' \in [Ring -> Entry]
        /\ \A k \in Ring : auth_fifo'[k] = IF k = p THEN e ELSE auth_fifo[k]
    BY <1>1, <1>2
  <1>4. QED
    BY <1>1, <1>2, <1>3 DEF SelectionsTrue, charVars

LEMMA ConnectInv ==
  ASSUME CharInv, NEW f \in Fds, NEW a \in Accounts, NEW id \in LoginIds, Connect(f, a, id)
  PROVE  CharInv'
  <1> USE DEF linkVars, charVars, loginVars
  <1> DEFINE s == [account |-> a, login_id1 |-> id, state |-> "waitauth",
                   found |-> [i \in 1 .. Listed |-> 1], shown |-> {}]
  <1>1. StateTyped /\ ListsTrue /\ SelectionsTrue
    BY DEF CharInv
  <1>2. s \in Session /\ s.account \in Accounts /\ s.state = "waitauth"
    BY CharSelectAssumption DEF Session, Holders, Logins, States, List, Array
  <1>3. CASE Returning(a, id) # {} /\ UseEntry(First(Returning(a, id)))
             /\ mmo_char_send0007(f, s) /\ UNCHANGED toLogin
    <2>1. First(Returning(a, id)) \in Ring
      <3>1. Returning(a, id) \subseteq Ring /\ Ring \subseteq Nat
        BY <1>1, ReturningInRing
      <3>2. QED
        BY <1>3, <3>1, FirstIsIn
    <2>2. auth_fifo' \in [Ring -> Entry] /\ SelectionsTrue'
      BY <1>1, <1>3, <2>1, UsedEntry DEF Connect
    <2> HIDE DEF s
    <2>3. /\ session' \in [Fds -> Session] /\ outdated' \subseteq Fds
          /\ \A g \in Fds : session'[g].state # "closed" => session'[g].account \in Accounts
          /\ ListsTrue'
      BY <1>2, <1>3, SentInv DEF Connect
    <2>4. StateTyped'
      BY <1>1, <1>3, <2>2, <2>3 DEF Connect, StateTyped, TypeOK, Session, List, Ring
    <2>5. QED
      BY <2>2, <2>3, <2>4, CharsUntouched DEF Connect, CharInv, GrantIsTheChoice
  <1>4. CASE /\ Len(toLogin) < MaxQueue
             /\ session' = [session EXCEPT ![f] = s]
             /\ toLogin' = Append(toLogin, [account |-> a, login_id1 |-> id])
             /\ UNCHANGED <<auth_fifo, outdated>>
    <2>1. toLogin' \in Seq(Question)
      BY <1>1, <1>4, AppendProperties DEF StateTyped, Question
    <2> HIDE DEF s
    <2>2. session' \in [Fds -> Session]
          /\ \A g \in Fds : session'[g] = IF g = f THEN s ELSE session[g]
      BY <1>1, <1>2, <1>4 DEF StateTyped
    <2>3. StateTyped'
      BY <1>1, <1>2, <1>4, <2>1, <2>2 DEF Connect, StateTyped, TypeOK, Session, List
    <2>4. ListsTrue'
      BY <1>1, <1>2, <1>4, <2>2 DEF Connect, ListsTrue, Current
    <2>5. QED
      BY <1>1, <1>4, <2>3, <2>4, CharsUntouched, SelectionsUntouched
         DEF Connect, CharInv, GrantIsTheChoice
  <1>5. QED
    BY <1>3, <1>4 DEF Connect

LEMMA CloseInv ==
  ASSUME CharInv, NEW f \in Fds, Close(f)
  PROVE  CharInv'
  <1> USE DEF linkVars, charVars, loginVars, fifoVars
  <1>1. StateTyped /\ ListsTrue
    BY DEF CharInv
  <1>2. Closed \in Session /\ Closed.state = "closed"
    BY DEF Closed, Session, List, Holders, Logins, States
  <1>3. session' \in [Fds -> Session]
        /\ \A g \in Fds : session'[g] = IF g = f THEN Closed ELSE session[g]
    BY <1>1, <1>2 DEF StateTyped, Close
  <1>4. StateTyped'
    BY <1>1, <1>2, <1>3 DEF Close, StateTyped, TypeOK, Session, List
  <1>5. ListsTrue'
    BY <1>1, <1>2, <1>3 DEF Close, ListsTrue, Current
  <1>6. QED
    BY <1>4, <1>5, CharsUntouched, SelectionsUntouched DEF Close, CharInv, GrantIsTheChoice

LEMMA MapAuthInv ==
  ASSUME CharInv, NEW k \in DOMAIN auth_fifo, MapAuth(auth_fifo[k])
  PROVE  CharInv'
  <1> USE DEF linkVars, charVars, loginVars
  <1> DEFINE e == auth_fifo[k]
             i == First(Expected(e))
  <1>1. StateTyped /\ ListsTrue /\ SelectionsTrue /\ auth_fifo \in [Ring -> Entry]
    BY DEF CharInv, StateTyped
  <1>2. i \in Ring /\ auth_fifo[i].account = e.account
    <2>1. Expected(e) \subseteq Ring /\ Ring \subseteq Nat
      BY <1>1, CharSelectAssumption DEF Expected, Ring
    <2>2. i \in Expected(e)
      BY <2>1, FirstIsIn DEF MapAuth
    <2>3. QED
      BY <2>1, <2>2 DEF Expected
  <1>3. e \in Entry
    BY <1>1
  <1>4. UseEntry(i)
        /\ answer' = [account |-> e.account, dat |-> char_dat[auth_fifo[i].pos],
                      wanted |-> auth_fifo[i].wanted, sound |-> auth_fifo[i].sound]
        /\ playing' = [playing EXCEPT ![e.account] = Append(@, e.login_id1)]
    BY DEF MapAuth
  <1> HIDE DEF e, i
  <1>5. auth_fifo' \in [Ring -> Entry] /\ SelectionsTrue'
    BY <1>1, <1>2, <1>4, UsedEntry DEF MapAuth
  <1>6. playing' \in [Accounts -> Seq(Logins)]
    <2>1. e.login_id1 \in Logins /\ playing \in [Accounts -> Seq(Logins)]
      BY <1>1, <1>3 DEF Entry, StateTyped
    <2>2. CASE e.account \in Accounts
      <3>1. Append(playing[e.account], e.login_id1) \in Seq(Logins)
        BY <2>1, <2>2, AppendProperties
      <3>2. QED
        BY <1>4, <2>1, <3>1
    <2>3. CASE e.account \notin Accounts
      BY <1>4, <2>1, <2>3
    <2>4. QED
      BY <2>2, <2>3
  <1>7. GrantIsTheChoice'
    BY <1>1, <1>2, <1>4 DEF SelectionsTrue, GrantIsTheChoice
  <1>8. StateTyped'
    BY <1>1, <1>5, <1>6 DEF MapAuth, StateTyped, TypeOK, Ring
  <1>9. QED
    BY <1>1, <1>5, <1>7, <1>8, CharsUntouched, ListsUntouched DEF MapAuth, CharInv

LEMMA ReturnTyped ==
  ASSUME NEW a \in Accounts, NEW h \in Logins
  PROVE  LET e == [NoEntry EXCEPT !.account = a, !.login_id1 = h, !.delflag = 2]
         IN e \in Entry /\ e.sound = FALSE /\ e.account = a
  <1>1. NoEntry \in Entry /\ NoEntry.sound = FALSE
    BY CharSelectAssumption DEF Entry, NoEntry, Holders, Logins, Array
  <1>2. a \in Holders
    BY DEF Holders
  <1>3. \A m \in Entry : [m EXCEPT !.account = a] \in Entry
    BY <1>2 DEF Entry
  <1>4. \A m \in Entry : [m EXCEPT !.login_id1 = h] \in Entry
    BY DEF Entry
  <1>5. \A m \in Entry : [m EXCEPT !.delflag = 2] \in Entry
    BY DEF Entry
  <1> DEFINE e == [NoEntry EXCEPT !.account = a, !.login_id1 = h, !.delflag = 2]
  <1>6. e \in Entry
    BY <1>1, <1>3, <1>4, <1>5
  <1>7. e.sound = NoEntry.sound /\ e.account = a
    BY <1>1 DEF Entry
  <1>8. QED
    BY <1>1, <1>6, <1>7

LEMMA CharSelectReqInv ==
  ASSUME CharInv, NEW a \in Accounts, CharSelectReq(a)
  PROVE  CharInv'
  <1> USE DEF linkVars, charVars, loginVars
  <1> DEFINE e == [NoEntry EXCEPT !.account = a, !.login_id1 = Head(playing[a]), !.delflag = 2]
  <1>1. StateTyped /\ SelectionsTrue /\ playing \in [Accounts -> Seq(Logins)]
    BY DEF CharInv, StateTyped
  <1>2. Head(playing[a]) \in Logins /\ Tail(playing[a]) \in Seq(Logins)
    BY <1>1, HeadTailProperties DEF CharSelectReq
  <1>3. e \in Entry /\ e.sound = FALSE
    BY <1>2, ReturnTyped
  <1>4. Expect(e)
    BY DEF CharSelectReq
  <1> HIDE DEF e
  <1>5. /\ auth_fifo' \in [Ring -> Entry] /\ auth_fifo_pos' \in 0 .. AUTH_FIFO_SIZE
        /\ SelectionsTrue'
    BY <1>1, <1>3, <1>4, NotedEntry DEF CharSelectReq
  <1>6. playing' \in [Accounts -> Seq(Logins)]
    BY <1>1, <1>2 DEF CharSelectReq
  <1>7. StateTyped'
    BY <1>1, <1>5, <1>6 DEF CharSelectReq, StateTyped, TypeOK, Ring
  <1>8. QED
    BY <1>5, <1>7, CharsUntouched, ListsUntouched DEF CharSelectReq, CharInv, GrantIsTheChoice

(* A session whose list is true finds in it the character its client picked. *)
LEMMA PickedIsFound ==
  ASSUME CharInv, NEW f \in Fds, Current(f), NEW w \in session[f].shown
  PROVE  \E p \in 1 .. char_num : /\ p \in Slots(session[f].found)
                                  /\ char_dat[p].account = session[f].account
                                  /\ char_dat[p].char_id = w.char_id /\ char_dat[p].num = w.num
  <1>1. TrueList(session[f], char_dat, char_num)
    BY DEF CharInv, ListsTrue
  <1>2. PICK p \in Slots(session[f].found) :
               w = [char_id |-> char_dat[p].char_id, num |-> char_dat[p].num]
    BY <1>1 DEF TrueList, Tags
  <1>3. p \in 1 .. char_num /\ char_dat[p].account = session[f].account
    BY <1>1 DEF TrueList, HeldBy
  <1>4. QED
    BY <1>2, <1>3

LEMMA SelectInv ==
  ASSUME CharInv, NEW f \in Fds, NEW w \in session[f].shown, Select(f, w)
  PROVE  CharInv'
  <1> USE DEF linkVars, charVars, loginVars, fifoVars
  <1>1. StateTyped /\ ListsTrue /\ SelectionsTrue /\ CharsDiffer /\ CharsTyped
    BY DEF CharInv
  <1> DEFINE s == session[f]
             i == First(SelectedFrom(f, w.num))
             pos == s.found[i]
             e == [account |-> s.account, char_id |-> char_dat[pos].char_id,
                   login_id1 |-> s.login_id1, delflag |-> 0, pos |-> pos,
                   wanted |-> w.char_id, sound |-> f \notin outdated]
  <1>2. s \in Session /\ w \in Tag
    BY <1>1 DEF StateTyped, Session
  <1>3. CASE SelectedFrom(f, w.num) = {}
    <2>1. UNCHANGED <<session, fifoVars>>
      BY <1>3 DEF Select
    <2>2. StateTyped'
      BY <1>1, <2>1 DEF Select, StateTyped, TypeOK
    <2>3. QED
      BY <2>1, <2>2, CharsUntouched, ListsUntouched, SelectionsUntouched
         DEF Select, CharInv, GrantIsTheChoice
  <1>4. CASE SelectedFrom(f, w.num) # {}
    <2>1. i \in 1 .. Listed /\ pos # NoSlot /\ char_dat[pos].num = w.num
      <3>1. SelectedFrom(f, w.num) \subseteq Nat
        BY DEF SelectedFrom
      <3>2. i \in SelectedFrom(f, w.num)
        BY <1>4, <3>1, FirstIsIn
      <3>3. QED
        BY <3>2 DEF SelectedFrom
    <2>2. pos \in Array /\ pos \in Slots(s.found)
      BY <1>2, <2>1 DEF Session, List, Slots
    <2>3. Expect(e) /\ session' = [session EXCEPT ![f].state = "chosen"]
      BY <1>4 DEF Select
    <2>4. char_dat[pos] \in Record
      BY <1>1, <2>2 DEF StateTyped
    <2> HIDE DEF i
    <2>5. e \in Entry
      BY <1>2, <2>2, <2>4 DEF Session, Entry, Record, Tag
    <2>6. ASSUME f \notin outdated
          PROVE  /\ pos \in 1 .. char_num /\ char_dat[pos].account = s.account
                 /\ char_dat[pos].char_id = w.char_id
      <3>1. Current(f)
        BY <2>6 DEF Select, Choosing, Current
      <3>2. PICK p \in 1 .. char_num : char_dat[p].account = s.account
                   /\ char_dat[p].char_id = w.char_id /\ char_dat[p].num = w.num
        BY <3>1, PickedIsFound
      <3>3. pos \in 1 .. char_num /\ char_dat[pos].account = s.account
        BY <1>1, <2>2, <3>1 DEF ListsTrue, TrueList, HeldBy
      <3>4. pos = p
        BY <1>1, <2>1, <3>2, <3>3 DEF CharsDiffer
      <3>5. QED
        BY <3>2, <3>3, <3>4
    <2>7. e.sound => /\ e.pos \in 1 .. char_num /\ char_dat[e.pos].account = e.account
                     /\ char_dat[e.pos].char_id = e.wanted
      BY <2>6
    <2> HIDE DEF e
    <2>8. /\ auth_fifo' \in [Ring -> Entry] /\ auth_fifo_pos' \in 0 .. AUTH_FIFO_SIZE
          /\ SelectionsTrue'
      BY <1>1, <2>3, <2>5, <2>7, NotedEntry DEF Select
    <2> HIDE DEF s, pos
    <2> DEFINE r == [session[f] EXCEPT !.state = "chosen"]
    <2>9. r \in Session /\ r.state = "chosen" /\ r.account = session[f].account
          /\ r.found = session[f].found
      BY <1>2 DEF s, Session, States
    <2>10. session' \in [Fds -> Session]
           /\ \A g \in Fds : session'[g] = IF g = f THEN r ELSE session[g]
      BY <1>1, <2>3, <2>9 DEF StateTyped
    <2> HIDE DEF r
    <2>11. session[f].state = "authok"
      BY DEF Select, Choosing
    <2>12. StateTyped'
      BY <1>1, <2>8, <2>9, <2>10, <2>11 DEF Select, StateTyped, TypeOK, Session, List, Ring
    <2>13. ListsTrue'
      BY <1>1, <2>9, <2>10 DEF Select, ListsTrue, Current
    <2>14. QED
      BY <2>8, <2>12, <2>13, CharsUntouched DEF Select, CharInv, GrantIsTheChoice
  <1>5. QED
    BY <1>3, <1>4

-----------------------------------------------------------------------------
(* A list stays true while its slots exist and hold what they held. *)
LEMMA ListKept ==
  ASSUME NEW s, NEW dat, NEW dat2, NEW num, NEW num2, TrueList(s, dat, num),
         \A x \in Slots(s.found) : x \in 1 .. num2 /\ dat2[x] = dat[x]
  PROVE  TrueList(s, dat2, num2)
  <1>1. Slots(s.found) \subseteq HeldBy(s.account, dat2, num2)
    BY DEF TrueList, HeldBy
  <1>2. Tags(Slots(s.found), dat2) = Tags(Slots(s.found), dat)
    BY DEF Tags
  <1>3. QED
    BY <1>1, <1>2 DEF TrueList

(* While an account has a place left, its list has one: the characters of a full
   list would all have places, each another, and none the one that is left. *)
LEMMA ListHasRoom ==
  ASSUME CharInv, NEW f \in Fds, Current(f), NEW n \in Nums, ~Taken(session[f].account, n)
  PROVE  Free(session[f].found) # {}
  <1> DEFINE found == session[f].found
             Rest == Nums \ {n}
             place == [m \in 1 .. Listed |-> char_dat[found[m]].num]
  <1> SUFFICES ASSUME Free(found) = {} PROVE FALSE
    OBVIOUS
  <1>1. TrueList(session[f], char_dat, char_num) /\ CharsTyped /\ CharsDiffer
    BY DEF CharInv, ListsTrue
  <1>2. \A m \in 1 .. Listed : found[m] # NoSlot /\ found[m] \in Slots(found)
    BY DEF Free, Slots
  <1>3. \A m \in 1 .. Listed : /\ found[m] \in 1 .. char_num
                               /\ char_dat[found[m]].account = session[f].account
    BY <1>1, <1>2 DEF TrueList, HeldBy
  <1>4. \A m \in 1 .. Listed : char_dat[found[m]].num \in Rest
    BY <1>1, <1>3 DEF CharsTyped, Taken
  <1>5. place \in [1 .. Listed -> Rest]
    BY <1>4
  <1>6. /\ IsFiniteSet(Rest) /\ Cardinality(Rest) = Cardinality(Nums) - 1
        /\ Cardinality(Nums) \in Nat
    BY PlacesAssumption, FS_RemoveElement, FS_CardinalityType
  <1>7. IsFiniteSet(1 .. Listed) /\ Cardinality(1 .. Listed) = Listed
    BY CharSelectAssumption, FS_Interval
  <1>8. Cardinality(Rest) < Cardinality(1 .. Listed)
    BY <1>6, <1>7, PlacesAssumption, CharSelectAssumption
  <1>9. PICK x \in 1 .. Listed, y \in 1 .. Listed : x # y /\ place[x] = place[y]
    <2> DEFINE I == 1 .. Listed
    <2>1. /\ IsFiniteSet(I) /\ IsFiniteSet(Rest) /\ Cardinality(Rest) < Cardinality(I)
          /\ place \in [I -> Rest]
      BY <1>5, <1>6, <1>7, <1>8
    <2> HIDE DEF Rest, place, I
    <2>2. \E x, y \in I : x # y /\ place[x] = place[y]
      BY <2>1, FS_PigeonHole
    <2>3. QED
      BY <2>2 DEF I
  <1>10. found[x] # found[y]
    BY <1>1, <1>2, <1>9 DEF TrueList, NoneTwice
  <1>11. QED
    BY <1>1, <1>3, <1>9, <1>10 DEF CharsDiffer

(* A slot noted in a free place of the list. *)
LEMMA SlotNoted ==
  ASSUME NEW found \in List, NEW k \in Free(found), NEW x \in Array, NoneTwice(found),
         x \notin Slots(found)
  PROVE  LET L == [found EXCEPT ![k] = x]
         IN Slots(L) = Slots(found) \cup {x} /\ NoneTwice(L)
  <1> DEFINE L == [found EXCEPT ![k] = x]
  <1>1. k \in 1 .. Listed /\ found[k] = NoSlot /\ x # NoSlot
    BY DEF Free, NoSlot, Array
  <1>2. \A m \in 1 .. Listed : L[m] = IF m = k THEN x ELSE found[m]
    BY DEF List
  <1>3. \A m \in 1 .. Listed : found[m] # NoSlot => found[m] \in Slots(found)
    BY DEF Slots
  <1> HIDE DEF L
  <1>4. Slots(L) = Slots(found) \cup {x}
    BY <1>1, <1>2 DEF Slots
  <1>5. NoneTwice(L)
    BY <1>1, <1>2, <1>3 DEF NoneTwice
  <1>6. QED
    BY <1>4, <1>5 DEF L

LEMMA CreateInv ==
  ASSUME CharInv, NEW f \in Fds, NEW n \in Nums, Create(f, n)
  PROVE  CharInv'
  <1> USE DEF linkVars, loginVars, fifoVars
  <1> DEFINE s == session[f]
             new == char_num + 1
             c == [account |-> s.account, char_id |-> char_id_count, num |-> n]
             tag == [char_id |-> char_id_count, num |-> n]
             found == IF Free(s.found) = {} THEN s.found
                      ELSE [s.found EXCEPT ![First(Free(s.found))] = new]
             r == [s EXCEPT !.found = found, !.shown = @ \cup {tag}]
  <1>1. StateTyped /\ ListsTrue /\ SelectionsTrue /\ CharsDiffer /\ CharsTyped
    BY DEF CharInv
  <1>2. s \in Session /\ s.state = "authok" /\ s.account \in Accounts
    BY <1>1 DEF StateTyped, Create, Choosing
  <1>3. /\ char_num \in Nat /\ new \in Array /\ char_num' = new /\ new \in 0 .. MaxChars
        /\ 1 .. char_num \subseteq Array /\ new \notin 1 .. char_num
        /\ 1 .. new = 1 .. char_num \cup {new}
    <2>1. char_num \in 0 .. MaxChars /\ MaxChars \in Nat /\ new \in 1 .. MaxChars /\ char_num' = new
      <3>1. char_num \in 0 .. MaxChars /\ MaxChars \in Nat
        BY <1>1, NumbersTyped, CharSelectAssumption
      <3>2. new \in Array /\ char_num' = new
        BY DEF Create
      <3>3. QED
        BY <3>1, <3>2 DEF Array
    <2>2. new \notin 1 .. char_num /\ 1 .. char_num \subseteq 1 .. MaxChars
      BY <2>1
    <2>3. 1 .. new = 1 .. char_num \cup {new}
      BY <2>1
    <2>4. QED
      BY <2>1, <2>2, <2>3 DEF Array
  <1>4. char_id_count \in Nat /\ char_id_count' = char_id_count + 1
        /\ char_id_count' \in 1 .. MaxCharId + 1
    <2>1. char_id_count \in 1 .. MaxCharId + 1
      BY <1>1, NumbersTyped
    <2>2. char_id_count <= MaxCharId /\ char_id_count' = char_id_count + 1
      BY DEF Create
    <2>3. MaxCharId \in Nat
      BY CharSelectAssumption
    <2> HIDE DEF s, new, c, tag, found, r
    <2>4. QED
      BY <2>1, <2>2, <2>3
  <1>5. n \in Nat
    BY CharSelectAssumption
  <1>6. c \in Record /\ tag \in Tag
    BY <1>2, <1>4 DEF Record, Holders, Tag
  <1>7. char_dat' = [char_dat EXCEPT ![new] = c] /\ char_dat \in [Array -> Record]
    BY <1>1 DEF Create, StateTyped
  <1>8. session' = [session EXCEPT ![f] = r] /\ session \in [Fds -> Session]
    BY <1>1 DEF Create, StateTyped
  <1>9. found \in List
    BY <1>2, <1>3 DEF Session, List
  <1>10. r \in Session /\ r.state = "authok" /\ r.account = s.account /\ r.found = found
         /\ r.shown = s.shown \cup {tag}
    <2> HIDE DEF found, tag
    <2>1. QED
      BY <1>2, <1>6, <1>9 DEF Session
  <1>11. c.account = s.account /\ c.char_id = char_id_count /\ c.num = n
    OBVIOUS
  <1> HIDE DEF s, new, c, found, r
  <1>12. session' \in [Fds -> Session]
         /\ \A g \in Fds : session'[g] = IF g = f THEN r ELSE session[g]
    BY <1>8, <1>10
  <1>13. char_dat' \in [Array -> Record] /\ char_dat'[new] = c
         /\ \A i \in 1 .. char_num : char_dat'[i] = char_dat[i]
    BY <1>3, <1>6, <1>7
  <1>14. StateTyped'
    BY <1>1, <1>2, <1>3, <1>4, <1>10, <1>12, <1>13 DEF s, Create, StateTyped, TypeOK, Session, List
  <1>15. CharsTyped'
    <2> SUFFICES ASSUME NEW i \in 1 .. new
                 PROVE  /\ char_dat'[i].account \in Accounts /\ char_dat'[i].num \in Nums
                        /\ char_dat'[i].char_id < char_id_count'
      BY <1>3 DEF CharsTyped
    <2>1. CASE i = new
      BY <1>2, <1>4, <1>11, <1>13, <2>1
    <2>2. CASE i \in 1 .. char_num
      <3>1. char_dat[i] \in Record
        BY <1>3, <1>7, <2>2
      <3>2. QED
        BY <1>1, <1>4, <1>13, <2>2, <3>1 DEF CharsTyped, Record
    <2>3. QED
      BY <1>3, <2>1, <2>2
  <1>16. \A i \in 1 .. char_num : /\ char_dat[i].char_id # char_id_count
                                  /\ char_dat[i].account = s.account => char_dat[i].num # n
    <2>1. ~Taken(s.account, n)
      BY DEF Create, s
    <2>2. \A i \in 1 .. char_num : char_dat[i].char_id \in Nat
      BY <1>3, <1>7 DEF Record
    <2>3. QED
      BY <1>1, <1>4, <2>1, <2>2 DEF CharsTyped, Taken
  <1>17. CharsDiffer'
    <2> SUFFICES ASSUME NEW i \in 1 .. new, NEW j \in 1 .. new, i # j
                 PROVE  /\ char_dat'[i].char_id # char_dat'[j].char_id
                        /\ char_dat'[i].account = char_dat'[j].account =>
                             char_dat'[i].num # char_dat'[j].num
      BY <1>3 DEF CharsDiffer
    <2>1. CASE i \in 1 .. char_num /\ j \in 1 .. char_num
      BY <1>1, <1>13, <2>1 DEF CharsDiffer
    <2>2. CASE i = new /\ j \in 1 .. char_num
      BY <1>11, <1>13, <1>16, <2>2
    <2>3. CASE j = new /\ i \in 1 .. char_num
      BY <1>11, <1>13, <1>16, <2>3
    <2>4. QED
      BY <1>3, <2>1, <2>2, <2>3
  <1>18. ListsTrue'
    <2> SUFFICES ASSUME NEW g \in Fds, Current(g)'
                 PROVE  TrueList(session'[g], char_dat', char_num')
      BY DEF ListsTrue
    <2>1. Current(g) /\ TrueList(session[g], char_dat, char_num)
      BY <1>1, <1>2, <1>12 DEF Current, Create, ListsTrue, s
    <2>2. \A x \in Slots(session[g].found) : x \in 1 .. new /\ char_dat'[x] = char_dat[x]
      BY <1>3, <1>13, <2>1 DEF TrueList, HeldBy
    <2>3. TrueList(session[g], char_dat', char_num')
      BY <1>3, <2>1, <2>2, ListKept
    <2>4. CASE g = f
      <3>1. Free(s.found) # {} /\ Free(s.found) \subseteq Nat
        BY <2>1, <2>4, ListHasRoom DEF Create, s, Free
      <3>2. First(Free(s.found)) \in Free(s.found)
        BY <3>1, FirstIsIn
      <3>3. s.found \in List /\ NoneTwice(s.found) /\ new \notin Slots(s.found)
        BY <1>2, <1>3, <2>1, <2>4 DEF Session, TrueList, HeldBy, s
      <3>4. Slots(found) = Slots(s.found) \cup {new} /\ NoneTwice(found)
        BY <1>3, <3>1, <3>2, <3>3, SlotNoted DEF found
      <3>5. Slots(found) \subseteq HeldBy(r.account, char_dat', char_num')
        BY <1>3, <1>10, <1>11, <1>13, <2>3, <2>4, <3>4 DEF TrueList, HeldBy, s
      <3>6. Tags(Slots(found), char_dat') = Tags(Slots(s.found), char_dat') \cup {tag}
        BY <1>11, <1>13, <3>4 DEF Tags
      <3>7. Tags(Slots(s.found), char_dat') = s.shown
        BY <2>3, <2>4 DEF TrueList, s
      <3>8. QED
        BY <1>10, <1>12, <2>4, <3>4, <3>5, <3>6, <3>7 DEF TrueList
    <2>5. CASE g # f
      BY <1>12, <2>3, <2>5
    <2>6. QED
      BY <2>4, <2>5
  <1>19. SelectionsTrue'
    <2> SUFFICES ASSUME NEW k \in Ring, auth_fifo[k].sound
                 PROVE  /\ auth_fifo[k].pos \in 1 .. new
                        /\ char_dat'[auth_fifo[k].pos].account = auth_fifo[k].account
                        /\ char_dat'[auth_fifo[k].pos].char_id = auth_fifo[k].wanted
      BY <1>3 DEF SelectionsTrue, Create
    <2>1. QED
      BY <1>1, <1>3, <1>13 DEF SelectionsTrue
  <1>20. QED
    BY <1>14, <1>15, <1>17, <1>18, <1>19 DEF CharInv, GrantIsTheChoice, Create

(* Closing a list up takes one slot out of it. *)
LEMMA ShiftTyped ==
  ASSUME NEW found \in List, NEW i \in 1 .. Listed
  PROVE  /\ Shift(found, i) \in List
         /\ \A n \in 1 .. Listed :
              Shift(found, i)[n] = IF n < i THEN found[n]
                                   ELSE IF n < Listed THEN found[n + 1] ELSE NoSlot
  <1>1. \A n \in 1 .. Listed : n < Listed => n + 1 \in 1 .. Listed
    BY CharSelectAssumption
  <1>2. \A n \in 1 .. Listed :
              Shift(found, i)[n] = IF n < i THEN found[n]
                                   ELSE IF n < Listed THEN found[n + 1] ELSE NoSlot
    BY DEF Shift
  <1>3. \A n \in 1 .. Listed : Shift(found, i)[n] \in Array \cup {NoSlot}
    BY <1>1, <1>2 DEF List
  <1>4. QED
    BY <1>2, <1>3 DEF Shift, List

LEMMA ShiftDrops ==
  ASSUME NEW found \in List, NEW i \in 1 .. Listed, found[i] # NoSlot, NoneTwice(found)
  PROVE  /\ Slots(Shift(found, i)) = Slots(found) \ {found[i]}
         /\ NoneTwice(Shift(found, i))
  <1> DEFINE L == Shift(found, i)
             From(n) == IF n < i THEN n ELSE n + 1
  <1>1. i \in Nat /\ Listed \in Nat /\ i <= Listed
    BY CharSelectAssumption
  <1>2. \A n \in 1 .. Listed : L[n] # NoSlot =>
          From(n) \in 1 .. Listed /\ From(n) # i /\ L[n] = found[From(n)]
    <2> SUFFICES ASSUME NEW n \in 1 .. Listed, L[n] # NoSlot
                 PROVE  From(n) \in 1 .. Listed /\ From(n) # i /\ L[n] = found[From(n)]
      OBVIOUS
    <2>1. L[n] = IF n < i THEN found[n] ELSE IF n < Listed THEN found[n + 1] ELSE NoSlot
      BY ShiftTyped
    <2> HIDE DEF L
    <2>2. CASE n < i
      BY <1>1, <2>1, <2>2
    <2>3. CASE ~(n < i)
      <3>1. n < Listed /\ L[n] = found[n + 1]
        BY <2>1, <2>3
      <3>2. n + 1 \in 1 .. Listed /\ n + 1 # i
        BY <1>1, <2>3, <3>1
      <3>3. QED
        BY <2>3, <3>1, <3>2
    <2>4. QED
      BY <2>2, <2>3
  <1>3. \A n \in 1 .. Listed : n # i => \E m \in 1 .. Listed : L[m] = found[n]
    <2> SUFFICES ASSUME NEW n \in 1 .. Listed, n # i
                 PROVE  \E m \in 1 .. Listed : L[m] = found[n]
      OBVIOUS
    <2>1. CASE n < i
      BY <2>1, ShiftTyped
    <2>2. CASE i < n
      <3>1. n - 1 \in 1 .. Listed /\ ~(n - 1 < i) /\ n - 1 < Listed /\ (n - 1) + 1 = n
        BY <1>1, <2>2
      <3>2. L[n - 1] = found[n]
        BY <3>1, ShiftTyped
      <3>3. QED
        BY <3>1, <3>2
    <2>3. QED
      BY <1>1, <2>1, <2>2
  <1>4. \A m, n \in 1 .. Listed : From(m) = From(n) => m = n
    BY <1>1
  <1> HIDE DEF L, From
  <1>5. \A n \in 1 .. Listed : L[n] # NoSlot => L[n] # found[i]
    BY <1>2 DEF NoneTwice
  <1>6. Slots(L) = Slots(found) \ {found[i]}
    BY <1>2, <1>3, <1>5 DEF Slots
  <1>7. NoneTwice(L)
    BY <1>2, <1>4 DEF NoneTwice
  <1>8. QED
    BY <1>6, <1>7 DEF L

(* What a deletion finds: the slot of a character with the id. *)
LEMMA DeletedIsFound ==
  ASSUME StateTyped, NEW f \in Fds, NEW c, DeletedFrom(f, c) # {}
  PROVE  LET i == First(DeletedFrom(f, c))
             p == session[f].found[i]
         IN /\ i \in 1 .. Listed /\ p # NoSlot /\ p \in Array /\ p \in Slots(session[f].found)
            /\ char_dat[p].char_id = c
  <1> DEFINE i == First(DeletedFrom(f, c))
             p == session[f].found[i]
  <1>1. DeletedFrom(f, c) \subseteq Nat
    BY DEF DeletedFrom
  <1>2. i \in DeletedFrom(f, c)
    BY <1>1, FirstIsIn
  <1> HIDE DEF i
  <1>3. i \in 1 .. Listed /\ p # NoSlot /\ char_dat[p].char_id = c
    BY <1>2 DEF DeletedFrom
  <1>4. session[f].found \in List
    BY DEF StateTyped, Session
  <1>5. p \in Array /\ p \in Slots(session[f].found)
    BY <1>3, <1>4 DEF List, Slots
  <1>6. QED
    BY <1>3, <1>5 DEF i

(* In a list that is true it is the one of the character the client picked. *)
LEMMA DeletedIsPicked ==
  ASSUME CharInv, NEW f \in Fds, Current(f), NEW w \in session[f].shown,
         NEW p \in Slots(session[f].found), char_dat[p].char_id = w.char_id
  PROVE  p \in 1 .. char_num /\ w = [char_id |-> char_dat[p].char_id, num |-> char_dat[p].num]
  <1>1. TrueList(session[f], char_dat, char_num) /\ CharsDiffer
    BY DEF CharInv, ListsTrue
  <1>2. p \in 1 .. char_num
    BY <1>1 DEF TrueList, HeldBy
  <1>3. PICK q \in Slots(session[f].found) :
               w = [char_id |-> char_dat[q].char_id, num |-> char_dat[q].num]
    BY <1>1 DEF TrueList, Tags
  <1>4. q \in 1 .. char_num /\ char_dat[q].char_id = w.char_id
    BY <1>1, <1>3 DEF TrueList, HeldBy
  <1>5. q = p
    BY <1>1, <1>2, <1>4 DEF CharsDiffer
  <1>6. QED
    BY <1>2, <1>3, <1>5

LEMMA DeleteInv ==
  ASSUME CharInv, NEW f \in Fds, NEW w \in session[f].shown, Delete(f, w)
  PROVE  CharInv'
  <1> USE DEF linkVars, loginVars
  <1> DEFINE s == session[f]
             i == First(DeletedFrom(f, w.char_id))
             p == s.found[i]
             last == char_num
             moved == {p, last}
             L == Shift(s.found, i)
             r == [s EXCEPT !.found = L, !.shown = @ \ {w}]
  <1>1. StateTyped /\ ListsTrue /\ SelectionsTrue /\ CharsDiffer /\ CharsTyped
    BY DEF CharInv
  <1>2. s \in Session /\ s.state = "authok" /\ s.account \in Accounts
    BY <1>1 DEF StateTyped, Delete, Choosing
  <1>3. /\ i \in 1 .. Listed /\ p # NoSlot /\ p \in Array /\ p \in Slots(s.found)
        /\ char_dat[p].char_id = w.char_id
    BY <1>1, DeletedIsFound DEF Delete
  <1>4. /\ last \in Array /\ char_num' = last - 1 /\ last - 1 \in 0 .. MaxChars
        /\ last \in 1 .. last
        /\ \A x \in 1 .. last : x # last <=> x \in 1 .. last - 1
    <2>1. last \in 1 .. MaxChars /\ MaxChars \in Nat /\ char_num' = last - 1
      BY <1>1, CharSelectAssumption DEF StateTyped, TypeOK, Delete
    <2>2. QED
      BY <2>1 DEF Array
  <1>5. char_dat' = [char_dat EXCEPT ![p] = char_dat[last]] /\ char_dat \in [Array -> Record]
    BY <1>1 DEF Delete, Fill, StateTyped
  <1>6. session' = [session EXCEPT ![f] = r] /\ session \in [Fds -> Session]
    BY <1>1 DEF Delete, StateTyped
  <1>7. outdated' = outdated \cup {g \in Fds : session[g].state \in {"authok", "chosen"}
                                     /\ Slots(session'[g].found) \cap moved # {}}
    BY DEF Delete
  <1>8. auth_fifo' = [k \in Ring |-> IF auth_fifo[k].pos \in moved
                        THEN [auth_fifo[k] EXCEPT !.sound = FALSE] ELSE auth_fifo[k]]
        /\ auth_fifo \in [Ring -> Entry]
    BY <1>1 DEF Delete, StateTyped
  <1> HIDE DEF i
  <1>9. L \in List
    BY <1>2, <1>3, ShiftTyped DEF Session
  <1> HIDE DEF L
  <1>10. r \in Session /\ r.state = "authok" /\ r.account = s.account /\ r.found = L
         /\ r.shown = s.shown \ {w}
    BY <1>2, <1>9 DEF Session
  <1> HIDE DEF s, p, last, moved, r
  <1>11. session' \in [Fds -> Session]
         /\ \A g \in Fds : session'[g] = IF g = f THEN r ELSE session[g]
    BY <1>6, <1>10
  <1>12. char_dat' \in [Array -> Record]
         /\ \A x \in Array : char_dat'[x] = IF x = p THEN char_dat[last] ELSE char_dat[x]
    BY <1>3, <1>4, <1>5
  <1>13. \A k \in Ring : /\ auth_fifo'[k] \in Entry
                         /\ auth_fifo'[k].sound => /\ auth_fifo[k].pos \notin moved
                                                   /\ auth_fifo'[k] = auth_fifo[k]
    <2> SUFFICES ASSUME NEW k \in Ring
                 PROVE  /\ auth_fifo'[k] \in Entry
                        /\ auth_fifo'[k].sound => /\ auth_fifo[k].pos \notin moved
                                                  /\ auth_fifo'[k] = auth_fifo[k]
      OBVIOUS
    <2>1. auth_fifo[k] \in Entry
      BY <1>8
    <2>2. CASE auth_fifo[k].pos \in moved
      <3>1. auth_fifo'[k] = [auth_fifo[k] EXCEPT !.sound = FALSE]
        BY <1>8, <2>2
      <3>2. auth_fifo'[k] \in Entry
        BY <2>1, <3>1 DEF Entry
      <3>3. ~auth_fifo'[k].sound
        BY <2>1, <3>1 DEF Entry
      <3>4. QED
        BY <3>2, <3>3
    <2>3. CASE auth_fifo[k].pos \notin moved
      BY <1>8, <2>1, <2>3
    <2>4. QED
      BY <2>2, <2>3
  <1>14. StateTyped'
    <2>1. auth_fifo' \in [Ring -> Entry]
      BY <1>8, <1>13
    <2>2. outdated' \subseteq Fds
      BY <1>1, <1>7 DEF StateTyped, TypeOK
    <2>3. QED
      BY <1>1, <1>2, <1>4, <1>10, <1>11, <1>12, <2>1, <2>2
         DEF s, Delete, StateTyped, TypeOK, Session, List, Ring
  <1>15. 1 .. last - 1 \subseteq Array /\ 1 .. last - 1 \subseteq 1 .. last
    BY <1>4, CharSelectAssumption DEF Array
  <1>16. CharsTyped'
    <2> SUFFICES ASSUME NEW x \in 1 .. last - 1
                 PROVE  /\ char_dat'[x].account \in Accounts /\ char_dat'[x].num \in Nums
                        /\ char_dat'[x].char_id < char_id_count
      BY <1>4 DEF CharsTyped, Delete
    <2>1. char_dat'[x] = char_dat[IF x = p THEN last ELSE x]
      BY <1>12, <1>15
    <2>2. (IF x = p THEN last ELSE x) \in 1 .. char_num
      BY <1>4, <1>15 DEF last
    <2>3. QED
      BY <1>1, <2>1, <2>2 DEF CharsTyped
  <1>17. CharsDiffer'
    <2> SUFFICES ASSUME NEW x \in 1 .. last - 1, NEW y \in 1 .. last - 1, x # y
                 PROVE  /\ char_dat'[x].char_id # char_dat'[y].char_id
                        /\ char_dat'[x].account = char_dat'[y].account =>
                             char_dat'[x].num # char_dat'[y].num
      BY <1>4 DEF CharsDiffer
    <2> DEFINE from(z) == IF z = p THEN last ELSE z
    <2>1. char_dat'[x] = char_dat[from(x)] /\ char_dat'[y] = char_dat[from(y)]
      BY <1>12, <1>15
    <2>2. from(x) \in 1 .. char_num /\ from(y) \in 1 .. char_num
      BY <1>4, <1>15 DEF last
    <2>3. from(x) # from(y)
      BY <1>4, <1>15
    <2> HIDE DEF from
    <2>4. QED
      BY <1>1, <2>1, <2>2, <2>3 DEF CharsDiffer
  <1>18. \A x \in 1 .. last : x \notin moved => x \in 1 .. last - 1 /\ char_dat'[x] = char_dat[x]
    BY <1>4, <1>12, <1>15 DEF moved
  <1>19. SelectionsTrue'
    <2> SUFFICES ASSUME NEW k \in Ring, auth_fifo'[k].sound
                 PROVE  /\ auth_fifo'[k].pos \in 1 .. last - 1
                        /\ char_dat'[auth_fifo'[k].pos].account = auth_fifo'[k].account
                        /\ char_dat'[auth_fifo'[k].pos].char_id = auth_fifo'[k].wanted
      BY <1>4 DEF SelectionsTrue
    <2>1. auth_fifo'[k] = auth_fifo[k] /\ auth_fifo[k].pos \notin moved
      BY <1>13
    <2>2. QED
      BY <1>1, <1>18, <2>1 DEF SelectionsTrue, last
  <1>20. ListsTrue'
    <2> SUFFICES ASSUME NEW g \in Fds, Current(g)'
                 PROVE  TrueList(session'[g], char_dat', char_num')
      BY DEF ListsTrue
    <2>1. session[g].state = "authok" /\ g \notin outdated' /\ session'[g].state = "authok"
      BY <1>2, <1>10, <1>11 DEF Current, s
    <2>2. Current(g) /\ TrueList(session[g], char_dat, char_num)
      BY <1>1, <1>7, <2>1 DEF Current, ListsTrue
    <2>3. \A x \in Slots(session'[g].found) : x \notin moved
      BY <1>7, <2>1
    <2>4. CASE g # f
      <3>1. session'[g] = session[g]
        BY <1>11, <2>4
      <3>2. \A x \in Slots(session[g].found) : x \in 1 .. char_num' /\ char_dat'[x] = char_dat[x]
        BY <1>4, <1>18, <2>2, <2>3, <3>1 DEF TrueList, HeldBy, last
      <3>3. QED
        BY <2>2, <3>1, <3>2, ListKept
    <2>5. CASE g = f
      <3>1. /\ Slots(s.found) \subseteq HeldBy(s.account, char_dat, char_num)
            /\ Tags(Slots(s.found), char_dat) = s.shown
            /\ NoneTwice(s.found)
        BY <2>2, <2>5 DEF TrueList, s
      <3>2. Slots(L) = Slots(s.found) \ {p} /\ NoneTwice(L)
        BY <1>2, <1>3, <3>1, ShiftDrops DEF Session, L, p
      <3>3. w = [char_id |-> char_dat[p].char_id, num |-> char_dat[p].num]
        BY <1>3, <2>2, <2>5, DeletedIsPicked DEF s
      <3>4. Tags(Slots(L), char_dat) = s.shown \ {w}
        <4>1. \A x \in Slots(L) : x \in 1 .. char_num /\ x # p /\ p \in 1 .. char_num
          BY <1>3, <3>1, <3>2 DEF HeldBy
        <4>2. \A x \in Slots(L) : [char_id |-> char_dat[x].char_id, num |-> char_dat[x].num] # w
          <5> SUFFICES ASSUME NEW x \in Slots(L)
                       PROVE  [char_id |-> char_dat[x].char_id, num |-> char_dat[x].num] # w
            OBVIOUS
          <5>1. char_dat[x].char_id # char_dat[p].char_id
            BY <1>1, <4>1 DEF CharsDiffer
          <5>2. QED
            BY <3>3, <5>1
        <4>3. QED
          BY <3>1, <3>2, <3>3, <4>2 DEF Tags
      <3>5. TrueList(r, char_dat, char_num)
        BY <1>10, <3>1, <3>2, <3>4 DEF TrueList
      <3>6. \A x \in Slots(r.found) : x \in 1 .. char_num' /\ char_dat'[x] = char_dat[x]
        BY <1>4, <1>11, <1>18, <2>3, <2>5, <3>5 DEF TrueList, HeldBy, last
      <3>7. QED
        BY <1>11, <2>5, <3>5, <3>6, ListKept
    <2>6. QED
      BY <2>4, <2>5
  <1>21. QED
    BY <1>14, <1>16, <1>17, <1>19, <1>20 DEF CharInv, GrantIsTheChoice, Delete

-----------------------------------------------------------------------------
LEMMA NextInv == CharInv /\ [Next]_vars => CharInv'
  <1> SUFFICES ASSUME CharInv, [Next]_vars PROVE CharInv'
    OBVIOUS
  <1>1. CASE AuthRequest \/ LinkLost \/ LinkBack \/ UNCHANGED vars
    BY <1>1, OtherInv
  <1>2. CASE AuthAnswer
    BY <1>2, AuthAnswerInv
  <1>3. CASE \E a \in Accounts : CharSelectReq(a) \/ \E id \in LoginIds : ClientLogin(a, id)
    BY <1>3, CharSelectReqInv, OtherInv
  <1>4. ASSUME NEW f \in Fds, Close(f) PROVE CharInv'
    BY <1>4, CloseInv
  <1>5. ASSUME NEW f \in Fds, NEW a \in Accounts, NEW id \in LoginIds, Connect(f, a, id)
        PROVE  CharInv'
    BY <1>5, ConnectInv
  <1>6. ASSUME NEW f \in Fds, NEW w \in session[f].shown, Select(f, w) PROVE CharInv'
    BY <1>6, SelectInv
  <1>7. ASSUME NEW f \in Fds, NEW w \in session[f].shown, Delete(f, w) PROVE CharInv'
    BY <1>7, DeleteInv
  <1>8. ASSUME NEW f \in Fds, NEW n \in Nums, Create(f, n) PROVE CharInv'
    BY <1>8, CreateInv
  <1>9. ASSUME NEW k \in DOMAIN auth_fifo, MapAuth(auth_fifo[k]) PROVE CharInv'
    BY <1>9, MapAuthInv
  <1>10. QED
    BY <1>1, <1>2, <1>3, <1>4, <1>5, <1>6, <1>7, <1>8, <1>9 DEF Next

(* The array, the lists of the sessions and the noted selections agree in every
   reachable state (char.c, parse_char, parse_tologin and parse_frommap). *)
THEOREM CharsListsSelectionsAgree == Spec => []CharInv
  <1>1. Init => CharInv
    BY InitInv
  <1>2. CharInv /\ [Next]_vars => CharInv'
    BY NextInv
  <1>3. QED
    BY <1>1, <1>2, PTL DEF Spec

(* No two characters share an id, nor two of an account a place, and every index
   stays in its array: make_new_char and the deletion of parse_char 0x04. *)
THEOREM CharsAreUnique == Spec => []UniqueChars
  <1>1. CharInv => UniqueChars
    BY DEF CharInv, StateTyped, CharsDiffer, UniqueChars
  <1>2. QED
    BY <1>1, CharsListsSelectionsAgree, PTL

(* Until a deletion upsets it, the list of a session is what its client was
   shown, whatever other sessions create and delete (mmo_char_send0007, 0x03
   and 0x04 of parse_char). *)
THEOREM ListsAreAsShown == Spec => []ListIsAsShown
  <1>1. CharInv => ListIsAsShown
    BY DEF CharInv, ListsTrue, TrueList, Current, ListIsAsShown, Slots, OwnSlots, Shown,
           HeldBy, Tags
  <1>2. QED
    BY <1>1, CharsListsSelectionsAgree, PTL

(* A map server is sent the character its client chose, however late it asks
   (parse_char 0x02, parse_frommap 0x2afc). *)
THEOREM GrantsAreTheChoice == Spec => []GrantIsTheChoice
  <1>1. CharInv => GrantIsTheChoice
    BY DEF CharInv
  <1>2. QED
    BY <1>1, CharsListsSelectionsAgree, PTL

(* In a list no other deletion has upset, a deletion takes the character the
   client picked and no other. *)
LEMMA PickedIsDeleted ==
  ASSUME CharInv, NEW f \in Fds \ outdated, NEW w \in session[f].shown, Delete(f, w)
  PROVE  Ids' = Ids \ {w.char_id}
  <1> DEFINE p == session[f].found[First(DeletedFrom(f, w.char_id))]
             last == char_num
  <1>1. StateTyped /\ CharsDiffer /\ Current(f)
    BY DEF CharInv, Delete, Choosing, Current
  <1>2. p \in Array /\ p \in Slots(session[f].found) /\ char_dat[p].char_id = w.char_id
    BY <1>1, DeletedIsFound DEF Delete
  <1>3. p \in 1 .. last
    BY <1>1, <1>2, DeletedIsPicked
  <1>4. /\ last \in 1 .. MaxChars /\ MaxChars \in Nat /\ char_num' = last - 1
        /\ 1 .. last \subseteq Array
    <2>1. char_num \in 0 .. MaxChars /\ MaxChars \in Nat
      BY <1>1, NumbersTyped, CharSelectAssumption
    <2>2. char_num > 0 /\ char_num' = char_num - 1
      BY DEF Delete
    <2> HIDE DEF p
    <2>3. char_num \in 1 .. MaxChars /\ 1 .. char_num \subseteq 1 .. MaxChars
      BY <2>1, <2>2
    <2>4. QED
      BY <2>1, <2>2, <2>3 DEF Array
  <1>5. char_dat' = [char_dat EXCEPT ![p] = char_dat[last]] /\ char_dat \in [Array -> Record]
    BY <1>1 DEF Delete, Fill, StateTyped
  <1> HIDE DEF p
  <1>6. \A x \in 1 .. last - 1 :
          x \in 1 .. last /\ char_dat'[x] = char_dat[IF x = p THEN last ELSE x]
    BY <1>2, <1>4, <1>5
  <1>7. \A x \in 1 .. last : x # p => char_dat[x].char_id # w.char_id
    BY <1>1, <1>2, <1>3 DEF CharsDiffer
  <1>8. ASSUME NEW c \in Ids' PROVE c \in Ids \ {w.char_id}
    <2>1. PICK x \in 1 .. last - 1 : c = char_dat'[x].char_id
      BY <1>4 DEF Ids
    <2>2. (IF x = p THEN last ELSE x) \in 1 .. last /\ (IF x = p THEN last ELSE x) # p
      BY <1>3, <1>4
    <2>3. QED
      BY <1>6, <1>7, <2>1, <2>2 DEF Ids
  <1>9. ASSUME NEW c \in Ids \ {w.char_id} PROVE c \in Ids'
    <2>1. PICK x \in 1 .. last : c = char_dat[x].char_id
      BY DEF Ids
    <2>2. x # p
      BY <1>2, <1>9, <2>1
    <2>3. \E y \in 1 .. last - 1 : char_dat'[y] = char_dat[x]
      <3>1. CASE x = last
        <4>1. p \in 1 .. last - 1
          BY <1>3, <1>4, <2>2, <3>1
        <4>2. QED
          BY <1>6, <3>1, <4>1
      <3>2. CASE x # last
        <4>1. x \in 1 .. last - 1
          BY <1>4, <3>2
        <4>2. QED
          BY <1>6, <2>2, <4>1
      <3>3. QED
        BY <3>1, <3>2
    <2>4. QED
      BY <1>4, <2>1, <2>3 DEF Ids
  <1>10. QED
    BY <1>8, <1>9

(* parse_char 0x04 removes the character the client named, and no other. *)
THEOREM DeletionsAreOfTheNamed == Spec => DeletesTheNamed
  <1>1. CharInv => [\A f \in Fds \ outdated : \A w \in session[f].shown :
                      Delete(f, w) => Ids' = Ids \ {w.char_id}]_vars
    BY PickedIsDeleted
  <1>2. QED
    BY <1>1, CharsListsSelectionsAgree, PTL DEF DeletesTheNamed

-----------------------------------------------------------------------------
(* One game for one login.  What stands for the right to play is counted in
   sets; a step takes one element out of one of them for each it puts into
   another, and the count of logins never falls. *)
YesFor(q, a)      == {i \in DOMAIN q : q[i].account = a /\ q[i].ok}
ChoosingFor(s, a) == {f \in Fds : s[f].account = a /\ s[f].state = "authok"}
LoginsOf(q, a)    == {i \in DOMAIN q : q[i].account = a}

LoginRing   == 0 .. LOGIN_FIFO_SIZE - 1
LoginsTyped ==
  /\ tickets \in [LoginRing -> [account : Holders, login_id1 : Logins, delflag : 0 .. 1]]
  /\ issued \in Seq(Question)

GamesInv == CharInv /\ LoginsTyped /\ OneGamePerLogin

(* Sets that differ in one element at most. *)
LEMMA OneChanged ==
  ASSUME NEW D, IsFiniteSet(D), NEW S \in SUBSET D, NEW T \in SUBSET D, NEW x,
         \A y \in D \ {x} : y \in S <=> y \in T
  PROVE  /\ Cardinality(S) \in Nat /\ Cardinality(T) \in Nat
         /\ Cardinality(T) + (IF x \in S THEN 1 ELSE 0)
              = Cardinality(S) + (IF x \in T THEN 1 ELSE 0)
  <1>1. IsFiniteSet(S) /\ IsFiniteSet(T)
    BY FS_Subset
  <1>2. Cardinality(S) \in Nat /\ Cardinality(T) \in Nat
    BY <1>1, FS_CardinalityType
  <1>3. Cardinality(S \ {x}) = IF x \in S THEN Cardinality(S) - 1 ELSE Cardinality(S)
    BY <1>1, FS_RemoveElement
  <1>4. Cardinality(T \ {x}) = IF x \in T THEN Cardinality(T) - 1 ELSE Cardinality(T)
    BY <1>1, FS_RemoveElement
  <1>5. S \ {x} = T \ {x}
    OBVIOUS
  <1>6. QED
    BY <1>2, <1>3, <1>4, <1>5

(* One element of a ring, and one session, written anew. *)
LEMMA RingWritten ==
  ASSUME NEW n \in Nat, NEW ring, NEW ring2, NEW p \in 0 .. n - 1, NEW a, NEW flags,
         DOMAIN ring = 0 .. n - 1, DOMAIN ring2 = 0 .. n - 1,
         \A i \in 0 .. n - 1 : i # p => ring2[i] = ring[i]
  PROVE  /\ Cardinality(Live(ring, a, flags)) \in Nat /\ Cardinality(Live(ring2, a, flags)) \in Nat
         /\ Cardinality(Live(ring2, a, flags))
                + (IF ring[p].account = a /\ ring[p].delflag \in flags THEN 1 ELSE 0)
              = Cardinality(Live(ring, a, flags))
                + (IF ring2[p].account = a /\ ring2[p].delflag \in flags THEN 1 ELSE 0)
  <1> DEFINE D == 0 .. n - 1
             S == Live(ring, a, flags)
             T == Live(ring2, a, flags)
  <1>1. IsFiniteSet(D)
    BY FS_Interval
  <1>2. S \in SUBSET D /\ T \in SUBSET D /\ \A y \in D \ {p} : y \in S <=> y \in T
    BY DEF Live
  <1>3. /\ p \in S <=> (ring[p].account = a /\ ring[p].delflag \in flags)
        /\ p \in T <=> (ring2[p].account = a /\ ring2[p].delflag \in flags)
    BY DEF Live
  <1> HIDE DEF D, S, T
  <1>4. /\ Cardinality(S) \in Nat /\ Cardinality(T) \in Nat
        /\ Cardinality(T) + (IF p \in S THEN 1 ELSE 0) = Cardinality(S) + (IF p \in T THEN 1 ELSE 0)
    BY <1>1, <1>2, OneChanged
  <1>5. QED
    BY <1>3, <1>4 DEF S, T

LEMMA SessionWritten ==
  ASSUME NEW s, NEW s2, NEW f \in Fds, NEW a, \A g \in Fds : g # f => s2[g] = s[g]
  PROVE  /\ Cardinality(ChoosingFor(s, a)) \in Nat /\ Cardinality(ChoosingFor(s2, a)) \in Nat
         /\ Cardinality(ChoosingFor(s2, a))
                + (IF s[f].account = a /\ s[f].state = "authok" THEN 1 ELSE 0)
              = Cardinality(ChoosingFor(s, a))
                + (IF s2[f].account = a /\ s2[f].state = "authok" THEN 1 ELSE 0)
  <1> DEFINE S == ChoosingFor(s, a)
             T == ChoosingFor(s2, a)
  <1>1. IsFiniteSet(Fds)
    BY CharSelectAssumption, FS_Interval DEF Fds
  <1>2. S \in SUBSET Fds /\ T \in SUBSET Fds /\ \A y \in Fds \ {f} : y \in S <=> y \in T
    BY DEF ChoosingFor
  <1>3. /\ f \in S <=> (s[f].account = a /\ s[f].state = "authok")
        /\ f \in T <=> (s2[f].account = a /\ s2[f].state = "authok")
    BY DEF ChoosingFor
  <1> HIDE DEF S, T
  <1>4. /\ Cardinality(S) \in Nat /\ Cardinality(T) \in Nat
        /\ Cardinality(T) + (IF f \in S THEN 1 ELSE 0) = Cardinality(S) + (IF f \in T THEN 1 ELSE 0)
    BY <1>1, <1>2, OneChanged
  <1>5. QED
    BY <1>3, <1>4 DEF S, T

(* The end and the head of a queue of answers, and of the logins. *)
LEMMA YesAppended ==
  ASSUME NEW q \in Seq(Yes), NEW y \in Yes, NEW a
  PROVE  /\ Cardinality(YesFor(q, a)) \in Nat
         /\ Cardinality(YesFor(Append(q, y), a))
              = Cardinality(YesFor(q, a)) + (IF y.account = a /\ y.ok THEN 1 ELSE 0)
  <1> DEFINE N == Len(q)
             D == 1 .. N + 1
             r == Append(q, y)
             S == YesFor(q, a)
             T == YesFor(r, a)
  <1>1. /\ N \in Nat /\ DOMAIN q = 1 .. N /\ DOMAIN r = D /\ r[N + 1] = y
        /\ \A i \in 1 .. N : r[i] = q[i]
    BY AppendProperties, LenProperties
  <1>2. IsFiniteSet(D)
    BY <1>1, FS_Interval
  <1> HIDE DEF r, N
  <1>3. S \in SUBSET D /\ T \in SUBSET D /\ \A x \in D \ {N + 1} : x \in S <=> x \in T
    BY <1>1 DEF YesFor
  <1>4. N + 1 \notin S /\ (N + 1 \in T <=> y.account = a /\ y.ok)
    BY <1>1 DEF YesFor
  <1> HIDE DEF D, S, T
  <1>5. /\ Cardinality(S) \in Nat /\ Cardinality(T) \in Nat
        /\ Cardinality(T) + (IF N + 1 \in S THEN 1 ELSE 0)
             = Cardinality(S) + (IF N + 1 \in T THEN 1 ELSE 0)
    BY <1>2, <1>3, OneChanged
  <1>6. QED
    BY <1>4, <1>5 DEF S, T, r

LEMMA LoginAppended ==
  ASSUME NEW q \in Seq(Question), NEW y \in Question, NEW a
  PROVE  /\ Cardinality(LoginsOf(q, a)) \in Nat
         /\ Cardinality(LoginsOf(Append(q, y), a))
              = Cardinality(LoginsOf(q, a)) + (IF y.account = a THEN 1 ELSE 0)
  <1> DEFINE N == Len(q)
             D == 1 .. N + 1
             r == Append(q, y)
             S == LoginsOf(q, a)
             T == LoginsOf(r, a)
  <1>1. /\ N \in Nat /\ DOMAIN q = 1 .. N /\ DOMAIN r = D /\ r[N + 1] = y
        /\ \A i \in 1 .. N : r[i] = q[i]
    BY AppendProperties, LenProperties
  <1>2. IsFiniteSet(D)
    BY <1>1, FS_Interval
  <1> HIDE DEF r, N
  <1>3. S \in SUBSET D /\ T \in SUBSET D /\ \A x \in D \ {N + 1} : x \in S <=> x \in T
    BY <1>1 DEF LoginsOf
  <1>4. N + 1 \notin S /\ (N + 1 \in T <=> y.account = a)
    BY <1>1 DEF LoginsOf
  <1> HIDE DEF D, S, T
  <1>5. /\ Cardinality(S) \in Nat /\ Cardinality(T) \in Nat
        /\ Cardinality(T) + (IF N + 1 \in S THEN 1 ELSE 0)
             = Cardinality(S) + (IF N + 1 \in T THEN 1 ELSE 0)
    BY <1>2, <1>3, OneChanged
  <1>6. QED
    BY <1>4, <1>5 DEF S, T, r

LEMMA YesTaken ==
  ASSUME NEW q \in Seq(Yes), q # <<>>, NEW a
  PROVE  /\ Cardinality(YesFor(q, a)) \in Nat /\ Cardinality(YesFor(Tail(q), a)) \in Nat
         /\ Cardinality(YesFor(Tail(q), a))
                + (IF Head(q).account = a /\ Head(q).ok THEN 1 ELSE 0)
              <= Cardinality(YesFor(q, a))
  <1> DEFINE N == Len(q)
             r == Tail(q)
             S == YesFor(q, a)
             T == YesFor(r, a)
             Rest == S \ {1}
             next == [i \in T |-> i + 1]
  <1>1. /\ N \in Nat \ {0} /\ DOMAIN q = 1 .. N /\ DOMAIN r = 1 .. N - 1
        /\ \A i \in 1 .. N - 1 : r[i] = q[i + 1]
        /\ Head(q) = q[1]
    BY HeadTailProperties, LenProperties, EmptySeq
  <1>2. IsFiniteSet(1 .. N)
    BY <1>1, FS_Interval
  <1>3. S \in SUBSET (1 .. N) /\ (1 \in S <=> Head(q).account = a /\ Head(q).ok)
    BY <1>1 DEF YesFor
  <1>4. IsFiniteSet(S) /\ Cardinality(S) \in Nat
    BY <1>2, <1>3, FS_Subset, FS_CardinalityType
  <1>5. /\ IsFiniteSet(Rest)
        /\ Cardinality(Rest) = IF 1 \in S THEN Cardinality(S) - 1 ELSE Cardinality(S)
    BY <1>4, FS_RemoveElement
  <1> HIDE DEF r, N
  <1>6. next \in [T -> Rest] /\ \A i, j \in T : next[i] = next[j] => i = j
    BY <1>1 DEF YesFor
  <1> HIDE DEF S, T, Rest, next
  <1>7. next \in Injection(T, Rest)
    BY <1>6, Fun_IsInj
  <1>8. IsFiniteSet(T) /\ Cardinality(T) <= Cardinality(Rest)
    BY <1>5, <1>7, FS_Injection
  <1>9. Cardinality(T) \in Nat
    BY <1>8, FS_CardinalityType
  <1>10. QED
    BY <1>3, <1>4, <1>5, <1>8, <1>9 DEF S, T, r

Stakes(tk, q, s, r, pl, a) ==
  Cardinality(Live(tk, a, {0})) + Cardinality(YesFor(q, a)) + Cardinality(ChoosingFor(s, a))
  + Cardinality(Live(r, a, {0, 2})) + Len(pl[a])
Covered(tk, q, s, r, pl, is, a) == Stakes(tk, q, s, r, pl, a) <= Cardinality(LoginsOf(is, a))

LEMMA CountsAreNat ==
  ASSUME GamesInv, NEW a \in Accounts
  PROVE  /\ Cardinality(Live(tickets, a, {0})) \in Nat
         /\ Cardinality(YesFor(toChar, a)) \in Nat
         /\ Cardinality(ChoosingFor(session, a)) \in Nat
         /\ Cardinality(Live(auth_fifo, a, {0, 2})) \in Nat
         /\ Len(playing[a]) \in Nat
         /\ Cardinality(LoginsOf(issued, a)) \in Nat
         /\ Covered(tickets, toChar, session, auth_fifo, playing, issued, a)
  <1>1. StateTyped /\ LoginsTyped /\ OneGamePerLogin
    BY DEF GamesInv, CharInv
  <1>2. Cardinality(Live(tickets, a, {0})) \in Nat
    <2>1. 0 \in 0 .. LOGIN_FIFO_SIZE - 1 /\ DOMAIN tickets = 0 .. LOGIN_FIFO_SIZE - 1
          /\ LOGIN_FIFO_SIZE \in Nat
      BY <1>1, CharSelectAssumption DEF StateTyped, TypeOK
    <2>2. QED
      BY <2>1, RingWritten
  <1>3. Cardinality(Live(auth_fifo, a, {0, 2})) \in Nat
    <2>1. 0 \in 0 .. AUTH_FIFO_SIZE - 1 /\ DOMAIN auth_fifo = 0 .. AUTH_FIFO_SIZE - 1
          /\ AUTH_FIFO_SIZE \in Nat
      BY <1>1, CharSelectAssumption DEF StateTyped, TypeOK
    <2>2. QED
      BY <2>1, RingWritten
  <1>4. Cardinality(YesFor(toChar, a)) \in Nat
    <2>1. [account |-> a, ok |-> TRUE] \in Yes /\ toChar \in Seq(Yes)
      BY <1>1 DEF Yes, StateTyped
    <2>2. QED
      BY <2>1, YesAppended
  <1>5. Cardinality(ChoosingFor(session, a)) \in Nat
    <2>1. 1 \in Fds
      BY CharSelectAssumption DEF Fds
    <2>2. QED
      BY <2>1, SessionWritten
  <1>6. Len(playing[a]) \in Nat
    BY <1>1, LenProperties DEF StateTyped
  <1>7. Cardinality(LoginsOf(issued, a)) \in Nat
    <2>1. issued \in Seq(Question)
      BY <1>1 DEF LoginsTyped
    <2>2. IsFiniteSet(DOMAIN issued) /\ LoginsOf(issued, a) \in SUBSET DOMAIN issued
      BY <2>1, LenProperties, FS_Interval DEF LoginsOf
    <2>3. QED
      BY <2>2, FS_Subset, FS_CardinalityType
  <1>8. Covered(tickets, toChar, session, auth_fifo, playing, issued, a)
    BY <1>1 DEF OneGamePerLogin, Covered, Stakes, YesFor, ChoosingFor, LoginsOf
  <1>9. QED
    BY <1>2, <1>3, <1>4, <1>5, <1>6, <1>7, <1>8

(* A login: one more, and one more not yet asked for. *)
LEMMA ClientLoginCovered ==
  ASSUME GamesInv, NEW b \in Accounts, NEW id \in LoginIds, ClientLogin(b, id), NEW a \in Accounts
  PROVE  Covered(tickets', toChar', session', auth_fifo', playing', issued', a)
  <1> DEFINE p == Before(ticket_pos, LOGIN_FIFO_SIZE)
             y == [account |-> b, login_id1 |-> id]
  <1>1. StateTyped /\ LoginsTyped
    BY DEF GamesInv, CharInv
  <1>2. p \in LoginRing /\ LOGIN_FIFO_SIZE \in Nat
    BY <1>1, CharSelectAssumption DEF StateTyped, TypeOK, Before, LoginRing
  <1>3. tickets' = [tickets EXCEPT ![p] = [account |-> b, login_id1 |-> id, delflag |-> 0]]
        /\ issued' = Append(issued, y)
    BY DEF ClientLogin
  <1> HIDE DEF p
  <1>4. /\ DOMAIN tickets = LoginRing /\ DOMAIN tickets' = LoginRing
        /\ \A i \in LoginRing : i # p => tickets'[i] = tickets[i]
        /\ tickets'[p].account = b
    BY <1>1, <1>2, <1>3 DEF LoginsTyped
  <1> DEFINE one == IF b = a THEN 1 ELSE 0
  <1>5. Cardinality(Live(tickets', a, {0})) \in Nat
        /\ Cardinality(Live(tickets', a, {0})) <= Cardinality(Live(tickets, a, {0})) + one
    <2>1. /\ Cardinality(Live(tickets, a, {0})) \in Nat /\ Cardinality(Live(tickets', a, {0})) \in Nat
          /\ Cardinality(Live(tickets', a, {0}))
                + (IF tickets[p].account = a /\ tickets[p].delflag \in {0} THEN 1 ELSE 0)
              = Cardinality(Live(tickets, a, {0}))
                + (IF tickets'[p].account = a /\ tickets'[p].delflag \in {0} THEN 1 ELSE 0)
      BY <1>2, <1>4, RingWritten DEF LoginRing
    <2>2. QED
      BY <1>4, <2>1
  <1>6. Cardinality(LoginsOf(issued', a)) = Cardinality(LoginsOf(issued, a)) + one
    <2>1. issued \in Seq(Question) /\ y \in Question /\ y.account = b
      BY <1>1 DEF LoginsTyped, Question
    <2> HIDE DEF y
    <2>2. QED
      BY <1>3, <2>1, LoginAppended
  <1>7. toChar' = toChar /\ session' = session /\ auth_fifo' = auth_fifo /\ playing' = playing
    BY DEF ClientLogin, linkVars, fifoVars
  <1>8. one \in Nat
    OBVIOUS
  <1> HIDE DEF one, y
  <1> DEFINE lt == Cardinality(Live(tickets, a, {0}))
             lt2 == Cardinality(Live(tickets', a, {0}))
             ys == Cardinality(YesFor(toChar, a))
             cs == Cardinality(ChoosingFor(session, a))
             es == Cardinality(Live(auth_fifo, a, {0, 2}))
             gs == Len(playing[a])
             all == Cardinality(LoginsOf(issued, a))
             all2 == Cardinality(LoginsOf(issued', a))
  <1>9. /\ lt \in Nat /\ ys \in Nat /\ cs \in Nat /\ es \in Nat /\ gs \in Nat /\ all \in Nat
        /\ lt + ys + cs + es + gs <= all
    BY CountsAreNat DEF Covered, Stakes
  <1>10. lt2 + ys + cs + es + gs <= all2
    <2>1. lt2 \in Nat /\ lt2 <= lt + one /\ all2 = all + one
      BY <1>5, <1>6
    <2> HIDE DEF lt, lt2, ys, cs, es, gs, all, all2
    <2>2. QED
      BY <1>8, <1>9, <2>1
  <1>11. QED
    BY <1>7, <1>10 DEF Covered, Stakes

(* The login server's answer uses up the login it is about. *)
LEMMA AuthRequestCovered ==
  ASSUME GamesInv, AuthRequest, NEW a \in Accounts
  PROVE  Covered(tickets', toChar', session', auth_fifo', playing', issued', a)
  <1> DEFINE m == Head(toLogin)
             t == Ticket(m.account, m.login_id1)
             i == First(t)
             y == [account |-> m.account, ok |-> t # {}]
             lt == Cardinality(Live(tickets, a, {0}))
             lt2 == Cardinality(Live(tickets', a, {0}))
             mine == IF m.account = a /\ t # {} THEN 1 ELSE 0
  <1>1. StateTyped /\ LoginsTyped
    BY DEF GamesInv, CharInv
  <1>2. m \in Question
    BY <1>1, HeadTailProperties DEF StateTyped, AuthRequest
  <1>3. toChar' = Append(toChar, y) /\ IF t = {} THEN UNCHANGED tickets ELSE UseTicket(i)
    BY DEF AuthRequest
  <1>4. Cardinality(YesFor(toChar', a)) = Cardinality(YesFor(toChar, a)) + mine
    <2>1. y \in Yes /\ toChar \in Seq(Yes) /\ y.account = m.account /\ y.ok = (t # {})
      BY <1>1, <1>2 DEF Yes, StateTyped, Question
    <2> HIDE DEF y, m, t
    <2>2. Cardinality(YesFor(Append(toChar, y), a))
            = Cardinality(YesFor(toChar, a)) + (IF y.account = a /\ y.ok THEN 1 ELSE 0)
      BY <2>1, YesAppended
    <2>3. QED
      BY <1>3, <2>1, <2>2
  <1>5. lt2 \in Nat /\ lt2 + mine <= lt
    <2>1. CASE t = {}
      BY <1>3, <2>1, CountsAreNat
    <2>2. CASE t # {}
      <3>1. tickets \in [LoginRing -> [account : Holders, login_id1 : Logins, delflag : 0 .. 1]]
        BY <1>1 DEF LoginsTyped
      <3>2. i \in t
        <4>1. t \subseteq Nat
          BY <3>1, CharSelectAssumption DEF Ticket, LoginRing
        <4>2. QED
          BY <2>2, <4>1, FirstIsIn
      <3>3. i \in LoginRing /\ tickets[i].account = m.account /\ tickets[i].delflag = 0
        BY <3>1, <3>2 DEF Ticket
      <3>4. tickets' = [tickets EXCEPT ![i].delflag = 1]
        BY <1>3, <2>2 DEF UseTicket
      <3> HIDE DEF i
      <3>5. /\ DOMAIN tickets = LoginRing /\ DOMAIN tickets' = LoginRing
            /\ \A k \in LoginRing : k # i => tickets'[k] = tickets[k]
            /\ tickets'[i].delflag = 1
        BY <3>1, <3>3, <3>4
      <3>6. /\ lt \in Nat /\ lt2 \in Nat
            /\ lt2 + (IF tickets[i].account = a /\ tickets[i].delflag \in {0} THEN 1 ELSE 0)
                 = lt + (IF tickets'[i].account = a /\ tickets'[i].delflag \in {0} THEN 1 ELSE 0)
        BY <3>3, <3>5, CharSelectAssumption, RingWritten DEF LoginRing
      <3>7. QED
        BY <3>3, <3>5, <3>6
    <2>3. QED
      BY <2>1, <2>2
  <1>6. /\ session' = session /\ auth_fifo' = auth_fifo /\ playing' = playing
        /\ issued' = issued
    BY DEF AuthRequest, fifoVars
  <1>7. mine \in Nat
    OBVIOUS
  <1> HIDE DEF mine, m, t, i, y
  <1> DEFINE ys == Cardinality(YesFor(toChar, a))
             ys2 == Cardinality(YesFor(toChar', a))
             cs == Cardinality(ChoosingFor(session, a))
             es == Cardinality(Live(auth_fifo, a, {0, 2}))
             gs == Len(playing[a])
             all == Cardinality(LoginsOf(issued, a))
  <1>8. /\ lt \in Nat /\ ys \in Nat /\ cs \in Nat /\ es \in Nat /\ gs \in Nat /\ all \in Nat
        /\ lt + ys + cs + es + gs <= all
    BY CountsAreNat DEF Covered, Stakes
  <1>9. lt2 + ys2 + cs + es + gs <= all
    <2>1. ys2 = ys + mine
      BY <1>4
    <2> HIDE DEF lt, lt2, ys, ys2, cs, es, gs, all
    <2>2. QED
      BY <1>5, <1>7, <1>8, <2>1
  <1>10. QED
    BY <1>6, <1>9 DEF Covered, Stakes

(* The loss of the link loses the answers under way, and no login. *)
LEMMA LinkCovered ==
  ASSUME GamesInv, LinkLost \/ LinkBack \/ UNCHANGED vars, NEW a \in Accounts
  PROVE  Covered(tickets', toChar', session', auth_fifo', playing', issued', a)
  <1>1. /\ tickets' = tickets /\ session' = session /\ auth_fifo' = auth_fifo
        /\ playing' = playing /\ issued' = issued /\ (toChar' = toChar \/ toChar' = <<>>)
    BY DEF LinkLost, LinkBack, vars, loginVars, linkVars, fifoVars
  <1>2. Cardinality(YesFor(<<>>, a)) = 0
    <2>1. YesFor(<<>>, a) = {}
      BY DEF YesFor
    <2>2. QED
      BY <2>1, FS_EmptySet
  <1>3. QED
    BY <1>1, <1>2, CountsAreNat DEF Covered, Stakes

(* The other steps move the right to play between what is left. *)
LEMMA MovedIsCovered ==
  ASSUME GamesInv, NEW a \in Accounts, UNCHANGED <<tickets, issued>>,
         Cardinality(YesFor(toChar', a)) \in Nat, Cardinality(ChoosingFor(session', a)) \in Nat,
         Cardinality(Live(auth_fifo', a, {0, 2})) \in Nat, Len(playing'[a]) \in Nat,
         Cardinality(YesFor(toChar', a)) + Cardinality(ChoosingFor(session', a))
           + Cardinality(Live(auth_fifo', a, {0, 2})) + Len(playing'[a])
         <= Cardinality(YesFor(toChar, a)) + Cardinality(ChoosingFor(session, a))
              + Cardinality(Live(auth_fifo, a, {0, 2})) + Len(playing[a])
  PROVE  Covered(tickets', toChar', session', auth_fifo', playing', issued', a)
  <1> DEFINE lt == Cardinality(Live(tickets, a, {0}))
             y == Cardinality(YesFor(toChar, a))
             c == Cardinality(ChoosingFor(session, a))
             e == Cardinality(Live(auth_fifo, a, {0, 2}))
             g == Len(playing[a])
             all == Cardinality(LoginsOf(issued, a))
             y2 == Cardinality(YesFor(toChar', a))
             c2 == Cardinality(ChoosingFor(session', a))
             e2 == Cardinality(Live(auth_fifo', a, {0, 2}))
             g2 == Len(playing'[a])
  <1>1. /\ lt \in Nat /\ y \in Nat /\ c \in Nat /\ e \in Nat /\ g \in Nat /\ all \in Nat
        /\ lt + y + c + e + g <= all
    BY CountsAreNat DEF Covered, Stakes
  <1>2. /\ y2 \in Nat /\ c2 \in Nat /\ e2 \in Nat /\ g2 \in Nat
        /\ y2 + c2 + e2 + g2 <= y + c + e + g
    OBVIOUS
  <1>3. lt + y2 + c2 + e2 + g2 <= all
    <2> HIDE DEF lt, y, c, e, g, all, y2, c2, e2, g2
    <2>1. QED
      BY <1>1, <1>2
  <1>4. tickets' = tickets /\ issued' = issued
    OBVIOUS
  <1>5. QED
    BY <1>3, <1>4 DEF Covered, Stakes

(* The answer's yes becomes a session that may choose. *)
LEMMA AuthAnswerCovered ==
  ASSUME GamesInv, AuthAnswer, NEW a \in Accounts
  PROVE  Covered(tickets', toChar', session', auth_fifo', playing', issued', a)
  <1> DEFINE m == Head(toChar)
             f == First(SessionsOf(m.account))
             yes == Cardinality(YesFor(toChar, a))
             yes2 == Cardinality(YesFor(toChar', a))
             cs == Cardinality(ChoosingFor(session, a))
             cs2 == Cardinality(ChoosingFor(session', a))
             es == Cardinality(Live(auth_fifo, a, {0, 2}))
             gs == Len(playing[a])
             mine == IF m.account = a /\ m.ok THEN 1 ELSE 0
  <1>1. StateTyped /\ m \in Yes
    BY HeadTailProperties DEF GamesInv, CharInv, StateTyped, AuthAnswer
  <1>2. yes \in Nat /\ yes2 \in Nat /\ yes2 + mine <= yes
    <2>1. toChar \in Seq(Yes) /\ toChar # <<>> /\ toChar' = Tail(toChar)
      BY <1>1 DEF StateTyped, AuthAnswer
    <2>2. QED
      BY <2>1, YesTaken
  <1>3. cs \in Nat /\ cs2 \in Nat /\ cs2 <= cs + mine
    <2>1. CASE m.ok /\ SessionsOf(m.account) # {}
      <3>1. f \in Fds /\ session[f].account = m.account
        <4>1. SessionsOf(m.account) \subseteq Nat
          BY DEF SessionsOf, Fds
        <4>2. f \in SessionsOf(m.account)
          BY <2>1, <4>1, FirstIsIn
        <4>3. QED
          BY <4>2 DEF SessionsOf
      <3>2. mmo_char_send0007(f, session[f])
        BY <2>1 DEF AuthAnswer
      <3> HIDE DEF f
      <3>3. \A g \in Fds : g # f => session'[g] = session[g]
        BY <1>1, <3>2 DEF mmo_char_send0007, StateTyped
      <3>4. session'[f].account = m.account
        BY <1>1, <3>1, <3>2 DEF mmo_char_send0007, StateTyped, Session
      <3>5. /\ cs \in Nat /\ cs2 \in Nat
            /\ cs2 + (IF session[f].account = a /\ session[f].state = "authok" THEN 1 ELSE 0)
                 = cs + (IF session'[f].account = a /\ session'[f].state = "authok" THEN 1 ELSE 0)
        BY <3>1, <3>3, SessionWritten
      <3>6. QED
        BY <2>1, <3>4, <3>5
    <2>2. CASE ~(m.ok /\ SessionsOf(m.account) # {})
      <3>1. session' = session
        BY <2>2 DEF AuthAnswer
      <3>2. QED
        BY <3>1, CountsAreNat
    <2>3. QED
      BY <2>1, <2>2
  <1>4. mine \in Nat /\ es \in Nat /\ gs \in Nat
    BY CountsAreNat
  <1>5. /\ auth_fifo' = auth_fifo /\ playing' = playing /\ tickets' = tickets /\ issued' = issued
    BY DEF AuthAnswer, loginVars, fifoVars
  <1>6. yes2 + cs2 + es + gs <= yes + cs + es + gs
    <2> HIDE DEF yes, yes2, cs, cs2, es, gs, mine
    <2>1. QED
      BY <1>2, <1>3, <1>4
  <1>7. QED
    BY <1>2, <1>3, <1>4, <1>5, <1>6, MovedIsCovered

(* A step of one session that leaves the ring and the queue alone, and does not
   let it choose again. *)
LEMMA SessionStepCovered ==
  ASSUME GamesInv, NEW f \in Fds, NEW a \in Accounts,
         \A g \in Fds : g # f => session'[g] = session[g],
         session'[f].account = a /\ session'[f].state = "authok"
           => session[f].account = a /\ session[f].state = "authok",
         UNCHANGED <<tickets, toChar, playing, issued>>,
         Live(auth_fifo', a, {0, 2}) = Live(auth_fifo, a, {0, 2})
  PROVE  Covered(tickets', toChar', session', auth_fifo', playing', issued', a)
  <1> DEFINE cs == Cardinality(ChoosingFor(session, a))
             cs2 == Cardinality(ChoosingFor(session', a))
             was == session[f].account = a /\ session[f].state = "authok"
             is == session'[f].account = a /\ session'[f].state = "authok"
  <1>1. /\ cs \in Nat /\ cs2 \in Nat
        /\ cs2 + (IF was THEN 1 ELSE 0) = cs + (IF is THEN 1 ELSE 0)
    BY SessionWritten
  <1>2. is => was
    OBVIOUS
  <1> HIDE DEF cs, cs2, was, is
  <1>3. cs2 <= cs
    BY <1>1, <1>2
  <1> DEFINE yes == Cardinality(YesFor(toChar, a))
             es == Cardinality(Live(auth_fifo, a, {0, 2}))
             gs == Len(playing[a])
  <1>4. yes \in Nat /\ es \in Nat /\ gs \in Nat
    BY CountsAreNat
  <1>5. yes + cs2 + es + gs <= yes + cs + es + gs
    <2> HIDE DEF yes, es, gs
    <2>1. QED
      BY <1>1, <1>3, <1>4
  <1>6. /\ yes = Cardinality(YesFor(toChar', a)) /\ cs2 = Cardinality(ChoosingFor(session', a))
        /\ es = Cardinality(Live(auth_fifo', a, {0, 2})) /\ gs = Len(playing'[a])
        /\ cs = Cardinality(ChoosingFor(session, a))
    BY DEF cs, cs2
  <1> HIDE DEF yes, es, gs
  <1>7. QED
    BY <1>1, <1>4, <1>5, <1>6, MovedIsCovered DEF yes, es, gs

LEMMA CloseCovered ==
  ASSUME GamesInv, NEW f \in Fds, Close(f), NEW a \in Accounts
  PROVE  Covered(tickets', toChar', session', auth_fifo', playing', issued', a)
  <1>1. session \in [Fds -> Session]
    BY DEF GamesInv, CharInv, StateTyped
  <1>2. session'[f].state = "closed" /\ \A g \in Fds : g # f => session'[g] = session[g]
    BY <1>1 DEF Close, Closed
  <1>3. UNCHANGED <<tickets, toChar, playing, issued, auth_fifo>>
    BY DEF Close, loginVars, linkVars, fifoVars
  <1>4. QED
    BY <1>2, <1>3, SessionStepCovered

LEMMA CreateCovered ==
  ASSUME GamesInv, NEW f \in Fds, NEW n \in Nums, Create(f, n), NEW a \in Accounts
  PROVE  Covered(tickets', toChar', session', auth_fifo', playing', issued', a)
  <1>1. session \in [Fds -> Session]
    BY DEF GamesInv, CharInv, StateTyped
  <1>2. session'[f].account = session[f].account /\ session'[f].state = session[f].state
        /\ \A g \in Fds : g # f => session'[g] = session[g]
    BY <1>1 DEF Create, Session
  <1>3. UNCHANGED <<tickets, toChar, playing, issued, auth_fifo>>
    BY DEF Create, loginVars, linkVars, fifoVars
  <1>4. QED
    BY <1>2, <1>3, SessionStepCovered

LEMMA DeleteCovered ==
  ASSUME GamesInv, NEW f \in Fds, NEW w \in session[f].shown, Delete(f, w), NEW a \in Accounts
  PROVE  Covered(tickets', toChar', session', auth_fifo', playing', issued', a)
  <1>1. session \in [Fds -> Session] /\ auth_fifo \in [Ring -> Entry]
    BY DEF GamesInv, CharInv, StateTyped
  <1>2. session'[f].account = session[f].account /\ session'[f].state = session[f].state
        /\ \A g \in Fds : g # f => session'[g] = session[g]
    BY <1>1 DEF Delete, Session
  <1>3. UNCHANGED <<tickets, toChar, playing, issued>>
    BY DEF Delete, loginVars, linkVars
  <1>4. DOMAIN auth_fifo' = DOMAIN auth_fifo
        /\ \A k \in Ring : /\ auth_fifo'[k].account = auth_fifo[k].account
                           /\ auth_fifo'[k].delflag = auth_fifo[k].delflag
    BY <1>1 DEF Delete, Entry
  <1>5. Live(auth_fifo', a, {0, 2}) = Live(auth_fifo, a, {0, 2})
    BY <1>1, <1>4 DEF Live
  <1>6. QED
    BY <1>2, <1>3, <1>5, SessionStepCovered

(* A login noted in the ring gives one expected login at most. *)
LEMMA NotedCounts ==
  ASSUME StateTyped, NEW e \in Entry, Expect(e), NEW a
  PROVE  /\ Cardinality(Live(auth_fifo, a, {0, 2})) \in Nat
         /\ Cardinality(Live(auth_fifo', a, {0, 2})) \in Nat
         /\ Cardinality(Live(auth_fifo', a, {0, 2}))
              <= Cardinality(Live(auth_fifo, a, {0, 2})) + (IF e.account = a THEN 1 ELSE 0)
  <1> DEFINE p == Before(auth_fifo_pos, AUTH_FIFO_SIZE)
             es == Cardinality(Live(auth_fifo, a, {0, 2}))
             es2 == Cardinality(Live(auth_fifo', a, {0, 2}))
  <1>1. p \in Ring /\ auth_fifo' = [auth_fifo EXCEPT ![p] = e] /\ auth_fifo \in [Ring -> Entry]
    BY CharSelectAssumption DEF StateTyped, TypeOK, Before, Ring, Expect
  <1> HIDE DEF p
  <1>2. /\ DOMAIN auth_fifo = Ring /\ DOMAIN auth_fifo' = Ring /\ auth_fifo'[p] = e
        /\ \A k \in Ring : k # p => auth_fifo'[k] = auth_fifo[k]
    BY <1>1
  <1>3. /\ es \in Nat /\ es2 \in Nat
        /\ es2 + (IF auth_fifo[p].account = a /\ auth_fifo[p].delflag \in {0, 2} THEN 1 ELSE 0)
             = es + (IF auth_fifo'[p].account = a /\ auth_fifo'[p].delflag \in {0, 2} THEN 1 ELSE 0)
    <2>1. AUTH_FIFO_SIZE \in Nat /\ p \in Ring
      BY <1>1, CharSelectAssumption
    <2>2. QED
      BY <1>2, <2>1, RingWritten DEF Ring
  <1>4. QED
    BY <1>2, <1>3

(* One marked as used is one less. *)
LEMMA UsedCounts ==
  ASSUME StateTyped, NEW k \in Ring, auth_fifo[k].delflag \in {0, 2}, UseEntry(k), NEW a
  PROVE  /\ Cardinality(Live(auth_fifo, a, {0, 2})) \in Nat
         /\ Cardinality(Live(auth_fifo', a, {0, 2})) \in Nat
         /\ Cardinality(Live(auth_fifo', a, {0, 2})) + (IF auth_fifo[k].account = a THEN 1 ELSE 0)
              = Cardinality(Live(auth_fifo, a, {0, 2}))
  <1> DEFINE es == Cardinality(Live(auth_fifo, a, {0, 2}))
             es2 == Cardinality(Live(auth_fifo', a, {0, 2}))
  <1>1. auth_fifo' = [auth_fifo EXCEPT ![k].delflag = 1] /\ auth_fifo \in [Ring -> Entry]
    BY DEF StateTyped, UseEntry
  <1>2. /\ DOMAIN auth_fifo = Ring /\ DOMAIN auth_fifo' = Ring /\ auth_fifo'[k].delflag = 1
        /\ \A i \in Ring : i # k => auth_fifo'[i] = auth_fifo[i]
    BY <1>1 DEF Entry
  <1>3. /\ es \in Nat /\ es2 \in Nat
        /\ es2 + (IF auth_fifo[k].account = a /\ auth_fifo[k].delflag \in {0, 2} THEN 1 ELSE 0)
             = es + (IF auth_fifo'[k].account = a /\ auth_fifo'[k].delflag \in {0, 2} THEN 1 ELSE 0)
    <2>1. PICK n : n = AUTH_FIFO_SIZE
      OBVIOUS
    <2>2. n \in Nat /\ Ring = 0 .. n - 1
      BY <2>1, CharSelectAssumption DEF Ring
    <2>3. PICK x, y : x = auth_fifo /\ y = auth_fifo'
      OBVIOUS
    <2>4. /\ k \in 0 .. n - 1 /\ DOMAIN x = 0 .. n - 1 /\ DOMAIN y = 0 .. n - 1
          /\ \A i \in 0 .. n - 1 : i # k => y[i] = x[i]
      BY <1>2, <2>2, <2>3
    <2>5. \A flags : /\ Cardinality(Live(x, a, flags)) \in Nat /\ Cardinality(Live(y, a, flags)) \in Nat
                     /\ Cardinality(Live(y, a, flags))
                          + (IF x[k].account = a /\ x[k].delflag \in flags THEN 1 ELSE 0)
                          = Cardinality(Live(x, a, flags))
                              + (IF y[k].account = a /\ y[k].delflag \in flags THEN 1 ELSE 0)
      BY ONLY <2>2, <2>4, RingWritten
    <2>6. QED
      BY <2>3, <2>5
  <1>4. QED
    BY <1>2, <1>3

LEMMA ConnectCovered ==
  ASSUME GamesInv, NEW f \in Fds, NEW b \in Accounts, NEW id \in LoginIds, Connect(f, b, id),
         NEW a \in Accounts
  PROVE  Covered(tickets', toChar', session', auth_fifo', playing', issued', a)
  <1> DEFINE s == [account |-> b, login_id1 |-> id, state |-> "waitauth",
                   found |-> [i \in 1 .. Listed |-> 1], shown |-> {}]
             k == First(Returning(b, id))
             yes == Cardinality(YesFor(toChar, a))
             cs == Cardinality(ChoosingFor(session, a))
             cs2 == Cardinality(ChoosingFor(session', a))
             es == Cardinality(Live(auth_fifo, a, {0, 2}))
             es2 == Cardinality(Live(auth_fifo', a, {0, 2}))
             gs == Len(playing[a])
             mine == IF b = a THEN 1 ELSE 0
  <1>1. StateTyped /\ session[f].state = "closed"
    BY DEF GamesInv, CharInv, Connect
  <1>2. UNCHANGED <<tickets, toChar, playing, issued>>
    BY DEF Connect, loginVars
  <1>3. CASE Returning(b, id) # {} /\ UseEntry(k) /\ mmo_char_send0007(f, s)
    <2>1. k \in Ring /\ auth_fifo[k].account = b /\ auth_fifo[k].delflag = 2
      <3>1. Returning(b, id) \subseteq Ring /\ Ring \subseteq Nat
        BY <1>1, ReturningInRing
      <3>2. k \in Returning(b, id)
        BY <1>3, <3>1, FirstIsIn
      <3>3. QED
        BY <3>1, <3>2 DEF Returning
    <2>2. es \in Nat /\ es2 \in Nat /\ es2 + mine = es
      BY <1>1, <1>3, <2>1, UsedCounts
    <2>3. session'[f].account = b /\ \A g \in Fds : g # f => session'[g] = session[g]
      BY <1>1, <1>3 DEF mmo_char_send0007, StateTyped
    <2>4. /\ cs \in Nat /\ cs2 \in Nat
          /\ cs2 + (IF session[f].account = a /\ session[f].state = "authok" THEN 1 ELSE 0)
               = cs + (IF session'[f].account = a /\ session'[f].state = "authok" THEN 1 ELSE 0)
      BY <2>3, SessionWritten
    <2>5. cs2 <= cs + mine
      BY <1>1, <2>3, <2>4
    <2>6. mine \in Nat /\ yes \in Nat /\ gs \in Nat
      BY CountsAreNat
    <2>7. yes + cs2 + es2 + gs <= yes + cs + es + gs
      <3> HIDE DEF yes, cs, cs2, es, es2, gs, mine
      <3>1. QED
        BY <2>2, <2>4, <2>5, <2>6
    <2>8. QED
      BY <1>2, <2>2, <2>4, <2>6, <2>7, MovedIsCovered
  <1>4. CASE session' = [session EXCEPT ![f] = s] /\ auth_fifo' = auth_fifo
    <2>1. session'[f].state = "waitauth" /\ \A g \in Fds : g # f => session'[g] = session[g]
      BY <1>1, <1>4 DEF StateTyped
    <2>2. QED
      BY <1>2, <1>4, <2>1, SessionStepCovered
  <1>5. QED
    BY <1>3, <1>4 DEF Connect

(* The session that chose becomes an expected login. *)
LEMMA SelectCovered ==
  ASSUME GamesInv, NEW f \in Fds, NEW w \in session[f].shown, Select(f, w), NEW a \in Accounts
  PROVE  Covered(tickets', toChar', session', auth_fifo', playing', issued', a)
  <1> DEFINE s == session[f]
             pos == s.found[First(SelectedFrom(f, w.num))]
             n == [account |-> s.account, char_id |-> char_dat[pos].char_id,
                   login_id1 |-> s.login_id1, delflag |-> 0, pos |-> pos,
                   wanted |-> w.char_id, sound |-> f \notin outdated]
             yes == Cardinality(YesFor(toChar, a))
             cs == Cardinality(ChoosingFor(session, a))
             cs2 == Cardinality(ChoosingFor(session', a))
             es == Cardinality(Live(auth_fifo, a, {0, 2}))
             es2 == Cardinality(Live(auth_fifo', a, {0, 2}))
             gs == Len(playing[a])
             mine == IF s.account = a THEN 1 ELSE 0
  <1>1. StateTyped /\ s.state = "authok" /\ s \in Session /\ w \in Tag
    BY DEF GamesInv, CharInv, Select, Choosing, StateTyped, Session
  <1>2. UNCHANGED <<tickets, toChar, playing, issued>>
    BY DEF Select, loginVars, linkVars
  <1>3. CASE SelectedFrom(f, w.num) = {}
    <2>1. session' = session /\ auth_fifo' = auth_fifo
      BY <1>3 DEF Select, fifoVars
    <2>2. QED
      BY <1>2, <2>1, SessionStepCovered
  <1>4. CASE SelectedFrom(f, w.num) # {}
    <2>1. pos \in Array
      <3> DEFINE i == First(SelectedFrom(f, w.num))
      <3>1. SelectedFrom(f, w.num) \subseteq Nat
        BY DEF SelectedFrom
      <3>2. i \in SelectedFrom(f, w.num)
        BY <1>4, <3>1, FirstIsIn
      <3> HIDE DEF i
      <3>3. s.found[i] \in Array
        BY <1>1, <3>2 DEF SelectedFrom, Session, List
      <3>4. QED
        BY <3>3 DEF i
    <2>2. char_dat[pos] \in Record
      BY <1>1, <2>1 DEF StateTyped
    <2>3. Expect(n) /\ session' = [session EXCEPT ![f].state = "chosen"]
      BY <1>4 DEF Select
    <2> HIDE DEF pos
    <2>4. n \in Entry /\ n.account = s.account
      BY <1>1, <2>1, <2>2 DEF Session, Entry, Record, Tag
    <2> HIDE DEF n
    <2>5. es \in Nat /\ es2 \in Nat /\ es2 <= es + mine
      BY <1>1, <2>3, <2>4, NotedCounts
    <2>6. session'[f].state = "chosen" /\ \A g \in Fds : g # f => session'[g] = session[g]
      BY <1>1, <2>3 DEF StateTyped, Session
    <2>7. /\ cs \in Nat /\ cs2 \in Nat
          /\ cs2 + (IF session[f].account = a /\ session[f].state = "authok" THEN 1 ELSE 0)
               = cs + (IF session'[f].account = a /\ session'[f].state = "authok" THEN 1 ELSE 0)
      BY <2>6, SessionWritten
    <2>8. cs2 + mine = cs
      BY <1>1, <2>6, <2>7
    <2>9. mine \in Nat /\ yes \in Nat /\ gs \in Nat
      BY CountsAreNat
    <2>10. yes + cs2 + es2 + gs <= yes + cs + es + gs
      <3> HIDE DEF yes, cs, cs2, es, es2, gs, mine
      <3>1. QED
        BY <2>5, <2>7, <2>8, <2>9
    <2>11. QED
      BY <1>2, <2>5, <2>7, <2>9, <2>10, MovedIsCovered
  <1>5. QED
    BY <1>3, <1>4

(* The expected login becomes a game. *)
LEMMA MapAuthCovered ==
  ASSUME GamesInv, NEW k \in DOMAIN auth_fifo, MapAuth(auth_fifo[k]), NEW a \in Accounts
  PROVE  Covered(tickets', toChar', session', auth_fifo', playing', issued', a)
  <1> DEFINE e == auth_fifo[k]
             i == First(Expected(e))
             yes == Cardinality(YesFor(toChar, a))
             cs == Cardinality(ChoosingFor(session, a))
             es == Cardinality(Live(auth_fifo, a, {0, 2}))
             es2 == Cardinality(Live(auth_fifo', a, {0, 2}))
             gs == Len(playing[a])
             gs2 == Len(playing'[a])
             mine == IF e.account = a THEN 1 ELSE 0
  <1>1. /\ StateTyped /\ auth_fifo \in [Ring -> Entry] /\ k \in Ring /\ e.login_id1 \in Logins
        /\ playing \in [Accounts -> Seq(Logins)]
    BY DEF GamesInv, CharInv, StateTyped, Entry
  <1>2. UNCHANGED <<tickets, toChar, session, issued>>
    BY DEF MapAuth, loginVars, linkVars
  <1>3. i \in Ring /\ auth_fifo[i].account = e.account /\ auth_fifo[i].delflag = 0
    <2>1. Expected(e) \subseteq Ring /\ Ring \subseteq Nat
      BY <1>1, CharSelectAssumption DEF Expected, Ring
    <2>2. i \in Expected(e)
      BY <2>1, FirstIsIn DEF MapAuth
    <2>3. QED
      BY <2>1, <2>2 DEF Expected
  <1>4. UseEntry(i) /\ playing' = [playing EXCEPT ![e.account] = Append(@, e.login_id1)]
    BY DEF MapAuth
  <1> HIDE DEF e, i
  <1>5. es \in Nat /\ es2 \in Nat /\ es2 + mine = es
    BY <1>1, <1>3, <1>4, UsedCounts
  <1>6. gs \in Nat /\ gs2 \in Nat /\ gs2 = gs + mine
    <2>1. CASE e.account = a
      <3>1. playing'[a] = Append(playing[a], e.login_id1)
        BY <1>1, <1>4, <2>1
      <3>2. Len(playing[a]) \in Nat /\ Len(playing'[a]) = Len(playing[a]) + 1
        BY <1>1, <3>1, AppendProperties, LenProperties
      <3>3. QED
        BY <2>1, <3>2
    <2>2. CASE e.account # a
      <3>1. playing'[a] = playing[a]
        BY <1>1, <1>4, <2>2
      <3>2. QED
        BY <2>2, <3>1, CountsAreNat
    <2>3. QED
      BY <2>1, <2>2
  <1>7. mine \in Nat /\ yes \in Nat /\ cs \in Nat
    BY CountsAreNat
  <1>8. yes + cs + es2 + gs2 <= yes + cs + es + gs
    <2> HIDE DEF yes, cs, es, es2, gs, gs2, mine
    <2>1. QED
      BY <1>5, <1>6, <1>7
  <1>9. QED
    BY <1>2, <1>5, <1>6, <1>7, <1>8, MovedIsCovered

(* A game becomes an expected return. *)
LEMMA CharSelectReqCovered ==
  ASSUME GamesInv, NEW b \in Accounts, CharSelectReq(b), NEW a \in Accounts
  PROVE  Covered(tickets', toChar', session', auth_fifo', playing', issued', a)
  <1> DEFINE n == [NoEntry EXCEPT !.account = b, !.login_id1 = Head(playing[b]), !.delflag = 2]
             yes == Cardinality(YesFor(toChar, a))
             cs == Cardinality(ChoosingFor(session, a))
             es == Cardinality(Live(auth_fifo, a, {0, 2}))
             es2 == Cardinality(Live(auth_fifo', a, {0, 2}))
             gs == Len(playing[a])
             gs2 == Len(playing'[a])
             mine == IF b = a THEN 1 ELSE 0
  <1>1. StateTyped /\ playing \in [Accounts -> Seq(Logins)] /\ playing[b] # <<>>
    BY DEF GamesInv, CharInv, StateTyped, CharSelectReq
  <1>2. UNCHANGED <<tickets, toChar, session, issued>>
    BY DEF CharSelectReq, loginVars, linkVars
  <1>3. Expect(n) /\ playing' = [playing EXCEPT ![b] = Tail(@)]
    BY DEF CharSelectReq
  <1>4. n \in Entry /\ n.account = b
    <2>1. Head(playing[b]) \in Logins
      BY <1>1, HeadTailProperties
    <2>2. QED
      BY <2>1, ReturnTyped
  <1> HIDE DEF n
  <1>5. es \in Nat /\ es2 \in Nat /\ es2 <= es + mine
    BY <1>1, <1>3, <1>4, NotedCounts
  <1>6. gs \in Nat /\ gs2 \in Nat /\ gs2 + mine = gs
    <2>1. CASE b = a
      <3>1. playing'[a] = Tail(playing[a])
        BY <1>1, <1>3, <2>1
      <3>2. Len(playing[a]) \in Nat \ {0} /\ Len(playing'[a]) = Len(playing[a]) - 1
        BY <1>1, <2>1, <3>1, HeadTailProperties, LenProperties, EmptySeq
      <3>3. QED
        BY <2>1, <3>2
    <2>2. CASE b # a
      <3>1. playing'[a] = playing[a]
        BY <1>1, <1>3, <2>2
      <3>2. QED
        BY <2>2, <3>1, CountsAreNat
    <2>3. QED
      BY <2>1, <2>2
  <1>7. mine \in Nat /\ yes \in Nat /\ cs \in Nat
    BY CountsAreNat
  <1>8. yes + cs + es2 + gs2 <= yes + cs + es + gs
    <2> HIDE DEF yes, cs, es, es2, gs, gs2, mine
    <2>1. QED
      BY <1>5, <1>6, <1>7
  <1>9. QED
    BY <1>2, <1>5, <1>6, <1>7, <1>8, MovedIsCovered

LEMMA LoginsTypedStep == GamesInv /\ [Next]_vars => LoginsTyped'
  <1> SUFFICES ASSUME GamesInv, [Next]_vars PROVE LoginsTyped'
    OBVIOUS
  <1> DEFINE Kinds == [account : Holders, login_id1 : Logins, delflag : 0 .. 1]
  <1>1. tickets \in [LoginRing -> Kinds] /\ issued \in Seq(Question) /\ StateTyped
    BY DEF GamesInv, LoginsTyped, CharInv
  <1>2. CASE \E a \in Accounts, id \in LoginIds : ClientLogin(a, id)
    <2>1. PICK a \in Accounts, id \in LoginIds : ClientLogin(a, id)
      BY <1>2
    <2>2. [account |-> a, login_id1 |-> id, delflag |-> 0] \in Kinds
          /\ [account |-> a, login_id1 |-> id] \in Question
      BY DEF Holders, Logins, Question
    <2> HIDE DEF Kinds
    <2>3. QED
      BY <1>1, <2>1, <2>2, AppendProperties DEF ClientLogin, LoginsTyped, Kinds
  <1>3. CASE AuthRequest
    <2>1. issued' = issued /\ (tickets' = tickets \/ \E i : UseTicket(i))
      BY <1>3 DEF AuthRequest
    <2>2. \A r \in Kinds : [r EXCEPT !.delflag = 1] \in Kinds
      OBVIOUS
    <2> HIDE DEF Kinds
    <2>3. \A i : UseTicket(i) => tickets' \in [LoginRing -> Kinds]
      BY <1>1, <2>2 DEF UseTicket
    <2>4. QED
      BY <1>1, <2>1, <2>3 DEF LoginsTyped, Kinds
  <1>4. CASE UNCHANGED <<tickets, issued>>
    BY <1>1, <1>4 DEF LoginsTyped
  <1>5. CASE LinkLost \/ LinkBack \/ AuthAnswer \/ UNCHANGED vars
    BY <1>4, <1>5 DEF vars, loginVars, LinkLost, LinkBack, AuthAnswer
  <1>6. CASE \E a \in Accounts : CharSelectReq(a)
    BY <1>4, <1>6 DEF loginVars, CharSelectReq
  <1>7. CASE \E f \in Fds : \/ Close(f)
                            \/ \E a \in Accounts, id \in LoginIds : Connect(f, a, id)
                            \/ \E w \in session[f].shown : Select(f, w) \/ Delete(f, w)
                            \/ \E n \in Nums : Create(f, n)
    <2>1. PICK f \in Fds : \/ Close(f)
                           \/ \E a \in Accounts, id \in LoginIds : Connect(f, a, id)
                           \/ \E w \in session[f].shown : Select(f, w) \/ Delete(f, w)
                           \/ \E n \in Nums : Create(f, n)
      BY <1>7
    <2>2. CASE Close(f)
      BY <1>4, <2>2 DEF loginVars, Close
    <2>3. CASE \E a \in Accounts, id \in LoginIds : Connect(f, a, id)
      BY <1>4, <2>3 DEF loginVars, Connect
    <2>4. CASE \E w \in session[f].shown : Select(f, w) \/ Delete(f, w)
      <3>1. PICK w \in session[f].shown : Select(f, w) \/ Delete(f, w)
        BY <2>4
      <3>2. CASE Select(f, w)
        BY <1>4, <3>2 DEF loginVars, Select
      <3>3. CASE Delete(f, w)
        BY <1>4, <3>3 DEF loginVars, Delete
      <3>4. QED
        BY <3>1, <3>2, <3>3
    <2>5. CASE \E n \in Nums : Create(f, n)
      BY <1>4, <2>5 DEF loginVars, Create
    <2>6. QED
      BY <2>1, <2>2, <2>3, <2>4, <2>5
  <1>8. CASE \E k \in DOMAIN auth_fifo : MapAuth(auth_fifo[k])
    BY <1>4, <1>8 DEF loginVars, MapAuth
  <1>9. QED
    BY <1>2, <1>3, <1>5, <1>6, <1>7, <1>8 DEF Next

LEMMA GamesStep == GamesInv /\ [Next]_vars => GamesInv'
  <1> SUFFICES ASSUME GamesInv, [Next]_vars PROVE GamesInv'
    OBVIOUS
  <1>1. CharInv' /\ LoginsTyped'
    BY NextInv, LoginsTypedStep DEF GamesInv
  <1>2. ASSUME NEW a \in Accounts
        PROVE  Covered(tickets', toChar', session', auth_fifo', playing', issued', a)
    <2>1. CASE LinkLost \/ LinkBack \/ UNCHANGED vars
      BY <2>1, LinkCovered
    <2>2. CASE AuthRequest
      BY <2>2, AuthRequestCovered
    <2>3. CASE AuthAnswer
      BY <2>3, AuthAnswerCovered
    <2>4. CASE \E b \in Accounts : CharSelectReq(b) \/ \E id \in LoginIds : ClientLogin(b, id)
      BY <2>4, CharSelectReqCovered, ClientLoginCovered
    <2>5. CASE \E f \in Fds : \/ Close(f)
                              \/ \E b \in Accounts, id \in LoginIds : Connect(f, b, id)
      BY <2>5, CloseCovered, ConnectCovered
    <2>6. CASE \E f \in Fds : \E w \in session[f].shown : Select(f, w) \/ Delete(f, w)
      BY <2>6, SelectCovered, DeleteCovered
    <2>7. CASE \E f \in Fds : \E n \in Nums : Create(f, n)
      BY <2>7, CreateCovered
    <2>8. CASE \E k \in DOMAIN auth_fifo : MapAuth(auth_fifo[k])
      BY <2>8, MapAuthCovered
    <2>9. QED
      BY <2>1, <2>2, <2>3, <2>4, <2>5, <2>6, <2>7, <2>8 DEF Next
  <1>3. OneGamePerLogin'
    BY <1>2 DEF OneGamePerLogin, Covered, Stakes, YesFor, ChoosingFor, LoginsOf
  <1>4. QED
    BY <1>1, <1>3 DEF GamesInv

LEMMA InitGames == Init => GamesInv
  <1> SUFFICES ASSUME Init PROVE GamesInv
    OBVIOUS
  <1>1. CharInv
    BY InitInv
  <1>2. LoginsTyped
    BY EmptySeq DEF Init, LoginsTyped, LoginRing, NoTicket, Holders, Logins
  <1>3. ASSUME NEW a \in Accounts
        PROVE  /\ Live(tickets, a, {0}) = {} /\ YesFor(toChar, a) = {}
               /\ ChoosingFor(session, a) = {} /\ Live(auth_fifo, a, {0, 2}) = {}
               /\ Len(playing[a]) = 0 /\ LoginsOf(issued, a) = {}
    BY DEF Init, Live, YesFor, ChoosingFor, LoginsOf, NoTicket, NoEntry, Closed
  <1>4. OneGamePerLogin
    <2>1. ASSUME NEW a \in Accounts
          PROVE  Covered(tickets, toChar, session, auth_fifo, playing, issued, a)
      <3>1. Cardinality({}) = 0
        BY FS_EmptySet
      <3>2. /\ Cardinality(Live(tickets, a, {0})) = 0 /\ Cardinality(YesFor(toChar, a)) = 0
            /\ Cardinality(ChoosingFor(session, a)) = 0
            /\ Cardinality(Live(auth_fifo, a, {0, 2})) = 0
            /\ Len(playing[a]) = 0 /\ Cardinality(LoginsOf(issued, a)) = 0
        BY <1>3, <3>1
      <3>3. QED
        BY <3>2 DEF Covered, Stakes
    <2>2. QED
      BY <2>1 DEF OneGamePerLogin, Covered, Stakes, YesFor, ChoosingFor, LoginsOf
  <1>5. QED
    BY <1>1, <1>2, <1>4 DEF GamesInv

(* Each login of an account lets in one game at a time, whatever is lost, comes
   late or comes again: parse_fromchar 0x2712 of the login server, parse_tologin
   0x2713, parse_char 0x01 and 0x02 and parse_frommap of the char server. *)
THEOREM OneGameForOneLogin == Spec => []OneGamePerLogin
  <1>1. GamesInv => OneGamePerLogin
    BY DEF GamesInv
  <1>2. QED
    BY <1>1, InitGames, GamesStep, PTL DEF Spec
=============================================================================
