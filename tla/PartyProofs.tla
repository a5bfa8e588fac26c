---------------------------- MODULE PartyProofs ----------------------------
(***************************************************************************)
(* The copies of a party, for any number of map servers, parties, members  *)
(* and packets under way: once a map server has read what it was sent, its *)
(* copies are the char server's parties; and no copy keeps a pointer to a  *)
(* session that was freed, the accounts aside whose requests were raced.   *)
(***************************************************************************)
EXTENDS Party, SequenceTheorems, FiniteSetTheorems, WellFoundedInduction, TLAPS

-----------------------------------------------------------------------------
(* Induction, as facts about sets *)

(* A set of naturals that is not empty has a least element. *)
LEMMA LeastExists ==
  ASSUME NEW T, T \subseteq Nat, T # {}
  PROVE  \E x \in T : \A y \in T : x <= y
  <1> DEFINE R == {p \in Nat \X Nat : p[1] < p[2]}
  <1>0. IsWellFoundedOn(R, Nat)
    BY NatLessThanWellFounded DEF OpToRel
  <1>1. PICK x \in T : \A y \in T : <<y, x>> \notin R
    BY <1>0, WFMin
  <1>2. ASSUME NEW y \in T
        PROVE  x <= y
    <2>1. x \in Nat /\ y \in Nat /\ ~(y < x)
      BY <1>1
    <2>2. QED
      BY <2>1
  <1>3. QED
    BY <1>2

(* A set of naturals with 0 and the successors of its elements has them all. *)
LEMMA NatSets ==
  ASSUME NEW T \in SUBSET Nat, 0 \in T, \A n \in T : n + 1 \in T
  PROVE  T = Nat
  <1>1. SUFFICES ASSUME Nat \ T # {} PROVE FALSE
    OBVIOUS
  <1>2. PICK x \in Nat \ T : \A y \in Nat \ T : x <= y
    BY <1>1, LeastExists, Nat \ T \subseteq Nat
  <1>3. x - 1 \in Nat /\ ~(x <= x - 1) /\ (x - 1) + 1 = x
    BY <1>2
  <1>4. QED
    BY <1>2, <1>3

-----------------------------------------------------------------------------
(* Types *)

(* What travels on the links. *)
Packet ==
       [kind : {"created"}, acc : Accounts, nick : Chars, party : Ids \cup {0}]
  \cup [kind : {"info"}, party : Ids, info : Party]
  \cup [kind : {"noinfo", "broken"}, party : Ids]
  \cup [kind : {"added"}, party : Ids, acc : Accounts, nick : Chars, fail : BOOLEAN]
  \cup [kind : {"leaved"}, party : Ids, acc : Accounts]
  \cup [kind : {"optionchanged"}, party : Ids, exp : BOOLEAN, item : BOOLEAN, keepexp : BOOLEAN]
  \cup [kind : {"moved"}, party : Ids, acc : Accounts, online : BOOLEAN]
Request ==
       [kind : {"create"}, acc : Accounts, nick : Chars]
  \cup [kind : {"request"}, party : Ids]
  \cup [kind : {"add"}, party : Ids, acc : Accounts, nick : Chars]
  \cup [kind : {"option"}, party : Ids, exp : BOOLEAN, item : BOOLEAN]
  \cup [kind : {"leave"}, party : Ids, acc : Accounts]
  \cup [kind : {"move"}, party : Ids, acc : Accounts, online : BOOLEAN]
  \cup [kind : {"check"}, party : Ids, nick : Chars]
  \cup [kind : {"save"}, party : Ids \cup {0}, nick : Chars]

LEMMA PacketIs ==
  ASSUME NEW msg \in Packet
  PROVE  /\ msg.kind \in {"created", "info", "noinfo", "broken", "added", "leaved",
                          "optionchanged", "moved"}
         /\ msg.kind # "created" => msg.party \in Ids
         /\ msg.kind = "created" => msg.nick \in Chars /\ msg.acc \in Accounts /\ msg.party \in Ids \cup {0}
         /\ msg.kind = "info" => msg.info \in Party
         /\ msg.kind = "added" => msg.nick \in Chars /\ msg.acc \in Accounts /\ msg.fail \in BOOLEAN
         /\ msg.kind = "leaved" => msg.acc \in Accounts
         /\ msg.kind = "optionchanged" =>
              msg.exp \in BOOLEAN /\ msg.item \in BOOLEAN /\ msg.keepexp \in BOOLEAN
         /\ msg.kind = "moved" => msg.acc \in Accounts /\ msg.online \in BOOLEAN
  BY DEF Packet

LEMMA RequestIs ==
  ASSUME NEW msg \in Request
  PROVE  /\ msg.kind \in {"create", "request", "add", "option", "leave", "move", "check", "save"}
         /\ msg.kind \notin {"create", "save"} => msg.party \in Ids
         /\ msg.kind = "create" => msg.nick \in Chars /\ msg.acc \in Accounts
         /\ msg.kind = "add" => msg.nick \in Chars /\ msg.acc \in Accounts
         /\ msg.kind = "option" => msg.exp \in BOOLEAN /\ msg.item \in BOOLEAN
         /\ msg.kind = "leave" => msg.acc \in Accounts
         /\ msg.kind = "move" => msg.acc \in Accounts /\ msg.online \in BOOLEAN
         /\ msg.kind = "check" => msg.nick \in Chars
         /\ msg.kind = "save" => msg.nick \in Chars /\ msg.party \in Ids \cup {0}
  BY DEF Request

(***************************************************************************)
(* Reading.  v is what a map server knows of party p, w what it knows of   *)
(* it after reading msg; pointers to sessions are no part of that.  What   *)
(* it knows between a creation or a departure and the packet sent right    *)
(* behind it does not matter.                                              *)
(***************************************************************************)
Views == Party \cup {Nil}
View(c) == IF c = Nil THEN Nil ELSE [member |-> c.member, exp |-> c.exp, item |-> c.item]

Moved(v, a, on) ==
  IF PlacesOf(v, a) = {} THEN v ELSE [v EXCEPT !.member[First(PlacesOf(v, a))].online = on]
Opted(v, msg) == [v EXCEPT !.exp = IF msg.keepexp THEN @ ELSE msg.exp, !.item = msg.item]

Reads(msg, p, v, w) ==
  IF msg.party # p \/ msg.kind \in {"noinfo", "added"} THEN w = v
  ELSE /\ msg.kind = "info" => w = msg.info
       /\ msg.kind = "broken" => w = Nil
       /\ msg.kind \in {"optionchanged", "moved"} /\ v = Nil => w = Nil
       /\ msg.kind = "optionchanged" /\ v # Nil => w = Opted(v, msg)
       /\ msg.kind = "moved" /\ v # Nil => w = Moved(v, msg.acc, msg.online)

(* h is what it knows as it reads all of q; and what it knows in the end. *)
Run(q, p, h) ==
  /\ h \in [0 .. Len(q) -> Views]
  /\ \A i \in 1 .. Len(q) : Reads(q[i], p, h[i - 1], h[i])
Ends(q, v, p, S) == \A h : Run(q, p, h) /\ h[0] = v => h[Len(q)] \in S

(* It has no copy of p when it reads that there is no party p. *)
NoneLeft(q, v, p) ==
  \A i \in 1 .. Len(q) : \A h :
    /\ q[i].kind = "noinfo" /\ q[i].party = p
    /\ h \in [0 .. i - 1 -> Views] /\ h[0] = v
    /\ \A j \in 1 .. i - 1 : Reads(q[j], p, h[j - 1], h[j])
    => h[i - 1] = Nil

LEMMA EndsNow ==
  ASSUME NEW v \in Views, NEW p, NEW S, Ends(<<>>, v, p, S)
  PROVE  v \in S
  <1>1. PICK h : h = [i \in 0 .. 0 |-> v]
    OBVIOUS
  <1>2. Len(<<>>) = 0 /\ 1 .. 0 = {} /\ 0 \in 0 .. 0
    OBVIOUS
  <1>3. Run(<<>>, p, h) /\ h[0] = v
    BY <1>1, <1>2 DEF Run
  <1>4. h[0] \in S
    BY <1>2, <1>3 DEF Ends
  <1>5. QED
    BY <1>3, <1>4

LEMMA EndsTail ==
  ASSUME NEW q \in Seq(Packet), q # <<>>, NEW v \in Views, NEW p, NEW S, Ends(q, v, p, S),
         NEW w, Reads(Head(q), p, v, w)
  PROVE  Ends(Tail(q), w, p, S)
  <1>1. /\ Len(q) \in Nat /\ Len(q) # 0 /\ Head(q) = q[1]
        /\ Len(Tail(q)) = Len(q) - 1
        /\ \A i \in 1 .. Len(q) - 1 : Tail(q)[i] = q[i + 1]
    BY HeadTailProperties
  <1>2. PICK n \in Nat : Len(q) = n + 1 /\ Len(Tail(q)) = n
    <2>1. PICK l \in Nat : l = Len(q) /\ l # 0
      BY <1>1
    <2>2. l - 1 \in Nat /\ l = (l - 1) + 1
      BY <2>1
    <2>3. QED
      BY <1>1, <2>1, <2>2
  <1>3. SUFFICES ASSUME NEW h, Run(Tail(q), p, h), h[0] = w
                 PROVE  h[n] \in S
    BY <1>2 DEF Ends
  <1>4. PICK g : g = [i \in 0 .. n + 1 |-> IF i = 0 THEN v ELSE h[i - 1]]
    OBVIOUS
  <1>5. /\ h \in [0 .. n -> Views]
        /\ \A i \in 1 .. n : Reads(q[i + 1], p, h[i - 1], h[i])
    <2>1. \A i \in 1 .. n : Tail(q)[i] = q[i + 1]
      BY <1>1, <1>2
    <2>2. QED
      BY <1>2, <1>3, <2>1 DEF Run
  <1>6. g \in [0 .. n + 1 -> Views]
    BY <1>4, <1>5
  <1>7. ASSUME NEW i \in 1 .. n + 1
        PROVE  Reads(q[i], p, g[i - 1], g[i])
    <2>1. CASE i = 1
      BY <1>1, <1>3, <1>4, <2>1
    <2>2. CASE i # 1
      <3>1. PICK j \in 1 .. n : i = j + 1
        BY <2>2
      <3>2. g[i - 1] = h[j - 1] /\ g[i] = h[j]
        BY <1>4, <3>1
      <3>3. QED
        BY <1>5, <3>1, <3>2
    <2>3. QED
      BY <2>1, <2>2
  <1>8. Run(q, p, g) /\ g[0] = v
    <2>1. g[0] = v
      BY <1>4
    <2>2. QED
      BY <1>2, <1>6, <1>7, <2>1 DEF Run
  <1>9. g[n + 1] \in S
    BY <1>2, <1>8 DEF Ends
  <1>10. QED
    BY <1>4, <1>9

LEMMA EndsAppend ==
  ASSUME NEW q \in Seq(Packet), NEW msg \in Packet, NEW v, NEW p, NEW S, Ends(q, v, p, S),
         NEW T, \A x \in S \cap Views, y \in Views : Reads(msg, p, x, y) => y \in T
  PROVE  Ends(Append(q, msg), v, p, T)
  <1>1. PICK n \in Nat : n = Len(q)
    OBVIOUS
  <1>2. /\ Len(Append(q, msg)) = n + 1 /\ Append(q, msg)[n + 1] = msg
        /\ \A i \in 1 .. n : Append(q, msg)[i] = q[i]
    BY <1>1, AppendProperties
  <1>3. SUFFICES ASSUME NEW h, Run(Append(q, msg), p, h), h[0] = v
                 PROVE  h[n + 1] \in T
    BY <1>2 DEF Ends
  <1>4. PICK g : g = [i \in 0 .. n |-> h[i]]
    OBVIOUS
  <1>5. /\ h \in [0 .. n + 1 -> Views]
        /\ \A i \in 1 .. n : Reads(q[i], p, h[i - 1], h[i])
        /\ Reads(msg, p, h[n], h[n + 1])
    <2>1. (n + 1) - 1 = n /\ n + 1 \in 1 .. n + 1 /\ \A i \in 1 .. n : i \in 1 .. n + 1
      OBVIOUS
    <2>2. QED
      BY <1>2, <1>3, <2>1 DEF Run
  <1>6. Run(q, p, g) /\ g[0] = v
    BY <1>1, <1>3, <1>4, <1>5 DEF Run
  <1>7. h[n] \in S /\ h[n] \in Views /\ h[n + 1] \in Views
    BY <1>1, <1>4, <1>5, <1>6 DEF Ends
  <1>8. QED
    BY <1>5, <1>7

LEMMA NoneLeftNow ==
  ASSUME NEW q \in Seq(Packet), q # <<>>, NEW v \in Views, NEW p, NoneLeft(q, v, p),
         Head(q).kind = "noinfo", Head(q).party = p
  PROVE  v = Nil
  <1>1. Head(q) = q[1] /\ Len(q) \in Nat /\ Len(q) # 0
    BY HeadTailProperties
  <1>2. 1 \in 1 .. Len(q) /\ 1 - 1 = 0 /\ 0 .. 0 = {0} /\ 1 .. 0 = {}
    BY <1>1
  <1>3. PICK h : h = [i \in 0 .. 1 - 1 |-> v]
    OBVIOUS
  <1>4. h \in [0 .. 1 - 1 -> Views] /\ h[0] = v
    BY <1>2, <1>3
  <1>5. \A j \in 1 .. 1 - 1 : Reads(q[j], p, h[j - 1], h[j])
    BY <1>2
  <1>6. h[1 - 1] = Nil
    BY <1>1, <1>2, <1>4, <1>5 DEF NoneLeft
  <1>7. QED
    BY <1>4, <1>6

LEMMA NoneLeftTail ==
  ASSUME NEW q \in Seq(Packet), q # <<>>, NEW v \in Views, NEW p, NoneLeft(q, v, p),
         NEW w, Reads(Head(q), p, v, w)
  PROVE  NoneLeft(Tail(q), w, p)
  <1>1. /\ Len(q) \in Nat /\ Len(q) # 0 /\ Head(q) = q[1]
        /\ Len(Tail(q)) = Len(q) - 1
        /\ \A i \in 1 .. Len(q) - 1 : Tail(q)[i] = q[i + 1]
    BY HeadTailProperties
  <1>2. SUFFICES ASSUME NEW i \in 1 .. Len(q) - 1, NEW h,
                        q[i + 1].kind = "noinfo", q[i + 1].party = p,
                        h \in [0 .. i - 1 -> Views], h[0] = w,
                        \A j \in 1 .. i - 1 : Reads(q[j + 1], p, h[j - 1], h[j])
                 PROVE  h[i - 1] = Nil
    <2>1. ASSUME NEW i \in 1 .. Len(q) - 1, NEW h,
                 Tail(q)[i].kind = "noinfo", Tail(q)[i].party = p,
                 h \in [0 .. i - 1 -> Views], h[0] = w,
                 \A j \in 1 .. i - 1 : Reads(Tail(q)[j], p, h[j - 1], h[j])
          PROVE  h[i - 1] = Nil
      <3>1. q[i + 1].kind = "noinfo" /\ q[i + 1].party = p
        BY <1>1, <2>1
      <3>2. \A j \in 1 .. i - 1 : j \in 1 .. Len(q) - 1
        BY <1>1
      <3>3. \A j \in 1 .. i - 1 : Reads(q[j + 1], p, h[j - 1], h[j])
        BY <1>1, <2>1, <3>2
      <3>4. QED
        BY <1>2, <2>1, <3>1, <3>3
    <2>2. QED
      BY <1>1, <2>1 DEF NoneLeft
  <1>3. PICK k \in 1 .. Len(q) : k = i + 1 /\ k - 1 = i
    BY <1>1
  <1>4. PICK g : g = [j \in 0 .. i |-> IF j = 0 THEN v ELSE h[j - 1]]
    OBVIOUS
  <1>5. g \in [0 .. k - 1 -> Views] /\ g[0] = v /\ g[i] = h[i - 1]
    <2>1. \A j \in 0 .. i : j # 0 => j - 1 \in 0 .. i - 1
      OBVIOUS
    <2>2. g \in [0 .. i -> Views]
      BY <1>2, <1>4, <2>1
    <2>3. QED
      BY <1>3, <1>4, <2>2
  <1>6. ASSUME NEW j \in 1 .. k - 1
        PROVE  Reads(q[j], p, g[j - 1], g[j])
    <2>1. CASE j = 1
      <3>1. g[0] = v /\ g[1] = h[0] /\ j - 1 = 0
        BY <1>3, <1>4, <2>1
      <3>2. QED
        BY <1>1, <1>2, <2>1, <3>1
    <2>2. CASE j # 1
      <3>1. PICK l \in 1 .. i - 1 : j = l + 1 /\ j - 1 = l /\ l # 0 /\ j # 0 /\ l \in 0 .. i /\ j \in 0 .. i
        BY <1>3, <2>2
      <3>2. g[j - 1] = h[l - 1] /\ g[j] = h[l]
        BY <1>4, <3>1
      <3>3. Reads(q[l + 1], p, h[l - 1], h[l])
        BY <1>2, <3>1
      <3>4. QED
        BY <3>1, <3>2, <3>3
    <2>3. QED
      BY <2>1, <2>2
  <1>7. g[k - 1] = Nil
    BY <1>2, <1>3, <1>5, <1>6 DEF NoneLeft
  <1>8. QED
    BY <1>3, <1>5, <1>7

LEMMA NoneLeftAppend ==
  ASSUME NEW q \in Seq(Packet), NEW msg \in Packet, NEW v, NEW p, NoneLeft(q, v, p),
         msg.kind # "noinfo" \/ msg.party # p \/ Ends(q, v, p, {Nil})
  PROVE  NoneLeft(Append(q, msg), v, p)
  <1>1. PICK n \in Nat : n = Len(q)
    OBVIOUS
  <1>2. PICK r : r = Append(q, msg)
    OBVIOUS
  <1>3. Len(r) = n + 1 /\ r[n + 1] = msg /\ \A i \in 1 .. n : r[i] = q[i]
    BY <1>1, <1>2, AppendProperties
  <1>4. SUFFICES ASSUME NEW i \in 1 .. n + 1, NEW h, r[i].kind = "noinfo", r[i].party = p,
                        h \in [0 .. i - 1 -> Views], h[0] = v,
                        \A j \in 1 .. i - 1 : Reads(r[j], p, h[j - 1], h[j])
                 PROVE  h[i - 1] = Nil
    BY <1>2, <1>3 DEF NoneLeft
  <1>5. \A j \in 1 .. i - 1 : j \in 1 .. n /\ Reads(q[j], p, h[j - 1], h[j])
    BY <1>3, <1>4
  <1>6. CASE i = n + 1
    <2>1. i - 1 = n
      BY <1>6
    <2>2. h \in [0 .. n -> Views] /\ \A j \in 1 .. n : Reads(q[j], p, h[j - 1], h[j])
      BY <1>4, <1>5, <2>1
    <2>3. Run(q, p, h)
      BY <1>1, <2>2 DEF Run
    <2>4. Ends(q, v, p, {Nil})
      BY <1>3, <1>4, <1>6
    <2>5. h[n] = Nil
      BY <1>1, <1>4, <2>3, <2>4 DEF Ends
    <2>6. QED
      BY <2>1, <2>5
  <1>7. CASE i # n + 1
    <2>1. i \in 1 .. Len(q) /\ r[i] = q[i]
      BY <1>1, <1>3, <1>7
    <2>2. QED
      BY <1>4, <1>5, <2>1 DEF NoneLeft
  <1>8. QED
    BY <1>6, <1>7

LEMMA EndsMore ==
  ASSUME NEW q, NEW v, NEW p, NEW S, NEW T, Ends(q, v, p, S), S \cap Views \subseteq T, Len(q) \in Nat
  PROVE  Ends(q, v, p, T)
  BY DEF Ends, Run

(* What a packet leaves to be known in the end. *)
LEMMA EndsAside ==
  ASSUME NEW q \in Seq(Packet), NEW msg \in Packet, NEW v, NEW p, NEW S, Ends(q, v, p, S),
         msg.party # p \/ msg.kind \in {"noinfo", "added"}
  PROVE  Ends(Append(q, msg), v, p, S)
  <1>1. \A x \in S \cap Views, y \in Views : Reads(msg, p, x, y) => y \in S
    BY DEF Reads
  <1>2. QED
    BY <1>1, EndsAppend

LEMMA EndsAnyhow ==
  ASSUME NEW q \in Seq(Packet), NEW v, NEW p
  PROVE  Ends(q, v, p, Views)
  BY Len(q) \in Nat DEF Ends, Run

LEMMA EndsInfo ==
  ASSUME NEW q \in Seq(Packet), NEW msg \in Packet, NEW v, NEW p, NEW S,
         msg.party = p, msg.kind = "info", msg.info \in S
  PROVE  Ends(Append(q, msg), v, p, S)
  <1>1. \A x \in Views \cap Views, y \in Views : Reads(msg, p, x, y) => y \in S
    BY DEF Reads
  <1>2. QED
    BY <1>1, EndsAppend, EndsAnyhow

LEMMA EndsBroken ==
  ASSUME NEW q \in Seq(Packet), NEW msg \in Packet, NEW v, NEW p, NEW S,
         msg.party = p, msg.kind = "broken", Nil \in S
  PROVE  Ends(Append(q, msg), v, p, S)
  <1>1. \A x \in Views \cap Views, y \in Views : Reads(msg, p, x, y) => y \in S
    BY DEF Reads
  <1>2. QED
    BY <1>1, EndsAppend, EndsAnyhow

LEMMA NoneLeftEmpty ==
  ASSUME NEW v, NEW p
  PROVE  NoneLeft(<<>>, v, p)
  BY Len(<<>>) = 0, 1 .. 0 = {} DEF NoneLeft

LEMMA EndsEmpty ==
  ASSUME NEW v, NEW p, NEW S, v \in S
  PROVE  Ends(<<>>, v, p, S)
  BY Len(<<>>) = 0 DEF Ends

(***************************************************************************)
(* The char server.  Agreeing is what a map server may know of a party x   *)
(* when it has read everything; Known(db, s, away, n) says that for the    *)
(* copies db it will, of every party but those in away, that it has no     *)
(* copy when it reads that there is no such party, and that the parties    *)
(* are among the first n - 1 ids.                                          *)
(***************************************************************************)
Agreeing(x, doubt) ==
  {v \in Views : v # Nil => /\ x # Nil /\ v.member = x.member
                            /\ ~doubt => v.exp = x.exp /\ v.item = x.item}
States == [party : [Ids -> Views], out : [Maps -> Seq(Packet)], unsure : SUBSET Ids]

Heard(db, s, m, p) == Ends(s.out[m], View(db[m][p]), p, Agreeing(s.party[p], p \in s.unsure))
Known(db, s, away, n) ==
  /\ s \in States
  /\ \A m \in Maps, p \in Ids \ away : Heard(db, s, m, p)
  /\ \A m \in Maps, p \in Ids : NoneLeft(s.out[m], View(db[m][p]), p)
  /\ \A p \in Ids : s.party[p] # Nil => p < n

LEMMA StateIs ==
  ASSUME NEW s \in States
  PROVE  /\ s = [party |-> s.party, out |-> s.out, unsure |-> s.unsure]
         /\ s.party \in [Ids -> Views] /\ s.out \in [Maps -> Seq(Packet)] /\ s.unsure \subseteq Ids
         /\ \A p \in Ids : s.party[p] # Nil => s.party[p] \in Party
  BY DEF States, Views

LEMMA PartyIs ==
  ASSUME NEW x \in Party
  PROVE  /\ x = [member |-> x.member, exp |-> x.exp, item |-> x.item]
         /\ x.member \in [Slots -> Member \cup {Vacant}] /\ x.exp \in BOOLEAN /\ x.item \in BOOLEAN
         /\ x # Nil /\ x \in Views
  BY NilAssumption DEF Party, Views

LEMMA IdsAre ==
  /\ Ids \subseteq Nat \ {0} /\ Slots \subseteq Nat \ {0} /\ Slots # {}
  /\ MAX_PARTY \in Nat \ {0} /\ MaxParty \in Nat
  BY PartyAssumption DEF Ids, Slots

IsPut(s, id, x, t) ==
  /\ t \in States /\ t.party = [s.party EXCEPT ![id] = x] /\ t.party[id] = x
  /\ t.out = s.out /\ t.unsure = s.unsure

LEMMA PutState ==
  ASSUME NEW s \in States, NEW id \in Ids, NEW x \in Views
  PROVE  IsPut(s, id, x, Put(s, id, x))
  <1>1. PICK t : t = [party |-> [s.party EXCEPT ![id] = x], out |-> s.out, unsure |-> s.unsure]
    OBVIOUS
  <1>2. s.party \in [Ids -> Views]
    BY StateIs
  <1>3. Put(s, id, x) = t
    BY <1>1, <1>2, StateIs DEF Put
  <1>4. t \in States /\ t.party = [s.party EXCEPT ![id] = x] /\ t.out = s.out /\ t.unsure = s.unsure
    BY <1>1, <1>2, StateIs DEF States
  <1>5. t.party[id] = x
    BY <1>2, <1>4
  <1>6. QED
    BY <1>3, <1>4, <1>5 DEF IsPut

LEMMA PutKnown ==
  ASSUME NEW db, NEW s, NEW n, Known(db, s, {}, n),
         NEW id \in Ids, NEW x \in Views, id < n \/ x = Nil
  PROVE  Known(db, Put(s, id, x), {id}, n)
  <1>1. s \in States /\ s.party \in [Ids -> Views]
    BY StateIs DEF Known
  <1>2. PICK t \in States : /\ t = Put(s, id, x) /\ t.party = [s.party EXCEPT ![id] = x]
                            /\ t.out = s.out /\ t.unsure = s.unsure
    BY <1>1, PutState DEF IsPut
  <1>3. \A p \in Ids : t.party[p] # Nil => p < n
    BY <1>1, <1>2 DEF Known
  <1>4. \A m \in Maps, p \in Ids \ {id} : Heard(db, t, m, p)
    BY <1>1, <1>2 DEF Known, Heard
  <1>5. \A m \in Maps, p \in Ids : NoneLeft(t.out[m], View(db[m][p]), p)
    BY <1>2 DEF Known
  <1>6. QED
    BY <1>2, <1>3, <1>4, <1>5 DEF Known

(* One more packet to the map servers in the set at. *)
ToAll(s, at, msg, doubted) ==
  [party |-> s.party, unsure |-> doubted,
   out |-> [m \in Maps |-> IF m \in at THEN Append(s.out[m], msg) ELSE s.out[m]]]

LEMMA ToAllIs ==
  ASSUME NEW s \in States, NEW msg
  PROVE  /\ SendAll(s, msg) = ToAll(s, Maps, msg, s.unsure)
         /\ \A m \in Maps : Send(s, m, msg) = ToAll(s, {m}, msg, s.unsure)
  <1>1. PICK x, o, u : s = [party |-> x, out |-> o, unsure |-> u] /\ o \in [Maps -> Seq(Packet)]
    BY StateIs
  <1>2. s.party = x /\ s.out = o /\ s.unsure = u
    BY <1>1
  <1>3. SendAll(s, msg) = ToAll(s, Maps, msg, s.unsure)
    <2>1. PICK r : r = [m \in Maps |-> Append(o[m], msg)]
      OBVIOUS
    <2>2. SendAll(s, msg) = [s EXCEPT !.out = r]
      BY <1>2, <2>1 DEF SendAll
    <2>3. r = [m \in Maps |-> IF m \in Maps THEN Append(o[m], msg) ELSE o[m]]
      BY <2>1
    <2>4. ToAll(s, Maps, msg, s.unsure) = [party |-> x, unsure |-> u, out |-> r]
      BY <1>2, <2>3 DEF ToAll
    <2>5. [s EXCEPT !.out = r] = [party |-> x, unsure |-> u, out |-> r]
      BY <1>1
    <2>6. QED
      BY <2>2, <2>4, <2>5
  <1>4. ASSUME NEW m \in Maps
        PROVE  Send(s, m, msg) = ToAll(s, {m}, msg, s.unsure)
    <2>1. PICK r : r = [o EXCEPT ![m] = Append(o[m], msg)]
      OBVIOUS
    <2>2. r = [k \in Maps |-> IF k \in {m} THEN Append(o[k], msg) ELSE o[k]]
      BY <1>1, <2>1
    <2>3. ToAll(s, {m}, msg, s.unsure) = [party |-> x, unsure |-> u, out |-> r]
      BY <1>2, <2>2 DEF ToAll
    <2>4. Send(s, m, msg) = [s EXCEPT !.out = [s.out EXCEPT ![m] = Append(s.out[m], msg)]]
      BY <1>1 DEF Send
    <2>5. [s EXCEPT !.out = r] = [party |-> x, unsure |-> u, out |-> r]
      BY <1>1
    <2>6. QED
      BY <1>2, <2>1, <2>3, <2>4, <2>5
  <1>5. QED
    BY <1>3, <1>4

LEMMA ToAllUnsure ==
  ASSUME NEW s, NEW msg, NEW at, NEW v, NEW w
  PROVE  [ToAll(s, at, msg, v) EXCEPT !.unsure = w] = ToAll(s, at, msg, w)
  <1>1. PICK r : r = [m \in Maps |-> IF m \in at THEN Append(s.out[m], msg) ELSE s.out[m]]
    OBVIOUS
  <1>2. /\ ToAll(s, at, msg, v) = [party |-> s.party, unsure |-> v, out |-> r]
        /\ ToAll(s, at, msg, w) = [party |-> s.party, unsure |-> w, out |-> r]
    BY <1>1 DEF ToAll
  <1>3. QED
    BY <1>2

LEMMA ToAllState ==
  ASSUME NEW s \in States, NEW msg \in Packet, NEW at, NEW doubted \in SUBSET Ids
  PROVE  /\ ToAll(s, at, msg, doubted) \in States
         /\ ToAll(s, at, msg, doubted).party = s.party /\ ToAll(s, at, msg, doubted).unsure = doubted
         /\ \A m \in Maps : /\ m \in at => ToAll(s, at, msg, doubted).out[m] = Append(s.out[m], msg)
                            /\ m \notin at => ToAll(s, at, msg, doubted).out[m] = s.out[m]
  <1>1. PICK o : o = [m \in Maps |-> IF m \in at THEN Append(s.out[m], msg) ELSE s.out[m]]
    OBVIOUS
  <1>2. o \in [Maps -> Seq(Packet)]
    BY <1>1, StateIs
  <1>3. ToAll(s, at, msg, doubted) = [party |-> s.party, unsure |-> doubted, out |-> o]
    BY <1>1 DEF ToAll
  <1>4. QED
    BY <1>1, <1>2, <1>3, StateIs DEF States

(* It says nothing of the parties that are not away. *)
LEMMA AsideKnown ==
  ASSUME NEW db, NEW s, NEW away, NEW n, Known(db, s, away, n), NEW at, NEW msg \in Packet,
         msg.kind = "added" \/ (msg.kind # "noinfo" /\ msg.party \in away \cup {0})
  PROVE  Known(db, ToAll(s, at, msg, s.unsure), away, n)
  <1>1. s \in States /\ s.unsure \in SUBSET Ids /\ s.out \in [Maps -> Seq(Packet)]
    BY StateIs DEF Known
  <1>2. PICK t : t = ToAll(s, at, msg, s.unsure)
    OBVIOUS
  <1>3. /\ t \in States /\ t.party = s.party /\ t.unsure = s.unsure
        /\ \A m \in Maps : /\ m \in at => t.out[m] = Append(s.out[m], msg)
                           /\ m \notin at => t.out[m] = s.out[m]
    BY <1>1, <1>2, ToAllState
  <1>4. ASSUME NEW m \in Maps, NEW p \in Ids \ away
        PROVE  Heard(db, t, m, p)
    <2>1. Ends(s.out[m], View(db[m][p]), p, Agreeing(s.party[p], p \in s.unsure))
      BY DEF Known, Heard
    <2>2. Ends(Append(s.out[m], msg), View(db[m][p]), p, Agreeing(s.party[p], p \in s.unsure))
      BY <1>1, <2>1, EndsAside, IdsAre
    <2>3. QED
      BY <1>3, <2>1, <2>2 DEF Heard
  <1>5. ASSUME NEW m \in Maps, NEW p \in Ids
        PROVE  NoneLeft(t.out[m], View(db[m][p]), p)
    <2>1. msg.kind # "noinfo" \/ msg.party # p \/ Ends(s.out[m], View(db[m][p]), p, {Nil})
      OBVIOUS
    <2>2. PICK v, q : /\ v = View(db[m][p]) /\ q = s.out[m] /\ q \in Seq(Packet)
                      /\ NoneLeft(q, v, p)
      BY <1>1 DEF Known
    <2>3. NoneLeft(Append(q, msg), v, p)
      BY <2>1, <2>2, NoneLeftAppend
    <2>4. t.out[m] \in {Append(q, msg), q}
      BY <1>3, <2>2
    <2>5. QED
      BY <2>2, <2>3, <2>4
  <1>6. QED
    BY <1>2, <1>3, <1>4, <1>5 DEF Known

(* It says that there is no party id. *)
LEMMA RefusedKnown ==
  ASSUME NEW db, NEW s, NEW n, Known(db, s, {}, n), NEW at, NEW id \in Ids, s.party[id] = Nil,
         NEW msg \in Packet, msg.kind = "noinfo", msg.party = id
  PROVE  Known(db, ToAll(s, at, msg, s.unsure), {}, n)
  <1>1. s \in States /\ s.unsure \in SUBSET Ids /\ s.out \in [Maps -> Seq(Packet)]
    BY StateIs DEF Known
  <1>2. PICK t : t = ToAll(s, at, msg, s.unsure)
    OBVIOUS
  <1>3. /\ t \in States /\ t.party = s.party /\ t.unsure = s.unsure
        /\ \A m \in Maps : /\ m \in at => t.out[m] = Append(s.out[m], msg)
                           /\ m \notin at => t.out[m] = s.out[m]
    BY <1>1, <1>2, ToAllState
  <1>4. ASSUME NEW m \in Maps, NEW p \in Ids
        PROVE  Heard(db, t, m, p) /\ NoneLeft(t.out[m], View(db[m][p]), p)
    <2>1. Ends(s.out[m], View(db[m][p]), p, Agreeing(s.party[p], p \in s.unsure))
      BY DEF Known, Heard
    <2>2. Ends(Append(s.out[m], msg), View(db[m][p]), p, Agreeing(s.party[p], p \in s.unsure))
      BY <1>1, <2>1, EndsAside
    <2>3. Heard(db, t, m, p)
      BY <1>3, <2>1, <2>2 DEF Heard
    <2>4. p = id => Ends(s.out[m], View(db[m][p]), p, {Nil})
      <3>1. p = id => Agreeing(s.party[p], p \in s.unsure) \cap Views \subseteq {Nil}
        BY DEF Agreeing
      <3>2. Len(s.out[m]) \in Nat
        BY <1>1
      <3>3. QED
        BY <2>1, <3>1, <3>2, EndsMore
    <2>5. NoneLeft(t.out[m], View(db[m][p]), p)
      <3>1. PICK v, q : /\ v = View(db[m][p]) /\ q = s.out[m] /\ q \in Seq(Packet)
                        /\ NoneLeft(q, v, p)
        BY <1>1 DEF Known
      <3>2. NoneLeft(Append(q, msg), v, p)
        BY <2>4, <3>1, NoneLeftAppend
      <3>3. t.out[m] \in {Append(q, msg), q}
        BY <1>3, <3>1
      <3>4. QED
        BY <3>1, <3>2, <3>3
    <2>6. QED
      BY <2>3, <2>5
  <1>5. QED
    BY <1>2, <1>3, <1>4 DEF Known

(* It says of party id what it takes. *)
LEMMA TellKnown ==
  ASSUME NEW db, NEW s, NEW id \in Ids, NEW n, Known(db, s, {id}, n), NEW at, NEW msg \in Packet,
         msg.party = id, msg.kind # "noinfo",
         NEW doubted \in SUBSET Ids, doubted \ {id} = s.unsure \ {id},
         \A m \in Maps : Heard(db, ToAll(s, at, msg, doubted), m, id)
  PROVE  Known(db, ToAll(s, at, msg, doubted), {}, n)
  <1>1. s \in States /\ s.out \in [Maps -> Seq(Packet)]
    BY StateIs DEF Known
  <1>2. PICK t : t = ToAll(s, at, msg, doubted)
    OBVIOUS
  <1>3. /\ t \in States /\ t.party = s.party /\ t.unsure = doubted
        /\ \A m \in Maps : /\ m \in at => t.out[m] = Append(s.out[m], msg)
                           /\ m \notin at => t.out[m] = s.out[m]
    BY <1>1, <1>2, ToAllState
  <1>4. ASSUME NEW m \in Maps, NEW p \in Ids, p # id
        PROVE  Heard(db, t, m, p)
    <2>1. Ends(s.out[m], View(db[m][p]), p, Agreeing(s.party[p], p \in s.unsure))
      BY <1>4 DEF Known, Heard
    <2>2. Ends(Append(s.out[m], msg), View(db[m][p]), p, Agreeing(s.party[p], p \in s.unsure))
      BY <1>1, <1>4, <2>1, EndsAside
    <2>3. (p \in s.unsure) = (p \in t.unsure)
      BY <1>3, <1>4
    <2>4. QED
      BY <1>3, <2>1, <2>2, <2>3 DEF Heard
  <1>5. ASSUME NEW m \in Maps, NEW p \in Ids
        PROVE  NoneLeft(t.out[m], View(db[m][p]), p)
    <2>1. msg.kind # "noinfo" \/ msg.party # p \/ Ends(s.out[m], View(db[m][p]), p, {Nil})
      OBVIOUS
    <2>2. PICK v, q : /\ v = View(db[m][p]) /\ q = s.out[m] /\ q \in Seq(Packet)
                      /\ NoneLeft(q, v, p)
      BY <1>1 DEF Known
    <2>3. NoneLeft(Append(q, msg), v, p)
      BY <2>1, <2>2, NoneLeftAppend
    <2>4. t.out[m] \in {Append(q, msg), q}
      BY <1>3, <2>2
    <2>5. QED
      BY <2>2, <2>3, <2>4
  <1>6. QED
    BY <1>2, <1>3, <1>4, <1>5 DEF Known

LEMMA InfoIs ==
  ASSUME NEW id \in Ids, NEW x \in Party
  PROVE  /\ Info(id, x) \in Packet /\ Info(id, x).party = id
         /\ Info(id, x).kind = "info" /\ Info(id, x).info = x
         /\ \A doubt : x \in Agreeing(x, doubt)
  BY PartyIs DEF Info, Packet, Agreeing

LEMMA PartyInfoKnown ==
  ASSUME NEW db, NEW s, NEW id \in Ids, NEW n, Known(db, s, {id}, n), s.party[id] \in Party
  PROVE  /\ Known(db, mapif_party_info(s, id), {}, n)
         /\ mapif_party_info(s, id).party = s.party
  <1>1. PICK msg \in Packet : /\ msg = Info(id, s.party[id]) /\ msg.party = id /\ msg.kind = "info"
                              /\ msg.info = s.party[id]
    BY InfoIs
  <1>2. s \in States /\ s.out \in [Maps -> Seq(Packet)] /\ s.unsure \in SUBSET Ids
    BY StateIs DEF Known
  <1> PICK u \in SUBSET Ids : u = s.unsure \ {id}
    BY <1>2
  <1>3. PICK t : t = ToAll(s, Maps, msg, u)
    OBVIOUS
  <1>4. /\ t \in States /\ t.party = s.party /\ t.unsure = u
        /\ \A m \in Maps : t.out[m] = Append(s.out[m], msg)
    BY <1>2, <1>3, ToAllState
  <1>5. SendAll(s, msg) = ToAll(s, Maps, msg, s.unsure)
    BY <1>2, ToAllIs
  <1>6. mapif_party_info(s, id) = t
    <2>1. mapif_party_info(s, id) = [SendAll(s, msg) EXCEPT !.unsure = @ \ {id}]
      BY <1>1 DEF mapif_party_info
    <2>2. ToAll(s, Maps, msg, s.unsure).unsure = s.unsure
      BY DEF ToAll
    <2>3. [ToAll(s, Maps, msg, s.unsure) EXCEPT !.unsure = u] = t
      BY <1>3, ToAllUnsure
    <2>4. QED
      BY <1>5, <2>1, <2>2, <2>3
  <1>7. ASSUME NEW m \in Maps
        PROVE  Heard(db, t, m, id)
    <2>1. s.party[id] \in Agreeing(s.party[id], id \in t.unsure)
      BY InfoIs
    <2>2. Ends(Append(s.out[m], msg), View(db[m][id]), id, Agreeing(s.party[id], id \in t.unsure))
      BY <1>1, <1>2, <2>1, EndsInfo
    <2>3. QED
      BY <1>4, <2>2 DEF Heard
  <1>8. Known(db, t, {}, n)
    BY <1>1, <1>2, <1>3, <1>7, TellKnown
  <1>9. QED
    BY <1>4, <1>6, <1>8

LEMMA BrokenKnown ==
  ASSUME NEW db, NEW s, NEW id \in Ids, NEW n, Known(db, s, {id}, n), s.party[id] = Nil
  PROVE  LET t == SendAll(s, [kind |-> "broken", party |-> id])
         IN Known(db, t, {}, n) /\ t.party = s.party
  <1>1. PICK msg : msg = [kind |-> "broken", party |-> id]
    OBVIOUS
  <1>2. msg \in Packet /\ msg.party = id /\ msg.kind = "broken"
    BY <1>1 DEF Packet
  <1>3. s \in States /\ s.out \in [Maps -> Seq(Packet)] /\ s.unsure \in SUBSET Ids
    BY StateIs DEF Known
  <1>4. PICK t : t = ToAll(s, Maps, msg, s.unsure)
    OBVIOUS
  <1>5. /\ t \in States /\ t.party = s.party /\ t.unsure = s.unsure
        /\ \A m \in Maps : t.out[m] = Append(s.out[m], msg)
    BY <1>2, <1>3, <1>4, ToAllState
  <1>6. ASSUME NEW m \in Maps
        PROVE  Heard(db, t, m, id)
    <2>1. Nil \in Agreeing(s.party[id], id \in t.unsure)
      BY DEF Agreeing, Views
    <2>2. Ends(Append(s.out[m], msg), View(db[m][id]), id, Agreeing(s.party[id], id \in t.unsure))
      BY <1>2, <1>3, <2>1, EndsBroken
    <2>3. QED
      BY <1>5, <2>2 DEF Heard
  <1>7. Known(db, t, {}, n)
    BY <1>2, <1>3, <1>4, <1>6, TellKnown
  <1>8. SendAll(s, msg) = t
    BY <1>3, <1>4, ToAllIs
  <1>9. QED
    BY <1>1, <1>5, <1>7, <1>8

(* Places in a list of members. *)
LEMMA PlacesAre ==
  ASSUME NEW x \in Party, NEW a
  PROVE  /\ PlacesOf(x, a) \subseteq Slots
         /\ PlacesOf(x, a) # {} =>
              /\ First(PlacesOf(x, a)) \in Slots
              /\ x.member[First(PlacesOf(x, a))] \in Member
  <1>1. PlacesOf(x, a) \subseteq Slots /\ \A i \in PlacesOf(x, a) : x.member[i].nick # Nil
    BY DEF PlacesOf, Of
  <1>2. ASSUME PlacesOf(x, a) # {}
        PROVE  First(PlacesOf(x, a)) \in PlacesOf(x, a)
    <2>1. PlacesOf(x, a) \subseteq Nat
      BY <1>1, IdsAre
    <2>2. QED
      BY <1>2, <2>1, LeastExists DEF First
  <1>3. ASSUME NEW i \in Slots, x.member[i].nick # Nil
        PROVE  x.member[i] \in Member
    BY <1>3, PartyIs DEF Vacant
  <1>4. QED
    BY <1>1, <1>2, <1>3

LEMMA FreeAre ==
  ASSUME NEW free \in SUBSET Slots, free # {}
  PROVE  First(free) \in Slots
  <1>1. free \subseteq Nat
    BY IdsAre
  <1>2. QED
    BY <1>1, LeastExists DEF First

LEMMA MemberPut ==
  ASSUME NEW x \in Party, NEW i \in Slots, NEW y \in Member \cup {Vacant}
  PROVE  /\ [x EXCEPT !.member[i] = y] \in Party
         /\ [x EXCEPT !.member[i] = y] =
              [member |-> [x.member EXCEPT ![i] = y], exp |-> x.exp, item |-> x.item]
  <1>1. PICK l, e, o : /\ x = [member |-> l, exp |-> e, item |-> o] /\ e \in BOOLEAN /\ o \in BOOLEAN
                       /\ l \in [Slots -> Member \cup {Vacant}]
    BY PartyIs
  <1>2. [l EXCEPT ![i] = y] \in [Slots -> Member \cup {Vacant}]
    BY <1>1
  <1>3. [x EXCEPT !.member[i] = y] = [member |-> [l EXCEPT ![i] = y], exp |-> e, item |-> o]
    BY <1>1
  <1>4. QED
    BY <1>1, <1>2, <1>3 DEF Party

LEMMA OnlinePut ==
  ASSUME NEW x \in Party, NEW i \in Slots, x.member[i] \in Member, NEW on \in BOOLEAN
  PROVE  /\ [x EXCEPT !.member[i].online = on] \in Party
         /\ [x EXCEPT !.member[i].online = on] =
              [x EXCEPT !.member[i] = [x.member[i] EXCEPT !.online = on]]
  <1>1. [x.member[i] EXCEPT !.online = on] \in Member \cup {Vacant}
    BY DEF Member
  <1>2. [x EXCEPT !.member[i].online = on] = [x EXCEPT !.member[i] = [x.member[i] EXCEPT !.online = on]]
    OBVIOUS
  <1>3. QED
    BY <1>1, <1>2, MemberPut

(* What agrees with the char server's party still does after both have
   changed its options, or where one of its members is. *)
LEMMA OptionAgrees ==
  ASSUME NEW x \in Party, NEW y \in Party, y.member = x.member, NEW p, NEW msg,
         msg.kind = "optionchanged", msg.party = p, msg.exp = y.exp, msg.item = y.item,
         NEW doubt, NEW after, msg.keepexp => after,
         NEW v \in Agreeing(x, doubt), NEW w \in Views, Reads(msg, p, v, w)
  PROVE  w \in Agreeing(y, after)
  <1>1. y # Nil /\ v \in Views /\ (v # Nil => v.member = x.member)
    BY PartyIs DEF Agreeing
  <1>2. CASE v = Nil
    BY <1>1, <1>2 DEF Reads, Agreeing
  <1>3. CASE v # Nil
    <2>1. v \in Party /\ w = Opted(v, msg)
      BY <1>1, <1>3 DEF Reads, Views
    <2>2. PICK l, e, o : v = [member |-> l, exp |-> e, item |-> o]
      BY <2>1, PartyIs
    <2>3. w = [member |-> l, exp |-> IF msg.keepexp THEN e ELSE y.exp, item |-> y.item]
      BY <2>1, <2>2 DEF Opted
    <2>4. w.member = y.member /\ (~after => w.exp = y.exp /\ w.item = y.item)
      BY <1>1, <1>3, <2>2, <2>3
    <2>5. QED
      BY <1>1, <2>4 DEF Agreeing
  <1>4. QED
    BY <1>2, <1>3

LEMMA MoveAgrees ==
  ASSUME NEW x \in Party, NEW p, NEW msg, msg.kind = "moved", msg.party = p,
         msg.online \in BOOLEAN, PlacesOf(x, msg.acc) # {},
         NEW doubt, NEW v \in Agreeing(x, doubt), NEW w \in Views, Reads(msg, p, v, w)
  PROVE  w \in Agreeing([x EXCEPT !.member[First(PlacesOf(x, msg.acc))].online = msg.online], doubt)
  <1>1. PICK i : i = First(PlacesOf(x, msg.acc))
    OBVIOUS
  <1>2. i \in Slots /\ x.member[i] \in Member
    BY <1>1, PlacesAre
  <1>3. PICK y : y = [x EXCEPT !.member[i].online = msg.online]
    OBVIOUS
  <1>4. /\ y \in Party /\ y # Nil
        /\ y = [member |-> [x.member EXCEPT ![i] = [x.member[i] EXCEPT !.online = msg.online]],
                exp |-> x.exp, item |-> x.item]
    <2>1. [x.member[i] EXCEPT !.online = msg.online] \in Member \cup {Vacant}
      BY <1>2 DEF Member
    <2>2. QED
      BY <1>2, <1>3, <2>1, OnlinePut, MemberPut, PartyIs
  <1>5. v \in Views /\ (v # Nil => v.member = x.member /\ (~doubt => v.exp = x.exp /\ v.item = x.item))
    BY DEF Agreeing
  <1>6. CASE v = Nil
    BY <1>1, <1>3, <1>5, <1>6 DEF Reads, Agreeing
  <1>7. CASE v # Nil
    <2>1. v \in Party /\ w = Moved(v, msg.acc, msg.online)
      BY <1>5, <1>7 DEF Reads, Views
    <2>2. PlacesOf(v, msg.acc) = PlacesOf(x, msg.acc)
      BY <1>5, <1>7 DEF PlacesOf
    <2>3. w = [v EXCEPT !.member[i].online = msg.online]
      BY <1>1, <2>1, <2>2 DEF Moved
    <2>4. PICK l, e, o : v = [member |-> l, exp |-> e, item |-> o]
      BY <2>1, PartyIs
    <2>5. w = [member |-> [l EXCEPT ![i] = [l[i] EXCEPT !.online = msg.online]], exp |-> e, item |-> o]
      BY <2>3, <2>4
    <2>6. w.member = y.member /\ (~doubt => w.exp = y.exp /\ w.item = y.item)
      BY <1>4, <1>5, <1>7, <2>4, <2>5
    <2>7. w \in Agreeing(y, doubt)
      BY <1>4, <2>6 DEF Agreeing
    <2>8. QED
      BY <1>1, <1>3, <2>7
  <1>8. QED
    BY <1>6, <1>7

LEMMA OptionIs ==
  ASSUME NEW id \in Ids, NEW x \in Party, NEW keep \in BOOLEAN
  PROVE  LET msg == Option(id, x, keep)
         IN /\ msg \in Packet /\ msg.kind = "optionchanged" /\ msg.party = id
            /\ msg.exp = x.exp /\ msg.item = x.item /\ msg.keepexp = keep
  BY PartyIs DEF Option, Packet

(* The options of a party change, and the map servers at are told; the others
   do not know the sharing. *)
LEMMA OptionKnown ==
  ASSUME NEW db, NEW s, NEW id \in Ids, NEW n, Known(db, s, {}, n), s.party[id] \in Party,
         NEW y \in Party, y.member = s.party[id].member, NEW at, NEW keep \in BOOLEAN,
         NEW doubted \in SUBSET Ids, doubted \ {id} = s.unsure \ {id},
         id \in doubted \/ (Maps \subseteq at /\ ~keep)
  PROVE  /\ Known(db, ToAll(Put(s, id, y), at, Option(id, y, keep), doubted), {}, n)
         /\ ToAll(Put(s, id, y), at, Option(id, y, keep), doubted).party = [s.party EXCEPT ![id] = y]
  <1>1. /\ s \in States /\ s.out \in [Maps -> Seq(Packet)] /\ s.party \in [Ids -> Views]
        /\ s.party[id] # Nil /\ id < n /\ y \in Views /\ y # Nil
    BY StateIs, PartyIs DEF Known
  <1>2. Known(db, Put(s, id, y), {id}, n)
    <2>1. y \in Views /\ (id < n \/ y = Nil)
      BY <1>1
    <2>2. QED
      BY <2>1, PutKnown
  <1>3. PICK r \in States :
          /\ r = Put(s, id, y) /\ r.party = [s.party EXCEPT ![id] = y] /\ r.out = s.out
          /\ r.unsure = s.unsure /\ r.party[id] = y
    BY <1>1, PutState DEF IsPut
  <1>4. PICK msg \in Packet : /\ msg = Option(id, y, keep) /\ msg.kind = "optionchanged" /\ msg.party = id
                              /\ msg.exp = y.exp /\ msg.item = y.item /\ msg.keepexp = keep
    BY OptionIs
  <1>5. PICK t : t = ToAll(r, at, msg, doubted)
    OBVIOUS
  <1>6. /\ t.party = r.party /\ t.unsure = doubted
        /\ \A m \in Maps : /\ m \in at => t.out[m] = Append(r.out[m], msg)
                           /\ m \notin at => t.out[m] = r.out[m]
    BY <1>3, <1>5, ToAllState
  <1>7. ASSUME NEW m \in Maps
        PROVE  Heard(db, t, m, id)
    <2>1. Ends(s.out[m], View(db[m][id]), id, Agreeing(s.party[id], id \in s.unsure))
      BY DEF Known, Heard
    <2>2. CASE m \in at
      <3>1. ASSUME NEW v \in Agreeing(s.party[id], id \in s.unsure), NEW w \in Views,
                   Reads(msg, id, v, w)
            PROVE  w \in Agreeing(y, id \in doubted)
        <4>1. msg.keepexp => id \in doubted
          BY <1>4
        <4>2. PICK x, doubt, u : x = s.party[id] /\ doubt = (id \in s.unsure) /\ u = (id \in doubted)
          OBVIOUS
        <4>3. x \in Party /\ v \in Agreeing(x, doubt) /\ y.member = x.member /\ (msg.keepexp => u)
          BY <4>1, <4>2
        <4>4. w \in Agreeing(y, u)
          BY <1>4, <3>1, <4>3, OptionAgrees
        <4>5. QED
          BY <4>2, <4>4
      <3>2. Ends(Append(s.out[m], msg), View(db[m][id]), id, Agreeing(y, id \in doubted))
        BY <1>1, <2>1, <3>1, EndsAppend
      <3>3. QED
        BY <1>3, <1>6, <2>2, <3>2 DEF Heard
    <2>3. CASE m \notin at
      <3>1. id \in doubted
        BY <2>3
      <3>2. Agreeing(s.party[id], id \in s.unsure) \subseteq Agreeing(y, id \in doubted)
        BY <1>1, <3>1 DEF Agreeing
      <3>3. Ends(s.out[m], View(db[m][id]), id, Agreeing(y, id \in doubted))
        BY <1>1, <2>1, <3>2, EndsMore
      <3>4. QED
        BY <1>3, <1>6, <2>3, <3>3 DEF Heard
    <2>4. QED
      BY <2>2, <2>3
  <1>8. Known(db, t, {}, n)
    BY <1>2, <1>3, <1>4, <1>5, <1>7, TellKnown
  <1>9. QED
    BY <1>3, <1>4, <1>5, <1>6, <1>8

(* Each answer keeps what is known of every party. *)
LEMMA StopSharingKnown ==
  ASSUME NEW db, NEW s, NEW id \in Ids, NEW n, Known(db, s, {}, n), s.party[id] \in Party
  PROVE  Known(db, StopSharing(s, id), {}, n)
  <1>1. s \in States /\ s.unsure \in SUBSET Ids /\ s.out \in [Maps -> Seq(Packet)]
    BY StateIs DEF Known
  <1>2. PICK x \in Party : x = s.party[id]
    OBVIOUS
  <1>3. PICK y : y = [x EXCEPT !.exp = FALSE]
    OBVIOUS
  <1>4. y \in Party /\ y.member = x.member
    <2>1. PICK l, e, o : /\ x = [member |-> l, exp |-> e, item |-> o] /\ o \in BOOLEAN
                         /\ l \in [Slots -> Member \cup {Vacant}]
      BY PartyIs
    <2>2. y = [member |-> l, exp |-> FALSE, item |-> o]
      BY <1>3, <2>1
    <2>3. QED
      BY <2>1, <2>2 DEF Party
  <1>5. CASE x.exp /\ ~party_check_exp_share(x)
    <2>1. PICK r, msg, u : /\ r = Put(s, id, y) /\ msg = Option(id, y, FALSE) /\ u = s.unsure \ {id}
      OBVIOUS
    <2>2. u \in SUBSET Ids /\ u \ {id} = s.unsure \ {id}
      BY <1>1, <2>1
    <2>3. Known(db, ToAll(r, Maps, msg, u), {}, n)
      BY <1>2, <1>4, <2>1, <2>2, OptionKnown
    <2>4. r \in States /\ r.unsure = s.unsure
      <3>1. y \in Views
        BY <1>4, PartyIs
      <3>2. Put(s, id, y) \in States /\ Put(s, id, y).unsure = s.unsure
        <4>1. IsPut(s, id, y, Put(s, id, y))
          BY <1>1, <3>1, PutState
        <4>2. QED
          BY <4>1 DEF IsPut
      <3>3. QED
        BY <2>1, <3>2
    <2>5. StopSharing(s, id) = [SendAll(r, msg) EXCEPT !.unsure = @ \ {id}]
      BY <1>2, <1>3, <1>5, <2>1 DEF StopSharing
    <2>6. SendAll(r, msg) = ToAll(r, Maps, msg, r.unsure)
      BY <2>4, ToAllIs
    <2>7. ToAll(r, Maps, msg, r.unsure).unsure = s.unsure
      BY <2>4 DEF ToAll
    <2>8. [ToAll(r, Maps, msg, r.unsure) EXCEPT !.unsure = u] = ToAll(r, Maps, msg, u)
      BY ToAllUnsure
    <2>9. QED
      BY <2>1, <2>3, <2>5, <2>6, <2>7, <2>8
  <1>6. CASE ~(x.exp /\ ~party_check_exp_share(x))
    <2>1. StopSharing(s, id) = s
      BY <1>2, <1>6 DEF StopSharing
    <2>2. QED
      BY <2>1
  <1>7. QED
    BY <1>5, <1>6

LEMMA LeaveKnown ==
  ASSUME NEW db, NEW s, NEW id \in Ids, NEW n, Known(db, s, {}, n), NEW a \in Accounts
  PROVE  Known(db, mapif_parse_PartyLeave(s, id, a), {}, n)
  <1>1. s \in States /\ (s.party[id] # Nil => s.party[id] \in Party /\ id < n)
    BY StateIs DEF Known
  <1>2. CASE s.party[id] = Nil \/ PlacesOf(s.party[id], a) = {}
    BY <1>2 DEF mapif_parse_PartyLeave
  <1>3. CASE ~(s.party[id] = Nil \/ PlacesOf(s.party[id], a) = {})
    <2>1. PICK x \in Party : x = s.party[id] /\ PlacesOf(x, a) # {} /\ id < n
      BY <1>1, <1>3
    <2>2. PICK y, msg, left :
            /\ y = [x EXCEPT !.member[First(PlacesOf(x, a))] = Vacant]
            /\ msg = [kind |-> "leaved", party |-> id, acc |-> a]
            /\ left = SendAll(s, msg)
      OBVIOUS
    <2>3. y \in Party /\ y \in Views
      BY <2>1, <2>2, PlacesAre, MemberPut, PartyIs
    <2>4. msg \in Packet /\ msg.party = id /\ msg.kind # "noinfo"
      BY <2>2 DEF Packet
    <2>5. mapif_parse_PartyLeave(s, id, a) =
            IF party_check_empty(y)
            THEN SendAll(Put(left, id, Nil), [kind |-> "broken", party |-> id])
            ELSE mapif_party_info(Put(left, id, y), id)
      BY <1>3, <2>1, <2>2 DEF mapif_parse_PartyLeave
    <2>6. ASSUME NEW w \in Views, id < n \/ w = Nil
          PROVE  Known(db, Put(left, id, w), {id}, n) /\ Put(left, id, w).party[id] = w
      <3>1. Known(db, Put(s, id, w), {id}, n)
        BY <2>6, PutKnown
      <3>2. PICK r : r = Put(s, id, w) /\ r \in States /\ Known(db, r, {id}, n)
        <4>1. IsPut(s, id, w, Put(s, id, w))
          BY <1>1, PutState
        <4>2. QED
          BY <3>1, <4>1 DEF IsPut
      <3>3. Known(db, ToAll(r, Maps, msg, r.unsure), {id}, n)
        BY <2>4, <3>2, AsideKnown
      <3>4. Put(left, id, w) = ToAll(r, Maps, msg, r.unsure)
        <4>1. PICK p, o, u : s = [party |-> p, out |-> o, unsure |-> u]
          BY <1>1, StateIs
        <4>2. PICK q : q = [m \in Maps |-> Append(o[m], msg)]
          OBVIOUS
        <4>3. left = [party |-> p, out |-> q, unsure |-> u]
          BY <2>2, <4>1, <4>2 DEF SendAll
        <4>4. Put(left, id, w) = [party |-> [p EXCEPT ![id] = w], out |-> q, unsure |-> u]
          BY <4>3 DEF Put
        <4>5. r = [party |-> [p EXCEPT ![id] = w], out |-> o, unsure |-> u]
          BY <3>2, <4>1 DEF Put
        <4>6. SendAll(r, msg) = [party |-> [p EXCEPT ![id] = w], out |-> q, unsure |-> u]
          <5>1. r.out = o
            BY <4>5
          <5>2. SendAll(r, msg) = [r EXCEPT !.out = q]
            BY <4>2, <5>1 DEF SendAll
          <5>3. [r EXCEPT !.out = q] = [party |-> [p EXCEPT ![id] = w], out |-> q, unsure |-> u]
            BY <4>5
          <5>4. QED
            BY <5>2, <5>3
        <4>7. SendAll(r, msg) = ToAll(r, Maps, msg, r.unsure)
          BY <3>2, ToAllIs
        <4>8. QED
          BY <4>4, <4>6, <4>7
      <3>5. ToAll(r, Maps, msg, r.unsure).party[id] = w
        <4>1. r.party[id] = w
          <5>1. IsPut(s, id, w, Put(s, id, w))
            BY <1>1, PutState
          <5>2. QED
            BY <3>2, <5>1 DEF IsPut
        <4>2. QED
          BY <4>1 DEF ToAll
      <3>6. QED
        BY <3>3, <3>4, <3>5
    <2>7. CASE party_check_empty(y)
      <3>1. PICK t : t = Put(left, id, Nil) /\ Known(db, t, {id}, n) /\ t.party[id] = Nil
        BY <2>6 DEF Views
      <3>2. Known(db, SendAll(t, [kind |-> "broken", party |-> id]), {}, n)
        BY <3>1, BrokenKnown
      <3>3. QED
        BY <2>5, <2>7, <3>1, <3>2
    <2>8. CASE ~party_check_empty(y)
      <3>1. PICK t : t = Put(left, id, y) /\ Known(db, t, {id}, n) /\ t.party[id] = y
        BY <2>1, <2>3, <2>6
      <3>2. Known(db, mapif_party_info(t, id), {}, n)
        BY <2>3, <3>1, PartyInfoKnown
      <3>3. QED
        BY <2>5, <2>8, <3>1, <3>2
    <2>9. QED
      BY <2>7, <2>8
  <1>4. QED
    BY <1>2, <1>3

LEMMA StateKnown ==
  ASSUME NEW n, Known(party_db, State, {}, n)
  PROVE  /\ State \in States /\ State.party = party /\ State.out = toMap /\ State.unsure = unsure
         /\ \A p \in Ids : party[p] # Nil => party[p] \in Party /\ p < n
  <1>1. State \in States /\ State.party = party /\ State.out = toMap /\ State.unsure = unsure
    BY DEF Known, State
  <1>2. QED
    BY <1>1, StateIs DEF Known

(* A place of a party is given a new value, and all map servers hear all of
   it, one of them after an answer. *)
LEMMA AddKnown ==
  ASSUME NEW n, Known(party_db, State, {}, n), NEW m \in Maps, NEW msg \in Request, msg.kind = "add"
  PROVE  Known(party_db, mapif_parse_PartyAddMember(m, msg), {}, n)
  <1>1. msg.party \in Ids /\ msg.nick \in Chars /\ msg.acc \in Accounts
    BY RequestIs
  <1>2. PICK id, free :
          /\ id = msg.party /\ id \in Ids
          /\ free = IF party[id] = Nil THEN {} ELSE {i \in Slots : party[id].member[i] = Vacant}
    BY <1>1
  <1>3. \A fail \in BOOLEAN : Added(msg, fail) \in Packet /\ Added(msg, fail).kind = "added"
    BY <1>1 DEF Added, Packet
  <1>4. CASE free = {}
    <2>1. Known(party_db, ToAll(State, {m}, Added(msg, TRUE), State.unsure), {}, n)
      BY <1>3, AsideKnown
    <2>2. Send(State, m, Added(msg, TRUE)) = ToAll(State, {m}, Added(msg, TRUE), State.unsure)
      BY StateKnown, ToAllIs
    <2>3. mapif_parse_PartyAddMember(m, msg) = Send(State, m, Added(msg, TRUE))
      BY <1>2, <1>4 DEF mapif_parse_PartyAddMember
    <2>4. QED
      BY <2>1, <2>2, <2>3
  <1>5. CASE free # {}
    <2>1. PICK x \in Party : x = party[id] /\ free \subseteq Slots /\ id < n
      BY <1>2, <1>5, StateKnown
    <2>2. PICK y : y = [x EXCEPT !.member[First(free)] =
                          [nick |-> msg.nick, leader |-> FALSE, online |-> TRUE]]
      OBVIOUS
    <2>3. y \in Party /\ y \in Views
      <3>1. [nick |-> msg.nick, leader |-> FALSE, online |-> TRUE] \in Member \cup {Vacant}
        BY <1>1 DEF Member
      <3>2. First(free) \in Slots
        BY <1>5, <2>1, FreeAre
      <3>3. QED
        BY <2>2, <3>1, <3>2, MemberPut, PartyIs
    <2>4. PICK r : r = Put(State, id, y) /\ r \in States /\ r.party[id] = y
      <3>1. IsPut(State, id, y, Put(State, id, y))
        BY <1>2, <2>3, StateKnown, PutState
      <3>2. QED
        BY <3>1 DEF IsPut
    <2>5. Known(party_db, r, {id}, n)
      <3>1. y \in Views /\ (id < n \/ y = Nil)
        BY <2>1, <2>3
      <3>2. Known(party_db, Put(State, id, y), {id}, n)
        BY <1>2, <3>1, PutKnown
      <3>3. QED
        BY <2>4, <3>2
    <2>6. PICK t : t = ToAll(r, {m}, Added(msg, FALSE), r.unsure) /\ t = Send(r, m, Added(msg, FALSE))
      BY <2>4, ToAllIs
    <2>7. Known(party_db, t, {id}, n) /\ t.party[id] = y
      <3>1. Known(party_db, ToAll(r, {m}, Added(msg, FALSE), r.unsure), {id}, n)
        BY <1>3, <2>5, AsideKnown
      <3>2. ToAll(r, {m}, Added(msg, FALSE), r.unsure).party = r.party
        BY DEF ToAll
      <3>3. QED
        BY <2>4, <2>6, <3>1, <3>2
    <2>8. PICK u : /\ u = mapif_party_info(t, id) /\ Known(party_db, u, {}, n)
                   /\ u.party[id] \in Party
      <3>1. t.party[id] \in Party
        BY <2>3, <2>7
      <3>2. /\ Known(party_db, mapif_party_info(t, id), {}, n)
            /\ mapif_party_info(t, id).party = t.party
        BY <1>2, <2>7, <3>1, PartyInfoKnown
      <3>3. QED
        BY <3>1, <3>2
    <2>9. mapif_parse_PartyAddMember(m, msg) = StopSharing(u, id)
      BY <1>2, <1>5, <2>1, <2>2, <2>4, <2>6, <2>8 DEF mapif_parse_PartyAddMember
    <2>10. Known(party_db, StopSharing(u, id), {}, n)
      BY <1>2, <2>8, StopSharingKnown
    <2>11. QED
      BY <2>9, <2>10
  <1>6. QED
    BY <1>4, <1>5

LEMMA ChangeOptionKnown ==
  ASSUME NEW n, Known(party_db, State, {}, n), NEW m \in Maps, NEW msg \in Request, msg.kind = "option"
  PROVE  Known(party_db, mapif_parse_PartyChangeOption(m, msg), {}, n)
  <1>1. msg.party \in Ids /\ msg.exp \in BOOLEAN /\ msg.item \in BOOLEAN
    BY RequestIs
  <1>2. PICK id \in Ids : id = msg.party
    BY <1>1
  <1>3. State \in States /\ State.unsure \in SUBSET Ids
    BY StateKnown, StateIs
  <1>4. CASE party[id] = Nil
    BY <1>2, <1>4 DEF mapif_parse_PartyChangeOption
  <1>5. CASE party[id] # Nil
    <2>1. PICK x \in Party : x = State.party[id] /\ x = party[id]
      BY <1>5, StateKnown
    <2>2. PICK p, q : p = [x EXCEPT !.exp = msg.exp, !.item = msg.item] /\ q = [p EXCEPT !.exp = FALSE]
      OBVIOUS
    <2>3. p \in Party /\ q \in Party /\ p.member = x.member /\ q.member = x.member
      <3>1. PICK l, e, o : /\ x = [member |-> l, exp |-> e, item |-> o]
                           /\ l \in [Slots -> Member \cup {Vacant}]
        BY PartyIs
      <3>2. p = [member |-> l, exp |-> msg.exp, item |-> msg.item]
        BY <2>2, <3>1
      <3>3. q = [member |-> l, exp |-> FALSE, item |-> msg.item]
        <4>1. q = [p EXCEPT !.exp = FALSE]
          BY <2>2
        <4>2. QED
          BY <3>2, <4>1
      <3>4. QED
        BY <1>1, <3>1, <3>2, <3>3 DEF Party
    <2>4. ASSUME NEW y \in Party
          PROVE  Put(State, id, y) \in States /\ Put(State, id, y).unsure = State.unsure
      <3>1. IsPut(State, id, y, Put(State, id, y))
        BY <1>3, PutState, PartyIs
      <3>2. QED
        BY <3>1 DEF IsPut
    <2>5. CASE msg.exp /\ ~party_check_exp_share(p)
      <3>1. PICK r, opt, v :
              r = Put(State, id, q) /\ opt = Option(id, q, TRUE) /\ v = State.unsure \cup {id}
        OBVIOUS
      <3>2. Known(party_db, ToAll(r, {m}, opt, v), {}, n)
        <4>1. v \in SUBSET Ids /\ v \ {id} = State.unsure \ {id} /\ id \in v
          BY <1>3, <3>1
        <4>2. Known(party_db, ToAll(Put(State, id, q), {m}, Option(id, q, TRUE), v), {}, n)
          <5>1. q.member = State.party[id].member /\ State.party[id] \in Party /\ q \in Party
            BY <2>1, <2>3
          <5>2. Known(party_db, State, {}, n)
            OBVIOUS
          <5>3. id \in Ids /\ TRUE \in BOOLEAN
            OBVIOUS
          <5>4. QED
            BY ONLY <4>1, <5>1, <5>2, <5>3, OptionKnown
        <4>3. QED
          BY <3>1, <4>2
      <3>3. /\ r \in States /\ r.unsure = State.unsure
            /\ [ToAll(r, {m}, opt, r.unsure) EXCEPT !.unsure = v] = ToAll(r, {m}, opt, v)
        <4>1. r \in States /\ r.unsure = State.unsure
          BY <2>3, <2>4, <3>1
        <4>2. [ToAll(r, {m}, opt, r.unsure) EXCEPT !.unsure = v] = ToAll(r, {m}, opt, v)
          BY ToAllUnsure
        <4>3. QED
          BY <4>1, <4>2
      <3>4. Send(r, m, opt) = ToAll(r, {m}, opt, r.unsure)
        BY <3>3, ToAllIs
      <3>5. mapif_parse_PartyChangeOption(m, msg) = [Send(r, m, opt) EXCEPT !.unsure = @ \cup {id}]
        BY <1>2, <1>5, <2>1, <2>2, <2>5, <3>1 DEF mapif_parse_PartyChangeOption
      <3>6. ToAll(r, {m}, opt, r.unsure).unsure = State.unsure
        BY <3>3 DEF ToAll
      <3>7. mapif_parse_PartyChangeOption(m, msg) = ToAll(r, {m}, opt, v)
        <4>1. PICK w, u : w = ToAll(r, {m}, opt, r.unsure) /\ u = State.unsure
          OBVIOUS
        <4>2. mapif_parse_PartyChangeOption(m, msg) = [w EXCEPT !.unsure = @ \cup {id}]
          BY <3>4, <3>5, <4>1
        <4>3. [w EXCEPT !.unsure = @ \cup {id}] = [w EXCEPT !.unsure = v]
          BY <3>1, <3>6, <4>1
        <4>4. [w EXCEPT !.unsure = v] = ToAll(r, {m}, opt, v)
          BY <3>3, <4>1
        <4>5. QED
          BY <4>2, <4>3, <4>4
      <3>8. QED
        BY <3>2, <3>7
    <2>6. CASE ~(msg.exp /\ ~party_check_exp_share(p))
      <3>1. PICK r, opt, v :
              r = Put(State, id, p) /\ opt = Option(id, p, FALSE) /\ v = State.unsure \ {id}
        OBVIOUS
      <3>2. Known(party_db, ToAll(r, Maps, opt, v), {}, n)
        <4>1. v \in SUBSET Ids /\ v \ {id} = State.unsure \ {id}
          BY <1>3, <3>1
        <4>2. Known(party_db, ToAll(Put(State, id, p), Maps, Option(id, p, FALSE), v), {}, n)
          BY <2>1, <2>3, <4>1, OptionKnown
        <4>3. QED
          BY <3>1, <4>2
      <3>3. /\ r \in States /\ r.unsure = State.unsure
            /\ [ToAll(r, Maps, opt, r.unsure) EXCEPT !.unsure = v] = ToAll(r, Maps, opt, v)
        <4>1. r \in States /\ r.unsure = State.unsure
          BY <2>3, <2>4, <3>1
        <4>2. [ToAll(r, Maps, opt, r.unsure) EXCEPT !.unsure = v] = ToAll(r, Maps, opt, v)
          BY ToAllUnsure
        <4>3. QED
          BY <4>1, <4>2
      <3>4. SendAll(r, opt) = ToAll(r, Maps, opt, r.unsure)
        BY <3>3, ToAllIs
      <3>5. mapif_parse_PartyChangeOption(m, msg) = [SendAll(r, opt) EXCEPT !.unsure = @ \ {id}]
        BY <1>2, <1>5, <2>1, <2>2, <2>6, <3>1 DEF mapif_parse_PartyChangeOption
      <3>6. ToAll(r, Maps, opt, r.unsure).unsure = State.unsure
        BY <3>3 DEF ToAll
      <3>7. mapif_parse_PartyChangeOption(m, msg) = ToAll(r, Maps, opt, v)
        <4>1. PICK w, u : w = ToAll(r, Maps, opt, r.unsure) /\ u = State.unsure
          OBVIOUS
        <4>2. mapif_parse_PartyChangeOption(m, msg) = [w EXCEPT !.unsure = @ \ {id}]
          BY <3>4, <3>5, <4>1
        <4>3. [w EXCEPT !.unsure = @ \ {id}] = [w EXCEPT !.unsure = v]
          BY <3>1, <3>6, <4>1
        <4>4. [w EXCEPT !.unsure = v] = ToAll(r, Maps, opt, v)
          BY <3>3, <4>1
        <4>5. QED
          BY <4>2, <4>3, <4>4
      <3>8. QED
        BY <3>2, <3>7
    <2>7. QED
      BY <2>5, <2>6
  <1>6. QED
    BY <1>4, <1>5

LEMMA ChangeMapKnown ==
  ASSUME NEW n, Known(party_db, State, {}, n), NEW m \in Maps, NEW msg \in Request, msg.kind = "move"
  PROVE  Known(party_db, mapif_parse_PartyChangeMap(m, msg), {}, n)
  <1>1. msg.party \in Ids /\ msg.acc \in Accounts /\ msg.online \in BOOLEAN
    BY RequestIs
  <1>2. PICK id, at : /\ id = msg.party /\ id \in Ids
                      /\ at = IF party[id] = Nil THEN {} ELSE PlacesOf(party[id], msg.acc)
    BY <1>1
  <1>3. State \in States
    BY StateKnown
  <1>4. CASE at = {}
    BY <1>2, <1>4 DEF mapif_parse_PartyChangeMap
  <1>5. CASE at # {}
    <2>1. PICK x \in Party : /\ x = State.party[id] /\ x = party[id] /\ id < n
                             /\ at = PlacesOf(x, msg.acc) /\ PlacesOf(x, msg.acc) # {}
      BY <1>2, <1>5, StateKnown
    <2>2. PICK y : y = [x EXCEPT !.member[First(PlacesOf(x, msg.acc))].online = msg.online]
      OBVIOUS
    <2>3. y \in Party /\ y \in Views
      <3>1. /\ First(PlacesOf(x, msg.acc)) \in Slots
            /\ x.member[First(PlacesOf(x, msg.acc))] \in Member
        BY <2>1, PlacesAre
      <3>2. [x EXCEPT !.member[First(PlacesOf(x, msg.acc))].online = msg.online] \in Party
        BY <1>1, <3>1, OnlinePut
      <3>3. QED
        BY <2>2, <3>2, PartyIs
    <2>4. PICK tell : tell = [kind |-> "moved", party |-> id, acc |-> msg.acc, online |-> msg.online]
      OBVIOUS
    <2>5. /\ tell \in Packet /\ tell.kind = "moved" /\ tell.party = id /\ tell.acc = msg.acc
          /\ tell.online = msg.online
      BY <1>1, <1>2, <2>4 DEF Packet
    <2>6. PICK r : r = Put(State, id, y) /\ IsPut(State, id, y, r) /\ Known(party_db, r, {id}, n)
      <3>1. IsPut(State, id, y, Put(State, id, y))
        BY <1>2, <1>3, <2>3, PutState
      <3>2. Known(party_db, Put(State, id, y), {id}, n)
        BY <1>2, <2>1, <2>3, PutKnown
      <3>3. QED
        BY <3>1, <3>2
    <2>7. r \in States /\ r.out = State.out /\ r.unsure = State.unsure /\ r.party[id] = y
      BY <2>6 DEF IsPut
    <2>8. /\ State.out \in [Maps -> Seq(Packet)] /\ r.unsure \in SUBSET Ids
      BY <1>3, <2>7, StateIs
    <2>9. PICK t : t = ToAll(r, Maps, tell, r.unsure)
      OBVIOUS
    <2>10. /\ t.party = r.party /\ t.unsure = r.unsure
           /\ \A k \in Maps : t.out[k] = Append(State.out[k], tell)
      BY <2>5, <2>7, <2>8, <2>9, ToAllState
    <2>11. ASSUME NEW k \in Maps
           PROVE  Heard(party_db, t, k, id)
      <3>1. PICK doubt : doubt = (id \in State.unsure)
        OBVIOUS
      <3>2. Ends(State.out[k], View(party_db[k][id]), id, Agreeing(x, doubt))
        BY <1>2, <2>1, <3>1 DEF Known, Heard
      <3>3. ASSUME NEW v \in Agreeing(x, doubt), NEW w \in Views, Reads(tell, id, v, w)
            PROVE  w \in Agreeing(y, doubt)
        <4>1. tell.online \in BOOLEAN /\ PlacesOf(x, tell.acc) # {}
          BY <1>1, <2>1, <2>5
        <4>2. w \in Agreeing([x EXCEPT !.member[First(PlacesOf(x, tell.acc))].online = tell.online], doubt)
          BY <2>5, <3>3, <4>1, MoveAgrees
        <4>3. QED
          BY <2>2, <2>5, <4>2
      <3>4. Ends(Append(State.out[k], tell), View(party_db[k][id]), id, Agreeing(y, doubt))
        BY <2>5, <2>8, <3>2, <3>3, EndsAppend
      <3>5. QED
        BY <2>7, <2>10, <3>1, <3>4 DEF Heard
    <2>12. Known(party_db, t, {}, n)
      BY <1>2, <2>5, <2>6, <2>8, <2>9, <2>11, TellKnown
    <2>13. Known(party_db, StopSharing(t, id), {}, n)
      <3>1. t.party[id] \in Party
        BY <2>3, <2>7, <2>10
      <3>2. QED
        BY <1>2, <2>12, <3>1, StopSharingKnown
    <2>14. SendAll(r, tell) = t
      BY <2>7, <2>9, ToAllIs
    <2>15. mapif_parse_PartyChangeMap(m, msg) = StopSharing(SendAll(r, tell), id)
      BY <1>2, <1>5, <2>1, <2>2, <2>4, <2>6 DEF mapif_parse_PartyChangeMap
    <2>16. QED
      BY <2>13, <2>14, <2>15
  <1>6. QED
    BY <1>4, <1>5

LEMMA RequestKnown ==
  ASSUME NEW n, Known(party_db, State, {}, n), NEW m \in Maps, NEW msg \in Request,
         msg.kind = "request"
  PROVE  Known(party_db, mapif_parse_PartyInfo(m, msg), {}, n)
  <1>1. PICK id : id = msg.party /\ id \in Ids
    BY RequestIs
  <1>2. State \in States /\ State.out \in [Maps -> Seq(Packet)] /\ State.unsure \in SUBSET Ids
    BY StateKnown, StateIs
  <1>3. CASE party[id] = Nil
    <2>1. PICK tell : tell = [kind |-> "noinfo", party |-> id]
      OBVIOUS
    <2>2. tell \in Packet /\ tell.kind = "noinfo" /\ tell.party = id
      BY <1>1, <2>1 DEF Packet
    <2>3. Known(party_db, ToAll(State, {m}, tell, State.unsure), {}, n)
      <3>1. State.party[id] = Nil /\ id \in Ids
        BY <1>1, <1>3, StateKnown
      <3>2. QED
        BY <2>2, <3>1, RefusedKnown
    <2>4. Send(State, m, tell) = ToAll(State, {m}, tell, State.unsure)
      BY <1>2, ToAllIs
    <2>5. mapif_parse_PartyInfo(m, msg) = Send(State, m, tell)
      BY <1>1, <1>3, <2>1 DEF mapif_parse_PartyInfo
    <2>6. QED
      BY <2>3, <2>4, <2>5
  <1>4. CASE party[id] # Nil
    <2>1. PICK x \in Party : x = State.party[id] /\ x = party[id]
      BY <1>1, <1>4, StateKnown
    <2>2. PICK tell \in Packet : /\ tell = Info(id, x) /\ tell.party = id /\ tell.kind = "info"
                                 /\ tell.info = x
      BY <1>1, InfoIs
    <2>3. PICK t : t = ToAll(State, {m}, tell, State.unsure)
      OBVIOUS
    <2>4. /\ t.party = State.party /\ t.unsure = State.unsure
          /\ \A k \in Maps : /\ k \in {m} => t.out[k] = Append(State.out[k], tell)
                             /\ k \notin {m} => t.out[k] = State.out[k]
      BY <1>2, <2>3, ToAllState
    <2>5. ASSUME NEW k \in Maps
          PROVE  Heard(party_db, t, k, id)
      <3>1. CASE k = m
        <4>1. x \in Agreeing(x, id \in State.unsure)
          BY <1>1, InfoIs
        <4>2. Ends(Append(State.out[k], tell), View(party_db[k][id]), id, Agreeing(x, id \in State.unsure))
          BY <1>2, <2>2, <4>1, EndsInfo
        <4>3. QED
          BY <2>1, <2>4, <3>1, <4>2 DEF Heard
      <3>2. CASE k # m
        BY <1>1, <2>4, <3>2 DEF Known, Heard
      <3>3. QED
        BY <3>1, <3>2
    <2>6. Known(party_db, State, {id}, n)
      BY DEF Known
    <2>7. Known(party_db, t, {}, n)
      BY <1>1, <1>2, <2>2, <2>3, <2>5, <2>6, TellKnown
    <2>8. mapif_parse_PartyInfo(m, msg) = Send(State, m, tell)
      BY <1>1, <1>4, <2>1, <2>2 DEF mapif_parse_PartyInfo
    <2>9. Send(State, m, tell) = t
      BY <1>2, <2>3, ToAllIs
    <2>10. QED
      BY <2>7, <2>8, <2>9
  <1>5. QED
    BY <1>3, <1>4

(* Every place of every party is looked at, and no other. *)
LEMMA PlacesIn ==
  ASSUME NEW i \in 1 .. MaxParty * MAX_PARTY
  PROVE  Places[i][1] \in Ids
  <1>1. PICK d \in Nat \ {0}, M \in Nat : d = MAX_PARTY /\ M = MaxParty
    BY PartyAssumption
  <1>2. PICK k \in Nat : i = k + 1 /\ i - 1 = k /\ k < M * d
    <2>1. PICK e \in Nat : e = M * d
      BY <1>1
    <2>2. i \in 1 .. e
      BY <1>1, <2>1
    <2>3. i - 1 \in Nat /\ i = (i - 1) + 1 /\ i - 1 < e
      BY <2>1, <2>2
    <2>4. QED
      BY <2>1, <2>3
  <1>3. PICK q \in Int : q = k \div d /\ d * q <= k
    <2>1. k \div d \in Int /\ k % d \in 0 .. d - 1 /\ k = d * (k \div d) + (k % d)
      OBVIOUS
    <2>2. d * (k \div d) <= k
      BY <2>1
    <2>3. QED
      BY <2>1, <2>2
  <1>4. q < M
    <2>1. SUFFICES ASSUME ~(q < M) PROVE FALSE
      OBVIOUS
    <2>2. PICK x \in Nat : q = M + x
      <3>1. q - M \in Nat /\ q = M + (q - M)
        BY <2>1
      <3>2. QED
        BY <3>1
    <2>3. d * q = d * M + d * x /\ d * x \in Nat /\ d * M = M * d
      BY <2>2
    <2>4. QED
      BY <1>2, <1>3, <2>3
  <1>5. q \in Nat
    <2>1. k \div d \in Nat
      <3>1. k \div d \in Int /\ k % d \in 0 .. d - 1 /\ k = d * (k \div d) + (k % d)
        OBVIOUS
      <3>2. QED
        BY <3>1
    <2>2. QED
      BY <1>3, <2>1
  <1>6. 1 + q \in 1 .. M
    BY <1>4, <1>5
  <1>7. Places[i] = <<1 + (k \div d), 1 + (k % d)>>
    BY <1>1, <1>2 DEF Places
  <1>8. QED
    BY <1>1, <1>3, <1>6, <1>7 DEF Ids

LEMMA ConflictKnown ==
  ASSUME NEW n, NEW s, Known(party_db, s, {}, n), NEW msg \in Request, msg.kind = "check",
         NEW at, at[1] \in Ids
  PROVE  Known(party_db, Conflict(s, at, msg), {}, n)
  <1>1. AccountOf[msg.nick] \in Accounts
    BY RequestIs, PartyAssumption
  <1>2. Known(party_db, mapif_parse_PartyLeave(s, at[1], AccountOf[msg.nick]), {}, n)
    BY <1>1, LeaveKnown
  <1>3. QED
    BY <1>2 DEF Conflict

(* The loop of party_check_conflict, as far as place N. *)
Leaving(msg, N, after) ==
  after = [i \in 0 .. N |-> IF i = 0 THEN State ELSE Conflict(after[i - 1], Places[i], msg)]

LEMMA LeavingExists ==
  ASSUME NEW msg, NEW N \in Nat
  PROVE  \E after : Leaving(msg, N, after)
  <1> DEFINE T == {k \in Nat : \E after : Leaving(msg, k, after)}
  <1>1. 0 \in T
    <2> DEFINE g == [i \in 0 .. 0 |-> State]
    <2>1. \A i \in 0 .. 0 : i = 0
      OBVIOUS
    <2>2. Leaving(msg, 0, g)
      BY <2>1 DEF Leaving
    <2>3. QED
      BY <2>2
  <1>2. ASSUME NEW k \in T PROVE k + 1 \in T
    <2>1. PICK g : Leaving(msg, k, g)
      OBVIOUS
    <2>2. k \in Nat
      OBVIOUS
    <2> DEFINE h == [i \in 0 .. k + 1 |-> IF i = 0 THEN State ELSE Conflict(g[i - 1], Places[i], msg)]
    <2>3. ASSUME NEW i \in 0 .. k
          PROVE  h[i] = g[i]
      <3>1. g[i] = IF i = 0 THEN State ELSE Conflict(g[i - 1], Places[i], msg)
        BY <2>1 DEF Leaving
      <3>2. i \in 0 .. k + 1
        BY <2>2
      <3>3. QED
        BY <3>1, <3>2
    <2>4. \A i \in 0 .. k + 1 : i # 0 => i - 1 \in 0 .. k
      BY <2>2
    <2>5. h = [i \in 0 .. k + 1 |-> IF i = 0 THEN State ELSE Conflict(h[i - 1], Places[i], msg)]
      BY <2>3, <2>4
    <2>6. Leaving(msg, k + 1, h)
      BY <2>5 DEF Leaving
    <2>7. QED
      BY <2>2, <2>6
  <1> HIDE DEF T
  <1>3. T = Nat
    <2>1. T \in SUBSET Nat
      BY DEF T
    <2>2. QED
      BY <1>1, <1>2, <2>1, NatSets
  <1>4. QED
    BY <1>3 DEF T

LEMMA CheckKnown ==
  ASSUME NEW n, Known(party_db, State, {}, n), NEW m \in Maps, NEW msg \in Request, msg.kind = "check"
  PROVE  Known(party_db, party_check_conflict(m, msg), {}, n)
  <1>1. PICK N \in Nat : N = MaxParty * MAX_PARTY
    BY PartyAssumption
  <1>2. PICK a : a = CHOOSE after : Leaving(msg, N, after)
    OBVIOUS
  <1>3. party_check_conflict(m, msg) = a[N]
    BY <1>1, <1>2 DEF party_check_conflict, Leaving
  <1>4. Leaving(msg, N, a)
    BY <1>2, LeavingExists
  <1> DEFINE T == {k \in Nat : k <= N => Known(party_db, a[k], {}, n)}
  <1>5. 0 \in T
    <2>1. a[0] = State
      BY <1>4 DEF Leaving
    <2>2. QED
      BY <2>1
  <1>6. ASSUME NEW k \in T, k + 1 <= N
        PROVE  Known(party_db, a[k + 1], {}, n)
    <2>1. k \in Nat /\ k + 1 \in 0 .. N /\ k + 1 # 0 /\ (k + 1) - 1 = k /\ k <= N /\ k + 1 \in 1 .. N
      BY <1>6
    <2>2. a[k + 1] = Conflict(a[k], Places[k + 1], msg)
      BY <1>4, <2>1 DEF Leaving
    <2>3. Places[k + 1][1] \in Ids
      BY <1>1, <2>1, PlacesIn
    <2>4. Known(party_db, a[k], {}, n)
      BY <2>1
    <2>5. QED
      BY <2>2, <2>3, <2>4, ConflictKnown
  <1>7. T = Nat
    <2>1. T \in SUBSET Nat /\ \A k \in T : k + 1 \in Nat
      OBVIOUS
    <2>2. \A k \in T : k + 1 \in T
      BY <1>6, <2>1
    <2> HIDE DEF T
    <2>3. QED
      BY <1>5, <2>1, <2>2, NatSets
  <1>8. QED
    BY <1>3, <1>7

(* All of Answer. *)
LEMMA AnswerKnown ==
  ASSUME NEW n, Known(party_db, State, {}, n), NEW m \in Maps, NEW msg \in Request,
         msg.kind \notin {"create", "save"}
  PROVE  Known(party_db, Answer(m, msg), {}, n)
  <1>1. /\ msg.kind \in {"request", "add", "option", "leave", "move", "check"} /\ msg.party \in Ids
        /\ msg.kind = "leave" => msg.acc \in Accounts
    BY RequestIs
  <1>2. Known(party_db, mapif_parse_PartyLeave(State, msg.party, msg.acc), {}, n)
        \/ msg.kind # "leave"
    BY <1>1, LeaveKnown
  <1>3. CASE msg.kind = "request"
    BY <1>3, RequestKnown DEF Answer
  <1>4. CASE msg.kind = "add"
    BY <1>4, AddKnown DEF Answer
  <1>5. CASE msg.kind = "option"
    BY <1>5, ChangeOptionKnown DEF Answer
  <1>6. CASE msg.kind = "leave"
    BY <1>2, <1>6 DEF Answer
  <1>7. CASE msg.kind = "move"
    BY <1>7, ChangeMapKnown DEF Answer
  <1>8. CASE msg.kind = "check"
    BY <1>8, CheckKnown DEF Answer
  <1>9. QED
    BY <1>1, <1>3, <1>4, <1>5, <1>6, <1>7, <1>8

NextState == [party |-> party', out |-> toMap', unsure |-> unsure']

(* A new party is known to the server that asked; no other has heard of one
   with its id. *)
LEMMA CreateKnown ==
  ASSUME Known(party_db, State, {}, party_newid), party_newid \in 1 .. MaxParty + 1,
         NEW m \in Maps, NEW msg \in Request, mapif_parse_CreateParty(m, msg)
  PROVE  Known(party_db, NextState, {}, party_newid')
  <1>1. msg.kind = "create" /\ msg.nick \in Chars /\ msg.acc \in Accounts
    BY RequestIs DEF mapif_parse_CreateParty
  <1>2. /\ State \in States /\ State.party = party /\ State.out = toMap /\ State.unsure = unsure
        /\ toMap \in [Maps -> Seq(Packet)] /\ unsure \in SUBSET Ids
    BY StateKnown, StateIs
  <1>3. ASSUME party' = party, party_newid' = party_newid, unsure' = unsure,
               toMap' = Send(State, m, [kind |-> "created", acc |-> msg.acc, nick |-> msg.nick,
                                        party |-> 0]).out
        PROVE  Known(party_db, NextState, {}, party_newid')
    <2>1. PICK tell : tell = [kind |-> "created", acc |-> msg.acc, nick |-> msg.nick, party |-> 0]
      OBVIOUS
    <2>2. tell \in Packet /\ tell.party = 0 /\ tell.kind # "noinfo"
      BY <1>1, <2>1 DEF Packet
    <2>3. PICK t : t = ToAll(State, {m}, tell, State.unsure) /\ t = Send(State, m, tell)
      BY <1>2, ToAllIs
    <2>4. Known(party_db, t, {}, party_newid)
      BY <2>2, <2>3, AsideKnown
    <2>5. t \in States /\ t.party = party /\ t.unsure = unsure
      <3>1. State.unsure \in SUBSET Ids /\ t = ToAll(State, {m}, tell, State.unsure)
        BY <1>2, <2>3
      <3>2. t \in States /\ t.party = State.party /\ t.unsure = State.unsure
        BY ONLY <1>2, <2>2, <3>1, ToAllState
      <3>3. QED
        BY <1>2, <3>2
    <2>6. NextState = t
      BY <1>3, <2>1, <2>3, <2>5, StateIs DEF NextState
    <2>7. QED
      BY <1>3, <2>4, <2>6
  <1>4. PICK id, n, x, y :
          /\ id = party_newid /\ n = party_newid + 1
          /\ x = [nick |-> msg.nick, leader |-> TRUE, online |-> TRUE]
          /\ y = [Newborn EXCEPT !.member[1] = x]
    OBVIOUS
  <1>5. ASSUME id \in Ids, party_newid' = n, unsure' = unsure,
               LET s == Send(Put(State, id, y), m, [kind |-> "created", acc |-> msg.acc,
                                                    nick |-> msg.nick, party |-> id])
               IN party' = s.party /\ toMap' = Send(s, m, Info(id, y)).out
        PROVE  Known(party_db, NextState, {}, party_newid')
    <2>1. id \in Nat /\ n = id + 1 /\ id < n /\ party[id] = Nil
      <3>1. id \in Nat
        BY <1>5, IdsAre
      <3>2. ~(id < id)
        BY <3>1
      <3>3. party[id] = Nil
        BY <1>4, <1>5, <3>2, StateKnown
      <3>4. QED
        BY <1>4, <3>1, <3>3
    <2>2. Known(party_db, State, {}, n)
      <3>1. \A p \in Ids : p < id => p < n
        BY <2>1, IdsAre
      <3>2. QED
        BY <1>4, <3>1 DEF Known
    <2>3. y \in Party /\ y \in Views /\ y # Nil
      <3>1. Newborn \in Party
        BY DEF Newborn, NoOne, Party
      <3>2. 1 \in Slots /\ x \in Member \cup {Vacant}
        BY <1>1, <1>4, IdsAre DEF Slots, Member
      <3>3. QED
        BY <1>4, <3>1, <3>2, MemberPut, PartyIs
    <2>4. PICK r : r = Put(State, id, y) /\ IsPut(State, id, y, r) /\ Known(party_db, r, {id}, n)
      <3>1. IsPut(State, id, y, Put(State, id, y))
        BY <1>2, <1>5, <2>3, PutState
      <3>2. Known(party_db, Put(State, id, y), {id}, n)
        BY <1>5, <2>1, <2>2, <2>3, PutKnown
      <3>3. QED
        BY <3>1, <3>2
    <2>5. PICK tell : tell = [kind |-> "created", acc |-> msg.acc, nick |-> msg.nick, party |-> id]
      OBVIOUS
    <2>6. tell \in Packet /\ tell.party = id /\ tell.kind # "noinfo"
      BY <1>1, <1>5, <2>5 DEF Packet
    <2>7. r \in States /\ r.out = toMap /\ r.unsure = unsure /\ r.party[id] = y
      BY <1>2, <2>4 DEF IsPut
    <2>8. PICK s : s = ToAll(r, {m}, tell, r.unsure) /\ s = Send(r, m, tell)
      BY <2>7, ToAllIs
    <2>9. Known(party_db, s, {id}, n)
      BY <2>4, <2>6, <2>8, AsideKnown
    <2>10. /\ s \in States /\ s.party = r.party /\ s.unsure = unsure
           /\ \A k \in Maps : /\ k \in {m} => s.out[k] = Append(r.out[k], tell)
                              /\ k \notin {m} => s.out[k] = r.out[k]
      <3>1. r \in States /\ r.unsure \in SUBSET Ids /\ s = ToAll(r, {m}, tell, r.unsure)
        BY <1>2, <2>7, <2>8
      <3>2. /\ s \in States /\ s.party = r.party /\ s.unsure = r.unsure
            /\ \A k \in Maps : /\ k \in {m} => s.out[k] = Append(r.out[k], tell)
                               /\ k \notin {m} => s.out[k] = r.out[k]
        BY ONLY <2>6, <3>1, ToAllState
      <3>3. QED
        BY <2>7, <3>2
    <2>11. PICK info \in Packet : /\ info = Info(id, y) /\ info.party = id /\ info.kind = "info"
                                  /\ info.info = y
      BY <1>5, <2>3, InfoIs
    <2>12. PICK t : t = ToAll(s, {m}, info, s.unsure) /\ t = Send(s, m, info)
      BY <2>10, ToAllIs
    <2>13. /\ t \in States /\ t.party = s.party /\ t.unsure = unsure
           /\ \A k \in Maps : /\ k \in {m} => t.out[k] = Append(s.out[k], info)
                              /\ k \notin {m} => t.out[k] = s.out[k]
      <3>1. /\ s \in States /\ s.unsure \in SUBSET Ids /\ info \in Packet
            /\ t = ToAll(s, {m}, info, s.unsure)
        BY <1>2, <2>10, <2>12
      <3>2. /\ t \in States /\ t.party = s.party /\ t.unsure = s.unsure
            /\ \A k \in Maps : /\ k \in {m} => t.out[k] = Append(s.out[k], info)
                               /\ k \notin {m} => t.out[k] = s.out[k]
        BY ONLY <3>1, ToAllState
      <3>3. QED
        BY <2>10, <3>2
    <2>14. ASSUME NEW k \in Maps
           PROVE  Heard(party_db, t, k, id)
      <3>1. CASE k = m
        <4>1. y \in Agreeing(y, id \in unsure)
          BY <1>5, <2>3, InfoIs
        <4>2. s.out[k] \in Seq(Packet)
          BY <2>10, StateIs
        <4>3. Ends(Append(s.out[k], info), View(party_db[k][id]), id, Agreeing(y, id \in unsure))
          BY <2>11, <4>1, <4>2, EndsInfo
        <4>4. QED
          BY <2>7, <2>10, <2>13, <3>1, <4>3 DEF Heard
      <3>2. CASE k # m
        <4>1. Ends(toMap[k], View(party_db[k][id]), id, Agreeing(Nil, id \in unsure))
          BY <1>2, <1>5, <2>1 DEF Known, Heard
        <4>2. Agreeing(Nil, id \in unsure) \cap Views \subseteq Agreeing(y, id \in unsure)
          BY DEF Agreeing
        <4>3. Len(toMap[k]) \in Nat
          BY <1>2
        <4>4. Ends(toMap[k], View(party_db[k][id]), id, Agreeing(y, id \in unsure))
          BY <4>1, <4>2, <4>3, EndsMore
        <4>5. t.out[k] = toMap[k]
          BY <2>7, <2>10, <2>13, <3>2
        <4>6. QED
          BY <2>7, <2>10, <2>13, <4>4, <4>5 DEF Heard
      <3>3. QED
        BY <3>1, <3>2
    <2>15. Known(party_db, t, {}, n)
      <3>1. s.unsure \in SUBSET Ids
        BY <1>2, <2>10
      <3>2. id \in Ids /\ info.party = id /\ info.kind # "noinfo"
        BY <1>5, <2>11
      <3>3. \A k \in Maps : Heard(party_db, ToAll(s, {m}, info, s.unsure), k, id)
        BY <2>12, <2>14
      <3>4. Known(party_db, ToAll(s, {m}, info, s.unsure), {}, n)
        BY ONLY <2>9, <2>11, <3>1, <3>2, <3>3, TellKnown
      <3>5. QED
        BY <2>12, <3>4
    <2>16. NextState = t
      <3>1. party' = t.party /\ toMap' = t.out /\ unsure' = t.unsure
        BY <1>5, <2>4, <2>5, <2>8, <2>11, <2>12, <2>13
      <3>2. QED
        BY <2>13, <3>1, StateIs DEF NextState
    <2>17. QED
      BY <1>5, <2>15, <2>16
  <1>6. QED
    BY <1>3, <1>4, <1>5 DEF mapif_parse_CreateParty

(***************************************************************************)
(* The map servers: what types their state has, and that they read packets *)
(* as Reads says.                                                          *)
(***************************************************************************)
Kept     == PartyCopy \cup {Nil}
Fits(x, a) == x \in Session \cup {Nil} /\ (x # Nil => AccountOf[x.nick] = a)
Whose(x, a) == x \in Session /\ AccountOf[x.nick] = a
Sessions == {f \in [Accounts -> Session \cup {Nil}] : \A a \in Accounts : Fits(f[a], a)}

MapTypes ==
  /\ party_db \in [Maps -> [Ids -> Kept]] /\ session \in [Maps -> Sessions]
  /\ char_dat \in [Chars -> Ids \cup {0}] /\ torn \in SUBSET Chars
  /\ acts \in 0 .. MaxActs /\ party_newid \in 1 .. MaxParty + 1
  /\ toChar \in [Maps -> Seq(Request)]

(* No pointer of a copy c leads to a session that f has not: not one that is
   said to be live. *)
AliveAt(c, f) ==
  \A i \in Slots : c # Nil /\ c.sd[i] = "live" =>
    \A a \in Accounts : Of(a, c.member[i]) => f[a] # Nil
LivePointers == \A m \in Maps, p \in Ids : AliveAt(party_db[m][p], session[m])

CopiesInv == MapTypes /\ LivePointers /\ Known(party_db, State, {}, party_newid)

LEMMA CopyIs ==
  ASSUME NEW x, x.member \in [Slots -> Member \cup {Vacant}], x.exp \in BOOLEAN, x.item \in BOOLEAN,
         NEW sd \in [Slots -> {"none", "live", "dangling"}]
  PROVE  /\ Copy(x, sd) \in PartyCopy /\ Copy(x, sd) \in Kept
         /\ View(Copy(x, sd)) = [member |-> x.member, exp |-> x.exp, item |-> x.item]
  <1>1. PICK c : c = Copy(x, sd)
    OBVIOUS
  <1>2. c = [member |-> x.member, exp |-> x.exp, item |-> x.item, sd |-> sd]
    BY <1>1 DEF Copy
  <1>3. c \in PartyCopy
    BY <1>2 DEF PartyCopy
  <1>4. c # Nil
    BY <1>3, NilAssumption
  <1>5. View(c) = [member |-> x.member, exp |-> x.exp, item |-> x.item]
    BY <1>2, <1>4 DEF View
  <1>6. QED
    BY <1>1, <1>3, <1>5 DEF Kept

LEMMA ViewIs ==
  ASSUME NEW c \in Kept
  PROVE  /\ View(c) \in Views
         /\ c = Nil <=> View(c) = Nil
         /\ c # Nil => /\ c \in PartyCopy
                       /\ c = [member |-> c.member, exp |-> c.exp, item |-> c.item, sd |-> c.sd]
                       /\ c.member \in [Slots -> Member \cup {Vacant}]
                       /\ c.exp \in BOOLEAN /\ c.item \in BOOLEAN
                       /\ c.sd \in [Slots -> {"none", "live", "dangling"}]
                       /\ View(c) = [member |-> c.member, exp |-> c.exp, item |-> c.item]
                       /\ View(c) \in Party
  <1>1. CASE c = Nil
    BY <1>1 DEF View, Views
  <1>2. CASE c # Nil
    <2>1. /\ c \in PartyCopy
          /\ c = [member |-> c.member, exp |-> c.exp, item |-> c.item, sd |-> c.sd]
          /\ c.member \in [Slots -> Member \cup {Vacant}] /\ c.exp \in BOOLEAN /\ c.item \in BOOLEAN
          /\ c.sd \in [Slots -> {"none", "live", "dangling"}]
      BY <1>2 DEF Kept, PartyCopy
    <2>2. View(c) = [member |-> c.member, exp |-> c.exp, item |-> c.item]
      BY <1>2 DEF View
    <2>3. View(c) \in Party
      BY <2>1, <2>2 DEF Party
    <2>4. QED
      BY <1>2, <2>1, <2>2, <2>3, PartyIs
  <1>3. QED
    BY <1>1, <1>2

LEMMA SessionPut ==
  ASSUME NEW x \in Session, NEW a, AccountOf[x.nick] = a, NEW p \in Ids \cup {0}, NEW q \in Ids \cup {0},
         NEW k \in BOOLEAN
  PROVE  /\ x.nick \in Chars /\ x.party_id \in Ids \cup {0} /\ x.invite \in Ids \cup {0}
         /\ Whose([x EXCEPT !.party_id = p], a)
         /\ Whose([x EXCEPT !.invite = p], a)
         /\ Whose([x EXCEPT !.asked = TRUE], a)
         /\ Whose([x EXCEPT !.sended = k], a)
         /\ Whose([x EXCEPT !.asked = FALSE, !.party_id = p], a)
         /\ Whose([x EXCEPT !.party_id = p, !.sended = FALSE], a)
         /\ Whose([x EXCEPT !.invite = p, !.asked = FALSE], a)
         /\ Whose([x EXCEPT !.invite = p, !.asked = FALSE, !.sended = FALSE, !.party_id = q], a)
         /\ [x EXCEPT !.party_id = p].party_id = p /\ [x EXCEPT !.party_id = p].nick = x.nick
  <1>1. Whose([x EXCEPT !.party_id = p], a)
    BY DEF Whose, Session
  <1>2. Whose([x EXCEPT !.invite = p], a)
    BY DEF Whose, Session
  <1>3. Whose([x EXCEPT !.asked = TRUE], a)
    BY DEF Whose, Session
  <1>4. Whose([x EXCEPT !.sended = k], a)
    BY DEF Whose, Session
  <1>5. Whose([x EXCEPT !.asked = FALSE, !.party_id = p], a)
    BY DEF Whose, Session
  <1>6. Whose([x EXCEPT !.party_id = p, !.sended = FALSE], a)
    BY DEF Whose, Session
  <1>7. Whose([x EXCEPT !.invite = p, !.asked = FALSE], a)
    BY DEF Whose, Session
  <1>8. Whose([x EXCEPT !.invite = p, !.asked = FALSE, !.sended = FALSE, !.party_id = q], a)
    BY DEF Whose, Session
  <1>9. [x EXCEPT !.party_id = p].party_id = p /\ [x EXCEPT !.party_id = p].nick = x.nick
    BY DEF Session
  <1>10. QED
    BY <1>1, <1>2, <1>3, <1>4, <1>5, <1>6, <1>7, <1>8, <1>9 DEF Session

LEMMA WhoseFits ==
  ASSUME NEW x, NEW a, Whose(x, a)
  PROVE  Fits(x, a) /\ x # Nil
  BY NilAssumption DEF Whose, Fits

LEMMA SessionsAre ==
  ASSUME NEW f \in Sessions, NEW a \in Accounts, f[a] # Nil
  PROVE  f[a] \in Session /\ AccountOf[f[a].nick] = a
  BY DEF Sessions, Fits

LEMMA OneSession ==
  ASSUME NEW f \in Sessions, NEW a \in Accounts, NEW x, Fits(x, a)
  PROVE  [f EXCEPT ![a] = x] \in Sessions
  <1>1. f \in [Accounts -> Session \cup {Nil}] /\ x \in Session \cup {Nil}
    BY DEF Sessions, Fits
  <1>2. PICK g : g = [f EXCEPT ![a] = x]
    OBVIOUS
  <1>3. g \in [Accounts -> Session \cup {Nil}]
    BY <1>1, <1>2
  <1>4. \A b \in Accounts : g[b] = IF b = a THEN x ELSE f[b]
    BY <1>1, <1>2
  <1>5. \A b \in Accounts : Fits(g[b], b)
    BY <1>4 DEF Sessions
  <1>6. QED
    BY <1>2, <1>3, <1>5 DEF Sessions

(* The char server reads a packet. *)
LEMMA FromMapStep ==
  ASSUME CopiesInv, NEW m \in Maps, FromMap(m)
  PROVE  CopiesInv'
  <1>1. /\ MapTypes /\ LivePointers /\ Known(party_db, State, {}, party_newid)
        /\ UNCHANGED <<party_db, session, acts, torn>>
    BY DEF CopiesInv, FromMap, server
  <1>2. PICK msg : msg = Head(toChar[m])
    OBVIOUS
  <1>3. msg \in Request /\ toChar' \in [Maps -> Seq(Request)]
    <2>1. toChar[m] \in Seq(Request) /\ toChar[m] # <<>> /\ toChar \in [Maps -> Seq(Request)]
      BY <1>1 DEF MapTypes, FromMap
    <2>2. msg \in Request /\ Tail(toChar[m]) \in Seq(Request)
      BY <1>2, <2>1, HeadTailProperties
    <2>3. toChar' = [toChar EXCEPT ![m] = Tail(toChar[m])]
      BY DEF FromMap
    <2>4. QED
      BY <2>1, <2>2, <2>3
  <1>4. /\ State \in States /\ State.party = party /\ State.out = toMap /\ State.unsure = unsure
        /\ State = [party |-> party, out |-> toMap, unsure |-> unsure]
    BY <1>1, StateKnown DEF State
  <1>5. /\ Known(party_db, NextState, {}, party_newid')
        /\ party_newid' \in 1 .. MaxParty + 1 /\ char_dat' \in [Chars -> Ids \cup {0}]
    <2>1. CASE mapif_parse_CreateParty(m, msg) /\ UNCHANGED char_dat
      <3>1. Known(party_db, NextState, {}, party_newid')
        BY <1>1, <1>3, <2>1, CreateKnown DEF MapTypes
      <3>2. party_newid' = party_newid \/ (party_newid \in Ids /\ party_newid' = party_newid + 1)
        BY <2>1 DEF mapif_parse_CreateParty
      <3>3. party_newid' \in 1 .. MaxParty + 1
        BY <1>1, <3>2, PartyAssumption DEF MapTypes, Ids
      <3>4. QED
        BY <1>1, <2>1, <3>1, <3>3 DEF MapTypes
    <2>2. CASE /\ msg.kind = "save"
               /\ char_dat' = [char_dat EXCEPT ![msg.nick] = msg.party]
               /\ UNCHANGED <<party, party_newid, toMap, unsure>>
      <3>1. NextState = State
        BY <1>4, <2>2 DEF NextState
      <3>2. msg.party \in Ids \cup {0}
        BY <1>3, <2>2, RequestIs
      <3>3. QED
        BY <1>1, <2>2, <3>1, <3>2 DEF MapTypes
    <2>3. CASE /\ msg.kind \notin {"create", "save"}
               /\ LET s == Answer(m, msg)
                  IN party' = s.party /\ toMap' = s.out /\ unsure' = s.unsure
               /\ UNCHANGED <<char_dat, party_newid>>
      <3>1. PICK s : s = Answer(m, msg)
        OBVIOUS
      <3>2. Known(party_db, s, {}, party_newid)
        BY <1>1, <1>3, <2>3, <3>1, AnswerKnown
      <3>3. s \in States
        BY <3>2 DEF Known
      <3>4. NextState = s
        BY <2>3, <3>1, <3>3, StateIs DEF NextState
      <3>5. QED
        BY <1>1, <2>3, <3>2, <3>4 DEF MapTypes
    <2>4. QED
      BY <1>2, <2>1, <2>2, <2>3 DEF FromMap
  <1>6. MapTypes' /\ LivePointers'
    BY <1>1, <1>3, <1>5 DEF MapTypes, LivePointers
  <1>7. Known(party_db', State', {}, party_newid')
    BY <1>1, <1>5 DEF State, NextState
  <1>8. QED
    BY <1>6, <1>7 DEF CopiesInv

(* What map server m does with a packet, about all parties. *)
ReadBy(m, msg) ==
  /\ party_db' \in [Maps -> [Ids -> Kept]]
  /\ \A k \in Maps : k # m => party_db'[k] = party_db[k]
  /\ \A p \in Ids : /\ Reads(msg, p, View(party_db[m][p]), View(party_db'[m][p]))
                    /\ AliveAt(party_db[m][p], session[m]) => AliveAt(party_db'[m][p], session'[m])

(* Sessions are changed on map server m, and none is freed. *)
Stays(m) ==
  /\ \A k \in Maps : k # m => session'[k] = session[k]
  /\ \A a \in Accounts : session[m][a] # Nil => session'[m][a] # Nil

LEMMA ReadOne ==
  ASSUME MapTypes, NEW m \in Maps, NEW msg, NEW id \in Ids, msg.party = id, NEW c \in Kept,
         party_db' = [party_db EXCEPT ![m][id] = c], Stays(m),
         Reads(msg, id, View(party_db[m][id]), View(c)),
         AliveAt(party_db[m][id], session[m]) => AliveAt(c, session'[m])
  PROVE  ReadBy(m, msg)
  <1>1. party_db \in [Maps -> [Ids -> Kept]]
    BY DEF MapTypes
  <1>2. PICK f \in [Ids -> Kept] : f = party_db[m]
    BY <1>1
  <1>3. PICK g : g = [f EXCEPT ![id] = c]
    OBVIOUS
  <1>4. g \in [Ids -> Kept] /\ g[id] = c /\ \A p \in Ids : p # id => g[p] = f[p]
    BY <1>2, <1>3
  <1>5. party_db' = [party_db EXCEPT ![m] = g]
    BY <1>1, <1>2, <1>3
  <1>6. /\ party_db' \in [Maps -> [Ids -> Kept]] /\ party_db'[m] = g
        /\ \A k \in Maps : k # m => party_db'[k] = party_db[k]
    BY <1>1, <1>4, <1>5
  <1>7. \A p \in Ids :
          /\ Reads(msg, p, View(party_db[m][p]), View(party_db'[m][p]))
          /\ AliveAt(party_db[m][p], session[m]) => AliveAt(party_db'[m][p], session'[m])
    <2>1. ASSUME NEW p \in Ids, p # id
          PROVE  /\ Reads(msg, p, View(party_db[m][p]), View(party_db'[m][p]))
                 /\ AliveAt(party_db[m][p], session[m]) => AliveAt(party_db'[m][p], session'[m])
      <3>1. party_db'[m][p] = party_db[m][p]
        BY <1>2, <1>4, <1>6, <2>1
      <3>2. Reads(msg, p, View(party_db[m][p]), View(party_db'[m][p]))
        BY <2>1, <3>1 DEF Reads
      <3>3. AliveAt(party_db[m][p], session[m]) => AliveAt(party_db[m][p], session'[m])
        BY DEF AliveAt, Stays
      <3>4. QED
        BY <3>1, <3>2, <3>3
    <2>2. QED
      BY <1>4, <1>6, <2>1
  <1>8. QED
    BY <1>6, <1>7 DEF ReadBy

LEMMA ReadNone ==
  ASSUME MapTypes, NEW m \in Maps, NEW msg, UNCHANGED party_db, Stays(m),
         \A p \in Ids : Reads(msg, p, View(party_db[m][p]), View(party_db[m][p]))
  PROVE  ReadBy(m, msg)
  <1>1. \A p \in Ids : AliveAt(party_db[m][p], session[m]) => AliveAt(party_db[m][p], session'[m])
    BY DEF AliveAt, Stays
  <1>2. QED
    BY <1>1 DEF MapTypes, ReadBy

(* Sessions of one map server change. *)
LEMMA SessionsPut ==
  ASSUME MapTypes, NEW m \in Maps, NEW f \in Sessions, session' = [session EXCEPT ![m] = f],
         \A a \in Accounts : session[m][a] # Nil => f[a] # Nil
  PROVE  session' \in [Maps -> Sessions] /\ Stays(m)
  BY DEF MapTypes, Stays

LEMMA SetInIs ==
  ASSUME MapTypes, NEW m \in Maps, NEW a \in Accounts, NEW x, Whose(x, a), SetIn(m, a, x)
  PROVE  session' \in [Maps -> Sessions] /\ Stays(m)
  <1>1. session \in [Maps -> Sessions] /\ session[m] \in Sessions
    BY DEF MapTypes
  <1>2. PICK f : f = [session[m] EXCEPT ![a] = x]
    OBVIOUS
  <1>3. f \in Sessions /\ x # Nil
    BY <1>1, <1>2, OneSession, WhoseFits
  <1>4. session' = [session EXCEPT ![m] = f]
    BY <1>1, <1>2 DEF SetIn
  <1>5. \A b \in Accounts : session[m][b] # Nil => f[b] # Nil
    BY <1>1, <1>2, <1>3 DEF Sessions
  <1>6. QED
    BY <1>3, <1>4, <1>5, SessionsPut

LEMMA AskIs ==
  ASSUME MapTypes, NEW m \in Maps, NEW q \in Seq(Request), Ask(m, q)
  PROVE  toChar' \in [Maps -> Seq(Request)]
  <1>1. toChar \in [Maps -> Seq(Request)]
    BY DEF MapTypes
  <1>2. PICK r : r = toChar[m] \o q
    OBVIOUS
  <1>3. r \in Seq(Request)
    BY <1>1, <1>2
  <1>4. toChar' = [toChar EXCEPT ![m] = r]
    BY <1>1, <1>2 DEF Ask
  <1>5. QED
    BY <1>1, <1>3, <1>4

LEMMA OneRequest ==
  ASSUME NEW x \in Request
  PROVE  <<x>> \in Seq(Request) /\ <<>> \in Seq(Request)
  OBVIOUS

LEMMA PointersAre ==
  ASSUME NEW member, NEW id, NEW f
  PROVE  Pointers(member, id, f) \in [Slots -> {"none", "live", "dangling"}]
  BY DEF Pointers

LEMMA CheckedMembers ==
  ASSUME NEW f \in Sessions, NEW p, NEW id
  PROVE  /\ party_check_member(p, id, f) \in Sessions
         /\ \A a \in Accounts : f[a] # Nil => party_check_member(p, id, f)[a] # Nil
         /\ Forgotten(p, id, f) \subseteq Chars
  <1>1. f \in [Accounts -> Session \cup {Nil}]
    BY DEF Sessions
  <1>2. PICK g : g = party_check_member(p, id, f)
    OBVIOUS
  <1>3. ASSUME NEW a \in Accounts
        PROVE  Fits(g[a], a) /\ (f[a] # Nil => g[a] # Nil)
    <2>1. g[a] = IF a \in Forgets(p, id, f) THEN [f[a] EXCEPT !.party_id = 0] ELSE f[a]
      BY <1>2 DEF party_check_member
    <2>2. CASE a \in Forgets(p, id, f)
      <3>1. f[a] \in Session /\ AccountOf[f[a].nick] = a
        BY <2>2, SessionsAre DEF Forgets
      <3>2. 0 \in Ids \cup {0}
        OBVIOUS
      <3>3. Whose([f[a] EXCEPT !.party_id = 0], a)
        BY <3>1, <3>2, SessionPut
      <3>4. QED
        BY <2>1, <2>2, <3>3, WhoseFits
    <2>3. CASE a \notin Forgets(p, id, f)
      BY <2>1, <2>3 DEF Sessions
    <2>4. QED
      BY <2>2, <2>3
  <1>4. g \in [Accounts -> Session \cup {Nil}]
    <2>1. g = [a \in Accounts |-> g[a]]
      BY <1>2 DEF party_check_member
    <2>2. \A a \in Accounts : g[a] \in Session \cup {Nil}
      BY <1>3 DEF Fits
    <2>3. QED
      BY <2>1, <2>2
  <1>5. Forgotten(p, id, f) \subseteq Chars
    BY SessionsAre DEF Forgotten, Forgets, Session
  <1>6. QED
    BY <1>2, <1>3, <1>4, <1>5 DEF Sessions

(* What every handler keeps of the other variables. *)
Sound(m) == /\ session' \in [Maps -> Sessions] /\ torn' \in SUBSET Chars
            /\ toChar' \in [Maps -> Seq(Request)] /\ Stays(m)

(* Pointers that were just looked up lead to sessions. *)
LEMMA LookedUp ==
  ASSUME NEW x, NEW id, NEW s, NEW f, \A a \in Accounts : s[a] # Nil => f[a] # Nil
  PROVE  AliveAt(Copy(x, Pointers(x.member, id, s)), f)
  <1>1. ASSUME NEW i \in Slots, Pointers(x.member, id, s)[i] = "live",
               NEW a \in Accounts, Of(a, x.member[i])
        PROVE  f[a] # Nil
    <2>1. PICK b \in Accounts : Of(b, x.member[i]) /\ s[b] # Nil
      BY <1>1 DEF Pointers
    <2>2. b = a
      BY <1>1, <2>1 DEF Of
    <2>3. QED
      BY <2>1, <2>2
  <1>2. /\ Copy(x, Pointers(x.member, id, s)).sd = Pointers(x.member, id, s)
        /\ Copy(x, Pointers(x.member, id, s)).member = x.member
    BY DEF Copy
  <1>3. QED
    BY <1>1, <1>2 DEF AliveAt

LEMMA SoundNow ==
  ASSUME MapTypes
  PROVE  /\ session \in [Maps -> Sessions] /\ torn \in SUBSET Chars
         /\ toChar \in [Maps -> Seq(Request)] /\ party_db \in [Maps -> [Ids -> Kept]]
  BY DEF MapTypes

LEMMA CreatedRead ==
  ASSUME MapTypes, NEW m \in Maps, NEW msg \in Packet, party_created(m, msg)
  PROVE  ReadBy(m, msg) /\ Sound(m)
  <1>1. /\ msg.kind = "created" /\ msg.nick \in Chars /\ msg.acc \in Accounts
        /\ msg.party \in Ids \cup {0} /\ UNCHANGED toChar
    BY PacketIs DEF party_created
  <1>2. PICK s : s = session[m][msg.acc]
    OBVIOUS
  <1>3. CASE s = Nil
    <2>1. UNCHANGED party_db /\ UNCHANGED session /\ torn' = torn \cup {msg.nick}
      BY <1>2, <1>3 DEF party_created, server
    <2>2. \A p \in Ids : Reads(msg, p, View(party_db[m][p]), View(party_db[m][p]))
      BY <1>1 DEF Reads
    <2>3. Sound(m)
      BY <1>1, <2>1, SoundNow DEF Sound, Stays
    <2>4. QED
      BY <2>1, <2>2, <2>3, ReadNone DEF Sound
  <1>4. CASE s # Nil
    <2>1. s \in Session /\ AccountOf[s.nick] = msg.acc
      <3>1. session[m] \in Sessions
        BY SoundNow
      <3>2. QED
        BY <1>1, <1>2, <1>4, <3>1, SessionsAre
    <2>2. PICK p : p = (IF msg.party = 0 THEN s.party_id ELSE msg.party) /\ p \in Ids \cup {0}
      BY <1>1, <2>1 DEF Session
    <2>3. PICK x : x = [s EXCEPT !.asked = FALSE, !.party_id = p] /\ Whose(x, msg.acc) /\ s.nick \in Chars
      BY <2>1, <2>2, SessionPut
    <2>4. /\ SetIn(m, msg.acc, [s EXCEPT !.asked = FALSE,
                                         !.party_id = IF msg.party = 0 THEN @ ELSE msg.party])
          /\ party_db' = IF msg.party = 0 THEN party_db
                         ELSE [party_db EXCEPT ![m][msg.party] = Copy(Newborn, NoPointer)]
          /\ torn' = IF s.asked /\ s.nick = msg.nick /\ s.party_id = 0 THEN torn
                     ELSE torn \cup {s.nick, msg.nick}
      BY <1>2, <1>4 DEF party_created
    <2>5. SetIn(m, msg.acc, x)
      BY <2>2, <2>3, <2>4
    <2>6. session' \in [Maps -> Sessions] /\ Stays(m)
      BY <1>1, <2>3, <2>5, SetInIs
    <2>7. torn' \in SUBSET Chars
      BY <1>1, <2>3, <2>4, SoundNow
    <2>8. ReadBy(m, msg)
      <3>1. CASE msg.party = 0
        <4>1. \A i \in Ids : Reads(msg, i, View(party_db[m][i]), View(party_db[m][i]))
          BY <1>1, <3>1, IdsAre DEF Reads
        <4>2. QED
          BY <2>4, <2>6, <3>1, <4>1, ReadNone
      <3>2. CASE msg.party # 0
        <4>1. PICK id \in Ids : id = msg.party
          BY <1>1, <3>2
        <4>2. PICK c \in Kept : c = Copy(Newborn, NoPointer) /\ AliveAt(c, session'[m])
          <5>1. /\ Newborn.member \in [Slots -> Member \cup {Vacant}]
                /\ Newborn.exp \in BOOLEAN /\ Newborn.item \in BOOLEAN
                /\ NoPointer \in [Slots -> {"none", "live", "dangling"}]
            BY DEF Newborn, NoOne, NoPointer
          <5>2. Copy(Newborn, NoPointer) \in Kept
            BY <5>1, CopyIs
          <5>3. AliveAt(Copy(Newborn, NoPointer), session'[m])
            BY DEF AliveAt, Copy, NoPointer
          <5>4. QED
            BY <5>2, <5>3
        <4>3. party_db' = [party_db EXCEPT ![m][id] = c]
          BY <2>4, <3>2, <4>1, <4>2
        <4>4. Reads(msg, id, View(party_db[m][id]), View(c))
          BY <1>1, <4>1 DEF Reads
        <4>5. QED
          BY <2>6, <4>1, <4>2, <4>3, <4>4, ReadOne
      <3>3. QED
        BY <3>1, <3>2
    <2>9. QED
      BY <1>1, <2>6, <2>7, <2>8, SoundNow DEF Sound
  <1>5. QED
    BY <1>3, <1>4

LEMMA InfoRead ==
  ASSUME MapTypes, NEW m \in Maps, NEW msg \in Packet, party_recv_info(m, msg)
  PROVE  ReadBy(m, msg) /\ Sound(m)
  <1>1. /\ msg.kind = "info" /\ msg.info \in Party /\ msg.party \in Ids /\ UNCHANGED toChar
    BY PacketIs DEF party_recv_info
  <1>2. PICK id \in Ids, x \in Party : id = msg.party /\ x = msg.info
    BY <1>1
  <1>3. PICK s, sd :
          /\ s = (IF party_db[m][id] = Nil THEN party_check_member(x, id, session[m]) ELSE session[m])
          /\ sd = Pointers(x.member, id, s)
    OBVIOUS
  <1>4. /\ party_db' = [party_db EXCEPT ![m][id] = Copy(x, sd)]
        /\ session' = [session EXCEPT ![m] = [a \in Accounts |->
             IF \E i \in Slots : Of(a, x.member[i]) /\ sd[i] = "live"
             THEN [s[a] EXCEPT !.sended = TRUE] ELSE s[a]]]
        /\ torn' = IF party_db[m][id] = Nil
                   THEN torn \cup (Forgotten(x, id, session[m]) \cap Members(party[id])) ELSE torn
    BY <1>2, <1>3 DEF party_recv_info
  <1>5. /\ session[m] \in Sessions /\ s \in Sessions /\ Forgotten(x, id, session[m]) \subseteq Chars
        /\ \A a \in Accounts : session[m][a] # Nil => s[a] # Nil
    <2>1. session[m] \in Sessions
      BY SoundNow
    <2>2. QED
      BY <1>3, <2>1, CheckedMembers
  <1>6. session' \in [Maps -> Sessions] /\ Stays(m) /\ \A a \in Accounts : s[a] # Nil => session'[m][a] # Nil
    <2>1. PICK live : live = {a \in Accounts : \E i \in Slots : Of(a, x.member[i]) /\ sd[i] = "live"}
      OBVIOUS
    <2>2. ASSUME NEW a \in live
          PROVE  a \in Accounts /\ s[a] # Nil
      <3>1. a \in Accounts
        BY <2>1
      <3>2. PICK i \in Slots : Of(a, x.member[i]) /\ sd[i] = "live"
        BY <2>1
      <3>3. \E b \in Accounts : Of(b, x.member[i]) /\ s[b] # Nil
        BY <1>3, <3>2 DEF Pointers
      <3>4. QED
        BY <3>1, <3>2, <3>3 DEF Of
    <2>3. PICK g : g = [a \in Accounts |-> IF a \in live THEN [s[a] EXCEPT !.sended = TRUE] ELSE s[a]]
      OBVIOUS
    <2>4. ASSUME NEW a \in Accounts
          PROVE  Fits(g[a], a) /\ (s[a] # Nil => g[a] # Nil)
      <3>1. CASE a \in live
        <4>1. s[a] \in Session /\ AccountOf[s[a].nick] = a
          BY <1>5, <2>2, <3>1, SessionsAre
        <4>2. Whose([s[a] EXCEPT !.sended = TRUE], a)
          BY <4>1, SessionPut
        <4>3. QED
          BY <2>3, <3>1, <4>2, WhoseFits
      <3>2. CASE a \notin live
        BY <1>5, <2>3, <3>2 DEF Sessions
      <3>3. QED
        BY <3>1, <3>2
    <2>5. g \in Sessions
      <3>1. \A a \in Accounts : g[a] \in Session \cup {Nil}
        BY <2>4 DEF Fits
      <3>2. g = [a \in Accounts |-> g[a]]
        BY <2>3
      <3>3. g \in [Accounts -> Session \cup {Nil}]
        BY <3>1, <3>2
      <3>4. QED
        BY <2>4, <3>3 DEF Sessions
    <2>6. session' = [session EXCEPT ![m] = g]
      <3>1. g = [a \in Accounts |-> IF \E i \in Slots : Of(a, x.member[i]) /\ sd[i] = "live"
                                    THEN [s[a] EXCEPT !.sended = TRUE] ELSE s[a]]
        BY <2>1, <2>3
      <3>2. QED
        BY <1>4, <3>1
    <2>7. session'[m] = g
      BY <2>6, SoundNow
    <2>8. QED
      BY <1>5, <2>4, <2>5, <2>6, <2>7, SessionsPut
  <1>7. ReadBy(m, msg)
    <2>1. PICK c \in Kept : c = Copy(x, sd) /\ View(c) = x /\ AliveAt(c, session'[m])
      <3>1. /\ x.member \in [Slots -> Member \cup {Vacant}] /\ x.exp \in BOOLEAN /\ x.item \in BOOLEAN
            /\ x = [member |-> x.member, exp |-> x.exp, item |-> x.item]
        BY PartyIs
      <3>2. sd \in [Slots -> {"none", "live", "dangling"}]
        BY <1>3, PointersAre
      <3>3. Copy(x, sd) \in Kept /\ View(Copy(x, sd)) = [member |-> x.member, exp |-> x.exp, item |-> x.item]
        BY <3>1, <3>2, CopyIs
      <3>4. AliveAt(Copy(x, sd), session'[m])
        <4>1. PICK f : f = session'[m]
          OBVIOUS
        <4>2. \A a \in Accounts : s[a] # Nil => f[a] # Nil
          BY <1>6, <4>1
        <4>3. AliveAt(Copy(x, Pointers(x.member, id, s)), f)
          BY <4>2, LookedUp
        <4>4. QED
          BY <1>3, <4>1, <4>3
      <3>5. QED
        BY <3>1, <3>3, <3>4
    <2>2. Reads(msg, id, View(party_db[m][id]), View(c))
      BY <1>1, <1>2, <2>1 DEF Reads
    <2>3. party_db' = [party_db EXCEPT ![m][id] = c]
      BY <1>4, <2>1
    <2>4. QED
      BY <1>2, <1>6, <2>1, <2>2, <2>3, ReadOne
  <1>8. torn' \in SUBSET Chars
    BY <1>4, <1>5, SoundNow
  <1>9. QED
    BY <1>1, <1>6, <1>7, <1>8, SoundNow DEF Sound

LEMMA NoInfoRead ==
  ASSUME MapTypes, NEW m \in Maps, NEW msg \in Packet, party_recv_noinfo(m, msg)
  PROVE  ReadBy(m, msg) /\ Sound(m)
  <1>1. msg.kind = "noinfo" /\ UNCHANGED <<party_db, toChar, torn>>
    BY DEF party_recv_noinfo
  <1>2. PICK f : f = party_check_member(Newborn, msg.party, session[m])
    OBVIOUS
  <1>3. f \in Sessions /\ \A a \in Accounts : session[m][a] # Nil => f[a] # Nil
    <2>1. session[m] \in Sessions
      BY SoundNow
    <2>2. QED
      BY <1>2, <2>1, CheckedMembers
  <1>4. session' = [session EXCEPT ![m] = f]
    BY <1>2, SoundNow DEF party_recv_noinfo
  <1>5. session' \in [Maps -> Sessions] /\ Stays(m)
    BY <1>3, <1>4, SessionsPut
  <1>6. ReadBy(m, msg)
    BY <1>1, <1>5, ReadNone DEF Reads
  <1>7. QED
    BY <1>1, <1>5, <1>6, SoundNow DEF Sound

LEMMA AddedRead ==
  ASSUME MapTypes, NEW m \in Maps, NEW msg \in Packet, party_member_added(m, msg)
  PROVE  ReadBy(m, msg) /\ Sound(m)
  <1>1. /\ msg.kind = "added" /\ msg.party \in Ids /\ msg.nick \in Chars /\ msg.acc \in Accounts
    BY PacketIs DEF party_member_added
  <1>2. PICK s : s = session[m][msg.acc]
    OBVIOUS
  <1>3. \A p \in Ids : Reads(msg, p, View(party_db[m][p]), View(party_db[m][p]))
    BY <1>1 DEF Reads
  <1>4. CASE s = Nil
    <2>1. /\ Ask(m, <<[kind |-> "leave", party |-> msg.party, acc |-> msg.acc]>>)
          /\ torn' = torn \cup {msg.nick} /\ UNCHANGED <<party_db, session>>
      BY <1>2, <1>4 DEF party_member_added, server
    <2>2. toChar' \in [Maps -> Seq(Request)]
      <3>1. [kind |-> "leave", party |-> msg.party, acc |-> msg.acc] \in Request
        BY <1>1 DEF Request
      <3>2. QED
        BY <2>1, <3>1, OneRequest, AskIs
    <2>3. Stays(m)
      BY <2>1 DEF Stays
    <2>4. ReadBy(m, msg)
      BY <1>3, <2>1, <2>3, ReadNone
    <2>5. QED
      BY <1>1, <2>1, <2>2, <2>3, <2>4, SoundNow DEF Sound
  <1>5. CASE s # Nil
    <2>1. s \in Session /\ AccountOf[s.nick] = msg.acc
      <3>1. session[m] \in Sessions
        BY SoundNow
      <3>2. QED
        BY <1>1, <1>2, <1>5, <3>1, SessionsAre
    <2>2. /\ SetIn(m, msg.acc,
               IF msg.fail THEN [s EXCEPT !.invite = 0, !.asked = FALSE]
               ELSE [s EXCEPT !.invite = 0, !.asked = FALSE, !.sended = FALSE,
                              !.party_id = msg.party])
          /\ Ask(m, IF msg.fail THEN <<>> ELSE <<Check([s EXCEPT !.party_id = msg.party])>>)
          /\ torn' = IF s.asked /\ s.nick = msg.nick /\ s.party_id = 0 THEN torn
                     ELSE torn \cup {s.nick, msg.nick}
          /\ UNCHANGED party_db
      BY <1>2, <1>5 DEF party_member_added
    <2>3. /\ s.nick \in Chars
          /\ Whose([s EXCEPT !.invite = 0, !.asked = FALSE], msg.acc)
          /\ Whose([s EXCEPT !.invite = 0, !.asked = FALSE, !.sended = FALSE,
                             !.party_id = msg.party], msg.acc)
          /\ [s EXCEPT !.party_id = msg.party].party_id = msg.party
          /\ [s EXCEPT !.party_id = msg.party].nick = s.nick
      <3>1. 0 \in Ids \cup {0} /\ msg.party \in Ids \cup {0}
        BY <1>1
      <3>2. QED
        BY <2>1, <3>1, SessionPut
    <2>4. session' \in [Maps -> Sessions] /\ Stays(m)
      <3>1. PICK x : /\ x = (IF msg.fail THEN [s EXCEPT !.invite = 0, !.asked = FALSE]
                             ELSE [s EXCEPT !.invite = 0, !.asked = FALSE, !.sended = FALSE,
                                            !.party_id = msg.party])
                     /\ Whose(x, msg.acc)
        BY <2>3
      <3>2. SetIn(m, msg.acc, x)
        BY <2>2, <3>1
      <3>3. QED
        BY <1>1, <3>1, <3>2, SetInIs
    <2>5. toChar' \in [Maps -> Seq(Request)]
      <3>1. PICK y : y = Check([s EXCEPT !.party_id = msg.party])
        OBVIOUS
      <3>2. y \in Request
        BY <1>1, <2>3, <3>1 DEF Check, Request
      <3>3. PICK q \in Seq(Request) : q = IF msg.fail THEN <<>> ELSE <<y>>
        BY <3>2, OneRequest
      <3>4. Ask(m, q)
        BY <2>2, <3>1, <3>3
      <3>5. QED
        BY <3>4, AskIs
    <2>6. torn' \in SUBSET Chars
      BY <1>1, <2>2, <2>3, SoundNow
    <2>7. ReadBy(m, msg)
      BY <1>3, <2>2, <2>4, ReadNone
    <2>8. QED
      BY <2>4, <2>5, <2>6, <2>7 DEF Sound
  <1>6. QED
    BY <1>4, <1>5

LEMMA LeavesIs ==
  ASSUME MapTypes, NEW m \in Maps, NEW a \in Accounts, NEW id, Leaves(m, a, id)
  PROVE  session' \in [Maps -> Sessions] /\ Stays(m)
  <1>1. PICK s : s = session[m][a]
    OBVIOUS
  <1>2. CASE s # Nil /\ s.party_id = id
    <2>1. SetIn(m, a, [s EXCEPT !.party_id = 0, !.sended = FALSE])
      BY <1>1, <1>2 DEF Leaves
    <2>2. Whose([s EXCEPT !.party_id = 0, !.sended = FALSE], a)
      <3>1. s \in Session /\ AccountOf[s.nick] = a
        BY <1>1, <1>2, SoundNow, SessionsAre
      <3>2. 0 \in Ids \cup {0}
        OBVIOUS
      <3>3. QED
        BY <3>1, <3>2, SessionPut
    <2>3. QED
      BY <2>1, <2>2, SetInIs
  <1>3. CASE ~(s # Nil /\ s.party_id = id)
    BY <1>1, <1>3, SoundNow DEF Leaves, Stays
  <1>4. QED
    BY <1>2, <1>3

LEMMA LeavedRead ==
  ASSUME MapTypes, NEW m \in Maps, NEW msg \in Packet, party_member_leaved(m, msg)
  PROVE  ReadBy(m, msg) /\ Sound(m)
  <1>1. /\ msg.kind = "leaved" /\ msg.party \in Ids /\ msg.acc \in Accounts
        /\ Leaves(m, msg.acc, msg.party) /\ UNCHANGED <<toChar, torn>>
    BY PacketIs DEF party_member_leaved
  <1>2. session' \in [Maps -> Sessions] /\ Stays(m)
    BY <1>1, LeavesIs
  <1>3. PICK id, p, gone : /\ id = msg.party /\ id \in Ids /\ p = party_db[m][id]
                           /\ gone = IF p = Nil THEN {} ELSE PlacesOf(p, msg.acc)
    BY <1>1
  <1>4. p \in Kept
    BY <1>3, SoundNow
  <1>5. party_db' = IF p = Nil THEN party_db ELSE
          [party_db EXCEPT ![m][id] =
             Copy([p EXCEPT !.member = [i \in Slots |-> IF i \in gone THEN Vacant ELSE @[i]]],
                  [i \in Slots |-> IF i \in gone THEN "none" ELSE p.sd[i]])]
    BY <1>3 DEF party_member_leaved
  <1>6. CASE p = Nil
    <2>1. \A i \in Ids : Reads(msg, i, View(party_db[m][i]), View(party_db[m][i]))
      BY <1>1 DEF Reads
    <2>2. QED
      BY <1>1, <1>2, <1>5, <1>6, <2>1, ReadNone, SoundNow DEF Sound
  <1>7. CASE p # Nil
    <2>1. /\ p = [member |-> p.member, exp |-> p.exp, item |-> p.item, sd |-> p.sd]
          /\ p.member \in [Slots -> Member \cup {Vacant}] /\ p.exp \in BOOLEAN /\ p.item \in BOOLEAN
          /\ p.sd \in [Slots -> {"none", "live", "dangling"}]
      BY <1>4, <1>7, ViewIs
    <2>2. PICK l, sd : /\ l = [i \in Slots |-> IF i \in gone THEN Vacant ELSE p.member[i]]
                       /\ sd = [i \in Slots |-> IF i \in gone THEN "none" ELSE p.sd[i]]
      OBVIOUS
    <2>3. l \in [Slots -> Member \cup {Vacant}] /\ sd \in [Slots -> {"none", "live", "dangling"}]
      BY <2>1, <2>2
    <2>4. PICK x : x = [p EXCEPT !.member = l]
      OBVIOUS
    <2>5. x.member = l /\ x.exp = p.exp /\ x.item = p.item
      BY <2>1, <2>4
    <2>6. PICK c \in Kept : c = Copy(x, sd)
      <3>1. Copy(x, sd) \in Kept
        BY <2>1, <2>3, <2>5, CopyIs
      <3>2. QED
        BY <3>1
    <2>7. party_db' = [party_db EXCEPT ![m][id] = c]
      BY <1>5, <1>7, <2>2, <2>4, <2>6
    <2>8. Reads(msg, id, View(party_db[m][id]), View(c))
      BY <1>1, <1>3 DEF Reads
    <2>9. AliveAt(party_db[m][id], session[m]) => AliveAt(c, session'[m])
      <3>1. c.sd = sd /\ c.member = l
        BY <2>5, <2>6 DEF Copy
      <3>2. SUFFICES ASSUME AliveAt(p, session[m]), NEW i \in Slots, sd[i] = "live",
                            NEW a \in Accounts, Of(a, l[i])
                     PROVE  session'[m][a] # Nil
        BY <1>3, <3>1 DEF AliveAt
      <3>3. i \notin gone /\ p.sd[i] = "live" /\ l[i] = p.member[i]
        BY <2>2, <3>2
      <3>4. session[m][a] # Nil
        BY <1>7, <3>2, <3>3 DEF AliveAt
      <3>5. QED
        BY <1>2, <3>4 DEF Stays
    <2>10. ReadBy(m, msg)
      BY <1>2, <1>3, <2>7, <2>8, <2>9, ReadOne
    <2>11. QED
      BY <1>1, <1>2, <2>10, SoundNow DEF Sound
  <1>8. QED
    BY <1>6, <1>7

LEMMA BrokenRead ==
  ASSUME MapTypes, LivePointers, NEW m \in Maps, NEW msg \in Packet, party_broken(m, msg)
  PROVE  ReadBy(m, msg) /\ Sound(m)
  <1>1. msg.kind = "broken" /\ msg.party \in Ids /\ UNCHANGED <<toChar, torn>>
    BY PacketIs DEF party_broken
  <1>2. PICK id, p : id = msg.party /\ id \in Ids /\ p = party_db[m][id]
    BY <1>1
  <1>3. /\ party_db' = [party_db EXCEPT ![m][id] = Nil]
        /\ session' = IF p = Nil THEN session ELSE
             [session EXCEPT ![m] = [a \in Accounts |->
                IF \E i \in Slots : Of(a, p.member[i]) /\ p.sd[i] = "live"
                THEN [session[m][a] EXCEPT !.party_id = 0, !.sended = FALSE] ELSE session[m][a]]]
    BY <1>2 DEF party_broken
  <1>4. session' \in [Maps -> Sessions] /\ Stays(m)
    <2>1. CASE p = Nil
      BY <1>3, <2>1, SoundNow DEF Stays
    <2>2. CASE p # Nil
      <3>1. PICK live : live = {a \in Accounts : \E i \in Slots : Of(a, p.member[i]) /\ p.sd[i] = "live"}
        OBVIOUS
      <3>2. PICK s : s = session[m] /\ s \in Sessions
        BY SoundNow
      <3>3. PICK g : g = [a \in Accounts |->
                       IF a \in live THEN [s[a] EXCEPT !.party_id = 0, !.sended = FALSE] ELSE s[a]]
        OBVIOUS
      <3>4. ASSUME NEW a \in Accounts
            PROVE  Fits(g[a], a) /\ (s[a] # Nil => g[a] # Nil)
        <4>1. CASE a \in live
          <5>1. s[a] # Nil
            BY <1>2, <2>2, <3>1, <3>2, <4>1 DEF LivePointers, AliveAt
          <5>2. s[a] \in Session /\ AccountOf[s[a].nick] = a /\ 0 \in Ids \cup {0}
            BY <3>2, <5>1, SessionsAre
          <5>3. Whose([s[a] EXCEPT !.party_id = 0, !.sended = FALSE], a)
            BY <5>2, SessionPut
          <5>4. QED
            BY <3>3, <4>1, <5>3, WhoseFits
        <4>2. CASE a \notin live
          BY <3>2, <3>3, <4>2 DEF Sessions
        <4>3. QED
          BY <4>1, <4>2
      <3>5. g \in Sessions
        <4>1. \A a \in Accounts : g[a] \in Session \cup {Nil}
          BY <3>4 DEF Fits
        <4>2. g = [a \in Accounts |-> g[a]]
          BY <3>3
        <4>3. g \in [Accounts -> Session \cup {Nil}]
          BY <4>1, <4>2
        <4>4. QED
          BY <3>4, <4>3 DEF Sessions
      <3>6. session' = [session EXCEPT ![m] = g]
        <4>1. g = [a \in Accounts |->
                     IF \E i \in Slots : Of(a, p.member[i]) /\ p.sd[i] = "live"
                     THEN [session[m][a] EXCEPT !.party_id = 0, !.sended = FALSE] ELSE session[m][a]]
          BY <3>1, <3>2, <3>3
        <4>2. QED
          BY <1>3, <2>2, <4>1
      <3>7. QED
        BY <3>2, <3>4, <3>5, <3>6, SessionsPut
    <2>3. QED
      BY <2>1, <2>2
  <1>5. Nil \in Kept /\ AliveAt(Nil, session'[m]) /\ Reads(msg, id, View(party_db[m][id]), View(Nil))
    <2>1. Nil \in Kept /\ AliveAt(Nil, session'[m])
      BY DEF Kept, AliveAt
    <2>2. View(Nil) = Nil
      BY DEF View
    <2>3. Reads(msg, id, View(party_db[m][id]), Nil)
      BY <1>1, <1>2 DEF Reads
    <2>4. QED
      BY <2>1, <2>2, <2>3
  <1>6. ReadBy(m, msg)
    BY <1>2, <1>3, <1>4, <1>5, ReadOne
  <1>7. QED
    BY <1>1, <1>4, <1>6, SoundNow DEF Sound

LEMMA OptionChangedRead ==
  ASSUME MapTypes, NEW m \in Maps, NEW msg \in Packet, party_optionchanged(m, msg)
  PROVE  ReadBy(m, msg) /\ Sound(m)
  <1>1. /\ msg.kind = "optionchanged" /\ msg.party \in Ids /\ UNCHANGED <<session, toChar, torn>>
        /\ msg.exp \in BOOLEAN /\ msg.item \in BOOLEAN /\ msg.keepexp \in BOOLEAN
    BY PacketIs DEF party_optionchanged
  <1>2. PICK id, p : id = msg.party /\ id \in Ids /\ p = party_db[m][id]
    BY <1>1
  <1>3. Sound(m)
    BY <1>1, SoundNow DEF Sound, Stays
  <1>4. p \in Kept
    BY <1>2, SoundNow
  <1>5. party_db' = IF p = Nil THEN party_db ELSE
          [party_db EXCEPT ![m][id].exp = IF msg.keepexp THEN @ ELSE msg.exp,
                           ![m][id].item = msg.item]
    BY <1>2 DEF party_optionchanged
  <1>6. CASE p = Nil
    <2>1. \A i \in Ids : Reads(msg, i, View(party_db[m][i]), View(party_db[m][i]))
      BY <1>1, <1>2, <1>6 DEF Reads, View
    <2>2. QED
      BY <1>3, <1>5, <1>6, <2>1, ReadNone DEF Sound
  <1>7. CASE p # Nil
    <2>1. PICK l, e, o, sd :
            /\ p = [member |-> l, exp |-> e, item |-> o, sd |-> sd]
            /\ l \in [Slots -> Member \cup {Vacant}] /\ e \in BOOLEAN /\ o \in BOOLEAN
            /\ sd \in [Slots -> {"none", "live", "dangling"}]
            /\ View(p) = [member |-> l, exp |-> e, item |-> o] /\ View(p) # Nil
      BY <1>4, <1>7, ViewIs
    <2>2. PICK f : f = IF msg.keepexp THEN e ELSE msg.exp
      OBVIOUS
    <2>3. PICK c : c = [member |-> l, exp |-> f, item |-> msg.item, sd |-> sd]
      OBVIOUS
    <2>4. c \in Kept /\ View(c) = [member |-> l, exp |-> f, item |-> msg.item]
      <3>1. c = Copy(c, sd) /\ c.member = l /\ c.exp = f /\ c.item = msg.item
        BY <2>3 DEF Copy
      <3>2. Copy(c, sd) \in Kept /\ View(Copy(c, sd)) = [member |-> c.member, exp |-> c.exp, item |-> c.item]
        <4>1. f \in BOOLEAN
          BY <1>1, <2>1, <2>2
        <4>2. QED
          BY <1>1, <2>1, <3>1, <4>1, CopyIs
      <3>3. QED
        BY <3>1, <3>2
    <2>5. party_db' = [party_db EXCEPT ![m][id] = c]
      <3>1. PICK q : q = [p EXCEPT !.exp = f, !.item = msg.item]
        OBVIOUS
      <3>2. q = c
        <4>1. p = [member |-> l, exp |-> e, item |-> o, sd |-> sd]
          BY <2>1
        <4>2. q = [member |-> l, exp |-> f, item |-> msg.item, sd |-> sd]
          BY ONLY <3>1, <4>1
        <4>3. QED
          BY <2>3, <4>2
      <3>3. f = IF msg.keepexp THEN party_db[m][id].exp ELSE msg.exp
        BY <1>2, <2>1, <2>2
      <3>4. party_db \in [Maps -> [Ids -> Kept]]
        BY SoundNow
      <3>5. party_db' = [party_db EXCEPT ![m][id].exp = f, ![m][id].item = msg.item]
        BY <1>2, <1>5, <1>7, <3>3, <3>4
      <3>6. QED
        BY <1>2, <3>1, <3>2, <3>4, <3>5
    <2>6. Reads(msg, id, View(party_db[m][id]), View(c))
      <3>1. PICK v : v = View(p) /\ v = [member |-> l, exp |-> e, item |-> o] /\ v # Nil
        BY <2>1
      <3>2. Opted(v, msg) = [member |-> l, exp |-> f, item |-> msg.item]
        <4>1. PICK w : w = [v EXCEPT !.exp = f, !.item = msg.item]
          OBVIOUS
        <4>2. Opted(v, msg) = w
          BY <2>2, <3>1, <4>1 DEF Opted
        <4>3. v = [member |-> l, exp |-> e, item |-> o]
          BY <3>1
        <4>4. w = [member |-> l, exp |-> f, item |-> msg.item]
          BY ONLY <4>1, <4>3
        <4>5. QED
          BY <4>2, <4>4
      <3>3. QED
        BY <1>1, <1>2, <2>4, <3>1, <3>2 DEF Reads
    <2>7. AliveAt(party_db[m][id], session[m]) => AliveAt(c, session'[m])
      <3>1. c.sd = p.sd /\ c.member = p.member
        BY <2>1, <2>3
      <3>2. QED
        BY <1>1, <1>2, <1>7, <3>1 DEF AliveAt
    <2>8. QED
      BY <1>2, <1>3, <2>4, <2>5, <2>6, <2>7, ReadOne DEF Sound
  <1>8. QED
    BY <1>3, <1>6, <1>7

LEMMA MovedRead ==
  ASSUME MapTypes, NEW m \in Maps, NEW msg \in Packet, party_recv_movemap(m, msg)
  PROVE  ReadBy(m, msg) /\ Sound(m)
  <1>1. /\ msg.kind = "moved" /\ msg.party \in Ids /\ UNCHANGED <<session, toChar, torn>>
        /\ msg.acc \in Accounts /\ msg.online \in BOOLEAN
    BY PacketIs DEF party_recv_movemap
  <1>2. PICK id, p, at : /\ id = msg.party /\ id \in Ids /\ p = party_db[m][id]
                         /\ at = IF p = Nil THEN {} ELSE PlacesOf(p, msg.acc)
    BY <1>1
  <1>3. Sound(m)
    BY <1>1, SoundNow DEF Sound, Stays
  <1>4. p \in Kept
    BY <1>2, SoundNow
  <1>5. PICK q : q = [p EXCEPT !.member[First(at)].online = msg.online]
    OBVIOUS
  <1>6. party_db' = IF at = {} THEN party_db ELSE
          [party_db EXCEPT ![m][id] = Copy(q, Pointers(q.member, id, session[m]))]
    <2>1. LET p1  == party_db[m][msg.party]
              at1 == IF p1 = Nil THEN {} ELSE PlacesOf(p1, msg.acc)
              q1  == [p1 EXCEPT !.member[First(at1)].online = msg.online]
          IN  party_db' = IF at1 = {} THEN party_db ELSE
                [party_db EXCEPT ![m][msg.party] = Copy(q1, Pointers(q1.member, msg.party, session[m]))]
      BY ONLY party_recv_movemap(m, msg), Zenon DEF party_recv_movemap
    <2> DEFINE p1  == party_db[m][msg.party]
               at1 == IF p1 = Nil THEN {} ELSE PlacesOf(p1, msg.acc)
               q1  == [p1 EXCEPT !.member[First(at1)].online = msg.online]
    <2>2. p1 = p /\ at1 = at
      BY <1>2
    <2>3. q1 = q
      BY <1>5, <2>2
    <2> HIDE DEF p1, at1, q1
    <2>4. party_db' = IF at1 = {} THEN party_db ELSE
            [party_db EXCEPT ![m][msg.party] = Copy(q1, Pointers(q1.member, msg.party, session[m]))]
      BY <2>1, Zenon DEF p1, at1, q1
    <2>5. QED
      BY <1>2, <2>2, <2>3, <2>4
  <1>7. PICK v : v = View(p)
    OBVIOUS
  <1>8. p # Nil => PlacesOf(v, msg.acc) = at
    BY <1>2, <1>7 DEF View, PlacesOf
  <1>9. CASE at = {}
    <2>1. \A i \in Ids : Reads(msg, i, View(party_db[m][i]), View(party_db[m][i]))
      <3>1. v # Nil => Moved(v, msg.acc, msg.online) = v
        BY <1>7, <1>8, <1>9 DEF Moved, View
      <3>2. QED
        BY <1>1, <1>2, <1>7, <3>1 DEF Reads
    <2>2. QED
      BY <1>3, <1>6, <1>9, <2>1, ReadNone DEF Sound
  <1>10. CASE at # {}
    <2>1. /\ v \in Party /\ v = [member |-> p.member, exp |-> p.exp, item |-> p.item] /\ p # Nil /\ v # Nil
          /\ p = [member |-> p.member, exp |-> p.exp, item |-> p.item, sd |-> p.sd]
          /\ p.member \in [Slots -> Member \cup {Vacant}]
      BY <1>2, <1>4, <1>7, <1>10, ViewIs
    <2>2. PICK i : i = First(at) /\ i \in Slots /\ v.member[i] \in Member
      BY <1>8, <1>10, <2>1, PlacesAre
    <2>3. PICK w : w = [v EXCEPT !.member[i].online = msg.online]
      OBVIOUS
    <2>4. w \in Party /\ w = Moved(v, msg.acc, msg.online)
      <3>1. w \in Party
        BY <1>1, <2>1, <2>2, <2>3, OnlinePut
      <3>2. QED
        BY <1>8, <1>10, <2>1, <2>2, <2>3, <3>1 DEF Moved
    <2>5. q.member = w.member /\ q.exp = w.exp /\ q.item = w.item
      <3>1. PICK l, e, o, sd : p = [member |-> l, exp |-> e, item |-> o, sd |-> sd]
        BY <2>1
      <3>2. v = [member |-> l, exp |-> e, item |-> o]
        BY <2>1, <3>1
      <3>3. w = [member |-> [l EXCEPT ![i].online = msg.online], exp |-> e, item |-> o]
        BY <2>3, <3>2
      <3>4. q = [member |-> [l EXCEPT ![i].online = msg.online], exp |-> e, item |-> o, sd |-> sd]
        BY <1>5, <2>2, <3>1
      <3>5. QED
        BY <3>3, <3>4
    <2>6. PICK c : c = Copy(q, Pointers(q.member, id, session[m]))
      OBVIOUS
    <2>7. c \in Kept /\ View(c) = w
      <3>1. /\ q.member \in [Slots -> Member \cup {Vacant}] /\ q.exp \in BOOLEAN /\ q.item \in BOOLEAN
            /\ w = [member |-> q.member, exp |-> q.exp, item |-> q.item]
        BY <2>4, <2>5, PartyIs
      <3>2. PICK sd : sd = Pointers(q.member, id, session[m]) /\ sd \in [Slots -> {"none", "live", "dangling"}]
        BY PointersAre
      <3>3. Copy(q, sd) \in Kept /\ View(Copy(q, sd)) = [member |-> q.member, exp |-> q.exp, item |-> q.item]
        BY <3>1, <3>2, CopyIs
      <3>4. QED
        BY <2>6, <3>1, <3>2, <3>3
    <2>8. party_db' = [party_db EXCEPT ![m][id] = c]
      BY <1>6, <1>10, <2>6
    <2>9. Reads(msg, id, View(party_db[m][id]), View(c))
      BY <1>1, <1>2, <1>7, <2>1, <2>4, <2>7 DEF Reads
    <2>10. AliveAt(c, session'[m])
      <3>1. PICK f : f = session[m]
        OBVIOUS
      <3>2. AliveAt(Copy(q, Pointers(q.member, id, f)), f)
        BY LookedUp
      <3>3. QED
        BY <1>1, <2>6, <3>1, <3>2
    <2>11. QED
      BY <1>2, <1>3, <2>7, <2>8, <2>9, <2>10, ReadOne DEF Sound
  <1>11. QED
    BY <1>3, <1>9, <1>10

(* What a map server reads is no longer under way. *)
LEMMA KnownRead ==
  ASSUME MapTypes, NEW n, Known(party_db, State, {}, n), NEW m \in Maps, NEW msg,
         toMap[m] # <<>>, msg = Head(toMap[m]), ReadBy(m, msg),
         toMap' = [toMap EXCEPT ![m] = Tail(@)], UNCHANGED <<party, unsure>>
  PROVE  Known(party_db', NextState, {}, n)
  <1>1. /\ State \in States /\ State.party = party /\ State.out = toMap /\ State.unsure = unsure
        /\ toMap \in [Maps -> Seq(Packet)] /\ party \in [Ids -> Views] /\ unsure \in SUBSET Ids
    BY StateKnown, StateIs
  <1>2. PICK q \in Seq(Packet) : q = toMap[m] /\ q # <<>> /\ msg = Head(q) /\ Tail(q) \in Seq(Packet)
    BY <1>1, HeadTailProperties
  <1>3. toMap' = [toMap EXCEPT ![m] = Tail(q)]
    BY <1>2
  <1>4. toMap' \in [Maps -> Seq(Packet)] /\ toMap'[m] = Tail(q) /\ \A k \in Maps : k # m => toMap'[k] = toMap[k]
    BY <1>1, <1>2, <1>3
  <1>5. /\ NextState \in States /\ NextState.party = party /\ NextState.out = toMap'
        /\ NextState.unsure = unsure
    BY <1>1, <1>4 DEF NextState, States
  <1>6. ASSUME NEW k \in Maps, NEW p \in Ids
        PROVE  Heard(party_db', NextState, k, p) /\ NoneLeft(toMap'[k], View(party_db'[k][p]), p)
    <2>1. /\ Ends(toMap[k], View(party_db[k][p]), p, Agreeing(party[p], p \in unsure))
          /\ NoneLeft(toMap[k], View(party_db[k][p]), p)
      BY <1>1 DEF Known, Heard
    <2>2. CASE k = m
      <3>1. PICK v, w : v = View(party_db[m][p]) /\ w = View(party_db'[m][p])
        OBVIOUS
      <3>2. v \in Views /\ Reads(Head(q), p, v, w)
        <4>1. party_db[m][p] \in Kept
          BY SoundNow
        <4>2. QED
          BY <1>2, <3>1, <4>1, ViewIs DEF ReadBy
      <3>3. Ends(q, v, p, Agreeing(party[p], p \in unsure))
        BY <1>2, <2>1, <2>2, <3>1
      <3>4. Ends(Tail(q), w, p, Agreeing(party[p], p \in unsure))
        BY <1>2, <3>2, <3>3, EndsTail
      <3>5. NoneLeft(Tail(q), w, p)
        <4>1. NoneLeft(q, v, p)
          BY <1>2, <2>1, <2>2, <3>1
        <4>2. QED
          BY <1>2, <3>2, <4>1, NoneLeftTail
      <3>6. QED
        BY <1>4, <1>5, <2>2, <3>1, <3>4, <3>5 DEF Heard
    <2>3. CASE k # m
      BY <1>4, <1>5, <2>1, <2>3 DEF Heard, ReadBy
    <2>4. QED
      BY <2>2, <2>3
  <1>7. \A p \in Ids : party[p] # Nil => p < n
    BY StateKnown
  <1>8. QED
    BY <1>5, <1>6, <1>7 DEF Known

(* A map server that dies has nothing to read and no copies. *)
LEMMA DiesStep ==
  ASSUME CopiesInv, NEW m \in Maps, Dies(m), UNCHANGED <<party, party_newid, unsure, acts>>
  PROVE  CopiesInv'
  <1>1. MapTypes /\ LivePointers /\ Known(party_db, State, {}, party_newid)
    BY DEF CopiesInv
  <1>2. /\ State \in States /\ State.party = party /\ State.out = toMap /\ State.unsure = unsure
        /\ toMap \in [Maps -> Seq(Packet)] /\ party \in [Ids -> Views] /\ unsure \in SUBSET Ids
    BY <1>1, StateKnown, StateIs
  <1>3. PICK none, lost : none = [a \in Accounts |-> Nil] /\ lost = [p \in Ids |-> Nil]
    OBVIOUS
  <1>4. /\ session' = [session EXCEPT ![m] = none] /\ party_db' = [party_db EXCEPT ![m] = lost]
        /\ toChar' = [toChar EXCEPT ![m] = <<>>] /\ toMap' = [toMap EXCEPT ![m] = <<>>]
        /\ torn' = torn \cup {session[m][a].nick : a \in Online(m)} \cup Named(toChar[m])
        /\ UNCHANGED char_dat
    BY <1>3 DEF Dies
  <1>5. none \in Sessions /\ lost \in [Ids -> Kept]
    BY <1>3 DEF Sessions, Fits, Kept
  <1>6. torn' \in SUBSET Chars
    <2>1. {session[m][a].nick : a \in Online(m)} \subseteq Chars
      BY <1>1, SoundNow, SessionsAre DEF Online, Session
    <2>2. Named(toChar[m]) \subseteq Chars
      <3>1. PICK q : q = toChar[m] /\ q \in Seq(Request)
        BY <1>1, SoundNow
      <3>2. \A i \in DOMAIN q : q[i] \in Request
        BY <3>1
      <3>3. \A i \in DOMAIN q : q[i].kind \in {"save", "create", "add", "check"} => q[i].nick \in Chars
        BY <3>2, RequestIs
      <3>4. QED
        BY <3>1, <3>3 DEF Named
    <2>3. QED
      BY <1>1, <1>4, <2>1, <2>2, SoundNow
  <1>7. MapTypes'
    <2>1. /\ session' \in [Maps -> Sessions] /\ party_db' \in [Maps -> [Ids -> Kept]]
          /\ toChar' \in [Maps -> Seq(Request)]
      BY <1>1, <1>4, <1>5, OneRequest, SoundNow
    <2>2. QED
      BY <1>1, <1>4, <1>6, <2>1 DEF MapTypes
  <1>8. \A k \in Maps, p \in Ids : IF k = m THEN party_db'[k][p] = Nil
                                            ELSE party_db'[k] = party_db[k] /\ session'[k] = session[k]
    BY <1>1, <1>3, <1>4, SoundNow
  <1>9. LivePointers'
    BY <1>1, <1>8 DEF LivePointers, AliveAt
  <1>10. /\ NextState \in States /\ NextState.party = party /\ NextState.out = toMap'
         /\ NextState.unsure = unsure /\ toMap'[m] = <<>> /\ \A k \in Maps : k # m => toMap'[k] = toMap[k]
    <2>1. toMap' \in [Maps -> Seq(Packet)] /\ toMap'[m] = <<>> /\ \A k \in Maps : k # m => toMap'[k] = toMap[k]
      BY <1>2, <1>4
    <2>2. QED
      BY <1>2, <2>1 DEF NextState, States
  <1>11. ASSUME NEW k \in Maps, NEW p \in Ids
         PROVE  Heard(party_db', NextState, k, p) /\ NoneLeft(toMap'[k], View(party_db'[k][p]), p)
    <2>1. CASE k = m
      <3>1. Nil \in Agreeing(party[p], p \in unsure) /\ View(party_db'[k][p]) = Nil
        BY <1>8, <2>1 DEF Agreeing, Views, View
      <3>2. Ends(<<>>, View(party_db'[k][p]), p, Agreeing(party[p], p \in unsure))
        BY <3>1, EndsEmpty
      <3>3. NoneLeft(<<>>, View(party_db'[k][p]), p)
        BY NoneLeftEmpty
      <3>4. QED
        BY <1>10, <2>1, <3>2, <3>3 DEF Heard
    <2>2. CASE k # m
      BY <1>1, <1>2, <1>8, <1>10, <2>2 DEF Known, Heard
    <2>3. QED
      BY <2>1, <2>2
  <1>12. Known(party_db', NextState, {}, party_newid)
    BY <1>1, <1>10, <1>11, StateKnown DEF Known
  <1>13. Known(party_db', State', {}, party_newid')
    BY <1>12 DEF State, NextState
  <1>14. QED
    BY <1>7, <1>9, <1>13 DEF CopiesInv

LEMMA FromCharStep ==
  ASSUME CopiesInv, NEW m \in Maps, FromChar(m)
  PROVE  CopiesInv'
  <1>1. /\ MapTypes /\ LivePointers /\ Known(party_db, State, {}, party_newid)
        /\ UNCHANGED <<party, party_newid, unsure, acts>>
    BY DEF CopiesInv, FromChar
  <1>2. PICK msg : msg = Head(toMap[m])
    OBVIOUS
  <1>3. CASE Dies(m)
    BY <1>1, <1>3, DiesStep
  <1>4. CASE /\ toMap' = [toMap EXCEPT ![m] = Tail(@)]
             /\ \/ party_created(m, msg)
                \/ party_recv_info(m, msg)
                \/ party_recv_noinfo(m, msg)
                \/ party_member_added(m, msg)
                \/ party_member_leaved(m, msg)
                \/ party_broken(m, msg)
                \/ party_optionchanged(m, msg)
                \/ party_recv_movemap(m, msg)
             /\ UNCHANGED char_dat
    <2>1. msg \in Packet /\ toMap[m] # <<>>
      <3>1. toMap[m] \in Seq(Packet) /\ toMap[m] # <<>>
        BY <1>1, StateKnown, StateIs DEF FromChar
      <3>2. QED
        BY <1>2, <3>1, HeadTailProperties
    <2>2. ReadBy(m, msg) /\ Sound(m)
      BY <1>1, <1>4, <2>1, CreatedRead, InfoRead, NoInfoRead, AddedRead, LeavedRead, BrokenRead,
         OptionChangedRead, MovedRead
    <2>3. MapTypes'
      BY <1>1, <1>4, <2>2 DEF MapTypes, Sound, ReadBy
    <2>4. LivePointers'
      <3>1. \A k \in Maps : k # m => party_db'[k] = party_db[k] /\ session'[k] = session[k]
        BY <2>2 DEF ReadBy, Sound, Stays
      <3>2. \A p \in Ids : AliveAt(party_db'[m][p], session'[m])
        BY <1>1, <2>2 DEF ReadBy, LivePointers
      <3>3. QED
        BY <1>1, <3>1, <3>2 DEF LivePointers
    <2>5. Known(party_db', NextState, {}, party_newid)
      BY <1>1, <1>2, <1>4, <2>1, <2>2, KnownRead
    <2>6. Known(party_db', State', {}, party_newid')
      BY <1>1, <2>5 DEF State, NextState
    <2>7. QED
      BY <2>3, <2>4, <2>6 DEF CopiesInv
  <1>5. QED
    BY <1>2, <1>3, <1>4 DEF FromChar

(***************************************************************************)
(* What clients do leaves the parties, what map servers are told and what  *)
(* they know of the parties as they are.                                   *)
(***************************************************************************)
LEMMA QuietStep ==
  ASSUME CopiesInv, MapTypes', LivePointers', UNCHANGED <<party, party_newid, toMap, unsure>>,
         \A m \in Maps, p \in Ids : View(party_db'[m][p]) = View(party_db[m][p])
  PROVE  CopiesInv'
  <1>1. Known(party_db, State, {}, party_newid)
    BY DEF CopiesInv
  <1>2. State' = State
    BY DEF State
  <1>3. \A m \in Maps, p \in Ids : /\ Heard(party_db', State, m, p)
                                   /\ NoneLeft(State.out[m], View(party_db'[m][p]), p)
    BY <1>1 DEF Known, Heard
  <1>4. Known(party_db', State', {}, party_newid')
    BY <1>1, <1>2, <1>3 DEF Known
  <1>5. QED
    BY <1>4 DEF CopiesInv

LEMMA ActsAre ==
  ASSUME MapTypes, NEW m \in Maps, Acts(m)
  PROVE  acts' \in 0 .. MaxActs
  BY PartyAssumption DEF MapTypes, Acts

LEMMA SameCopies ==
  ASSUME CopiesInv, UNCHANGED <<party, party_newid, char_dat, party_db, toMap, unsure>>,
         acts' \in 0 .. MaxActs, NEW m \in Maps, Sound(m)
  PROVE  CopiesInv'
  <1>1. MapTypes /\ LivePointers
    BY DEF CopiesInv
  <1>2. MapTypes'
    BY <1>1 DEF MapTypes, Sound
  <1>3. \A k \in Maps, b \in Accounts : session[k][b] # Nil => session'[k][b] # Nil
    BY DEF Sound, Stays
  <1>4. LivePointers'
    BY <1>1, <1>3 DEF LivePointers, AliveAt
  <1>5. QED
    BY <1>2, <1>4, QuietStep

LEMMA LoginStep ==
  ASSUME CopiesInv, NEW m \in Maps, NEW c \in Chars, Login(m, c)
  PROVE  CopiesInv'
  <1>1. MapTypes
    BY DEF CopiesInv
  <1>2. PICK a, p : a = AccountOf[c] /\ p = char_dat[c]
    OBVIOUS
  <1>3. a \in Accounts /\ p \in Ids \cup {0}
    BY <1>1, <1>2, PartyAssumption DEF MapTypes
  <1>4. PICK x : x = [nick |-> c, party_id |-> p, invite |-> 0, asked |-> FALSE, sended |-> FALSE]
    OBVIOUS
  <1>5. Whose(x, a)
    BY <1>2, <1>3, <1>4 DEF Whose, Session
  <1>6. SetIn(m, a, x) /\ Acts(m)
    BY <1>2, <1>4 DEF Login
  <1>7. session' \in [Maps -> Sessions] /\ Stays(m)
    BY <1>1, <1>3, <1>5, <1>6, SetInIs
  <1>8. toChar' \in [Maps -> Seq(Request)]
    <2>1. CASE p # 0 /\ p \notin Copies(m)
      <3>1. PICK w : w = [kind |-> "request", party |-> p]
        OBVIOUS
      <3>2. w \in Request
        BY <1>3, <2>1, <3>1 DEF Request
      <3>3. Ask(m, <<w>>)
        BY <1>2, <2>1, <3>1 DEF Login
      <3>4. QED
        BY <1>1, <3>2, <3>3, OneRequest, AskIs
    <2>2. CASE ~(p # 0 /\ p \notin Copies(m))
      <3>1. Ask(m, <<>>)
        BY <1>2, <2>2 DEF Login
      <3>2. <<>> \in Seq(Request)
        OBVIOUS
      <3>3. QED
        BY <1>1, <3>1, <3>2, AskIs
    <2>3. QED
      BY <2>1, <2>2
  <1>9. UNCHANGED <<party, party_newid, char_dat, party_db, toMap, unsure, torn>>
    BY DEF Login
  <1>10. Sound(m)
    BY <1>1, <1>7, <1>8, <1>9, SoundNow DEF Sound
  <1>11. acts' \in 0 .. MaxActs
    BY <1>1, <1>6, ActsAre
  <1>12. QED
    BY <1>9, <1>10, <1>11, SameCopies

(* Packets of a session that is in a party. *)
LEMMA MoveIs ==
  ASSUME NEW s \in Session, s.party_id # 0, NEW on \in BOOLEAN
  PROVE  Move(s, on) \in Request
  <1>1. AccountOf[s.nick] \in Accounts /\ s.party_id \in Ids
    BY PartyAssumption DEF Session
  <1>2. PICK w : w = [kind |-> "move", party |-> s.party_id, acc |-> AccountOf[s.nick], online |-> on]
    OBVIOUS
  <1>3. w \in [kind : {"move"}, party : Ids, acc : Accounts, online : BOOLEAN]
    BY <1>1, <1>2
  <1>4. QED
    BY <1>2, <1>3 DEF Move, Request

(* The session is freed: its own party drops the pointer to it, the pointers
   of other parties are no longer live. *)
LEMMA LogoutStep ==
  ASSUME CopiesInv, NEW m \in Maps, NEW a \in Accounts, party_send_logout(m, a)
  PROVE  CopiesInv'
  <1>1. MapTypes /\ LivePointers
    BY DEF CopiesInv
  <1>2. PICK s : s = session[m][a]
    OBVIOUS
  <1>3. /\ s \in Session /\ AccountOf[s.nick] = a /\ Acts(m) /\ SetIn(m, a, Nil)
        /\ Ask(m, (IF s.party_id # 0 THEN <<Move(s, FALSE)>> ELSE <<>>)
                  \o <<[kind |-> "save", nick |-> s.nick, party |-> s.party_id]>>)
        /\ party_db' = [party_db EXCEPT ![m] = Cut(m, a, s.party_id)]
        /\ UNCHANGED <<party, party_newid, char_dat, toMap, unsure, torn>>
    BY <1>1, <1>2, SoundNow, SessionsAre DEF party_send_logout
  <1>4. toChar' \in [Maps -> Seq(Request)]
    <2>1. PICK q : q = IF s.party_id # 0 THEN <<Move(s, FALSE)>> ELSE <<>>
      OBVIOUS
    <2>2. q \in Seq(Request)
      <3>1. CASE s.party_id # 0
        <4>1. PICK v : v = Move(s, FALSE)
          OBVIOUS
        <4>2. v \in Request
          BY <1>3, <3>1, <4>1, MoveIs
        <4>3. q = <<v>>
          BY <2>1, <3>1, <4>1
        <4>4. QED
          BY <4>2, <4>3, OneRequest
      <3>2. CASE s.party_id = 0
        <4>1. q = <<>>
          BY <2>1, <3>2
        <4>2. QED
          BY <4>1
      <3>3. QED
        BY <3>1, <3>2
    <2>3. PICK w : w = [kind |-> "save", nick |-> s.nick, party |-> s.party_id]
      OBVIOUS
    <2>4. w \in Request
      BY <1>3, <2>3 DEF Session, Request
    <2>5. q \o <<w>> \in Seq(Request) /\ Ask(m, q \o <<w>>)
      <3>1. <<w>> \in Seq(Request)
        BY <2>4
      <3>2. q \o <<w>> \in Seq(Request)
        BY <2>2, <3>1
      <3>3. QED
        BY <1>3, <2>1, <2>3, <3>2
    <2>6. QED
      BY <1>1, <2>5, AskIs
  <1>5. /\ session' \in [Maps -> Sessions] /\ session'[m][a] = Nil
        /\ \A k \in Maps, b \in Accounts : k # m \/ b # a => session'[k][b] = session[k][b]
    <2>1. session \in [Maps -> Sessions] /\ session[m] \in Sessions
      BY <1>1, SoundNow
    <2>2. PICK f : f = [session[m] EXCEPT ![a] = Nil]
      OBVIOUS
    <2>3. f \in Sessions
      <3>1. Fits(Nil, a)
        BY DEF Fits
      <3>2. QED
        BY <2>1, <2>2, <3>1, OneSession
    <2>4. session' = [session EXCEPT ![m] = f]
      BY <1>3, <2>1, <2>2 DEF SetIn
    <2>5. f[a] = Nil /\ \A b \in Accounts : b # a => f[b] = session[m][b]
      BY <2>1, <2>2 DEF Sessions
    <2>6. QED
      BY <2>1, <2>3, <2>4, <2>5
  <1>6. ASSUME NEW p \in Ids
        PROVE  LET c == party_db[m][p]
                   d == Cut(m, a, s.party_id)[p]
               IN d \in Kept /\ View(d) = View(c) /\ (AliveAt(c, session[m]) => AliveAt(d, session'[m]))
    <2>1. PICK c, d : c = party_db[m][p] /\ d = Cut(m, a, s.party_id)[p]
      OBVIOUS
    <2>2. c \in Kept
      BY <1>1, <2>1, SoundNow
    <2>3. CASE c = Nil
      <3>1. d = Nil
        BY <2>1, <2>3 DEF Cut
      <3>2. AliveAt(d, session'[m])
        BY <3>1 DEF AliveAt
      <3>3. QED
        BY <2>1, <2>2, <2>3, <3>1, <3>2
    <2>4. CASE c # Nil
      <3>1. PICK sd : sd = [i \in Slots |->
              IF Of(a, c.member[i]) /\ c.sd[i] = "live"
              THEN IF p = s.party_id THEN "none" ELSE "dangling" ELSE c.sd[i]]
        OBVIOUS
      <3>2. d = [c EXCEPT !.sd = sd]
        BY <2>1, <2>4, <3>1 DEF Cut
      <3>3. /\ c = [member |-> c.member, exp |-> c.exp, item |-> c.item, sd |-> c.sd]
            /\ c.member \in [Slots -> Member \cup {Vacant}] /\ c.exp \in BOOLEAN /\ c.item \in BOOLEAN
            /\ c.sd \in [Slots -> {"none", "live", "dangling"}]
            /\ View(c) = [member |-> c.member, exp |-> c.exp, item |-> c.item]
        BY <2>2, <2>4, ViewIs
      <3>4. sd \in [Slots -> {"none", "live", "dangling"}]
        BY <3>1, <3>3
      <3>5. d = Copy(c, sd)
        BY <3>2, <3>3 DEF Copy
      <3>6. Copy(c, sd) \in Kept /\ View(Copy(c, sd)) = [member |-> c.member, exp |-> c.exp, item |-> c.item]
        BY <3>3, <3>4, CopyIs
      <3>7. AliveAt(c, session[m]) => AliveAt(d, session'[m])
        <4>1. d.member = c.member /\ d.sd = sd
          BY <3>5 DEF Copy
        <4>2. ASSUME AliveAt(c, session[m]), NEW i \in Slots, sd[i] = "live",
                     NEW b \in Accounts, Of(b, c.member[i])
              PROVE  session'[m][b] # Nil
          <5>1. c.sd[i] = "live" /\ ~Of(a, c.member[i])
            BY <3>1, <4>2
          <5>2. session[m][b] # Nil
            BY <2>4, <4>2, <5>1 DEF AliveAt
          <5>3. b # a
            BY <4>2, <5>1
          <5>4. QED
            BY <1>5, <5>2, <5>3
        <4>3. QED
          BY <4>1, <4>2 DEF AliveAt
      <3>8. QED
        BY <2>1, <3>3, <3>5, <3>6, <3>7
    <2>5. QED
      BY <2>3, <2>4
  <1>7. PICK g : g = Cut(m, a, s.party_id)
    OBVIOUS
  <1>8. g \in [Ids -> Kept]
    <2>1. g = [p \in Ids |-> g[p]]
      BY <1>7 DEF Cut
    <2>2. \A p \in Ids : g[p] \in Kept
      BY <1>6, <1>7
    <2>3. QED
      BY <2>1, <2>2
  <1>9. /\ party_db' \in [Maps -> [Ids -> Kept]] /\ party_db'[m] = g
        /\ \A k \in Maps : k # m => party_db'[k] = party_db[k]
    <2>1. party_db \in [Maps -> [Ids -> Kept]] /\ party_db' = [party_db EXCEPT ![m] = g]
      BY <1>1, <1>3, <1>7, SoundNow
    <2>2. QED
      BY <1>8, <2>1
  <1>10. acts' \in 0 .. MaxActs
    BY <1>1, <1>3, ActsAre
  <1>11. MapTypes'
    BY <1>1, <1>3, <1>4, <1>5, <1>9, <1>10 DEF MapTypes
  <1>12. \A k \in Maps, p \in Ids : View(party_db'[k][p]) = View(party_db[k][p])
    BY <1>6, <1>7, <1>9
  <1>13. LivePointers'
    <2>1. \A p \in Ids : AliveAt(party_db'[m][p], session'[m])
      BY <1>1, <1>6, <1>7, <1>9 DEF LivePointers
    <2>2. ASSUME NEW k \in Maps, k # m, NEW p \in Ids
          PROVE  AliveAt(party_db'[k][p], session'[k])
      <3>1. AliveAt(party_db[k][p], session[k])
        BY <1>1 DEF LivePointers
      <3>2. party_db'[k] = party_db[k] /\ \A b \in Accounts : session'[k][b] = session[k][b]
        BY <1>5, <1>9, <2>2
      <3>3. QED
        BY <3>1, <3>2 DEF AliveAt
    <2>3. QED
      BY <2>1, <2>2 DEF LivePointers
  <1>14. QED
    BY <1>3, <1>11, <1>12, <1>13, QuietStep

(* A session is in party p. *)
Here(f, a, p) == f[a] # Nil /\ f[a].party_id = p

(* What the first move of a session that was not shown its party does: copy c
   of party id gets pointers sd, sessions f become after. *)
Shows(m, a, id, c, f, after, sd) ==
  /\ session' = [session EXCEPT ![m] = [after EXCEPT ![a].sended = @ \/ after[a].party_id = id]]
  /\ torn' = torn \cup (Forgotten(c, id, f) \cap Members(party[id]))
  /\ party_db' = [party_db EXCEPT ![m][id].sd = sd]
  /\ sd \in [Slots -> {c.sd[i] : i \in Slots} \cup {"none"}]
  /\ \A i \in Slots : sd[i] \in {"none", c.sd[i]}
  /\ \A i \in Slots, b \in Accounts :
       Here(f, b, id) /\ Of(b, c.member[i]) /\ sd[i] # "none" => c.member[i].nick = f[b].nick

LEMMA ShownIs ==
  ASSUME NEW m \in Maps, NEW a \in Accounts, party_send_movemap(m, a), NEW s, NEW id, NEW c, NEW f,
         s = session[m][a], id = s.party_id, c = party_db[m][id], f = session[m],
         ~(s.sended \/ c = Nil), NEW after, after = party_check_member(c, id, f)
  PROVE  \E sd : Shows(m, a, id, c, f, after, sd)
  <1>1. ~(session[m][a].sended \/ party_db[m][session[m][a].party_id] = Nil)
    OBVIOUS
  <1>2. /\ session' = [session EXCEPT ![m] =
             [party_check_member(party_db[m][session[m][a].party_id], session[m][a].party_id, session[m])
              EXCEPT ![a].sended =
                @ \/ party_check_member(party_db[m][session[m][a].party_id], session[m][a].party_id,
                                        session[m])[a].party_id = session[m][a].party_id]]
        /\ party_db' = [party_db EXCEPT ![m][session[m][a].party_id].sd = [i \in Slots |->
             IF \E b \in Accounts : /\ session[m][b] # Nil /\ session[m][b].party_id = session[m][a].party_id
                                    /\ Of(b, party_db[m][session[m][a].party_id].member[i])
                                    /\ party_db[m][session[m][a].party_id].member[i].nick
                                         # session[m][b].nick
             THEN "none" ELSE @[i]]]
        /\ torn' = torn \cup (Forgotten(party_db[m][session[m][a].party_id], session[m][a].party_id,
                                        session[m]) \cap Members(party[session[m][a].party_id]))
    BY <1>1, Zenon DEF party_send_movemap
  <1>3. PICK sd : sd = [i \in Slots |->
             IF \E b \in Accounts : /\ session[m][b] # Nil /\ session[m][b].party_id = session[m][a].party_id
                                    /\ Of(b, party_db[m][session[m][a].party_id].member[i])
                                    /\ party_db[m][session[m][a].party_id].member[i].nick
                                         # session[m][b].nick
             THEN "none" ELSE party_db[m][session[m][a].party_id].sd[i]]
    OBVIOUS
  <1>4. \A i \in Slots : sd[i] \in {"none", party_db[m][session[m][a].party_id].sd[i]}
    BY <1>3
  <1>5. sd \in [Slots -> {c.sd[i] : i \in Slots} \cup {"none"}] /\ \A i \in Slots : sd[i] \in {"none", c.sd[i]}
    <2>1. sd = [i \in Slots |-> sd[i]]
      BY <1>3
    <2>2. \A i \in Slots : sd[i] \in {"none", c.sd[i]}
      BY <1>4
    <2>3. \A i \in Slots : sd[i] \in {c.sd[j] : j \in Slots} \cup {"none"}
      BY <2>2
    <2>4. QED
      BY ONLY <2>1, <2>2, <2>3
  <1>6. party_db' = [party_db EXCEPT ![m][session[m][a].party_id].sd = sd]
    BY <1>2, <1>3
  <1>7. party_db' = [party_db EXCEPT ![m][id].sd = sd]
    BY <1>6
  <1>8. /\ session' = [session EXCEPT ![m] =
             [after EXCEPT ![a].sended = @ \/ after[a].party_id = id]]
        /\ torn' = torn \cup (Forgotten(c, id, f) \cap Members(party[id]))
    BY <1>2
  <1>9. \A i \in Slots, b \in Accounts :
           Here(f, b, id) /\ Of(b, c.member[i]) /\ sd[i] # "none" => c.member[i].nick = f[b].nick
    BY <1>3 DEF Here
  <1>10. Shows(m, a, id, c, f, after, sd)
    BY <1>5, <1>7, <1>8, <1>9 DEF Shows
  <1>11. QED
    BY <1>10

(* A session that is shown its party: pointers to it are dropped only. *)
LEMMA MoveMapStep ==
  ASSUME CopiesInv, NEW m \in Maps, NEW a \in Accounts, party_send_movemap(m, a)
  PROVE  CopiesInv'
  <1>1. MapTypes /\ LivePointers
    BY DEF CopiesInv
  <1>2. PICK s, id, c, f : s = session[m][a] /\ id = s.party_id /\ c = party_db[m][id] /\ f = session[m]
    OBVIOUS
  <1>3. /\ s # Nil /\ id # 0 /\ Acts(m)
        /\ Ask(m, <<Move(s, TRUE)>> \o (IF s.sended THEN <<>> ELSE <<Check(s)>>))
        /\ UNCHANGED <<party, party_newid, char_dat, toMap, unsure>>
    BY <1>2 DEF party_send_movemap, Idle
  <1>4. s \in Session /\ id \in Ids /\ f \in Sessions /\ c \in Kept
    <2>1. s \in Session /\ f \in Sessions
      BY <1>1, <1>2, <1>3, SoundNow, SessionsAre
    <2>2. id \in Ids
      BY <1>2, <1>3, <2>1 DEF Session
    <2>3. QED
      BY <1>1, <1>2, <2>1, <2>2, SoundNow
  <1>5. toChar' \in [Maps -> Seq(Request)]
    <2>1. PICK v, w, q : v = Move(s, TRUE) /\ w = Check(s) /\ q = IF s.sended THEN <<>> ELSE <<w>>
      OBVIOUS
    <2>2. v \in Request
      BY <1>2, <1>3, <1>4, <2>1, MoveIs
    <2>3. w \in Request
      <3>1. s.nick \in Chars /\ s.party_id \in Ids
        BY <1>2, <1>4 DEF Session
      <3>2. w = [kind |-> "check", party |-> s.party_id, nick |-> s.nick]
        BY <2>1 DEF Check
      <3>3. QED
        BY <3>1, <3>2 DEF Request
    <2>4. q \in Seq(Request)
      BY <2>1, <2>3
    <2>5. <<v>> \o q \in Seq(Request)
      <3>1. <<v>> \in Seq(Request)
        BY <2>2, OneRequest
      <3>2. QED
        BY <2>4, <3>1
    <2>6. Ask(m, <<v>> \o q)
      BY <1>3, <2>1
    <2>7. QED
      BY <1>1, <2>5, <2>6, AskIs
  <1>6. acts' \in 0 .. MaxActs
    BY <1>1, <1>3, ActsAre
  <1>7. CASE UNCHANGED <<server, torn>>
    <2>1. UNCHANGED <<party_db, session, torn>>
      BY <1>7 DEF server
    <2>2. Sound(m)
      BY <1>1, <1>5, <2>1, SoundNow DEF Sound, Stays
    <2>3. QED
      BY <1>3, <1>6, <2>1, <2>2, SameCopies
  <1>8. CASE ~(s.sended \/ c = Nil)
    <2>1. PICK after : after = party_check_member(c, id, f)
      OBVIOUS
    <2>2. PICK sd : Shows(m, a, id, c, f, after, sd)
      BY <1>2, <1>8, <2>1, ShownIs
    <2>3. /\ after \in Sessions /\ \A b \in Accounts : f[b] # Nil => after[b] # Nil
          /\ Forgotten(c, id, f) \subseteq Chars
      BY <1>4, <2>1, CheckedMembers
    <2>4. session' \in [Maps -> Sessions] /\ Stays(m)
      <3>1. PICK x, k : x = after[a] /\ k = (x.sended \/ x.party_id = id)
        OBVIOUS
      <3>2. x \in Session /\ AccountOf[x.nick] = a
        BY <1>2, <1>3, <2>3, <3>1, SessionsAre
      <3>3. k \in BOOLEAN
        BY <3>1
      <3>4. PICK y : y = [x EXCEPT !.sended = k]
        OBVIOUS
      <3>5. 0 \in Ids \cup {0}
        OBVIOUS
      <3>6. Fits(y, a) /\ y # Nil
        BY <3>2, <3>3, <3>4, <3>5, SessionPut, WhoseFits
      <3>7. PICK g : g = [after EXCEPT ![a] = y]
        OBVIOUS
      <3>8. g \in Sessions
        BY <2>3, <3>6, <3>7, OneSession
      <3>9. \A b \in Accounts : g[b] = IF b = a THEN y ELSE after[b]
        BY <2>3, <3>7 DEF Sessions
      <3>10. g = [after EXCEPT ![a].sended = @ \/ after[a].party_id = id]
        BY <3>1, <3>4, <3>7
      <3>11. session' = [session EXCEPT ![m] = g]
        BY <2>2, <3>10 DEF Shows
      <3>12. \A b \in Accounts : session[m][b] # Nil => g[b] # Nil
        BY <1>2, <2>3, <3>6, <3>9
      <3>13. QED
        BY <1>1, <3>8, <3>11, <3>12, SessionsPut
    <2>5. torn' \in SUBSET Chars
      BY <1>1, <2>2, <2>3, SoundNow DEF Shows
    <2>6. /\ party_db' = [party_db EXCEPT ![m][id].sd = sd]
          /\ sd \in [Slots -> {c.sd[i] : i \in Slots} \cup {"none"}]
          /\ \A i \in Slots : sd[i] \in {"none", c.sd[i]}
      BY <2>2 DEF Shows
    <2>7. /\ c = [member |-> c.member, exp |-> c.exp, item |-> c.item, sd |-> c.sd]
          /\ c.member \in [Slots -> Member \cup {Vacant}] /\ c.exp \in BOOLEAN /\ c.item \in BOOLEAN
          /\ c.sd \in [Slots -> {"none", "live", "dangling"}]
          /\ View(c) = [member |-> c.member, exp |-> c.exp, item |-> c.item]
      BY <1>4, <1>8, ViewIs
    <2>8. sd \in [Slots -> {"none", "live", "dangling"}] /\ \A i \in Slots : sd[i] = "live" => c.sd[i] = "live"
      BY <2>6, <2>7
    <2>9. PICK d : d = [c EXCEPT !.sd = sd]
      OBVIOUS
    <2>10. d = Copy(c, sd) /\ d.member = c.member /\ d.sd = sd
      BY <2>7, <2>9 DEF Copy
    <2>11. d \in Kept /\ View(d) = View(c)
      BY <2>7, <2>8, <2>10, CopyIs
    <2>12. PICK h : h = party_db[m]
      OBVIOUS
    <2>13. h \in [Ids -> Kept] /\ party_db \in [Maps -> [Ids -> Kept]] /\ h[id] = c
      BY <1>1, <1>2, <2>12, SoundNow
    <2>14. party_db' = [party_db EXCEPT ![m] = [h EXCEPT ![id] = d]]
      BY <1>2, <2>6, <2>9, <2>12, <2>13
    <2>15. PICK g : g = [h EXCEPT ![id] = d]
      OBVIOUS
    <2>16. g \in [Ids -> Kept] /\ \A p \in Ids : g[p] = IF p = id THEN d ELSE h[p]
      BY <2>11, <2>13, <2>15
    <2>17. /\ party_db' \in [Maps -> [Ids -> Kept]] /\ party_db'[m] = g
           /\ \A k \in Maps : k # m => party_db'[k] = party_db[k]
      BY <2>13, <2>14, <2>15, <2>16
    <2>18. MapTypes'
      BY <1>1, <1>3, <1>5, <1>6, <2>4, <2>5, <2>17 DEF MapTypes
    <2>19. \A k \in Maps, p \in Ids : View(party_db'[k][p]) = View(party_db[k][p])
      BY <2>11, <2>12, <2>13, <2>16, <2>17
    <2>20. LivePointers'
      <3>1. \A k \in Maps, b \in Accounts : session[k][b] # Nil => session'[k][b] # Nil
        BY <2>4 DEF Stays
      <3>2. AliveAt(c, session[m]) => AliveAt(d, session[m])
        BY <1>8, <2>8, <2>10 DEF AliveAt
      <3>3. \A k \in Maps, p \in Ids : AliveAt(party_db'[k][p], session[k])
        BY <1>1, <2>12, <2>13, <2>16, <2>17, <3>2 DEF LivePointers
      <3>4. QED
        BY <3>1, <3>3 DEF LivePointers, AliveAt
    <2>21. QED
      BY <1>3, <2>18, <2>19, <2>20, QuietStep
  <1>9. QED
    BY <1>2, <1>7, <1>8 DEF party_send_movemap

(* What asks the char server for something, or another session. *)
LEMMA ClientStep ==
  ASSUME CopiesInv, NEW m \in Maps, NEW a, NEW new, NEW msgs \in Seq(Request), NEW more,
         more \subseteq Chars, Client(m, a, new, msgs, more),
         session' \in [Maps -> Sessions], Stays(m)
  PROVE  CopiesInv'
  <1>1. MapTypes
    BY DEF CopiesInv
  <1>2. /\ Acts(m) /\ Ask(m, msgs) /\ torn' = torn \cup more
        /\ UNCHANGED <<party, party_newid, char_dat, party_db, toMap, unsure>>
    BY DEF Client, Idle
  <1>3. toChar' \in [Maps -> Seq(Request)]
    BY <1>1, <1>2, AskIs
  <1>4. torn' \in SUBSET Chars
    BY <1>1, <1>2, SoundNow
  <1>5. Sound(m)
    BY <1>3, <1>4 DEF Sound
  <1>6. acts' \in 0 .. MaxActs
    BY <1>1, <1>2, ActsAre
  <1>7. QED
    BY <1>2, <1>5, <1>6, SameCopies

LEMMA AskingIs ==
  ASSUME MapTypes, NEW m \in Maps, NEW a \in Accounts, session[m][a] # Nil, session' = Asking(m, a)
  PROVE  /\ session' \in [Maps -> Sessions] /\ Stays(m)
         /\ session[m][a].nick \in Chars /\ Overlap(session[m][a]) \subseteq Chars
  <1>1. PICK x : x = session[m][a]
    OBVIOUS
  <1>2. x \in Session /\ AccountOf[x.nick] = a
    BY <1>1, SoundNow, SessionsAre
  <1>3. PICK y : y = [x EXCEPT !.asked = TRUE]
    OBVIOUS
  <1>4. 0 \in Ids \cup {0} /\ TRUE \in BOOLEAN
    OBVIOUS
  <1>5. Whose(y, a)
    BY <1>2, <1>3, <1>4, SessionPut
  <1>6. SetIn(m, a, y)
    BY <1>1, <1>3 DEF SetIn, Asking
  <1>7. x.nick \in Chars
    BY <1>2 DEF Session
  <1>8. QED
    BY <1>1, <1>5, <1>6, <1>7, SetInIs DEF Overlap

LEMMA InviteIs ==
  ASSUME MapTypes, NEW m \in Maps, NEW b \in Accounts, session[m][b] # Nil, NEW p \in Ids \cup {0},
         session' = [session EXCEPT ![m][b].invite = p]
  PROVE  session' \in [Maps -> Sessions] /\ Stays(m)
  <1>1. PICK x : x = session[m][b]
    OBVIOUS
  <1>2. x \in Session /\ AccountOf[x.nick] = b
    BY <1>1, SoundNow, SessionsAre
  <1>3. PICK y : y = [x EXCEPT !.invite = p]
    OBVIOUS
  <1>4. TRUE \in BOOLEAN
    OBVIOUS
  <1>5. Whose(y, b)
    BY <1>2, <1>3, <1>4, SessionPut
  <1>6. SetIn(m, b, y)
    BY <1>1, <1>3 DEF SetIn
  <1>7. QED
    BY <1>5, <1>6, SetInIs

LEMMA MineIs ==
  ASSUME MapTypes, NEW m \in Maps, NEW a \in Accounts, Mine(m, a) # Nil
  PROVE  session[m][a].party_id \in Ids
  BY DEF Mine, Copies

LEMMA RequestsStep ==
  ASSUME CopiesInv, NEW m \in Maps, NEW a \in Accounts,
         \/ party_create(m, a) \/ Accept(m, a)
         \/ \E b \in Accounts : party_removemember(m, a, b)
         \/ \E o \in Options : party_changeoption(m, a, o[1], o[2])
  PROVE  CopiesInv'
  <1>1. MapTypes
    BY DEF CopiesInv
  <1>2. PICK s : s = session[m][a]
    OBVIOUS
  <1>3. CASE party_create(m, a)
    <2>1. PICK w : w = [kind |-> "create", acc |-> a, nick |-> s.nick]
      OBVIOUS
    <2>2. s # Nil /\ Client(m, a, Asking(m, a), <<w>>, Overlap(s))
      BY <1>2, <1>3, <2>1 DEF party_create
    <2>3. session' = Asking(m, a)
      BY <2>2 DEF Client
    <2>4. session' \in [Maps -> Sessions] /\ Stays(m) /\ s.nick \in Chars /\ Overlap(s) \subseteq Chars
      BY <1>1, <1>2, <2>2, <2>3, AskingIs
    <2>5. w \in Request
      BY <2>1, <2>4 DEF Request
    <2>6. <<w>> \in Seq(Request)
      BY <2>5, OneRequest
    <2>7. QED
      BY <2>2, <2>4, <2>6, ClientStep
  <1>4. CASE Accept(m, a)
    <2>1. PICK w : w = [kind |-> "add", party |-> s.invite, acc |-> a, nick |-> s.nick]
      OBVIOUS
    <2>2. s # Nil /\ s.invite # 0 /\ Client(m, a, Asking(m, a), <<w>>, Overlap(s))
      BY <1>2, <1>4, <2>1 DEF Accept
    <2>3. session' = Asking(m, a)
      BY <2>2 DEF Client
    <2>4. session' \in [Maps -> Sessions] /\ Stays(m) /\ s.nick \in Chars /\ Overlap(s) \subseteq Chars
      BY <1>1, <1>2, <2>2, <2>3, AskingIs
    <2>5. s.invite \in Ids
      <3>1. s \in Session
        BY <1>1, <1>2, <2>2, SoundNow, SessionsAre
      <3>2. QED
        BY <2>2, <3>1 DEF Session
    <2>6. w \in Request
      BY <2>1, <2>4, <2>5 DEF Request
    <2>7. <<w>> \in Seq(Request)
      BY <2>6, OneRequest
    <2>8. QED
      BY <2>2, <2>4, <2>7, ClientStep
  <1>5. ASSUME NEW w \in Request, Client(m, a, session, <<w>>, {})
        PROVE  CopiesInv'
    <2>1. session' = session
      BY <1>5 DEF Client
    <2>2. session' \in [Maps -> Sessions] /\ Stays(m)
      BY <1>1, <2>1, SoundNow DEF Stays
    <2>3. PICK q, more : q = <<w>> /\ more = {}
      OBVIOUS
    <2>4. q \in Seq(Request) /\ more \subseteq Chars
      BY <2>3, OneRequest
    <2>5. Client(m, a, session, q, more)
      BY <1>5, <2>3
    <2>6. QED
      BY <2>2, <2>4, <2>5, ClientStep
  <1>6. ASSUME NEW b \in Accounts, party_removemember(m, a, b)
        PROVE  CopiesInv'
    <2>1. PICK w : w = [kind |-> "leave", party |-> session[m][a].party_id, acc |-> b]
      OBVIOUS
    <2>2. Mine(m, a) # Nil /\ Client(m, a, session, <<w>>, {})
      BY <1>6, <2>1 DEF party_removemember
    <2>3. w \in Request
      BY <1>1, <2>1, <2>2, MineIs DEF Request
    <2>4. QED
      BY <1>5, <2>2, <2>3
  <1>7. ASSUME NEW o \in Options, party_changeoption(m, a, o[1], o[2])
        PROVE  CopiesInv'
    <2>1. PICK x, y : x = o[1] /\ y = o[2]
      OBVIOUS
    <2>2. x \in BOOLEAN /\ y \in BOOLEAN
      BY <2>1, PartyAssumption
    <2>3. PICK w : w = [kind |-> "option", party |-> session[m][a].party_id, exp |-> x, item |-> y]
      OBVIOUS
    <2>4. Mine(m, a) # Nil /\ Client(m, a, session, <<w>>, {})
      BY <1>7, <2>1, <2>3 DEF party_changeoption
    <2>5. session[m][a].party_id \in Ids
      BY <1>1, <2>4, MineIs
    <2>6. w \in Request
      BY <2>2, <2>3, <2>5 DEF Request
    <2>7. QED
      BY <1>5, <2>4, <2>6
  <1>8. QED
    BY <1>3, <1>4, <1>6, <1>7

LEMMA InvitationsStep ==
  ASSUME CopiesInv, NEW m \in Maps, NEW a \in Accounts,
         Refuse(m, a) \/ \E b \in Accounts : party_invite(m, a, b)
  PROVE  CopiesInv'
  <1>1. MapTypes
    BY DEF CopiesInv
  <1>2. ASSUME NEW b \in Accounts, NEW p \in Ids \cup {0}, session[m][b] # Nil,
               Client(m, a, [session EXCEPT ![m][b].invite = p], <<>>, {})
        PROVE  CopiesInv'
    <2>1. session' = [session EXCEPT ![m][b].invite = p]
      BY <1>2 DEF Client
    <2>2. session' \in [Maps -> Sessions] /\ Stays(m)
      BY <1>1, <1>2, <2>1, InviteIs
    <2>3. PICK q, more, new : q = <<>> /\ more = {} /\ new = [session EXCEPT ![m][b].invite = p]
      OBVIOUS
    <2>4. q \in Seq(Request) /\ more \subseteq Chars
      BY <2>3
    <2>5. Client(m, a, new, q, more)
      BY <1>2, <2>3
    <2>6. QED
      BY <2>2, <2>4, <2>5, ClientStep
  <1>3. CASE Refuse(m, a)
    <2>1. session[m][a] # Nil /\ Client(m, a, [session EXCEPT ![m][a].invite = 0], <<>>, {})
      BY <1>3 DEF Refuse
    <2>2. 0 \in Ids \cup {0}
      OBVIOUS
    <2>3. QED
      BY <1>2, <2>1, <2>2
  <1>4. ASSUME NEW b \in Accounts, party_invite(m, a, b)
        PROVE  CopiesInv'
    <2>1. PICK p : p = session[m][a].party_id
      OBVIOUS
    <2>2. /\ session[m][b] # Nil /\ p \in Ids \cup {0}
          /\ Client(m, a, [session EXCEPT ![m][b].invite = p], <<>>, {})
      BY <1>4, <2>1 DEF party_invite, Copies
    <2>3. QED
      BY <1>2, <2>2
  <1>5. QED
    BY <1>3, <1>4

LEMMA CopiesInit ==
  ASSUME Init
  PROVE  CopiesInv
  <1>1. MapTypes /\ LivePointers
    <2>1. PICK none, lost : none = [a \in Accounts |-> Nil] /\ lost = [p \in Ids |-> Nil]
      OBVIOUS
    <2>2. none \in Sessions /\ lost \in [Ids -> Kept]
      BY <2>1 DEF Sessions, Fits, Kept
    <2>3. session = [m \in Maps |-> none] /\ party_db = [m \in Maps |-> lost]
      BY <2>1 DEF Init
    <2>4. session \in [Maps -> Sessions] /\ party_db \in [Maps -> [Ids -> Kept]]
      BY <2>2, <2>3
    <2>5. toChar \in [Maps -> Seq(Request)]
      BY OneRequest DEF Init
    <2>6. 1 \in 1 .. MaxParty + 1 /\ 0 \in 0 .. MaxActs
      BY PartyAssumption
    <2>7. char_dat \in [Chars -> Ids \cup {0}]
      BY DEF Init
    <2>8. MapTypes
      BY <2>4, <2>5, <2>6, <2>7 DEF MapTypes, Init
    <2>9. QED
      BY <2>8 DEF LivePointers, AliveAt, Init
  <1>2. State \in States /\ State.party = party /\ State.out = toMap /\ State.unsure = unsure
    <2>1. party \in [Ids -> Views]
      BY DEF Init, Views
    <2>2. toMap \in [Maps -> Seq(Packet)] /\ unsure \in SUBSET Ids
      BY DEF Init
    <2>3. QED
      BY <2>1, <2>2 DEF State, States
  <1>3. ASSUME NEW m \in Maps, NEW p \in Ids
        PROVE  Heard(party_db, State, m, p) /\ NoneLeft(State.out[m], View(party_db[m][p]), p)
    <2>1. View(party_db[m][p]) = Nil /\ toMap[m] = <<>>
      BY DEF Init, View
    <2>2. Nil \in Agreeing(party[p], p \in unsure)
      BY DEF Agreeing, Views
    <2>3. Ends(<<>>, Nil, p, Agreeing(party[p], p \in unsure))
      BY <2>2, EndsEmpty
    <2>4. NoneLeft(<<>>, Nil, p)
      BY NoneLeftEmpty
    <2>5. QED
      BY <1>2, <2>1, <2>3, <2>4 DEF Heard
  <1>4. \A p \in Ids : State.party[p] = Nil
    BY <1>2 DEF Init
  <1>5. QED
    BY <1>1, <1>2, <1>3, <1>4 DEF CopiesInv, Known

LEMMA CopiesNext ==
  ASSUME CopiesInv, [Next]_vars
  PROVE  CopiesInv'
  <1>1. CASE UNCHANGED vars
    <2>1. /\ UNCHANGED <<party, party_newid, char_dat, toChar, toMap, unsure, acts, torn>>
          /\ UNCHANGED <<party_db, session>>
      BY <1>1 DEF vars, server
    <2>2. MapTypes' /\ LivePointers'
      BY <2>1 DEF CopiesInv, MapTypes, LivePointers
    <2>3. QED
      BY <2>1, <2>2, QuietStep
  <1>2. ASSUME NEW m \in Maps, FromMap(m) \/ FromChar(m)
        PROVE  CopiesInv'
    BY <1>2, FromMapStep, FromCharStep
  <1>3. ASSUME NEW m \in Maps, NEW c \in Chars, Login(m, c)
        PROVE  CopiesInv'
    BY <1>3, LoginStep
  <1>4. ASSUME NEW m \in Maps, NEW a \in Accounts,
               \/ party_send_logout(m, a)
               \/ party_send_movemap(m, a)
               \/ party_create(m, a)
               \/ Accept(m, a)
               \/ Refuse(m, a)
               \/ \E b \in Accounts : party_invite(m, a, b) \/ party_removemember(m, a, b)
               \/ \E o \in Options : party_changeoption(m, a, o[1], o[2])
        PROVE  CopiesInv'
    <2>1. CASE party_send_logout(m, a)
      BY <2>1, LogoutStep
    <2>2. CASE party_send_movemap(m, a)
      BY <2>2, MoveMapStep
    <2>3. CASE \/ party_create(m, a) \/ Accept(m, a)
               \/ \E b \in Accounts : party_removemember(m, a, b)
               \/ \E o \in Options : party_changeoption(m, a, o[1], o[2])
      BY <2>3, RequestsStep
    <2>4. CASE Refuse(m, a) \/ \E b \in Accounts : party_invite(m, a, b)
      BY <2>4, InvitationsStep
    <2>5. QED
      BY <1>4, <2>1, <2>2, <2>3, <2>4
  <1>5. QED
    BY <1>1, <1>2, <1>3, <1>4 DEF Next

LEMMA CopiesImplied ==
  ASSUME CopiesInv
  PROVE  CopiesAgree /\ TypeOK
  <1>1. /\ MapTypes /\ Known(party_db, State, {}, party_newid)
        /\ State \in States /\ State.party = party /\ State.out = toMap /\ State.unsure = unsure
        /\ party \in [Ids -> Views] /\ unsure \subseteq Ids
    BY StateKnown, StateIs DEF CopiesInv
  <1>2. CopiesAgree
    <2>1. ASSUME NEW m \in Maps, NEW p \in Ids, toMap[m] = <<>>, party_db[m][p] # Nil
          PROVE  /\ party[p] # Nil
                 /\ party_db[m][p].member = party[p].member
                 /\ p \notin unsure => /\ party_db[m][p].exp = party[p].exp
                                       /\ party_db[m][p].item = party[p].item
      <3>1. PICK c, v : c = party_db[m][p] /\ v = View(c)
        OBVIOUS
      <3>2. c \in Kept /\ c # Nil
        BY <1>1, <2>1, <3>1, SoundNow
      <3>3. v \in Views /\ v # Nil /\ v = [member |-> c.member, exp |-> c.exp, item |-> c.item]
        BY <3>1, <3>2, ViewIs
      <3>4. Ends(<<>>, v, p, Agreeing(party[p], p \in unsure))
        BY <1>1, <2>1, <3>1 DEF Known, Heard
      <3>5. v \in Agreeing(party[p], p \in unsure)
        BY <3>3, <3>4, EndsNow
      <3>6. /\ party[p] # Nil /\ v.member = party[p].member
            /\ p \notin unsure => v.exp = party[p].exp /\ v.item = party[p].item
        BY <3>3, <3>5 DEF Agreeing
      <3>7. v.member = c.member /\ v.exp = c.exp /\ v.item = c.item
        BY <3>3
      <3>8. QED
        BY <3>1, <3>6, <3>7
    <2>2. QED
      BY <2>1 DEF CopiesAgree
  <1>3. TypeOK
    <2>1. session \in [Maps -> [Accounts -> Session \cup {Nil}]]
      BY <1>1 DEF MapTypes, Sessions
    <2>2. \A m \in Maps, a \in Accounts : session[m][a] # Nil => AccountOf[session[m][a].nick] = a
      BY <1>1, SoundNow, SessionsAre
    <2>3. QED
      BY <1>1, <2>1, <2>2 DEF TypeOK, MapTypes, Kept, Views
  <1>4. QED
    BY <1>2, <1>3

(* When a map server has read all it was told, its copy of a party has the
   char server's members and, unless a change of sharing was refused since,
   its sharing: whatever the char server decided meanwhile, in whatever order
   requests of several servers came, whenever the server got the copy or died
   (the mapif_party_ of char/int_party.c, the party_ of map/party.c). *)
THEOREM CopiesAlwaysAgree == Spec => []CopiesAgree
  <1>1. Init => CopiesInv
    BY CopiesInit
  <1>2. CopiesInv /\ [Next]_vars => CopiesInv'
    BY CopiesNext
  <1>3. CopiesInv => CopiesAgree
    BY CopiesImplied
  <1>4. QED
    BY <1>1, <1>2, <1>3, PTL DEF Spec

(* No packet applied to a copy older or younger than its sender expects puts
   anything but members, or vacant places, on the list of a copy or a party;
   and every session is of its character's account. *)
THEOREM PartyTypes == Spec => []TypeOK
  <1>1. Init => CopiesInv
    BY CopiesInit
  <1>2. CopiesInv /\ [Next]_vars => CopiesInv'
    BY CopiesNext
  <1>3. CopiesInv => TypeOK
    BY CopiesImplied
  <1>4. QED
    BY <1>1, <1>2, <1>3, PTL DEF Spec

(***************************************************************************)
(* The pointers.  A pointer that is said to be live leads to a session     *)
(* that is in the party of its copy, but for the accounts whose requests   *)
(* were raced: so the session's own party is the one that drops the        *)
(* pointer when the session is freed.                                      *)
(***************************************************************************)
Led(c, p, f, R) ==
  \A i \in Slots : c # Nil =>
    /\ c.sd[i] = "live" => \A a \in Accounts \ R : Of(a, c.member[i]) => Here(f, a, p)
    /\ c.sd[i] = "dangling" => \E a \in R : Of(a, c.member[i])
LedAt(m) == \A p \in Ids : Led(party_db[m][p], p, session[m], Raced)
PointersInv == CopiesInv /\ \A m \in Maps : LedAt(m)

(* No session of party p leaves it unraced. *)
Remain(m, p) == \A a \in Accounts \ Raced' : Here(session[m], a, p) => Here(session'[m], a, p)

LEMMA RacedGrows ==
  ASSUME torn \subseteq torn'
  PROVE  Raced \subseteq Raced' /\ \A c \in torn' : AccountOf[c] \in Raced'
  BY DEF Raced

LEMMA LedKept ==
  ASSUME NEW c, NEW d, NEW p, NEW f, NEW g, NEW R, NEW T, Led(c, p, f, R), R \subseteq T,
         d # Nil => c # Nil,
         \A i \in Slots : d # Nil /\ d.sd[i] \in {"live", "dangling"} =>
                            d.sd[i] = c.sd[i] /\ d.member[i] = c.member[i],
         \A a \in Accounts \ T : Here(f, a, p) => Here(g, a, p)
  PROVE  Led(d, p, g, T)
  <1>1. SUFFICES ASSUME NEW i \in Slots, d # Nil
                 PROVE  /\ d.sd[i] = "live" => \A a \in Accounts \ T : Of(a, d.member[i]) => Here(g, a, p)
                        /\ d.sd[i] = "dangling" => \E a \in T : Of(a, d.member[i])
    BY DEF Led
  <1>2. CASE d.sd[i] = "live"
    <2>1. c # Nil /\ c.sd[i] = "live" /\ d.member[i] = c.member[i]
      BY <1>1, <1>2
    <2>2. \A a \in Accounts \ R : Of(a, d.member[i]) => Here(f, a, p)
      BY <2>1 DEF Led
    <2>3. QED
      BY <1>2, <2>2
  <1>3. CASE d.sd[i] = "dangling"
    <2>1. c # Nil /\ c.sd[i] = "dangling" /\ d.member[i] = c.member[i]
      BY <1>1, <1>3
    <2>2. \E a \in R : Of(a, d.member[i])
      BY <2>1 DEF Led
    <2>3. QED
      BY <1>3, <2>2
  <1>4. QED
    BY <1>2, <1>3

(* Pointers that were just looked up lead to sessions of the party. *)
LEMMA LedAnew ==
  ASSUME NEW x, NEW p, NEW s, NEW g, NEW T, \A a \in Accounts : Here(s, a, p) => Here(g, a, p)
  PROVE  Led(Copy(x, Pointers(x.member, p, s)), p, g, T)
  <1>1. PICK sd : sd = Pointers(x.member, p, s)
    OBVIOUS
  <1>2. \A i \in Slots : /\ sd[i] # "dangling"
                         /\ sd[i] = "live" => \E b \in Accounts : Of(b, x.member[i]) /\ Here(s, b, p)
    BY <1>1 DEF Pointers, Here
  <1>3. ASSUME NEW i \in Slots, sd[i] = "live", NEW a \in Accounts, Of(a, x.member[i])
        PROVE  Here(g, a, p)
    <2>1. PICK b \in Accounts : Of(b, x.member[i]) /\ Here(s, b, p)
      BY <1>2, <1>3
    <2>2. b = a
      BY <1>3, <2>1 DEF Of
    <2>3. QED
      BY <2>1, <2>2
  <1>4. PICK c : c = Copy(x, sd)
    OBVIOUS
  <1>5. Led(c, p, g, T)
    <2>1. c.sd = sd /\ c.member = x.member
      BY <1>4 DEF Copy
    <2>2. QED
      BY <1>2, <1>3, <2>1 DEF Led
  <1>6. QED
    BY <1>1, <1>4, <1>5

(* The copies stay, but for one. *)
LEMMA LedSame ==
  ASSUME MapTypes, NEW m \in Maps, LedAt(m), torn \subseteq torn', party_db'[m] = party_db[m],
         \A p \in Ids : party_db[m][p] # Nil => Remain(m, p)
  PROVE  LedAt(m)'
  <1>1. ASSUME NEW p \in Ids
        PROVE  Led(party_db[m][p], p, session'[m], Raced')
    <2>1. CASE party_db[m][p] = Nil
      BY <2>1 DEF Led
    <2>2. CASE party_db[m][p] # Nil
      <3>1. PICK c, f, g, R, T : /\ c = party_db[m][p] /\ f = session[m] /\ g = session'[m]
                                 /\ R = Raced /\ T = Raced'
        OBVIOUS
      <3>2. Led(c, p, f, R) /\ R \subseteq T
        BY <3>1, RacedGrows DEF LedAt
      <3>3. \A a \in Accounts \ T : Here(f, a, p) => Here(g, a, p)
        BY <2>2, <3>1 DEF Remain
      <3>4. Led(c, p, g, T)
        BY <3>2, <3>3, LedKept
      <3>5. QED
        BY <3>1, <3>4
    <2>3. QED
      BY <2>1, <2>2
  <1>2. QED
    BY <1>1 DEF LedAt

CopyPut(m, id, c) == party_db' = [party_db EXCEPT ![m][id] = c]

LEMMA LedBut ==
  ASSUME MapTypes, NEW m \in Maps, LedAt(m), torn \subseteq torn', NEW id \in Ids, NEW c,
         CopyPut(m, id, c), Led(c, id, session'[m], Raced'),
         \A p \in Ids \ {id} : Remain(m, p)
  PROVE  LedAt(m)'
  <1>1. PICK h : h = party_db[m] /\ h \in [Ids -> Kept] /\ party_db \in [Maps -> [Ids -> Kept]]
    BY SoundNow
  <1>2. PICK e : e = [h EXCEPT ![id] = c]
    OBVIOUS
  <1>3. party_db' = [party_db EXCEPT ![m] = e]
    BY <1>1, <1>2 DEF CopyPut
  <1>4. party_db'[m] = e /\ e[id] = c /\ \A p \in Ids \ {id} : e[p] = h[p]
    BY <1>1, <1>2, <1>3
  <1>5. ASSUME NEW p \in Ids \ {id}
        PROVE  Led(h[p], p, session'[m], Raced')
    <2>1. PICK d, f, g, R, T : /\ d = h[p] /\ f = session[m] /\ g = session'[m]
                               /\ R = Raced /\ T = Raced'
      OBVIOUS
    <2>2. Led(d, p, f, R) /\ R \subseteq T
      BY <1>1, <2>1, RacedGrows DEF LedAt
    <2>3. \A a \in Accounts \ T : Here(f, a, p) => Here(g, a, p)
      BY <2>1 DEF Remain
    <2>4. Led(d, p, g, T)
      BY <2>2, <2>3, LedKept
    <2>5. QED
      BY <2>1, <2>4
  <1>6. QED
    BY <1>4, <1>5 DEF LedAt

LEMMA LedElsewhere ==
  ASSUME PointersInv, torn \subseteq torn', NEW m \in Maps, LedAt(m)',
         \A k \in Maps : k # m => party_db'[k] = party_db[k] /\ session'[k] = session[k]
  PROVE  \A k \in Maps : LedAt(k)'
  <1>1. ASSUME NEW k \in Maps, k # m
        PROVE  LedAt(k)'
    <2>1. MapTypes /\ LedAt(k)
      BY DEF PointersInv, CopiesInv
    <2>2. party_db'[k] = party_db[k] /\ \A p \in Ids : Remain(k, p)
      BY <1>1 DEF Remain, Here
    <2>3. QED
      BY <2>1, <2>2, LedSame
  <1>2. QED
    BY <1>1

(* One session is changed. *)
LEMMA RemainBut ==
  ASSUME MapTypes, NEW m \in Maps, NEW a \in Accounts, NEW x, SetIn(m, a, x), NEW p,
         a \in Raced' \/ (Here(session[m], a, p) => x # Nil /\ x.party_id = p)
  PROVE  Remain(m, p)
  <1>1. session[m] \in Sessions /\ session \in [Maps -> Sessions]
    BY SoundNow
  <1>2. PICK f : f = [session[m] EXCEPT ![a] = x]
    OBVIOUS
  <1>3. f[a] = x /\ \A b \in Accounts : b # a => f[b] = session[m][b]
    BY <1>1, <1>2 DEF Sessions
  <1>4. session'[m] = f
    BY <1>1, <1>2 DEF SetIn
  <1>5. QED
    BY <1>3, <1>4 DEF Remain, Here

(* An answer that finds a session in a party already was raced. *)
LEMMA CreatedLed ==
  ASSUME MapTypes, NEW m \in Maps, LedAt(m), NEW msg \in Packet, party_created(m, msg)
  PROVE  LedAt(m)' /\ torn \subseteq torn'
  <1>1. msg.kind = "created" /\ msg.nick \in Chars /\ msg.acc \in Accounts /\ msg.party \in Ids \cup {0}
    BY PacketIs DEF party_created
  <1>2. PICK s : s = session[m][msg.acc]
    OBVIOUS
  <1>3. CASE s = Nil
    <2>1. UNCHANGED party_db /\ UNCHANGED session /\ torn \subseteq torn'
      BY <1>2, <1>3 DEF party_created, server
    <2>2. QED
      BY <2>1, LedSame DEF Remain
  <1>4. CASE s # Nil
    <2>1. s \in Session /\ AccountOf[s.nick] = msg.acc
      BY <1>1, <1>2, <1>4, SoundNow, SessionsAre
    <2>2. PICK x : x = [s EXCEPT !.asked = FALSE, !.party_id = IF msg.party = 0 THEN @ ELSE msg.party]
      OBVIOUS
    <2>3. /\ SetIn(m, msg.acc, x)
          /\ party_db' = IF msg.party = 0 THEN party_db
                         ELSE [party_db EXCEPT ![m][msg.party] = Copy(Newborn, NoPointer)]
          /\ torn' = IF s.asked /\ s.nick = msg.nick /\ s.party_id = 0 THEN torn
                     ELSE torn \cup {s.nick, msg.nick}
      BY <1>2, <1>4, <2>2 DEF party_created
    <2>4. torn \subseteq torn' /\ (s.party_id # 0 => msg.acc \in Raced')
      <3>1. torn \subseteq torn' /\ (s.party_id # 0 => s.nick \in torn')
        BY <2>3
      <3>2. QED
        BY <2>1, <3>1, RacedGrows
    <2>5. ASSUME NEW p \in Ids
          PROVE  Remain(m, p)
      <3>1. msg.acc \in Raced' \/ ~Here(session[m], msg.acc, p)
        BY <1>2, <2>4, IdsAre DEF Here
      <3>2. QED
        BY <1>1, <2>3, <3>1, RemainBut
    <2>6. CASE msg.party = 0
      BY <2>3, <2>4, <2>5, <2>6, LedSame
    <2>7. CASE msg.party # 0
      <3>1. PICK id, c : id \in Ids /\ id = msg.party /\ c = Copy(Newborn, NoPointer)
        BY <1>1, <2>7
      <3>2. Led(c, id, session'[m], Raced')
        BY <3>1 DEF Led, Copy, NoPointer
      <3>3. CopyPut(m, id, c)
        BY <2>3, <2>7, <3>1 DEF CopyPut
      <3>4. QED
        BY <2>4, <2>5, <3>1, <3>2, <3>3, LedBut
    <2>8. QED
      BY <2>6, <2>7
  <1>5. QED
    BY <1>3, <1>4

LEMMA AddedLed ==
  ASSUME MapTypes, NEW m \in Maps, LedAt(m), NEW msg \in Packet, party_member_added(m, msg)
  PROVE  LedAt(m)' /\ torn \subseteq torn'
  <1>1. msg.nick \in Chars /\ msg.acc \in Accounts
    BY PacketIs DEF party_member_added
  <1>2. PICK s : s = session[m][msg.acc]
    OBVIOUS
  <1>3. CASE s = Nil
    <2>1. UNCHANGED party_db /\ UNCHANGED session /\ torn \subseteq torn'
      BY <1>2, <1>3 DEF party_member_added, server
    <2>2. QED
      BY <2>1, LedSame DEF Remain
  <1>4. CASE s # Nil
    <2>1. s \in Session /\ AccountOf[s.nick] = msg.acc
      BY <1>1, <1>2, <1>4, SoundNow, SessionsAre
    <2>2. PICK x : x = (IF msg.fail THEN [s EXCEPT !.invite = 0, !.asked = FALSE]
                        ELSE [s EXCEPT !.invite = 0, !.asked = FALSE, !.sended = FALSE,
                                       !.party_id = msg.party])
      OBVIOUS
    <2>3. /\ SetIn(m, msg.acc, x)
          /\ torn' = IF s.asked /\ s.nick = msg.nick /\ s.party_id = 0 THEN torn
                     ELSE torn \cup {s.nick, msg.nick}
          /\ UNCHANGED party_db
      BY <1>2, <1>4, <2>2 DEF party_member_added
    <2>4. torn \subseteq torn' /\ (s.party_id # 0 => msg.acc \in Raced')
      <3>1. torn \subseteq torn' /\ (s.party_id # 0 => s.nick \in torn')
        BY <2>3
      <3>2. QED
        BY <2>1, <3>1, RacedGrows
    <2>5. ASSUME NEW p \in Ids
          PROVE  Remain(m, p)
      <3>1. msg.acc \in Raced' \/ ~Here(session[m], msg.acc, p)
        BY <1>2, <2>4, IdsAre DEF Here
      <3>2. QED
        BY <1>1, <2>3, <3>1, RemainBut
    <2>6. QED
      BY <2>3, <2>4, <2>5, LedSame
  <1>5. QED
    BY <1>3, <1>4

(* Only sessions of party id forget their party. *)
LEMMA CheckedRemain ==
  ASSUME NEW f \in Sessions, NEW x, NEW id, NEW p, p # id, NEW a \in Accounts, Here(f, a, p)
  PROVE  party_check_member(x, id, f)[a] = f[a]
  BY DEF Here, party_check_member, Forgets

LEMMA InfoLed ==
  ASSUME MapTypes, NEW m \in Maps, LedAt(m), NEW msg \in Packet, party_recv_info(m, msg)
  PROVE  LedAt(m)' /\ torn \subseteq torn'
  <1>1. PICK id, x : id \in Ids /\ id = msg.party /\ x = msg.info
    BY PacketIs DEF party_recv_info
  <1>2. PICK f, s, sd :
          /\ f = session[m]
          /\ s = (IF party_db[m][id] = Nil THEN party_check_member(x, id, f) ELSE f)
          /\ sd = Pointers(x.member, id, s)
    OBVIOUS
  <1>3. /\ party_db' = [party_db EXCEPT ![m][id] = Copy(x, sd)]
        /\ session' = [session EXCEPT ![m] = [a \in Accounts |->
             IF \E i \in Slots : Of(a, x.member[i]) /\ sd[i] = "live"
             THEN [s[a] EXCEPT !.sended = TRUE] ELSE s[a]]]
        /\ torn \subseteq torn'
    BY <1>1, <1>2 DEF party_recv_info
  <1>4. f \in Sessions /\ s \in Sessions /\ session \in [Maps -> Sessions]
    <2>1. f \in Sessions /\ session \in [Maps -> Sessions]
      BY <1>2, SoundNow
    <2>2. QED
      BY <1>2, <2>1, CheckedMembers
  <1>5. ASSUME NEW a \in Accounts, NEW p \in Ids, Here(s, a, p)
        PROVE  Here(session'[m], a, p)
    <2>1. s[a] \in Session /\ s[a].party_id = p
      BY <1>4, <1>5, SessionsAre DEF Here
    <2>2. session'[m][a] \in {s[a], [s[a] EXCEPT !.sended = TRUE]}
      BY <1>3, <1>4
    <2>3. PICK y : y = [s[a] EXCEPT !.sended = TRUE]
      OBVIOUS
    <2>4. y \in Session /\ y.party_id = p
      BY <2>1, <2>3 DEF Session
    <2>5. QED
      BY <2>1, <2>2, <2>3, <2>4, NilAssumption DEF Here
  <1>6. ASSUME NEW p \in Ids \ {id}
        PROVE  Remain(m, p)
    <2>1. ASSUME NEW a \in Accounts, Here(f, a, p)
          PROVE  Here(s, a, p)
      <3>1. s[a] = f[a]
        BY <1>2, <1>4, <2>1, CheckedRemain
      <3>2. QED
        BY <2>1, <3>1 DEF Here
    <2>2. QED
      BY <1>2, <1>5, <2>1 DEF Remain
  <1>7. PICK c, g, T : c = Copy(x, sd) /\ g = session'[m] /\ T = Raced'
    OBVIOUS
  <1>8. Led(c, id, g, T)
    <2>1. \A a \in Accounts : Here(s, a, id) => Here(g, a, id)
      BY <1>1, <1>5, <1>7
    <2>2. Led(Copy(x, Pointers(x.member, id, s)), id, g, T)
      BY <2>1, LedAnew
    <2>3. QED
      BY <1>2, <1>7, <2>2
  <1>9. CopyPut(m, id, c) /\ Led(c, id, session'[m], Raced') /\ torn \subseteq torn'
    BY <1>3, <1>7, <1>8 DEF CopyPut
  <1>10. QED
    BY <1>1, <1>6, <1>9, LedBut

(* There is no copy of a party that is not to be had. *)
LEMMA NoInfoLed ==
  ASSUME CopiesInv, NEW m \in Maps, LedAt(m), toMap[m] # <<>>, NEW msg \in Packet,
         msg = Head(toMap[m]), party_recv_noinfo(m, msg)
  PROVE  LedAt(m)' /\ torn \subseteq torn'
  <1>1. /\ MapTypes /\ msg.kind = "noinfo" /\ UNCHANGED <<party_db, torn>>
        /\ session' = [session EXCEPT ![m] = party_check_member(Newborn, msg.party, @)]
    BY DEF CopiesInv, party_recv_noinfo
  <1>2. PICK id, f : id = msg.party /\ id \in Ids /\ f = session[m]
    BY <1>1, PacketIs
  <1>3. party_db[m][id] = Nil
    <2>1. PICK q, v : q = toMap[m] /\ v = View(party_db[m][id])
      OBVIOUS
    <2>2. /\ q \in Seq(Packet) /\ q # <<>> /\ Head(q).kind = "noinfo" /\ Head(q).party = id
          /\ NoneLeft(q, v, id)
      BY <1>1, <1>2, <2>1, StateKnown, StateIs DEF CopiesInv, Known
    <2>3. party_db[m][id] \in Kept
      BY <1>1, <1>2, SoundNow
    <2>4. v \in Views /\ (v = Nil => party_db[m][id] = Nil)
      BY <2>1, <2>3, ViewIs
    <2>5. v = Nil
      BY <2>2, <2>4, NoneLeftNow
    <2>6. QED
      BY <2>4, <2>5
  <1>4. ASSUME NEW p \in Ids, party_db[m][p] # Nil
        PROVE  Remain(m, p)
    <2>1. p # id /\ f \in Sessions /\ session'[m] = party_check_member(Newborn, id, f)
      BY <1>1, <1>2, <1>3, <1>4, SoundNow
    <2>2. \A a \in Accounts : Here(f, a, p) => session'[m][a] = f[a]
      BY <2>1, CheckedRemain
    <2>3. QED
      BY <1>2, <2>2 DEF Remain, Here
  <1>5. QED
    BY <1>1, <1>4, LedSame

LEMMA LeavedLed ==
  ASSUME MapTypes, NEW m \in Maps, LedAt(m), NEW msg \in Packet, party_member_leaved(m, msg)
  PROVE  LedAt(m)' /\ torn \subseteq torn'
  <1>1. /\ msg.party \in Ids /\ msg.acc \in Accounts /\ UNCHANGED torn
        /\ Leaves(m, msg.acc, msg.party)
    BY PacketIs DEF party_member_leaved
  <1>2. PICK id, a, p, gone : /\ id = msg.party /\ id \in Ids /\ a = msg.acc /\ a \in Accounts
                              /\ p = party_db[m][id] /\ gone = IF p = Nil THEN {} ELSE PlacesOf(p, a)
    BY <1>1
  <1>3. /\ \A k \in Ids \ {id} : Remain(m, k)
        /\ \A b \in Accounts \ {a} : session'[m][b] = session[m][b]
    <2>1. PICK s : s = session[m][a]
      OBVIOUS
    <2>2. CASE s # Nil /\ s.party_id = id
      <3>1. PICK x : x = [s EXCEPT !.party_id = 0, !.sended = FALSE] /\ SetIn(m, a, x)
        BY <1>1, <1>2, <2>1, <2>2 DEF Leaves
      <3>2. \A k \in Ids \ {id} : ~Here(session[m], a, k)
        BY <2>1, <2>2 DEF Here
      <3>3. \A k \in Ids \ {id} : Remain(m, k)
        BY <1>2, <3>1, <3>2, RemainBut
      <3>4. \A b \in Accounts \ {a} : session'[m][b] = session[m][b]
        <4>1. session \in [Maps -> Sessions] /\ session[m] \in Sessions
          BY SoundNow
        <4>2. session'[m] = [session[m] EXCEPT ![a] = x]
          BY <3>1, <4>1 DEF SetIn
        <4>3. QED
          BY <4>1, <4>2 DEF Sessions
      <3>5. QED
        BY <3>3, <3>4
    <2>3. CASE ~(s # Nil /\ s.party_id = id)
      <3>1. UNCHANGED session
        BY <1>1, <1>2, <2>1, <2>3 DEF Leaves
      <3>2. QED
        BY <3>1 DEF Remain
    <2>4. QED
      BY <2>2, <2>3
  <1>4. CASE p = Nil
    <2>1. UNCHANGED party_db
      BY <1>2, <1>4 DEF party_member_leaved
    <2>2. \A k \in Ids : party_db[m][k] # Nil => Remain(m, k)
      BY <1>2, <1>3, <1>4
    <2>3. QED
      BY <1>1, <2>1, <2>2, LedSame
  <1>5. CASE p # Nil
    <2>1. PICK x, sd, c :
            /\ x = [p EXCEPT !.member = [i \in Slots |-> IF i \in gone THEN Vacant ELSE @[i]]]
            /\ sd = [i \in Slots |-> IF i \in gone THEN "none" ELSE p.sd[i]]
            /\ c = Copy(x, sd)
      OBVIOUS
    <2>2. party_db' = [party_db EXCEPT ![m][id] = c]
      BY <1>2, <1>5, <2>1 DEF party_member_leaved
    <2>3. \A i \in Slots : /\ i \in gone => c.sd[i] = "none"
                           /\ i \notin gone => c.sd[i] = p.sd[i] /\ c.member[i] = p.member[i]
      <3>1. p \in Kept
        BY <1>2, SoundNow
      <3>2. p = [member |-> p.member, exp |-> p.exp, item |-> p.item, sd |-> p.sd]
        BY <1>5, <3>1, ViewIs
      <3>3. x.member = [i \in Slots |-> IF i \in gone THEN Vacant ELSE p.member[i]]
        BY <2>1, <3>2
      <3>4. c.sd = sd /\ c.member = x.member
        BY <2>1 DEF Copy
      <3>5. QED
        BY <2>1, <3>3, <3>4
    <2>4. PICK f, g, R : f = session[m] /\ g = session'[m] /\ R = Raced
      OBVIOUS
    <2>5. Led(p, id, f, R) /\ R = Raced'
      BY <1>1, <1>2, <2>4 DEF LedAt, Raced
    <2>6. Led(c, id, g, R)
      <3>1. SUFFICES ASSUME NEW i \in Slots, c # Nil
                     PROVE  /\ c.sd[i] = "live" => \A b \in Accounts \ R : Of(b, c.member[i]) => Here(g, b, id)
                            /\ c.sd[i] = "dangling" => \E b \in R : Of(b, c.member[i])
        BY DEF Led
      <3>2. CASE i \in gone
        BY <2>3, <3>2
      <3>3. CASE i \notin gone
        <4>1. /\ c.sd[i] = p.sd[i] /\ c.member[i] = p.member[i] /\ ~Of(a, p.member[i])
          BY <1>2, <1>5, <2>3, <3>3 DEF PlacesOf
        <4>2. \A b \in Accounts : Of(b, p.member[i]) => g[b] = f[b]
          BY <1>3, <2>4, <4>1
        <4>3. QED
          BY <1>5, <2>5, <4>1, <4>2 DEF Led, Here
      <3>4. QED
        BY <3>2, <3>3
    <2>7. CopyPut(m, id, c) /\ Led(c, id, session'[m], Raced') /\ torn \subseteq torn'
      BY <1>1, <2>2, <2>4, <2>5, <2>6 DEF CopyPut
    <2>8. \A k \in Ids \ {id} : Remain(m, k)
      BY <1>3
    <2>9. QED
      BY <1>2, <2>7, <2>8, LedBut
  <1>6. QED
    BY <1>4, <1>5

(* The sessions that leave were in this party, or raced. *)
LEMMA BrokenLed ==
  ASSUME MapTypes, NEW m \in Maps, LedAt(m), NEW msg \in Packet, party_broken(m, msg)
  PROVE  LedAt(m)' /\ torn \subseteq torn'
  <1>1. msg.party \in Ids /\ UNCHANGED torn
    BY PacketIs DEF party_broken
  <1>2. PICK id, p, f, R : /\ id = msg.party /\ id \in Ids /\ p = party_db[m][id] /\ f = session[m]
                           /\ R = Raced /\ R = Raced'
    BY <1>1 DEF Raced
  <1>3. /\ party_db' = [party_db EXCEPT ![m][id] = Nil]
        /\ session' = IF p = Nil THEN session ELSE
             [session EXCEPT ![m] = [a \in Accounts |->
                IF \E i \in Slots : Of(a, p.member[i]) /\ p.sd[i] = "live"
                THEN [session[m][a] EXCEPT !.party_id = 0, !.sended = FALSE] ELSE session[m][a]]]
    BY <1>2 DEF party_broken
  <1>4. ASSUME NEW k \in Ids \ {id}
        PROVE  Remain(m, k)
    <2>1. CASE p = Nil
      BY <1>3, <2>1 DEF Remain
    <2>2. CASE p # Nil
      <3>1. ASSUME NEW a \in Accounts \ R, Here(f, a, k)
            PROVE  Here(session'[m], a, k)
        <4>1. Led(p, id, f, R) /\ ~Here(f, a, id)
          BY <1>2, <3>1 DEF LedAt, Here
        <4>2. ~\E i \in Slots : Of(a, p.member[i]) /\ p.sd[i] = "live"
          BY <2>2, <4>1 DEF Led
        <4>3. session \in [Maps -> Sessions]
          BY SoundNow
        <4>4. session'[m][a] = f[a]
          BY <1>2, <1>3, <2>2, <4>2, <4>3
        <4>5. QED
          BY <3>1, <4>4 DEF Here
      <3>2. QED
        BY <1>2, <3>1 DEF Remain
    <2>3. QED
      BY <2>1, <2>2
  <1>5. CopyPut(m, id, Nil) /\ Led(Nil, id, session'[m], Raced') /\ torn \subseteq torn'
    BY <1>1, <1>3 DEF CopyPut, Led
  <1>6. QED
    BY <1>2, <1>4, <1>5, LedBut

LEMMA OptionChangedLed ==
  ASSUME MapTypes, NEW m \in Maps, LedAt(m), NEW msg \in Packet, party_optionchanged(m, msg)
  PROVE  LedAt(m)' /\ torn \subseteq torn'
  <1>1. msg.party \in Ids /\ UNCHANGED <<torn, session>>
    BY PacketIs DEF party_optionchanged
  <1>2. PICK id, p, h : id = msg.party /\ id \in Ids /\ p = party_db[m][id] /\ h = party_db[m]
    BY <1>1
  <1>3. /\ party_db' = IF p = Nil THEN party_db ELSE
             [party_db EXCEPT ![m][id].exp = IF msg.keepexp THEN @ ELSE msg.exp,
                              ![m][id].item = msg.item]
        /\ \A k \in Ids : Remain(m, k)
    BY <1>1, <1>2 DEF party_optionchanged, Remain
  <1>4. CASE p = Nil
    BY <1>1, <1>3, <1>4, LedSame
  <1>5. CASE p # Nil
    <2>1. p \in Kept /\ h \in [Ids -> Kept] /\ party_db \in [Maps -> [Ids -> Kept]]
      BY <1>2, SoundNow
    <2>2. p = [member |-> p.member, exp |-> p.exp, item |-> p.item, sd |-> p.sd]
      BY <1>5, <2>1, ViewIs
    <2>3. PICK e : e = IF msg.keepexp THEN p.exp ELSE msg.exp
      OBVIOUS
    <2>4. PICK c : c = [p EXCEPT !.exp = e, !.item = msg.item]
      OBVIOUS
    <2>5. c.member = p.member /\ c.sd = p.sd
      BY <2>2, <2>4
    <2>6. party_db' = [party_db EXCEPT ![m][id] = c]
      <3>1. party_db' = [party_db EXCEPT ![m][id].exp = e, ![m][id].item = msg.item]
        BY <1>2, <1>3, <1>5, <2>1, <2>3
      <3>2. QED
        BY <1>2, <2>1, <2>4, <3>1
    <2>7. PICK f, R : f = session[m] /\ R = Raced /\ f = session'[m] /\ R = Raced'
      BY <1>1 DEF Raced
    <2>8. Led(p, id, f, R)
      BY <1>2, <2>7 DEF LedAt
    <2>9. Led(c, id, f, R)
      BY <1>5, <2>5, <2>8, LedKept
    <2>10. CopyPut(m, id, c) /\ Led(c, id, session'[m], Raced') /\ torn \subseteq torn'
      BY <1>1, <2>6, <2>7, <2>9 DEF CopyPut
    <2>11. \A k \in Ids \ {id} : Remain(m, k)
      BY <1>3
    <2>12. QED
      BY <1>2, <2>10, <2>11, LedBut
  <1>6. QED
    BY <1>4, <1>5

LEMMA MovedLed ==
  ASSUME MapTypes, NEW m \in Maps, LedAt(m), NEW msg \in Packet, party_recv_movemap(m, msg)
  PROVE  LedAt(m)' /\ torn \subseteq torn'
  <1>1. msg.party \in Ids /\ UNCHANGED <<torn, session>>
    BY PacketIs DEF party_recv_movemap
  <1>2. \A k \in Ids : Remain(m, k)
    BY <1>1 DEF Remain
  <1>3. PICK id, f : id \in Ids /\ id = msg.party /\ f = session[m] /\ f = session'[m]
    BY <1>1
  <1>4. \/ UNCHANGED party_db
        \/ \E q : party_db' = [party_db EXCEPT ![m][id] = Copy(q, Pointers(q.member, id, f))]
    BY <1>3 DEF party_recv_movemap
  <1>5. CASE UNCHANGED party_db
    BY <1>1, <1>2, <1>5, LedSame
  <1>6. ASSUME NEW q, party_db' = [party_db EXCEPT ![m][id] = Copy(q, Pointers(q.member, id, f))]
        PROVE  LedAt(m)'
    <2>1. PICK c, T : c = Copy(q, Pointers(q.member, id, f)) /\ T = Raced'
      OBVIOUS
    <2>2. Led(c, id, f, T)
      BY <2>1, LedAnew
    <2>3. CopyPut(m, id, c) /\ Led(c, id, session'[m], Raced') /\ torn \subseteq torn'
      BY <1>1, <1>3, <1>6, <2>1, <2>2 DEF CopyPut
    <2>4. \A k \in Ids \ {id} : Remain(m, k)
      BY <1>2
    <2>5. QED
      BY <1>3, <2>3, <2>4, LedBut
  <1>7. QED
    BY <1>1, <1>4, <1>5, <1>6

LEMMA FromMapLed ==
  ASSUME PointersInv, NEW m \in Maps, FromMap(m)
  PROVE  \A k \in Maps : LedAt(k)'
  <1>1. UNCHANGED <<party_db, session, torn>>
    BY DEF FromMap, server
  <1>2. QED
    BY <1>1 DEF PointersInv, LedAt, Raced

LEMMA FromCharLed ==
  ASSUME PointersInv, NEW m \in Maps, FromChar(m)
  PROVE  \A k \in Maps : LedAt(k)'
  <1>1. /\ CopiesInv /\ MapTypes /\ LivePointers /\ LedAt(m)
    BY DEF PointersInv, CopiesInv
  <1>2. PICK msg : msg = Head(toMap[m])
    OBVIOUS
  <1>3. CASE Dies(m)
    <2>1. /\ session' = [session EXCEPT ![m] = [a \in Accounts |-> Nil]]
          /\ party_db' = [party_db EXCEPT ![m] = [p \in Ids |-> Nil]] /\ torn \subseteq torn'
      BY <1>3 DEF Dies
    <2>2. /\ party_db \in [Maps -> [Ids -> Kept]] /\ session \in [Maps -> Sessions]
      BY <1>1, SoundNow
    <2>3. \A p \in Ids : party_db'[m][p] = Nil
      BY <2>1, <2>2
    <2>4. LedAt(m)'
      BY <2>3 DEF LedAt, Led
    <2>5. \A k \in Maps : k # m => party_db'[k] = party_db[k] /\ session'[k] = session[k]
      BY <2>1, <2>2
    <2>6. QED
      BY <2>1, <2>4, <2>5, LedElsewhere
  <1>4. CASE \/ party_created(m, msg)
             \/ party_recv_info(m, msg)
             \/ party_recv_noinfo(m, msg)
             \/ party_member_added(m, msg)
             \/ party_member_leaved(m, msg)
             \/ party_broken(m, msg)
             \/ party_optionchanged(m, msg)
             \/ party_recv_movemap(m, msg)
    <2>1. msg \in Packet /\ toMap[m] # <<>>
      <3>1. toMap[m] \in Seq(Packet) /\ toMap[m] # <<>>
        BY <1>1, StateKnown, StateIs DEF FromChar, CopiesInv
      <3>2. QED
        BY <1>2, <3>1, HeadTailProperties
    <2>2. LedAt(m)' /\ torn \subseteq torn'
      <3>1. CASE party_recv_noinfo(m, msg)
        BY <1>1, <1>2, <2>1, <3>1, NoInfoLed
      <3>2. CASE ~party_recv_noinfo(m, msg)
        BY <1>1, <1>4, <2>1, <3>2, CreatedLed, InfoLed, AddedLed, LeavedLed, BrokenLed,
           OptionChangedLed, MovedLed
      <3>3. QED
        BY <3>1, <3>2
    <2>3. ReadBy(m, msg) /\ Sound(m)
      BY <1>1, <1>4, <2>1, CreatedRead, InfoRead, NoInfoRead, AddedRead, LeavedRead, BrokenRead,
         OptionChangedRead, MovedRead
    <2>4. \A k \in Maps : k # m => party_db'[k] = party_db[k] /\ session'[k] = session[k]
      BY <2>3 DEF ReadBy, Sound, Stays
    <2>5. QED
      BY <2>2, <2>4, LedElsewhere
  <1>5. QED
    BY <1>2, <1>3, <1>4 DEF FromChar

(* Clients: the copies stay, and so do the parties of the sessions. *)
LEMMA LedQuiet ==
  ASSUME PointersInv, NEW m \in Maps, UNCHANGED party_db, torn \subseteq torn', Stays(m),
         \A p \in Ids : Remain(m, p)
  PROVE  \A k \in Maps : LedAt(k)'
  <1>1. MapTypes /\ LedAt(m)
    BY DEF PointersInv, CopiesInv
  <1>2. LedAt(m)'
    BY <1>1, LedSame
  <1>3. QED
    BY <1>2, LedElsewhere DEF Stays

LEMMA LoginLed ==
  ASSUME PointersInv, NEW m \in Maps, NEW c \in Chars, Login(m, c)
  PROVE  \A k \in Maps : LedAt(k)'
  <1>1. MapTypes
    BY DEF PointersInv, CopiesInv
  <1>2. PICK a, p : a = AccountOf[c] /\ p = char_dat[c] /\ a \in Accounts /\ p \in Ids \cup {0}
    BY <1>1, PartyAssumption DEF MapTypes
  <1>3. PICK x : x = [nick |-> c, party_id |-> p, invite |-> 0, asked |-> FALSE, sended |-> FALSE]
    OBVIOUS
  <1>4. /\ SetIn(m, a, x) /\ session[m][a] = Nil /\ UNCHANGED <<party_db, torn>>
    BY <1>2, <1>3 DEF Login
  <1>5. Whose(x, a)
    BY <1>2, <1>3 DEF Whose, Session
  <1>6. Stays(m)
    BY <1>1, <1>2, <1>4, <1>5, SetInIs
  <1>7. \A q \in Ids : Remain(m, q)
    BY <1>1, <1>2, <1>4, RemainBut DEF Here
  <1>8. QED
    BY <1>4, <1>6, <1>7, LedQuiet

(* A pointer of another party that leads to the session was raced. *)
LEMMA LogoutLed ==
  ASSUME PointersInv, NEW m \in Maps, NEW a \in Accounts, party_send_logout(m, a)
  PROVE  \A k \in Maps : LedAt(k)'
  <1>1. MapTypes /\ LedAt(m)
    BY DEF PointersInv, CopiesInv
  <1>2. PICK s, own : s = session[m][a] /\ own = s.party_id
    OBVIOUS
  <1>3. /\ SetIn(m, a, Nil) /\ party_db' = [party_db EXCEPT ![m] = Cut(m, a, own)] /\ UNCHANGED torn
    BY <1>2 DEF party_send_logout
  <1>4. /\ party_db \in [Maps -> [Ids -> Kept]] /\ session \in [Maps -> Sessions]
        /\ session[m] \in Sessions
    BY <1>1, SoundNow
  <1>5. PICK f, g, R : f = session[m] /\ g = session'[m] /\ R = Raced /\ R = Raced'
    BY <1>3 DEF Raced
  <1>6. g[a] = Nil /\ \A b \in Accounts : b # a => g[b] = f[b]
    <2>1. g = [f EXCEPT ![a] = Nil]
      BY <1>3, <1>4, <1>5 DEF SetIn
    <2>2. QED
      BY <1>4, <1>5, <2>1 DEF Sessions
  <1>7. ASSUME NEW p \in Ids
        PROVE  Led(Cut(m, a, own)[p], p, g, R)
    <2>1. PICK c, d : c = party_db[m][p] /\ d = Cut(m, a, own)[p] /\ c \in Kept
      BY <1>4
    <2>2. CASE c = Nil
      <3>1. d = Nil
        BY <2>1, <2>2 DEF Cut
      <3>2. QED
        BY <2>1, <3>1 DEF Led
    <2>3. CASE c # Nil
      <3>1. PICK sd : sd = [i \in Slots |->
              IF Of(a, c.member[i]) /\ c.sd[i] = "live"
              THEN IF p = own THEN "none" ELSE "dangling" ELSE c.sd[i]]
        OBVIOUS
      <3>2. d = [c EXCEPT !.sd = sd]
        BY <2>1, <2>3, <3>1 DEF Cut
      <3>3. c = [member |-> c.member, exp |-> c.exp, item |-> c.item, sd |-> c.sd]
        BY <2>1, <2>3, ViewIs
      <3>4. d.member = c.member /\ d.sd = sd
        BY <3>2, <3>3
      <3>5. Led(c, p, f, R)
        BY <1>1, <1>5, <2>1 DEF LedAt
      <3>6. SUFFICES ASSUME NEW i \in Slots
                     PROVE  /\ sd[i] = "live" => \A b \in Accounts \ R : Of(b, c.member[i]) => Here(g, b, p)
                            /\ sd[i] = "dangling" => \E b \in R : Of(b, c.member[i])
        BY <2>1, <3>4 DEF Led
      <3>7. CASE Of(a, c.member[i]) /\ c.sd[i] = "live"
        <4>1. a \notin R => p = own
          BY <1>2, <1>5, <2>3, <3>5, <3>7 DEF Led, Here
        <4>2. sd[i] = IF p = own THEN "none" ELSE "dangling"
          BY <3>1, <3>7
        <4>3. QED
          BY <3>7, <4>1, <4>2
      <3>8. CASE ~(Of(a, c.member[i]) /\ c.sd[i] = "live")
        <4>1. sd[i] = c.sd[i]
          BY <3>1, <3>8
        <4>2. c.sd[i] = "live" => \A b \in Accounts \ R : Of(b, c.member[i]) => Here(f, b, p) /\ b # a
          BY <2>3, <3>5, <3>8 DEF Led
        <4>3. c.sd[i] = "dangling" => \E b \in R : Of(b, c.member[i])
          BY <2>3, <3>5 DEF Led
        <4>4. QED
          BY <1>6, <4>1, <4>2, <4>3 DEF Here
      <3>9. QED
        BY <3>7, <3>8
    <2>4. QED
      BY <2>2, <2>3
  <1>8. party_db'[m] = Cut(m, a, own)
    BY <1>3, <1>4
  <1>9. LedAt(m)'
    BY <1>5, <1>7, <1>8 DEF LedAt
  <1>10. \A k \in Maps : k # m => party_db'[k] = party_db[k] /\ session'[k] = session[k]
    <2>1. session' = [session EXCEPT ![m][a] = Nil]
      BY <1>3 DEF SetIn
    <2>2. QED
      BY <1>3, <1>4, <2>1
  <1>11. QED
    BY <1>3, <1>9, <1>10, LedElsewhere

(* A session of the party that is not on its list has no pointer left. *)
LEMMA MoveMapLed ==
  ASSUME PointersInv, NEW m \in Maps, NEW a \in Accounts, party_send_movemap(m, a)
  PROVE  \A k \in Maps : LedAt(k)'
  <1>1. MapTypes /\ LedAt(m)
    BY DEF PointersInv, CopiesInv
  <1>2. PICK s, id, c, f : s = session[m][a] /\ id = s.party_id /\ c = party_db[m][id] /\ f = session[m]
    OBVIOUS
  <1>3. s # Nil /\ id # 0
    BY <1>2 DEF party_send_movemap, Idle
  <1>4. id \in Ids /\ f \in Sessions /\ c \in Kept
    <2>1. s \in Session /\ f \in Sessions
      BY <1>1, <1>2, <1>3, SoundNow, SessionsAre
    <2>2. id \in Ids
      BY <1>2, <1>3, <2>1 DEF Session
    <2>3. QED
      BY <1>1, <1>2, <2>1, <2>2, SoundNow
  <1>5. CASE UNCHANGED <<server, torn>>
    <2>1. UNCHANGED <<party_db, session, torn>>
      BY <1>5 DEF server
    <2>2. QED
      BY <2>1 DEF PointersInv, LedAt, Raced
  <1>6. CASE ~(s.sended \/ c = Nil)
    <2>1. PICK after : after = party_check_member(c, id, f) /\ after \in Sessions
      BY <1>4, CheckedMembers
    <2>2. PICK sd : Shows(m, a, id, c, f, after, sd)
      BY <1>2, <1>6, <2>1, ShownIs
    <2>3. /\ session' = [session EXCEPT ![m] =
               [after EXCEPT ![a].sended = @ \/ after[a].party_id = id]]
          /\ torn \subseteq torn'
          /\ party_db' = [party_db EXCEPT ![m][id].sd = sd]
          /\ \A i \in Slots : sd[i] \in {"none", c.sd[i]}
          /\ \A i \in Slots, b \in Accounts :
               Here(f, b, id) /\ Of(b, c.member[i]) /\ sd[i] # "none" => c.member[i].nick = f[b].nick
      BY <2>2 DEF Shows
    <2>4. PICK d : d = [c EXCEPT !.sd = sd]
      OBVIOUS
    <2>5. d.member = c.member /\ d.sd = sd
      <3>1. c = [member |-> c.member, exp |-> c.exp, item |-> c.item, sd |-> c.sd]
        BY <1>4, <1>6, ViewIs
      <3>2. QED
        BY <2>4, <3>1
    <2>6. party_db \in [Maps -> [Ids -> Kept]] /\ session \in [Maps -> Sessions]
      BY <1>1, SoundNow
    <2>7. party_db' = [party_db EXCEPT ![m][id] = d]
      BY <1>2, <2>3, <2>4, <2>6
    <2>8. PICK g, R, T : g = session'[m] /\ R = Raced /\ T = Raced' /\ R \subseteq T
      BY <2>3, RacedGrows
    <2>9. ASSUME NEW b \in Accounts, NEW p \in Ids, Here(after, b, p)
          PROVE  Here(g, b, p)
      <3>1. after[b] \in Session /\ after[b].party_id = p
        BY <2>1, <2>9, SessionsAre DEF Here
      <3>2. PICK k : k = (after[a].sended \/ after[a].party_id = id)
        OBVIOUS
      <3>3. g = [after EXCEPT ![a].sended = k]
        BY <2>3, <2>6, <2>8, <3>2
      <3>4. g[b] \in {after[b], [after[b] EXCEPT !.sended = k]}
        BY <2>1, <3>3 DEF Sessions
      <3>5. PICK y : y = [after[b] EXCEPT !.sended = k]
        OBVIOUS
      <3>6. y \in Session /\ y.party_id = p
        BY <3>1, <3>2, <3>5 DEF Session
      <3>7. QED
        BY <3>1, <3>4, <3>5, <3>6, NilAssumption DEF Here
    <2>10. ASSUME NEW p \in Ids \ {id}
           PROVE  Remain(m, p)
      <3>1. ASSUME NEW b \in Accounts, Here(f, b, p)
            PROVE  Here(after, b, p)
        <4>1. after[b] = f[b]
          BY <1>4, <2>1, <3>1, CheckedRemain
        <4>2. QED
          BY <3>1, <4>1 DEF Here
      <3>2. QED
        BY <1>2, <2>8, <2>9, <3>1 DEF Remain
    <2>11. Led(d, id, g, T)
      <3>1. Led(c, id, f, R)
        BY <1>1, <1>2, <1>4, <2>8 DEF LedAt
      <3>2. SUFFICES ASSUME NEW i \in Slots
                     PROVE  /\ sd[i] = "live" => \A b \in Accounts \ T : Of(b, c.member[i]) => Here(g, b, id)
                            /\ sd[i] = "dangling" => \E b \in T : Of(b, c.member[i])
        BY <2>5 DEF Led
      <3>3. sd[i] = "dangling" => \E b \in T : Of(b, c.member[i])
        <4>1. sd[i] = "dangling" => c.sd[i] = "dangling"
          BY <2>3
        <4>2. QED
          BY <1>6, <2>8, <3>1, <4>1 DEF Led
      <3>4. ASSUME sd[i] = "live", NEW b \in Accounts \ T, Of(b, c.member[i])
            PROVE  Here(g, b, id)
        <4>1. c.sd[i] = "live"
          BY <2>3, <3>4
        <4>2. Here(f, b, id)
          BY <1>6, <2>8, <3>1, <3>4, <4>1 DEF Led
        <4>3. c.member[i].nick = f[b].nick
          BY <2>3, <3>4, <4>2
        <4>4. b \notin Forgets(c, id, f)
          BY <4>3 DEF Forgets, IsListed
        <4>5. after[b] = f[b]
          BY <2>1, <4>4 DEF party_check_member
        <4>6. Here(after, b, id)
          BY <4>2, <4>5 DEF Here
        <4>7. QED
          BY <1>4, <2>9, <4>6
      <3>5. QED
        BY <3>3, <3>4
    <2>12. LedAt(m)'
      <3>1. CopyPut(m, id, d) /\ Led(d, id, session'[m], Raced') /\ torn \subseteq torn'
        BY <2>3, <2>7, <2>8, <2>11 DEF CopyPut
      <3>2. \A p \in Ids \ {id} : Remain(m, p)
        BY <2>10
      <3>3. QED
        BY <1>1, <1>4, <3>1, <3>2, LedBut
    <2>13. \A k \in Maps : k # m => party_db'[k] = party_db[k] /\ session'[k] = session[k]
      BY <2>3, <2>6, <2>7
    <2>14. QED
      BY <2>3, <2>12, <2>13, LedElsewhere
  <1>7. QED
    BY <1>2, <1>5, <1>6 DEF party_send_movemap

LEMMA ClientLed ==
  ASSUME PointersInv, NEW m \in Maps, NEW a \in Accounts,
         \/ party_create(m, a) \/ Accept(m, a) \/ Refuse(m, a)
         \/ \E b \in Accounts : party_invite(m, a, b) \/ party_removemember(m, a, b)
         \/ \E o \in Options : party_changeoption(m, a, o[1], o[2])
  PROVE  \A k \in Maps : LedAt(k)'
  <1>1. MapTypes
    BY DEF PointersInv, CopiesInv
  <1>2. UNCHANGED party_db /\ torn \subseteq torn'
    BY DEF party_create, Accept, Refuse, party_invite, party_removemember, party_changeoption, Client
  <1>3. ASSUME NEW b \in Accounts, NEW y, Whose(y, b), SetIn(m, b, y),
               session[m][b] # Nil, y.party_id = session[m][b].party_id
        PROVE  \A k \in Maps : LedAt(k)'
    <2>1. Stays(m)
      BY <1>1, <1>3, SetInIs
    <2>2. \A p \in Ids : Remain(m, p)
      <3>1. y # Nil
        BY <1>3, WhoseFits
      <3>2. \A p \in Ids : Here(session[m], b, p) => y # Nil /\ y.party_id = p
        BY <1>3, <3>1 DEF Here
      <3>3. QED
        BY <1>1, <1>3, <3>2, RemainBut
    <2>3. QED
      BY <1>2, <2>1, <2>2, LedQuiet
  <1>4. CASE session' = Asking(m, a) /\ session[m][a] # Nil
    <2>1. PICK x, y : x = session[m][a] /\ y = [x EXCEPT !.asked = TRUE]
      OBVIOUS
    <2>2. x \in Session /\ AccountOf[x.nick] = a
      BY <1>1, <1>4, <2>1, SoundNow, SessionsAre
    <2>3. Whose(y, a) /\ y.party_id = x.party_id
      BY <2>1, <2>2 DEF Whose, Session
    <2>4. SetIn(m, a, y)
      BY <1>4, <2>1 DEF SetIn, Asking
    <2>5. QED
      BY <1>3, <1>4, <2>1, <2>3, <2>4
  <1>5. ASSUME NEW b \in Accounts, NEW q \in Ids \cup {0}, session[m][b] # Nil,
               session' = [session EXCEPT ![m][b].invite = q]
        PROVE  \A k \in Maps : LedAt(k)'
    <2>1. PICK x, y : x = session[m][b] /\ y = [x EXCEPT !.invite = q]
      OBVIOUS
    <2>2. x \in Session /\ AccountOf[x.nick] = b
      BY <1>1, <1>5, <2>1, SoundNow, SessionsAre
    <2>3. Whose(y, b) /\ y.party_id = x.party_id
      BY <2>1, <2>2 DEF Whose, Session
    <2>4. SetIn(m, b, y)
      BY <1>5, <2>1 DEF SetIn
    <2>5. QED
      BY <1>3, <1>5, <2>1, <2>3, <2>4
  <1>6. CASE UNCHANGED session
    BY <1>2, <1>6, LedQuiet DEF Stays, Remain
  <1>7. CASE party_create(m, a) \/ Accept(m, a)
    BY <1>4, <1>7 DEF party_create, Accept, Client
  <1>8. CASE Refuse(m, a)
    <2>1. session[m][a] # Nil /\ session' = [session EXCEPT ![m][a].invite = 0]
      BY <1>8 DEF Refuse, Client
    <2>2. QED
      BY <1>5, <2>1
  <1>9. ASSUME NEW b \in Accounts, party_invite(m, a, b)
        PROVE  \A k \in Maps : LedAt(k)'
    <2>1. PICK q : q = session[m][a].party_id
      OBVIOUS
    <2>2. session[m][b] # Nil /\ q \in Ids /\ session' = [session EXCEPT ![m][b].invite = q]
      BY <1>9, <2>1 DEF party_invite, Copies, Client
    <2>3. QED
      BY <1>5, <2>2
  <1>10. CASE \/ \E b \in Accounts : party_removemember(m, a, b)
              \/ \E o \in Options : party_changeoption(m, a, o[1], o[2])
    BY <1>6, <1>10 DEF party_removemember, party_changeoption, Client
  <1>11. QED
    BY <1>7, <1>8, <1>9, <1>10

LEMMA PointersInit ==
  ASSUME Init
  PROVE  PointersInv
  <1>1. CopiesInv
    BY CopiesInit
  <1>2. \A m \in Maps, p \in Ids : party_db[m][p] = Nil
    BY DEF Init
  <1>3. QED
    BY <1>1, <1>2 DEF PointersInv, LedAt, Led

LEMMA PointersNext ==
  ASSUME PointersInv, [Next]_vars
  PROVE  PointersInv'
  <1>1. CopiesInv'
    BY CopiesNext DEF PointersInv
  <1>2. CASE UNCHANGED vars
    <2>1. UNCHANGED <<party_db, session, torn>>
      BY <1>2 DEF vars, server
    <2>2. \A k \in Maps : LedAt(k)'
      BY <2>1 DEF PointersInv, LedAt, Raced
    <2>3. QED
      BY <1>1, <2>2 DEF PointersInv
  <1>3. ASSUME NEW m \in Maps, FromMap(m) \/ FromChar(m)
        PROVE  \A k \in Maps : LedAt(k)'
    BY <1>3, FromMapLed, FromCharLed
  <1>4. ASSUME NEW m \in Maps, NEW c \in Chars, Login(m, c)
        PROVE  \A k \in Maps : LedAt(k)'
    BY <1>4, LoginLed
  <1>5. ASSUME NEW m \in Maps, NEW a \in Accounts,
               \/ party_send_logout(m, a)
               \/ party_send_movemap(m, a)
               \/ party_create(m, a)
               \/ Accept(m, a)
               \/ Refuse(m, a)
               \/ \E b \in Accounts : party_invite(m, a, b) \/ party_removemember(m, a, b)
               \/ \E o \in Options : party_changeoption(m, a, o[1], o[2])
        PROVE  \A k \in Maps : LedAt(k)'
    BY <1>5, LogoutLed, MoveMapLed, ClientLed
  <1>6. CASE Next
    <2>1. \A k \in Maps : LedAt(k)'
      BY <1>3, <1>4, <1>5, <1>6 DEF Next
    <2>2. QED
      BY <1>1, <2>1 DEF PointersInv
  <1>7. QED
    BY <1>2, <1>6

LEMMA PointersImplied ==
  ASSUME PointersInv
  PROVE  NoDanglingPointer
  <1>1. TypeOK
    BY CopiesImplied DEF PointersInv
  <1>2. QED
    BY <1>1 DEF PointersInv, LedAt, Led, NoDanglingPointer, Copies

(* No copy keeps a pointer to a session that was freed, for any number of map
   servers, parties, members and packets under way, but where an account's
   requests overtook each other: a session that leaves has no pointer but in
   the copy of its own party, which drops it (map_quit, party_send_logout,
   and every handler of map/party.c that changes a party or a session's). *)
THEOREM NoPointerDangles == Spec => []NoDanglingPointer
  <1>1. Init => PointersInv
    BY PointersInit
  <1>2. PointersInv /\ [Next]_vars => PointersInv'
    BY PointersNext
  <1>3. PointersInv => NoDanglingPointer
    BY PointersImplied
  <1>4. QED
    BY <1>1, <1>2, <1>3, PTL DEF Spec
=============================================================================
