---------------------------- MODULE GuildProofs ----------------------------
(***************************************************************************)
(* The alliances of guilds at the char server, for any number of guilds,   *)
(* places, map servers and packets under way: an alliance is one of both   *)
(* guilds.  Nothing is assumed of the packets: whatever a map server asks  *)
(* for, with whatever guilds, the handlers keep the two sides alike.       *)
(***************************************************************************)
EXTENDS Guild, FiniteSetTheorems, WellFoundedInduction, TLAPS

-----------------------------------------------------------------------------
(* Induction, as facts about sets *)

(* A set of naturals that is not empty has a least element. *)
LEMMA LeastExists ==
  ASSUME NEW T, T \subseteq Nat, T # {}
  PROVE  \E x \in T : \A y \in T : x <= y
  <1> DEFINE R == {p \in Nat \X Nat : p[1] < p[2]}
  <1>0. IsWellFoundedOn(R, Nat)
    BY NatLessThanWellFounded DEF OpToRel
  <1>1. PICK x \in T : \A y \in T : <<y, x>> \notin R
    BY <1>0, WFMin
  <1>2. ASSUME NEW y \in T
        PROVE  x <= y
    <2>1. x \in Nat /\ y \in Nat /\ ~(y < x)
      BY <1>1
    <2>2. QED
      BY <2>1
  <1>3. QED
    BY <1>2

(* A set of naturals with 0 and the successors of its elements has them all. *)
LEMMA NatSets ==
  ASSUME NEW T \in SUBSET Nat, 0 \in T, \A n \in T : n + 1 \in T
  PROVE  T = Nat
  <1>1. SUFFICES ASSUME Nat \ T # {} PROVE FALSE
    OBVIOUS
  <1>2. PICK x \in Nat \ T : \A y \in Nat \ T : x <= y
    BY <1>1, LeastExists, Nat \ T \subseteq Nat
  <1>3. x - 1 \in Nat /\ ~(x <= x - 1) /\ (x - 1) + 1 = x
    BY <1>2
  <1>4. QED
    BY <1>2, <1>3

-----------------------------------------------------------------------------
(* Guilds and the handlers' states *)

(* A guild and a pact are records with these fields; what the other fields
   hold does not matter here. *)
GuildShape(g) ==
  /\ g = [member |-> g.member, master |-> g.master, exp |-> g.exp, guild_lv |-> g.guild_lv,
          skill_point |-> g.skill_point, max_member |-> g.max_member, alliance |-> g.alliance,
          board |-> g.board]
  /\ g.alliance = [j \in Pacts |-> [guild |-> g.alliance[j].guild, opposition |-> g.alliance[j].opposition]]

StateShape(s) == s = [guild |-> s.guild, out |-> s.out, full |-> s.full]

(* h is g but for what pacts do not depend on. *)
Alike(g, h) == GuildShape(h) /\ h.alliance = g.alliance

(* How often g has an alliance with guild k. *)
Allied(g, k) == Cardinality(PactsOf(g, k, FALSE))

(* The char server's guilds gs, when ids from n on were never given out and fl
   are the guilds that had no room for a pact. *)
Known(gs, id, n) ==
  gs[id] # Nil => /\ GuildShape(gs[id]) /\ id < n
                  /\ \A j \in Pacts : gs[id].alliance[j].guild \in Ids => gs[id].alliance[j].guild < n
Mutual(gs, fl) ==
  \A id, other \in Ids \ fl : gs[id] # Nil /\ gs[other] # Nil =>
    Allied(gs[id], other) = Allied(gs[other], id)
Sound(gs, fl, n) ==
  /\ gs = [id \in Ids |-> gs[id]]
  /\ \A id \in Ids : Known(gs, id, n)
  /\ Mutual(gs, fl)

Fit(s, n) == StateShape(s) /\ Sound(s.guild, s.full, n)

(* From s to t a handler sent packets and changed guild id, not its pacts. *)
Touched(s, t, id) ==
  /\ StateShape(t) /\ t.full = s.full
  /\ \E h : /\ GuildShape(s.guild[id]) => Alike(s.guild[id], h)
            /\ t.guild = [s.guild EXCEPT ![id] = h]

LEMMA AlikeAllied ==
  ASSUME NEW g, NEW h, Alike(g, h), NEW k
  PROVE  Allied(h, k) = Allied(g, k)
  BY DEF Alike, Allied, PactsOf

LEMMA ChangeOne ==
  ASSUME NEW gs, NEW fl, NEW n, Sound(gs, fl, n), NEW id, id \in Ids => gs[id] # Nil,
         NEW h, GuildShape(gs[id]) => Alike(gs[id], h), NEW hs, hs = [gs EXCEPT ![id] = h]
  PROVE  Sound(hs, fl, n)
  <1>1. gs = [i \in Ids |-> gs[i]] /\ hs = [i \in Ids |-> hs[i]]
        /\ \A i \in Ids : i # id => hs[i] = gs[i]
    BY DEF Sound
  <1>2. CASE id \notin Ids
    <2>1. hs = gs
      BY <1>1, <1>2
    <2>2. QED
      BY <2>1
  <1>3. CASE id \in Ids
    <2>1. hs[id] = h
      BY <1>1, <1>3
    <2>2. Known(gs, id, n) /\ gs[id] # Nil
      BY <1>3 DEF Sound
    <2>3. Alike(gs[id], h) /\ id < n
      BY <2>2 DEF Known
    <2>4. ASSUME NEW i \in Ids
          PROVE  Known(hs, i, n)
      <3>1. Known(gs, i, n)
        BY DEF Sound
      <3>2. CASE i # id
        BY <1>1, <3>1, <3>2 DEF Known
      <3>3. CASE i = id
        BY <2>1, <2>2, <2>3, <3>3 DEF Known, Alike
      <3>4. QED
        BY <3>2, <3>3
    <2>5. ASSUME NEW i \in Ids, hs[i] # Nil, NEW k
          PROVE  gs[i] # Nil /\ Allied(hs[i], k) = Allied(gs[i], k)
      <3>1. CASE i # id
        BY <1>1, <2>5, <3>1
      <3>2. CASE i = id
        BY <2>1, <2>2, <2>3, <3>2, AlikeAllied
      <3>3. QED
        BY <3>1, <3>2
    <2>6. Mutual(hs, fl)
      <3>1. Mutual(gs, fl)
        BY DEF Sound
      <3>2. QED
        BY <2>5, <3>1 DEF Mutual
    <2>7. QED
      BY <1>1, <2>4, <2>6 DEF Sound
  <1>4. QED
    BY <1>2, <1>3

LEMMA TouchedFits ==
  ASSUME NEW s, NEW n, Fit(s, n), NEW t, NEW id, Touched(s, t, id), id \in Ids => s.guild[id] # Nil
  PROVE  Fit(t, n)
  <1>1. PICK h : /\ GuildShape(s.guild[id]) => Alike(s.guild[id], h)
                 /\ t.guild = [s.guild EXCEPT ![id] = h]
    BY DEF Touched
  <1>2. Sound(t.guild, s.full, n)
    <2>1. PICK gs : gs = s.guild
      OBVIOUS
    <2>2. PICK hs : hs = t.guild
      OBVIOUS
    <2>3. Sound(gs, s.full, n)
      BY <2>1 DEF Fit
    <2>4. Sound(hs, s.full, n)
      BY <1>1, <2>1, <2>2, <2>3, ChangeOne
    <2>5. QED
      BY <2>2, <2>4
  <1>3. QED
    BY <1>2 DEF Fit, Touched

LEMMA OutOnly ==
  ASSUME NEW s, StateShape(s), NEW o, NEW t, t = [s EXCEPT !.out = o]
  PROVE  StateShape(t) /\ t.guild = s.guild /\ t.full = s.full
  BY DEF StateShape

LEMMA SendsAre ==
  ASSUME NEW s, StateShape(s), NEW m, NEW msg
  PROVE  /\ StateShape(Send(s, m, msg)) /\ Send(s, m, msg).guild = s.guild /\ Send(s, m, msg).full = s.full
         /\ StateShape(SendAll(s, msg)) /\ SendAll(s, msg).guild = s.guild /\ SendAll(s, msg).full = s.full
  <1>1. PICK o : Send(s, m, msg) = [s EXCEPT !.out = o]
    BY DEF Send
  <1>2. PICK p : SendAll(s, msg) = [s EXCEPT !.out = p]
    BY DEF SendAll
  <1>3. PICK t : t = Send(s, m, msg)
    OBVIOUS
  <1>4. PICK u : u = SendAll(s, msg)
    OBVIOUS
  <1>5. StateShape(s) /\ t = [s EXCEPT !.out = o] /\ u = [s EXCEPT !.out = p]
    BY <1>1, <1>2, <1>3, <1>4
  <1>6. StateShape(t) /\ t.guild = s.guild /\ t.full = s.full
    BY ONLY <1>5, OutOnly
  <1>7. StateShape(u) /\ u.guild = s.guild /\ u.full = s.full
    BY ONLY <1>5, OutOnly
  <1>8. QED
    BY <1>3, <1>4, <1>6, <1>7

LEMMA PutIs ==
  ASSUME NEW s, StateShape(s), NEW id, NEW h
  PROVE  /\ StateShape(Put(s, id, h)) /\ Put(s, id, h).full = s.full
         /\ Put(s, id, h).guild = [s.guild EXCEPT ![id] = h]
  BY DEF StateShape, Put

LEMMA SendFits ==
  ASSUME NEW s, NEW n, Fit(s, n), NEW m, NEW msg
  PROVE  Fit(Send(s, m, msg), n) /\ Fit(SendAll(s, msg), n)
  BY SendsAre DEF Fit

LEMMA TouchedRefl ==
  ASSUME NEW s, NEW n, Fit(s, n), NEW id
  PROVE  Touched(s, s, id)
  <1>1. s.guild = [i \in Ids |-> s.guild[i]]
    BY DEF Fit, Sound
  <1>2. s.guild = [s.guild EXCEPT ![id] = s.guild[id]]
    BY <1>1
  <1>3. GuildShape(s.guild[id]) => Alike(s.guild[id], s.guild[id])
    BY DEF Alike
  <1>4. QED
    BY <1>2, <1>3 DEF Touched, Fit

(* A guild put back. *)
LEMMA PutTouches ==
  ASSUME NEW s, StateShape(s), NEW id, NEW h, GuildShape(s.guild[id]) => Alike(s.guild[id], h)
  PROVE  Touched(s, Put(s, id, h), id)
  <1>1. /\ StateShape(Put(s, id, h)) /\ Put(s, id, h).full = s.full
        /\ Put(s, id, h).guild = [s.guild EXCEPT ![id] = h]
    BY PutIs
  <1>2. QED
    BY <1>1 DEF Touched

LEMMA SendTouches ==
  ASSUME NEW s, NEW t, NEW id, Touched(s, t, id), NEW m, NEW msg
  PROVE  Touched(s, Send(t, m, msg), id) /\ Touched(s, SendAll(t, msg), id)
  <1>1. StateShape(t)
    BY DEF Touched
  <1>2. ASSUME NEW u, StateShape(u), u.guild = t.guild, u.full = t.full
        PROVE  Touched(s, u, id)
    BY <1>2 DEF Touched
  <1>3. PICK u : u = Send(t, m, msg)
    OBVIOUS
  <1>4. PICK v : v = SendAll(t, msg)
    OBVIOUS
  <1>5. StateShape(u) /\ u.guild = t.guild /\ u.full = t.full
        /\ StateShape(v) /\ v.guild = t.guild /\ v.full = t.full
    BY <1>1, <1>3, <1>4, SendsAre
  <1>6. Touched(s, u, id) /\ Touched(s, v, id)
    BY <1>2, <1>5
  <1>7. QED
    BY <1>3, <1>4, <1>6

LEMMA InfoTouches ==
  ASSUME NEW s, NEW t, NEW id, Touched(s, t, id), NEW i
  PROVE  Touched(s, mapif_guild_info(t, i), id)
  BY SendTouches DEF mapif_guild_info

LEMMA AlikeTrans ==
  ASSUME NEW g, NEW h, NEW k, Alike(g, h), Alike(h, k)
  PROVE  Alike(g, k)
  BY DEF Alike

LEMMA TouchedTrans ==
  ASSUME NEW s, NEW t, NEW u, NEW id, Touched(s, t, id), Touched(t, u, id)
  PROVE  Touched(s, u, id)
  <1>1. PICK h : /\ GuildShape(s.guild[id]) => Alike(s.guild[id], h)
                 /\ t.guild = [s.guild EXCEPT ![id] = h]
    BY DEF Touched
  <1>2. PICK k : /\ GuildShape(t.guild[id]) => Alike(t.guild[id], k)
                 /\ u.guild = [t.guild EXCEPT ![id] = k]
    BY DEF Touched
  <1>3. u.guild = [s.guild EXCEPT ![id] = k]
    BY <1>1, <1>2
  <1>4. u.full = s.full /\ StateShape(u)
    BY DEF Touched
  <1>5. CASE id \in DOMAIN s.guild
    <2>1. t.guild[id] = h
      BY <1>1, <1>5
    <2>2. GuildShape(s.guild[id]) => Alike(s.guild[id], k)
      BY <1>1, <1>2, <2>1, AlikeTrans DEF Alike
    <2>3. QED
      BY <1>3, <1>4, <2>2 DEF Touched
  <1>6. CASE id \notin DOMAIN s.guild
    <2>1. u.guild = [s.guild EXCEPT ![id] = s.guild[id]]
      BY <1>3, <1>6
    <2>2. GuildShape(s.guild[id]) => Alike(s.guild[id], s.guild[id])
      BY DEF Alike
    <2>3. QED
      BY <1>4, <2>1, <2>2 DEF Touched
  <1>7. QED
    BY <1>5, <1>6

(* A guild rewritten but for its pacts. *)
LEMMA AlikeIs ==
  ASSUME NEW g, GuildShape(g), NEW h, NEW a, NEW b, NEW c, NEW d, NEW e, NEW f, NEW i,
         h = [member |-> a, master |-> b, exp |-> c, guild_lv |-> d, skill_point |-> e, max_member |-> f,
              alliance |-> g.alliance, board |-> i]
  PROVE  Alike(g, h)
  BY DEF GuildShape, Alike

(* Levels are no pacts. *)
LEMMA CalcinfoTouches ==
  ASSUME NEW s, StateShape(s), NEW id
  PROVE  Touched(s, guild_calcinfo(s, id), id)
  <1>1. PICK g : g = s.guild[id]
    OBVIOUS
  <1>2. PICK n : n = LevelsUp(g)
    OBVIOUS
  <1>3. PICK h : h = [g EXCEPT !.exp = @ - n * NEXTEXP, !.guild_lv = @ + n, !.skill_point = @ + n]
    OBVIOUS
  <1>4. GuildShape(g) => Alike(g, h)
    <2>1. GuildShape(g) => h = [member |-> g.member, master |-> g.master, exp |-> g.exp - n * NEXTEXP,
               guild_lv |-> g.guild_lv + n, skill_point |-> g.skill_point + n, max_member |-> g.max_member,
               alliance |-> g.alliance, board |-> g.board]
      BY <1>3 DEF GuildShape
    <2>2. QED
      BY <2>1, AlikeIs
  <1>5. guild_calcinfo(s, id) = IF n = 0 THEN Put(s, id, h) ELSE mapif_guild_info(Put(s, id, h), id)
    BY <1>1, <1>2, <1>3 DEF guild_calcinfo
  <1>6. Touched(s, Put(s, id, h), id)
    BY <1>1, <1>4, PutTouches
  <1>7. QED
    BY <1>5, <1>6, InfoTouches

-----------------------------------------------------------------------------
(* What most packets do *)

LEMMA StateFits ==
  ASSUME Sound(guild, full, guild_newid)
  PROVE  Fit(State, guild_newid) /\ StateShape(State) /\ State.guild = guild /\ State.full = full
  BY DEF State, Fit, StateShape

LEMMA InfoRequestFits ==
  ASSUME NEW n, Fit(State, n), NEW m, NEW msg
  PROVE  Fit(mapif_parse_GuildInfo(m, msg), n)
  <1>1. CASE guild[msg.guild] = Nil
    BY <1>1, SendFits DEF mapif_parse_GuildInfo
  <1>2. CASE guild[msg.guild] # Nil
    <2>1. PICK s : s = guild_calcinfo(State, msg.guild)
      OBVIOUS
    <2>2. mapif_parse_GuildInfo(m, msg) = Send(s, m, Info(s, msg.guild))
      BY <1>2, <2>1 DEF mapif_parse_GuildInfo
    <2>3. Touched(State, s, msg.guild)
      BY <2>1, CalcinfoTouches DEF Fit
    <2>4. Fit(s, n)
      BY <1>2, <2>3, TouchedFits DEF State
    <2>5. QED
      BY <2>2, <2>4, SendFits
  <1>3. QED
    BY <1>1, <1>2

LEMMA AddMemberFits ==
  ASSUME NEW n, Fit(State, n), NEW m, NEW msg
  PROVE  Fit(mapif_parse_GuildAddMember(m, msg), n)
  <1>1. PICK id : id = msg.guild
    OBVIOUS
  <1>2. PICK g : g = guild[id]
    OBVIOUS
  <1> DEFINE Told(s, fail) == Send(s, m, [kind |-> "added", guild |-> id, nick |-> msg.nick, fail |-> fail])
  <1>3. CASE g = Nil \/ Free(g) = {}
    <2>1. mapif_parse_GuildAddMember(m, msg) = Told(State, TRUE)
      BY <1>1, <1>2, <1>3 DEF mapif_parse_GuildAddMember
    <2>2. QED
      BY <2>1, SendFits
  <1>4. CASE ~(g = Nil \/ Free(g) = {})
    <2>1. PICK h : h = [g EXCEPT !.member[First(Free(g))] = guild_makemember(msg.nick, 1)]
      OBVIOUS
    <2>2. PICK s : s = Put(State, id, h)
      OBVIOUS
    <2>3. PICK t : t = Told(s, FALSE)
      OBVIOUS
    <2>4. mapif_parse_GuildAddMember(m, msg) = mapif_guild_info(guild_calcinfo(t, id), id)
      BY <1>1, <1>2, <1>4, <2>1, <2>2, <2>3 DEF mapif_parse_GuildAddMember
    <2>5. GuildShape(g) => Alike(g, h)
      <3>1. PICK x : x = [g.member EXCEPT ![First(Free(g))] = guild_makemember(msg.nick, 1)]
        OBVIOUS
      <3>2. GuildShape(g) => h = [member |-> x, master |-> g.master, exp |-> g.exp,
                 guild_lv |-> g.guild_lv, skill_point |-> g.skill_point, max_member |-> g.max_member,
                 alliance |-> g.alliance, board |-> g.board]
        BY <2>1, <3>1 DEF GuildShape
      <3>3. QED
        BY <3>2, AlikeIs
    <2>6. State.guild = guild /\ StateShape(State)
      BY DEF State, Fit
    <2>7. Touched(State, s, id)
      BY <1>2, <2>2, <2>5, <2>6, PutTouches
    <2>8. Touched(State, t, id) /\ StateShape(t)
      <3>1. Touched(State, t, id)
        BY <2>3, <2>7, SendTouches
      <3>2. QED
        BY <3>1 DEF Touched
    <2>9. Touched(t, guild_calcinfo(t, id), id)
      BY <2>8, CalcinfoTouches
    <2>10. Touched(State, guild_calcinfo(t, id), id)
      BY <2>8, <2>9, TouchedTrans
    <2>11. Touched(State, mapif_guild_info(guild_calcinfo(t, id), id), id)
      BY <2>10, InfoTouches
    <2>12. QED
      BY <1>2, <1>4, <2>4, <2>6, <2>11, TouchedFits
  <1>5. QED
    BY <1>3, <1>4

LEMMA InfoShortFits ==
  ASSUME NEW n, Fit(State, n), NEW m, NEW msg
  PROVE  Fit(mapif_parse_GuildChangeMemberInfoShort(m, msg), n)
  <1>1. PICK id : id = msg.guild
    OBVIOUS
  <1>2. PICK g : g = guild[id]
    OBVIOUS
  <1>3. PICK at : at = IF g = Nil THEN {} ELSE Index(g, msg.nick)
    OBVIOUS
  <1>4. PICK told : told = [kind |-> "infoshort", guild |-> id, nick |-> msg.nick, online |-> msg.online]
    OBVIOUS
  <1>5. PICK h : h = [g EXCEPT !.member[First(at)].online = msg.online]
    OBVIOUS
  <1>6. mapif_parse_GuildChangeMemberInfoShort(m, msg) =
          IF at = {} THEN State ELSE SendAll(Put(State, id, h), told)
    BY <1>1, <1>2, <1>3, <1>4, <1>5 DEF mapif_parse_GuildChangeMemberInfoShort
  <1>7. CASE at = {}
    BY <1>6, <1>7
  <1>8. CASE at # {}
    <2>1. g # Nil
      BY <1>3, <1>8
    <2>2. GuildShape(g) => Alike(g, h)
      <3>1. PICK x : x = [g.member EXCEPT ![First(at)].online = msg.online]
        OBVIOUS
      <3>2. GuildShape(g) => h = [member |-> x, master |-> g.master, exp |-> g.exp,
                 guild_lv |-> g.guild_lv, skill_point |-> g.skill_point, max_member |-> g.max_member,
                 alliance |-> g.alliance, board |-> g.board]
        BY <1>5, <3>1 DEF GuildShape
      <3>3. QED
        BY <3>2, AlikeIs
    <2>3. State.guild = guild /\ StateShape(State)
      BY DEF State, Fit
    <2>4. Touched(State, Put(State, id, h), id)
      BY <1>2, <2>2, <2>3, PutTouches
    <2>5. Touched(State, SendAll(Put(State, id, h), told), id)
      BY <2>4, SendTouches
    <2>6. QED
      BY <1>2, <1>6, <1>8, <2>1, <2>3, <2>5, TouchedFits
  <1>9. QED
    BY <1>7, <1>8

LEMMA MemberInfoFits ==
  ASSUME NEW n, Fit(State, n), NEW m, NEW msg
  PROVE  Fit(mapif_parse_GuildMemberInfoChange(m, msg), n)
  <1>1. PICK id : id = msg.guild
    OBVIOUS
  <1>2. PICK g : g = guild[id]
    OBVIOUS
  <1>3. PICK at : at = IF g = Nil THEN {} ELSE Index(g, msg.nick)
    OBVIOUS
  <1>4. PICK i : i = First(at)
    OBVIOUS
  <1>5. PICK h : h = IF msg.what = "position" THEN [g EXCEPT !.member[i].position = msg.value]
                     ELSE [g EXCEPT !.member[i].exp = msg.value, !.exp = @ + msg.value - g.member[i].exp]
    OBVIOUS
  <1>6. PICK s : s = guild_calcinfo(Put(State, id, h), id)
    OBVIOUS
  <1>7. PICK paidup : paidup = [kind |-> "exp", guild |-> id, exp |-> s.guild[id].exp]
    OBVIOUS
  <1>8. PICK t : t = IF msg.what = "position" THEN Put(State, id, h) ELSE SendAll(s, paidup)
    OBVIOUS
  <1>9. PICK told : told = [kind |-> "memberinfo", guild |-> id, nick |-> msg.nick,
                            what |-> msg.what, value |-> msg.value]
    OBVIOUS
  <1>10. mapif_parse_GuildMemberInfoChange(m, msg) = IF at = {} THEN State ELSE SendAll(t, told)
    BY <1>1, <1>2, <1>3, <1>4, <1>5, <1>6, <1>7, <1>8, <1>9 DEF mapif_parse_GuildMemberInfoChange
  <1>11. CASE at = {}
    BY <1>10, <1>11
  <1>12. CASE at # {}
    <2>1. g # Nil
      BY <1>3, <1>12
    <2>2. GuildShape(g) => Alike(g, h)
      <3>1. CASE msg.what = "position"
        <4>1. PICK x : x = [g.member EXCEPT ![i].position = msg.value]
          OBVIOUS
        <4>2. GuildShape(g) => h = [member |-> x, master |-> g.master, exp |-> g.exp,
                   guild_lv |-> g.guild_lv, skill_point |-> g.skill_point, max_member |-> g.max_member,
                   alliance |-> g.alliance, board |-> g.board]
          BY <1>5, <3>1, <4>1 DEF GuildShape
        <4>3. QED
          BY <4>2, AlikeIs
      <3>2. CASE msg.what # "position"
        <4>1. PICK x : x = [g.member EXCEPT ![i].exp = msg.value]
          OBVIOUS
        <4>2. PICK e : e = g.exp + msg.value - g.member[i].exp
          OBVIOUS
        <4>3. GuildShape(g) => h = [member |-> x, master |-> g.master, exp |-> e,
                   guild_lv |-> g.guild_lv, skill_point |-> g.skill_point, max_member |-> g.max_member,
                   alliance |-> g.alliance, board |-> g.board]
          BY <1>5, <3>2, <4>1, <4>2 DEF GuildShape
        <4>4. QED
          BY <4>3, AlikeIs
      <3>3. QED
        BY <3>1, <3>2
    <2>3. State.guild = guild /\ StateShape(State)
      BY DEF State, Fit
    <2>4. Touched(State, Put(State, id, h), id) /\ StateShape(Put(State, id, h))
      BY <1>2, <2>2, <2>3, PutTouches, PutIs
    <2>5. Touched(State, s, id)
      <3>1. Touched(Put(State, id, h), s, id)
        BY <1>6, <2>4, CalcinfoTouches
      <3>2. QED
        BY <2>4, <3>1, TouchedTrans
    <2>6. Touched(State, t, id)
      <3>1. Touched(State, SendAll(s, paidup), id)
        BY <2>5, SendTouches
      <3>2. QED
        BY <1>8, <2>4, <3>1
    <2>7. Touched(State, SendAll(t, told), id)
      BY <2>6, SendTouches
    <2>8. QED
      BY <1>2, <1>10, <1>12, <2>1, <2>3, <2>7, TouchedFits
  <1>13. QED
    BY <1>11, <1>12

LEMMA SkillUpFits ==
  ASSUME NEW n, Fit(State, n), NEW m, NEW msg
  PROVE  Fit(mapif_parse_GuildSkillUp(m, msg), n)
  <1>1. PICK id : id = msg.guild
    OBVIOUS
  <1>2. PICK g : g = guild[id]
    OBVIOUS
  <1>3. PICK h : h = [g EXCEPT !.skill_point = @ - 1, !.max_member = @ + 1]
    OBVIOUS
  <1>4. PICK s : s = Put(State, id, h)
    OBVIOUS
  <1>5. PICK t : t = IF LevelsUp(h) = 0 THEN mapif_guild_info(s, id) ELSE guild_calcinfo(s, id)
    OBVIOUS
  <1>6. PICK told : told = [kind |-> "skillup", guild |-> id]
    OBVIOUS
  <1>7. mapif_parse_GuildSkillUp(m, msg) =
          IF g = Nil \/ g.skill_point <= 0 \/ g.max_member = MAX_GUILD THEN State ELSE SendAll(t, told)
    BY <1>1, <1>2, <1>3, <1>4, <1>5, <1>6 DEF mapif_parse_GuildSkillUp
  <1>8. CASE g = Nil \/ g.skill_point <= 0 \/ g.max_member = MAX_GUILD
    BY <1>7, <1>8
  <1>9. CASE ~(g = Nil \/ g.skill_point <= 0 \/ g.max_member = MAX_GUILD)
    <2>1. GuildShape(g) => Alike(g, h)
      <3>1. GuildShape(g) => h = [member |-> g.member, master |-> g.master, exp |-> g.exp,
                 guild_lv |-> g.guild_lv, skill_point |-> g.skill_point - 1, max_member |-> g.max_member + 1,
                 alliance |-> g.alliance, board |-> g.board]
        BY <1>3 DEF GuildShape
      <3>2. QED
        BY <3>1, AlikeIs
    <2>2. State.guild = guild /\ StateShape(State)
      BY DEF State, Fit
    <2>3. Touched(State, s, id) /\ StateShape(s)
      BY <1>2, <1>4, <2>1, <2>2, PutTouches, PutIs
    <2>4. Touched(State, t, id)
      <3>1. Touched(State, mapif_guild_info(s, id), id)
        BY <2>3, InfoTouches
      <3>2. Touched(State, guild_calcinfo(s, id), id)
        <4>1. Touched(s, guild_calcinfo(s, id), id)
          BY <2>3, CalcinfoTouches
        <4>2. QED
          BY <2>3, <4>1, TouchedTrans
      <3>3. QED
        BY <1>5, <3>1, <3>2
    <2>5. Touched(State, SendAll(t, told), id)
      BY <2>4, SendTouches
    <2>6. QED
      BY <1>2, <1>7, <1>9, <2>2, <2>5, TouchedFits
  <1>10. QED
    BY <1>8, <1>9

LEMMA NoticeFits ==
  ASSUME NEW n, Fit(State, n), NEW m, NEW msg
  PROVE  Fit(mapif_parse_GuildNotice(m, msg), n)
  <1>1. PICK id : id = msg.guild
    OBVIOUS
  <1>2. PICK g : g = guild[id]
    OBVIOUS
  <1>3. PICK h : h = [g EXCEPT !.board = msg.board]
    OBVIOUS
  <1>4. PICK told : told = [kind |-> "notice", guild |-> id, board |-> msg.board]
    OBVIOUS
  <1>5. mapif_parse_GuildNotice(m, msg) = IF g = Nil THEN State ELSE SendAll(Put(State, id, h), told)
    BY <1>1, <1>2, <1>3, <1>4 DEF mapif_parse_GuildNotice
  <1>6. CASE g = Nil
    BY <1>5, <1>6
  <1>7. CASE g # Nil
    <2>1. GuildShape(g) => Alike(g, h)
      <3>1. GuildShape(g) => h = [member |-> g.member, master |-> g.master, exp |-> g.exp,
                 guild_lv |-> g.guild_lv, skill_point |-> g.skill_point, max_member |-> g.max_member,
                 alliance |-> g.alliance, board |-> msg.board]
        BY <1>3 DEF GuildShape
      <3>2. QED
        BY <3>1, AlikeIs
    <2>2. State.guild = guild /\ StateShape(State)
      BY DEF State, Fit
    <2>3. Touched(State, Put(State, id, h), id)
      BY <1>2, <2>1, <2>2, PutTouches
    <2>4. Touched(State, SendAll(Put(State, id, h), told), id)
      BY <2>3, SendTouches
    <2>5. QED
      BY <1>2, <1>5, <1>7, <2>2, <2>4, TouchedFits
  <1>8. QED
    BY <1>6, <1>7

LEMMA LevelFits ==
  ASSUME NEW n, Fit(State, n), NEW m, NEW msg
  PROVE  Fit(mapif_parse_GuildBasicInfoChange(m, msg), n)
  <1>1. PICK id : id = msg.guild
    OBVIOUS
  <1>2. PICK g : g = guild[id]
    OBVIOUS
  <1>3. PICK h : h = [g EXCEPT !.guild_lv = @ + 1, !.skill_point = @ + 1]
    OBVIOUS
  <1>4. PICK s : s = IF g.guild_lv < MaxLevel THEN Put(State, id, h) ELSE State
    OBVIOUS
  <1>5. mapif_parse_GuildBasicInfoChange(m, msg) = IF g = Nil THEN State ELSE mapif_guild_info(s, id)
    BY <1>1, <1>2, <1>3, <1>4 DEF mapif_parse_GuildBasicInfoChange
  <1>6. CASE g = Nil
    BY <1>5, <1>6
  <1>7. CASE g # Nil
    <2>1. GuildShape(g) => Alike(g, h)
      <3>1. GuildShape(g) => h = [member |-> g.member, master |-> g.master, exp |-> g.exp,
                 guild_lv |-> g.guild_lv + 1, skill_point |-> g.skill_point + 1, max_member |-> g.max_member,
                 alliance |-> g.alliance, board |-> g.board]
        BY <1>3 DEF GuildShape
      <3>2. QED
        BY <3>1, AlikeIs
    <2>2. State.guild = guild /\ StateShape(State)
      BY DEF State, Fit
    <2>3. Touched(State, Put(State, id, h), id) /\ Touched(State, State, id)
      BY <1>2, <2>1, <2>2, PutTouches, TouchedRefl
    <2>4. Touched(State, mapif_guild_info(s, id), id)
      BY <1>4, <2>3, InfoTouches
    <2>5. QED
      BY <1>2, <1>5, <1>7, <2>2, <2>4, TouchedFits
  <1>8. QED
    BY <1>6, <1>7

-----------------------------------------------------------------------------
(* Guilds that break up, and members that leave *)

(* Who breaks up is forgotten by all others; the pacts among them stay. *)
LEMMA DissolvedSound ==
  ASSUME NEW gs, NEW fl, NEW n, Sound(gs, fl, n), NEW id, NEW hs, hs = Dissolved(gs, id)
  PROVE  Sound(hs, fl, n)
  <1>1. hs = [h \in Ids |-> hs[h]]
    BY DEF Dissolved
  <1>2. ASSUME NEW h \in Ids, hs[h] # Nil
        PROVE  h # id /\ gs[h] # Nil /\ hs[h] = [gs[h] EXCEPT !.alliance = [j \in Pacts |->
                         IF @[j].guild = id THEN [@[j] EXCEPT !.guild = 0] ELSE @[j]]]
    BY <1>2 DEF Dissolved
  <1>3. ASSUME NEW h \in Ids, hs[h] # Nil
        PROVE  /\ GuildShape(hs[h]) /\ h < n
               /\ \A j \in Pacts : /\ hs[h].alliance[j].guild = IF gs[h].alliance[j].guild = id THEN 0
                                                                ELSE gs[h].alliance[j].guild
                                   /\ hs[h].alliance[j].opposition = gs[h].alliance[j].opposition
    <2>1. PICK g : g = gs[h]
      OBVIOUS
    <2>2. GuildShape(g) /\ h < n
      BY <1>2, <1>3, <2>1 DEF Sound, Known
    <2>3. PICK al : al = [j \in Pacts |-> IF g.alliance[j].guild = id THEN [g.alliance[j] EXCEPT !.guild = 0]
                                         ELSE g.alliance[j]]
      OBVIOUS
    <2>4. hs[h] = [g EXCEPT !.alliance = al]
      BY <1>2, <1>3, <2>1, <2>3
    <2>5. hs[h] = [member |-> g.member, master |-> g.master, exp |-> g.exp, guild_lv |-> g.guild_lv,
                   skill_point |-> g.skill_point, max_member |-> g.max_member, alliance |-> al, board |-> g.board]
      BY <2>2, <2>4 DEF GuildShape
    <2>6. ASSUME NEW j \in Pacts
          PROVE  /\ g.alliance[j] = [guild |-> g.alliance[j].guild, opposition |-> g.alliance[j].opposition]
                 /\ al[j] = [guild |-> IF g.alliance[j].guild = id THEN 0 ELSE g.alliance[j].guild,
                             opposition |-> g.alliance[j].opposition]
      <3>1. g.alliance[j] = [guild |-> g.alliance[j].guild, opposition |-> g.alliance[j].opposition]
        BY <2>2 DEF GuildShape
      <3>2. QED
        BY <2>3, <3>1
    <2>7. al = [j \in Pacts |-> [guild |-> al[j].guild, opposition |-> al[j].opposition]]
      <3>1. al = [j \in Pacts |-> al[j]]
        BY <2>3
      <3>2. ASSUME NEW j \in Pacts
            PROVE  al[j] = [guild |-> al[j].guild, opposition |-> al[j].opposition]
        <4>1. PICK x, y : al[j] = [guild |-> x, opposition |-> y]
          BY <2>6
        <4>2. QED
          BY ONLY <4>1
      <3>3. QED
        BY ONLY <3>1, <3>2
    <2>8. GuildShape(hs[h])
      BY <2>5, <2>7 DEF GuildShape
    <2>9. hs[h].alliance = al
      BY <2>5
    <2>10. ASSUME NEW j \in Pacts
           PROVE  /\ hs[h].alliance[j].guild = IF gs[h].alliance[j].guild = id THEN 0 ELSE gs[h].alliance[j].guild
                  /\ hs[h].alliance[j].opposition = gs[h].alliance[j].opposition
      <3>1. al[j] = [guild |-> IF g.alliance[j].guild = id THEN 0 ELSE g.alliance[j].guild,
                     opposition |-> g.alliance[j].opposition]
        BY <2>6
      <3>2. /\ al[j].guild = IF g.alliance[j].guild = id THEN 0 ELSE g.alliance[j].guild
            /\ al[j].opposition = g.alliance[j].opposition
        BY <3>1
      <3>3. QED
        BY <2>1, <2>9, <3>2
    <2>11. QED
      BY <2>2, <2>8, <2>10
  <1>4. ASSUME NEW h \in Ids
        PROVE  Known(hs, h, n)
    <2>1. SUFFICES ASSUME hs[h] # Nil
                   PROVE  Known(hs, h, n)
      BY DEF Known
    <2>2. Known(gs, h, n) /\ gs[h] # Nil
      BY <1>2, <2>1 DEF Sound
    <2>3. 0 \notin Ids
      BY DEF Ids
    <2>4. QED
      BY <1>3, <2>1, <2>2, <2>3 DEF Known
  <1>5. ASSUME NEW h \in Ids, hs[h] # Nil, NEW k \in Ids, k # id
        PROVE  Allied(hs[h], k) = Allied(gs[h], k)
    <2>1. 0 \notin Ids
      BY DEF Ids
    <2>2. ASSUME NEW j \in Pacts
          PROVE  hs[h].alliance[j] = [guild |-> k, opposition |-> FALSE]
                   <=> gs[h].alliance[j] = [guild |-> k, opposition |-> FALSE]
      <3>1. GuildShape(gs[h]) /\ GuildShape(hs[h])
        BY <1>2, <1>3, <1>5 DEF Sound, Known
      <3>2. /\ gs[h].alliance[j] = [guild |-> gs[h].alliance[j].guild, opposition |-> gs[h].alliance[j].opposition]
            /\ hs[h].alliance[j] = [guild |-> hs[h].alliance[j].guild, opposition |-> hs[h].alliance[j].opposition]
        BY <3>1 DEF GuildShape
      <3>3. /\ hs[h].alliance[j].guild = IF gs[h].alliance[j].guild = id THEN 0 ELSE gs[h].alliance[j].guild
            /\ hs[h].alliance[j].opposition = gs[h].alliance[j].opposition
        BY <1>3, <1>5
      <3>4. QED
        BY <1>5, <2>1, <3>2, <3>3
    <2>3. PactsOf(hs[h], k, FALSE) = PactsOf(gs[h], k, FALSE)
      BY <2>2 DEF PactsOf
    <2>4. QED
      BY <2>3 DEF Allied
  <1>6. Mutual(hs, fl)
    <2>1. Mutual(gs, fl)
      BY DEF Sound
    <2>2. QED
      BY <1>2, <1>5, <2>1 DEF Mutual
  <1>7. QED
    BY <1>1, <1>4, <1>6 DEF Sound

LEMMA BreakFits ==
  ASSUME NEW s, NEW n, Fit(s, n), NEW id
  PROVE  Fit(mapif_parse_BreakGuild(s, id), n)
  <1>1. CASE s.guild[id] = Nil
    BY <1>1 DEF mapif_parse_BreakGuild
  <1>2. CASE s.guild[id] # Nil
    <2>1. PICK hs : hs = Dissolved(s.guild, id)
      OBVIOUS
    <2>2. PICK t : t = [s EXCEPT !.guild = hs]
      OBVIOUS
    <2>3. mapif_parse_BreakGuild(s, id) = SendAll(t, [kind |-> "broken", guild |-> id])
      BY <1>2, <2>1, <2>2 DEF mapif_parse_BreakGuild
    <2>4. StateShape(t) /\ t.guild = hs /\ t.full = s.full
      BY <2>2 DEF Fit, StateShape
    <2>5. Sound(hs, s.full, n)
      <3>1. PICK gs : gs = s.guild
        OBVIOUS
      <3>2. PICK fl : fl = s.full
        OBVIOUS
      <3>3. Sound(gs, fl, n) /\ hs = Dissolved(gs, id)
        BY <2>1, <3>1, <3>2 DEF Fit
      <3>4. Sound(hs, fl, n)
        BY ONLY <3>3, DissolvedSound
      <3>5. QED
        BY <3>2, <3>4
    <2>6. Fit(t, n)
      BY <2>4, <2>5 DEF Fit
    <2>7. QED
      BY <2>3, <2>6, SendFits
  <1>3. QED
    BY <1>1, <1>2

LEMMA LeaveFits ==
  ASSUME NEW s, NEW n, Fit(s, n), NEW id, NEW c
  PROVE  Fit(mapif_parse_GuildLeave(s, id, c), n)
  <1>1. PICK g : g = s.guild[id]
    OBVIOUS
  <1>2. PICK h : h = [g EXCEPT !.member[First(Index(g, c))] = Vacant]
    OBVIOUS
  <1>3. PICK told : told = [kind |-> "leaved", guild |-> id, nick |-> c]
    OBVIOUS
  <1>4. PICK t : t = SendAll(Put(s, id, h), told)
    OBVIOUS
  <1>5. mapif_parse_GuildLeave(s, id, c) =
          IF g = Nil \/ Index(g, c) = {} THEN s
          ELSE IF \A i \in Slots : h.member[i].nick = Nil
          THEN mapif_parse_BreakGuild(t, id) ELSE mapif_guild_info(t, id)
    BY <1>1, <1>2, <1>3, <1>4 DEF mapif_parse_GuildLeave
  <1>6. CASE g = Nil \/ Index(g, c) = {}
    BY <1>5, <1>6
  <1>7. CASE ~(g = Nil \/ Index(g, c) = {})
    <2>1. GuildShape(g) => Alike(g, h)
      <3>1. PICK x : x = [g.member EXCEPT ![First(Index(g, c))] = Vacant]
        OBVIOUS
      <3>2. GuildShape(g) => h = [member |-> x, master |-> g.master, exp |-> g.exp,
                 guild_lv |-> g.guild_lv, skill_point |-> g.skill_point, max_member |-> g.max_member,
                 alliance |-> g.alliance, board |-> g.board]
        BY <1>2, <3>1 DEF GuildShape
      <3>3. QED
        BY <3>2, AlikeIs
    <2>2. StateShape(s)
      BY DEF Fit
    <2>3. Touched(s, Put(s, id, h), id)
      BY <1>1, <2>1, <2>2, PutTouches
    <2>4. Touched(s, t, id)
      BY <1>4, <2>3, SendTouches
    <2>5. Fit(t, n)
      BY <1>1, <1>7, <2>4, TouchedFits
    <2>6. Fit(mapif_parse_BreakGuild(t, id), n)
      BY <2>5, BreakFits
    <2>7. Fit(mapif_guild_info(t, id), n)
      BY <2>5, SendFits DEF mapif_guild_info
    <2>8. QED
      BY <1>5, <1>7, <2>6, <2>7
  <1>8. QED
    BY <1>6, <1>7

(* The loop of guild_check_conflict, as far as guild N. *)
Checked(s, id, msg) == IF id = msg.guild THEN s ELSE mapif_parse_GuildLeave(s, id, msg.nick)
Checking(msg, N, after) ==
  after = [id \in 0 .. N |-> IF id = 0 THEN State ELSE Checked(after[id - 1], id, msg)]

LEMMA CheckingExists ==
  ASSUME NEW msg, NEW N \in Nat
  PROVE  \E after : Checking(msg, N, after)
  <1> DEFINE T == {k \in Nat : \E after : Checking(msg, k, after)}
  <1>1. 0 \in T
    <2> DEFINE g == [i \in 0 .. 0 |-> State]
    <2>1. \A i \in 0 .. 0 : i = 0
      OBVIOUS
    <2>2. Checking(msg, 0, g)
      BY <2>1 DEF Checking
    <2>3. QED
      BY <2>2
  <1>2. ASSUME NEW k \in T PROVE k + 1 \in T
    <2>1. PICK g : Checking(msg, k, g)
      OBVIOUS
    <2>2. k \in Nat
      OBVIOUS
    <2> DEFINE h == [i \in 0 .. k + 1 |-> IF i = 0 THEN State ELSE Checked(g[i - 1], i, msg)]
    <2>3. ASSUME NEW i \in 0 .. k
          PROVE  h[i] = g[i]
      <3>1. g[i] = IF i = 0 THEN State ELSE Checked(g[i - 1], i, msg)
        BY <2>1 DEF Checking
      <3>2. i \in 0 .. k + 1
        BY <2>2
      <3>3. QED
        BY <3>1, <3>2
    <2>4. \A i \in 0 .. k + 1 : i # 0 => i - 1 \in 0 .. k
      BY <2>2
    <2>5. h = [i \in 0 .. k + 1 |-> IF i = 0 THEN State ELSE Checked(h[i - 1], i, msg)]
      BY <2>3, <2>4
    <2>6. Checking(msg, k + 1, h)
      BY <2>5 DEF Checking
    <2>7. QED
      BY <2>2, <2>6
  <1> HIDE DEF T
  <1>3. T = Nat
    <2>1. T \in SUBSET Nat
      BY DEF T
    <2>2. QED
      BY <1>1, <1>2, <2>1, NatSets
  <1>4. QED
    BY <1>3 DEF T

LEMMA CheckFits ==
  ASSUME NEW n, Fit(State, n), NEW m, NEW msg
  PROVE  Fit(guild_check_conflict(m, msg), n)
  <1>1. PICK N \in Nat : N = MaxGuild
    BY GuildAssumption
  <1>2. PICK a : a = CHOOSE after : Checking(msg, N, after)
    OBVIOUS
  <1>3. guild_check_conflict(m, msg) = a[N]
    BY <1>1, <1>2 DEF guild_check_conflict, Checking, Checked
  <1>4. Checking(msg, N, a)
    BY <1>2, CheckingExists
  <1> DEFINE T == {k \in Nat : k <= N => Fit(a[k], n)}
  <1>5. 0 \in T
    <2>1. a[0] = State
      BY <1>4 DEF Checking
    <2>2. QED
      BY <2>1
  <1>6. ASSUME NEW k \in T, k + 1 <= N
        PROVE  Fit(a[k + 1], n)
    <2>1. k \in Nat /\ k + 1 \in 0 .. N /\ k + 1 # 0 /\ (k + 1) - 1 = k /\ k <= N
      BY <1>6
    <2>2. a[k + 1] = Checked(a[k], k + 1, msg)
      BY <1>4, <2>1 DEF Checking
    <2>3. Fit(a[k], n)
      BY <2>1
    <2>4. QED
      BY <2>2, <2>3, LeaveFits DEF Checked
  <1>7. T = Nat
    <2>1. T \in SUBSET Nat /\ \A k \in T : k + 1 \in Nat
      OBVIOUS
    <2>2. \A k \in T : k + 1 \in T
      BY <1>6, <2>1
    <2> HIDE DEF T
    <2>3. QED
      BY <1>5, <2>1, <2>2, NatSets
  <1>8. QED
    BY <1>3, <1>7

-----------------------------------------------------------------------------
(* Pacts *)

(* The places a change may take and what it writes there. *)
Fits(g, k, how, opp, j) ==
  IF how = "make" THEN g.alliance[j].guild = 0 ELSE g.alliance[j] = [guild |-> k, opposition |-> opp]
Entry(k, how, opp) == [guild |-> IF how = "make" THEN k ELSE 0, opposition |-> opp]
Room(g) == \E j \in Pacts : g.alliance[j].guild = 0

LEMMA MinIn ==
  ASSUME NEW S \in SUBSET Nat, S # {}
  PROVE  Min(S) \in S
  <1>1. \E x \in S : \A y \in S : x <= y
    BY LeastExists
  <1>2. QED
    BY <1>1 DEF Min

(* An entry written. *)
LEMMA EntryShape ==
  ASSUME NEW g, GuildShape(g), NEW a \in Pacts, NEW x, NEW y, NEW al,
         al = [g.alliance EXCEPT ![a] = [guild |-> x, opposition |-> y]],
         NEW h, h = [g EXCEPT !.alliance = al]
  PROVE  GuildShape(h) /\ h.alliance = al
  <1>1. h = [member |-> g.member, master |-> g.master, exp |-> g.exp, guild_lv |-> g.guild_lv,
             skill_point |-> g.skill_point, max_member |-> g.max_member, alliance |-> al, board |-> g.board]
    BY DEF GuildShape
  <1>2. g.alliance = [j \in Pacts |-> [guild |-> g.alliance[j].guild, opposition |-> g.alliance[j].opposition]]
    BY DEF GuildShape
  <1>3. al = [j \in Pacts |-> IF j = a THEN [guild |-> x, opposition |-> y]
                              ELSE [guild |-> g.alliance[j].guild, opposition |-> g.alliance[j].opposition]]
    BY <1>2
  <1>4. \A j \in Pacts : al[j] = [guild |-> al[j].guild, opposition |-> al[j].opposition]
    BY <1>3
  <1>5. al = [j \in Pacts |-> [guild |-> al[j].guild, opposition |-> al[j].opposition]]
    BY <1>3, <1>4
  <1>6. QED
    BY <1>1, <1>5 DEF GuildShape

LEMMA ChangedIs ==
  ASSUME NEW g, GuildShape(g), NEW k, NEW how, NEW opp, NEW h, h = Changed(g, k, how, opp)
  PROVE  \/ h = g /\ \A j \in Pacts : ~Fits(g, k, how, opp, j)
         \/ \E a \in Pacts : /\ Fits(g, k, how, opp, a) /\ GuildShape(h)
                             /\ h.alliance = [g.alliance EXCEPT ![a] = Entry(k, how, opp)]
  <1>1. PICK at : at = IF how = "make" THEN {j \in Pacts : g.alliance[j].guild = 0} ELSE PactsOf(g, k, opp)
    OBVIOUS
  <1>2. PICK a : a = First(at)
    OBVIOUS
  <1>3. at = {j \in Pacts : Fits(g, k, how, opp, j)}
    BY <1>1 DEF PactsOf, Fits
  <1>4. h = IF at = {} THEN g
            ELSE [g EXCEPT !.alliance[a] =
                    IF how = "make" THEN [guild |-> k, opposition |-> opp] ELSE [@ EXCEPT !.guild = 0]]
    BY <1>1, <1>2 DEF Changed
  <1>5. CASE at = {}
    BY <1>3, <1>4, <1>5
  <1>6. CASE at # {}
    <2>1. a \in at
      <3>1. at \in SUBSET Nat
        BY <1>3 DEF Pacts
      <3>2. QED
        BY <1>2, <1>6, <3>1, MinIn DEF First
    <2>2. a \in Pacts /\ Fits(g, k, how, opp, a)
      BY <1>3, <2>1
    <2>3. PICK p : p = IF how = "make" THEN [guild |-> k, opposition |-> opp]
                       ELSE [g.alliance[a] EXCEPT !.guild = 0]
      OBVIOUS
    <2>4. p = Entry(k, how, opp)
      <3>1. how # "make" => g.alliance[a] = [guild |-> k, opposition |-> opp]
        BY <2>2 DEF Fits
      <3>2. how # "make" => p = [guild |-> 0, opposition |-> opp]
        BY <2>3, <3>1
      <3>3. QED
        BY <2>3, <3>2 DEF Entry
    <2>5. PICK al : al = [g.alliance EXCEPT ![a] = p]
      OBVIOUS
    <2>6. h = [g EXCEPT !.alliance = al]
      BY <1>4, <1>6, <2>3, <2>5
    <2>7. GuildShape(h) /\ h.alliance = al
      BY <2>2, <2>4, <2>5, <2>6, EntryShape DEF Entry
    <2>8. QED
      BY <2>2, <2>4, <2>5, <2>7
  <1>7. QED
    BY <1>5, <1>6

(* A count of alliances after a change of one guild. *)
Counted(c, how, room) ==
  IF how = "make" THEN IF room THEN c + 1 ELSE c
  ELSE IF c = 0 THEN 0 ELSE c - 1

LEMMA AlliedNat ==
  ASSUME NEW g, NEW k
  PROVE  /\ IsFiniteSet(PactsOf(g, k, FALSE)) /\ Allied(g, k) \in Nat
         /\ Allied(g, k) = 0 <=> PactsOf(g, k, FALSE) = {}
  <1>1. PICK N \in Nat : N = MAX_GUILDALLIANCE
    BY GuildAssumption
  <1>2. IsFiniteSet(Pacts)
    BY <1>1, FS_Interval DEF Pacts
  <1>3. IsFiniteSet(PactsOf(g, k, FALSE))
    BY <1>2, FS_Subset DEF PactsOf
  <1>4. QED
    BY <1>3, FS_CardinalityType, FS_EmptySet DEF Allied

ChangeCounts(g, h, x, k, how, opp) ==
  /\ x # k \/ opp # FALSE => Allied(h, x) = Allied(g, x)
  /\ x = k /\ opp = FALSE => Allied(h, x) = Counted(Allied(g, x), how, Room(g))

LEMMA EntriesSame ==
  ASSUME NEW k, NEW opp, NEW x, NEW y
  PROVE  [guild |-> k, opposition |-> opp] = [guild |-> x, opposition |-> y] <=> k = x /\ opp = y
  OBVIOUS

(* A change of a pact with k touches the alliances with k alone. *)
LEMMA ChangedAllied ==
  ASSUME NEW g, GuildShape(g), NEW k, NEW how, NEW opp, NEW h, h = Changed(g, k, how, opp),
         NEW x \in Ids
  PROVE  ChangeCounts(g, h, x, k, how, opp)
  <1>1. PICK S : S = PactsOf(g, x, FALSE)
    OBVIOUS
  <1>2. PICK R : R = PactsOf(h, x, FALSE)
    OBVIOUS
  <1>3. /\ IsFiniteSet(S) /\ Cardinality(S) \in Nat /\ (Cardinality(S) = 0 <=> S = {})
        /\ Allied(g, x) = Cardinality(S) /\ Allied(h, x) = Cardinality(R)
    <2>1. Allied(g, x) = Cardinality(S) /\ Allied(h, x) = Cardinality(R)
      BY <1>1, <1>2 DEF Allied
    <2>2. IsFiniteSet(S) /\ Allied(g, x) \in Nat /\ (Allied(g, x) = 0 <=> S = {})
      BY <1>1, AlliedNat
    <2>3. QED
      BY <2>1, <2>2
  <1>4. x # 0
    BY DEF Ids
  <1>5. CASE h = g /\ \A j \in Pacts : ~Fits(g, k, how, opp, j)
    <2>1. R = S
      BY <1>1, <1>2, <1>5
    <2>2. ASSUME x = k, opp = FALSE
          PROVE  Allied(h, x) = Counted(Allied(g, x), how, Room(g))
      <3>1. CASE how = "make"
        <4>1. ~Room(g)
          BY <1>5, <3>1 DEF Fits, Room
        <4>2. QED
          BY <1>3, <2>1, <3>1, <4>1 DEF Counted
      <3>2. CASE how # "make"
        <4>1. S = {}
          BY <1>1, <1>5, <2>2, <3>2 DEF Fits, PactsOf
        <4>2. QED
          BY <1>3, <2>1, <3>2, <4>1 DEF Counted
      <3>3. QED
        BY <3>1, <3>2
    <2>3. QED
      BY <1>3, <2>1, <2>2 DEF ChangeCounts
  <1>6. ASSUME NEW a \in Pacts, Fits(g, k, how, opp, a), GuildShape(h),
               h.alliance = [g.alliance EXCEPT ![a] = Entry(k, how, opp)]
        PROVE  /\ x # k \/ opp # FALSE => Allied(h, x) = Allied(g, x)
               /\ x = k /\ opp = FALSE => Allied(h, x) = Counted(Allied(g, x), how, Room(g))
    <2>1. /\ h.alliance[a] = Entry(k, how, opp)
          /\ \A j \in Pacts : j # a => h.alliance[j] = g.alliance[j]
      <3>1. a \in DOMAIN g.alliance /\ Pacts = DOMAIN g.alliance
        BY DEF GuildShape
      <3>2. QED
        BY <1>6, <3>1
    <2>2. \A j \in Pacts : j # a => (j \in R <=> j \in S)
      BY <1>1, <1>2, <2>1 DEF PactsOf
    <2>3. R \subseteq Pacts /\ S \subseteq Pacts
      BY <1>1, <1>2 DEF PactsOf
    <2>4. /\ a \in S <=> g.alliance[a] = [guild |-> x, opposition |-> FALSE]
          /\ a \in R <=> Entry(k, how, opp) = [guild |-> x, opposition |-> FALSE]
      BY <1>1, <1>2, <2>1 DEF PactsOf
    <2>5. CASE how = "make"
      <3>1. a \notin S
        <4>1. g.alliance[a].guild = 0
          BY <1>6, <2>5 DEF Fits
        <4>2. QED
          BY <1>4, <2>4, <4>1
      <3>2. a \in R <=> k = x /\ opp = FALSE
        BY <2>4, <2>5 DEF Entry
      <3>3. Room(g)
        BY <1>6, <2>5 DEF Fits, Room
      <3>4. ASSUME x = k, opp = FALSE
            PROVE  Allied(h, x) = Counted(Allied(g, x), how, Room(g))
        <4>1. R = S \cup {a}
          BY <2>2, <2>3, <3>2, <3>4
        <4>2. Cardinality(R) = Cardinality(S) + 1
          BY ONLY <1>3, <3>1, <4>1, FS_AddElement
        <4>3. QED
          BY <1>3, <2>5, <3>3, <4>2 DEF Counted
      <3>5. ASSUME x # k \/ opp # FALSE
            PROVE  Allied(h, x) = Allied(g, x)
        <4>1. a \notin R
          BY ONLY <3>2, <3>5
        <4>2. R = S
          BY ONLY <2>2, <2>3, <3>1, <4>1
        <4>3. QED
          BY <1>3, <4>2
      <3>6. QED
        BY <3>4, <3>5
    <2>6. CASE how # "make"
      <3>1. a \notin R
        <4>1. Entry(k, how, opp).guild = 0
          BY <2>6 DEF Entry
        <4>2. QED
          BY <1>4, <2>4, <4>1
      <3>2. a \in S <=> k = x /\ opp = FALSE
        <4>1. g.alliance[a] = [guild |-> k, opposition |-> opp]
          BY <1>6, <2>6 DEF Fits
        <4>2. a \in S <=> [guild |-> k, opposition |-> opp] = [guild |-> x, opposition |-> FALSE]
          BY ONLY <2>4, <4>1
        <4>3. [guild |-> k, opposition |-> opp] = [guild |-> x, opposition |-> FALSE] <=> k = x /\ opp = FALSE
          BY ONLY EntriesSame
        <4>4. QED
          BY ONLY <4>2, <4>3
      <3>3. ASSUME x = k, opp = FALSE
            PROVE  Allied(h, x) = Counted(Allied(g, x), how, Room(g))
        <4>1. R = S \ {a} /\ a \in S
          BY <2>2, <2>3, <3>1, <3>2, <3>3
        <4>2. Cardinality(R) = Cardinality(S) - 1
          BY ONLY <1>3, <4>1, FS_RemoveElement
        <4>3. Cardinality(S) # 0
          BY <1>3, <4>1
        <4>4. QED
          BY <1>3, <2>6, <4>2, <4>3 DEF Counted
      <3>4. ASSUME x # k \/ opp # FALSE
            PROVE  Allied(h, x) = Allied(g, x)
        <4>1. a \notin S
          BY ONLY <3>2, <3>4
        <4>2. R = S
          BY ONLY <2>2, <2>3, <3>1, <4>1
        <4>3. QED
          BY <1>3, <4>2
      <3>5. QED
        BY <3>3, <3>4
    <2>7. QED
      BY <2>5, <2>6
  <1>7. QED
    BY <1>5, <1>6, ChangedIs DEF ChangeCounts

(* A change keeps the shape, and who may be named. *)
LEMMA ChangedShape ==
  ASSUME NEW g, GuildShape(g), NEW k, NEW how, NEW opp, NEW h, h = Changed(g, k, how, opp)
  PROVE  /\ GuildShape(h)
         /\ \A j \in Pacts : h.alliance[j].guild \in {g.alliance[j].guild, k, 0}
  <1>1. CASE h = g
    BY <1>1
  <1>2. ASSUME NEW a \in Pacts, GuildShape(h), h.alliance = [g.alliance EXCEPT ![a] = Entry(k, how, opp)]
        PROVE  \A j \in Pacts : h.alliance[j].guild \in {g.alliance[j].guild, k, 0}
    <2>1. Pacts = DOMAIN g.alliance
      BY DEF GuildShape
    <2>2. Entry(k, how, opp).guild \in {k, 0}
      BY DEF Entry
    <2>3. QED
      BY <1>2, <2>1, <2>2
  <1>3. \/ h = g /\ \A j \in Pacts : ~Fits(g, k, how, opp, j)
        \/ \E a \in Pacts : /\ Fits(g, k, how, opp, a) /\ GuildShape(h)
                            /\ h.alliance = [g.alliance EXCEPT ![a] = Entry(k, how, opp)]
    BY ChangedIs
  <1>4. \A j \in Pacts : h.alliance[j].guild \in {g.alliance[j].guild, k, 0}
    BY ONLY <1>1, <1>2, <1>3
  <1>5. QED
    BY <1>3, <1>4

(* One guild written. *)
Shaped(gs, n) == gs = [id \in Ids |-> gs[id]] /\ \A id \in Ids : Known(gs, id, n)

LEMMA WrittenIs ==
  ASSUME NEW gs, NEW n, Shaped(gs, n), NEW id, NEW msg, NEW k, k = Partner(msg, id), k \in Ids => k < n,
         NEW hs, hs = Written(gs, id, msg)
  PROVE  /\ Shaped(hs, n)
         /\ \A i \in Ids : /\ i # id => hs[i] = gs[i]
                           /\ hs[i] # Nil => gs[i] # Nil
         /\ id \in Ids /\ gs[id] # Nil => hs[id] = Changed(gs[id], k, msg.how, msg.opp)
  <1>1. gs = [i \in Ids |-> gs[i]] /\ \A i \in Ids : Known(gs, i, n)
    BY DEF Shaped
  <1>2. CASE gs[id] = Nil \/ id \notin Ids
    <2>1. hs = gs
      BY <1>1, <1>2 DEF Written
    <2>2. QED
      BY <1>2, <2>1
  <1>3. CASE gs[id] # Nil /\ id \in Ids
    <2>1. PICK h : h = Changed(gs[id], k, msg.how, msg.opp)
      OBVIOUS
    <2>2. hs = [gs EXCEPT ![id] = h]
      BY <1>3, <2>1 DEF Written
    <2>3. hs = [i \in Ids |-> hs[i]] /\ hs[id] = h /\ \A i \in Ids : i # id => hs[i] = gs[i]
      BY <1>1, <1>3, <2>2
    <2>4. /\ GuildShape(gs[id]) /\ id < n
          /\ \A j \in Pacts : gs[id].alliance[j].guild \in Ids => gs[id].alliance[j].guild < n
      BY <1>1, <1>3 DEF Known
    <2>5. GuildShape(h) /\ \A j \in Pacts : h.alliance[j].guild \in {gs[id].alliance[j].guild, k, 0}
      BY <2>1, <2>4, ChangedShape
    <2>6. \A j \in Pacts : h.alliance[j].guild \in Ids => h.alliance[j].guild < n
      <3>1. 0 \notin Ids
        BY DEF Ids
      <3>2. QED
        BY <2>4, <2>5, <3>1
    <2>7. Known(hs, id, n)
      BY <2>3, <2>4, <2>5, <2>6 DEF Known
    <2>8. \A i \in Ids : Known(hs, i, n)
      <3>1. ASSUME NEW i \in Ids, i # id PROVE Known(hs, i, n)
        <4>1. Known(gs, i, n) /\ hs[i] = gs[i]
          BY <1>1, <2>3, <3>1
        <4>2. QED
          BY <4>1 DEF Known
      <3>2. QED
        BY <2>7, <3>1
    <2>9. QED
      BY <1>3, <2>1, <2>3, <2>8 DEF Shaped
  <1>4. QED
    BY <1>2, <1>3

(* What it does to the alliances: as many as before, but for those of id
   with k. *)
Recounted(gs, hs, id, k, msg) ==
  \A i, x \in Ids : hs[i] # Nil =>
    /\ gs[i] # Nil
    /\ Allied(hs[i], x) = IF i = id /\ x = k /\ msg.opp = FALSE
                          THEN Counted(Allied(gs[i], x), msg.how, Room(gs[i])) ELSE Allied(gs[i], x)

LEMMA WrittenCounts ==
  ASSUME NEW gs, NEW n, Shaped(gs, n), NEW id, NEW msg, NEW k, k = Partner(msg, id), k \in Ids => k < n,
         NEW hs, hs = Written(gs, id, msg)
  PROVE  Recounted(gs, hs, id, k, msg)
  <1>1. /\ \A i \in Ids : /\ i # id => hs[i] = gs[i]
                          /\ hs[i] # Nil => gs[i] # Nil
        /\ id \in Ids /\ gs[id] # Nil => hs[id] = Changed(gs[id], k, msg.how, msg.opp)
    BY WrittenIs
  <1>2. ASSUME NEW i \in Ids, NEW x \in Ids, hs[i] # Nil
        PROVE  /\ gs[i] # Nil
               /\ Allied(hs[i], x) = IF i = id /\ x = k /\ msg.opp = FALSE
                                     THEN Counted(Allied(gs[i], x), msg.how, Room(gs[i])) ELSE Allied(gs[i], x)
    <2>1. gs[i] # Nil
      BY <1>1, <1>2
    <2>2. CASE i # id
      BY <1>1, <2>1, <2>2
    <2>3. CASE i = id
      <3>1. GuildShape(gs[i])
        BY <2>1 DEF Shaped, Known
      <3>2. PICK g : g = gs[i]
        OBVIOUS
      <3>3. PICK h : h = Changed(g, k, msg.how, msg.opp)
        OBVIOUS
      <3>4. hs[i] = h
        BY <1>1, <2>1, <2>3, <3>2, <3>3
      <3>5. PICK how : how = msg.how
        OBVIOUS
      <3>6. PICK opp : opp = msg.opp
        OBVIOUS
      <3>7. GuildShape(g) /\ h = Changed(g, k, how, opp) /\ x \in Ids
        BY <3>1, <3>2, <3>3, <3>5, <3>6
      <3>8. ChangeCounts(g, h, x, k, how, opp)
        BY ONLY <3>7, ChangedAllied
      <3>9. QED
        BY <2>1, <2>3, <3>2, <3>4, <3>5, <3>6, <3>8 DEF ChangeCounts
    <2>4. QED
      BY <2>2, <2>3
  <1>3. QED
    BY <1>2 DEF Recounted

(* A pact made or cut: the two sides stay alike, if a guild without room has
   both put aside. *)
LEMMA PactSound ==
  ASSUME NEW gs, NEW fl, NEW n, Sound(gs, fl, n), NEW msg,
         gs[msg.guild] # Nil, gs[msg.other] # Nil, NEW hs, hs = WithPact(gs, msg),
         NEW fm, fl \subseteq fm,
         \/ msg.opp # FALSE \/ msg.how # "make" \/ {msg.guild, msg.other} \subseteq fm
         \/ Room(gs[msg.guild]) /\ Room(gs[msg.other])
  PROVE  Sound(hs, fm, n)
  <1>1. PICK a : a = msg.guild
    OBVIOUS
  <1>2. PICK b : b = msg.other
    OBVIOUS
  <1>3. PICK us : us = Written(gs, a, msg)
    OBVIOUS
  <1>4. PICK ws : ws = Written(us, b, msg)
    OBVIOUS
  <1>5. hs = IF msg.opp THEN us ELSE ws
    BY <1>1, <1>2, <1>3, <1>4 DEF WithPact
  <1>6. b = Partner(msg, a) /\ a = Partner(msg, b)
    BY <1>1, <1>2 DEF Partner
  <1>7. Shaped(gs, n) /\ (a \in Ids => a < n) /\ (b \in Ids => b < n)
    BY <1>1, <1>2 DEF Sound, Shaped, Known
  <1>8. Shaped(us, n) /\ Recounted(gs, us, a, b, msg) /\ \A i \in Ids : i # a => us[i] = gs[i]
    BY <1>3, <1>6, <1>7, WrittenIs, WrittenCounts
  <1>9. Shaped(ws, n) /\ Recounted(us, ws, b, a, msg)
    BY <1>4, <1>6, <1>7, <1>8, WrittenIs, WrittenCounts
  <1>10. Shaped(hs, n)
    BY <1>5, <1>8, <1>9
  <1>11. ASSUME NEW i \in Ids \ fm, NEW x \in Ids \ fm, hs[i] # Nil, hs[x] # Nil
         PROVE  Allied(hs[i], x) = Allied(hs[x], i)
    <2>1. us[i] # Nil /\ us[x] # Nil
      BY <1>5, <1>9, <1>11 DEF Recounted
    <2>2. gs[i] # Nil /\ gs[x] # Nil
      BY <1>8, <2>1 DEF Recounted
    <2>3. Allied(gs[i], x) = Allied(gs[x], i)
      <3>1. i \in Ids \ fl /\ x \in Ids \ fl
        BY <1>11
      <3>2. QED
        BY <2>2, <3>1 DEF Sound, Mutual
    <2>4. CASE i = x
      BY <2>4
    <2>5. CASE msg.opp # FALSE
      <3>1. Allied(us[i], x) = Allied(gs[i], x) /\ Allied(us[x], i) = Allied(gs[x], i)
        BY <1>8, <2>1, <2>5 DEF Recounted
      <3>2. hs = ws => Allied(ws[i], x) = Allied(us[i], x) /\ Allied(ws[x], i) = Allied(us[x], i)
        BY <1>9, <1>11, <2>5 DEF Recounted
      <3>3. hs = us \/ hs = ws
        BY <1>5
      <3>4. QED
        BY <2>3, <3>1, <3>2, <3>3
    <2>6. CASE i # x /\ msg.opp = FALSE
      <3>1. hs = ws
        BY <1>5, <2>6
      <3>2. ws[i] # Nil /\ ws[x] # Nil
        BY <1>11, <3>1
      <3>3. ASSUME NEW j \in Ids, NEW y \in Ids, ws[j] # Nil, j # y
            PROVE  Allied(ws[j], y) = IF (j = a /\ y = b) \/ (j = b /\ y = a)
                                      THEN Counted(Allied(gs[j], y), msg.how, Room(gs[j])) ELSE Allied(gs[j], y)
        <4>1. us[j] # Nil
          BY <1>9, <3>3 DEF Recounted
        <4>2. Allied(us[j], y) = IF j = a /\ y = b THEN Counted(Allied(gs[j], y), msg.how, Room(gs[j]))
                                 ELSE Allied(gs[j], y)
          BY <1>8, <2>6, <4>1 DEF Recounted
        <4>3. Allied(ws[j], y) = IF j = b /\ y = a THEN Counted(Allied(us[j], y), msg.how, Room(us[j]))
                                 ELSE Allied(us[j], y)
          BY <1>9, <2>6, <3>3 DEF Recounted
        <4>4. j # a => us[j] = gs[j]
          BY <1>8
        <4>5. CASE j = b /\ y = a
          BY <3>3, <4>3, <4>4, <4>5
        <4>6. CASE ~(j = b /\ y = a)
          BY <4>2, <4>3, <4>6
        <4>7. QED
          BY <4>5, <4>6
      <3>4. (i = a /\ x = b) \/ (i = b /\ x = a) =>
              Counted(Allied(gs[i], x), msg.how, Room(gs[i])) = Counted(Allied(gs[x], i), msg.how, Room(gs[x]))
        <4>1. CASE msg.how = "make"
          <5>1. (i = a /\ x = b) \/ (i = b /\ x = a) => Room(gs[i]) /\ Room(gs[x])
            BY <1>1, <1>2, <1>11, <2>6, <4>1
          <5>2. QED
            BY <2>3, <5>1
        <4>2. CASE msg.how # "make"
          BY <2>3, <4>2 DEF Counted
        <4>3. QED
          BY <4>1, <4>2
      <3>5. Allied(ws[i], x) = IF (i = a /\ x = b) \/ (i = b /\ x = a)
                               THEN Counted(Allied(gs[i], x), msg.how, Room(gs[i])) ELSE Allied(gs[i], x)
        BY <2>6, <3>2, <3>3
      <3>6. Allied(ws[x], i) = IF (x = a /\ i = b) \/ (x = b /\ i = a)
                               THEN Counted(Allied(gs[x], i), msg.how, Room(gs[x])) ELSE Allied(gs[x], i)
        BY <2>6, <3>2, <3>3
      <3>7. QED
        BY <2>3, <3>1, <3>4, <3>5, <3>6
    <2>7. QED
      BY <2>4, <2>5, <2>6
  <1>12. Mutual(hs, fm)
    BY <1>11 DEF Mutual
  <1>13. QED
    BY <1>10, <1>12 DEF Sound, Shaped

LEMMA AllianceFits ==
  ASSUME NEW n, Fit(State, n), NEW m, NEW msg
  PROVE  Fit(mapif_parse_GuildAlliance(m, msg), n)
  <1>1. CASE guild[msg.guild] = Nil \/ guild[msg.other] = Nil
    BY <1>1 DEF mapif_parse_GuildAlliance
  <1>2. CASE guild[msg.guild] # Nil /\ guild[msg.other] # Nil
    <2>1. PICK hs : hs = WithPact(guild, msg)
      OBVIOUS
    <2>2. PICK fm : fm = IF msg.how = "make" /\ Crowded(msg) # {} THEN full \cup Sides(msg) ELSE full
      OBVIOUS
    <2>3. PICK t : t = [guild |-> hs, out |-> toMap, full |-> fm]
      OBVIOUS
    <2>4. mapif_parse_GuildAlliance(m, msg) = SendAll(t, msg)
      <3>1. State = [guild |-> guild, out |-> toMap, full |-> full]
        BY DEF State
      <3>2. PICK s : s = State
        OBVIOUS
      <3>3. t = [s EXCEPT !.guild = hs, !.full = fm]
        <4>1. PICK gs : gs = guild
          OBVIOUS
        <4>2. PICK fl : fl = full
          OBVIOUS
        <4>3. PICK o : o = toMap
          OBVIOUS
        <4>4. s = [guild |-> gs, out |-> o, full |-> fl] /\ t = [guild |-> hs, out |-> o, full |-> fm]
          BY <2>3, <3>1, <3>2, <4>1, <4>2, <4>3
        <4>5. PICK u : u = [s EXCEPT !.guild = hs, !.full = fm]
          OBVIOUS
        <4>6. u = [guild |-> hs, out |-> o, full |-> fm]
          BY ONLY <4>4, <4>5
        <4>7. QED
          BY ONLY <4>4, <4>5, <4>6
      <3>4. hs = WithPact(s.guild, msg)
            /\ fm = IF msg.how = "make" /\ Crowded(msg) # {} THEN s.full \cup Sides(msg) ELSE s.full
        BY <2>1, <2>2, <3>1, <3>2
      <3>5. t = [s EXCEPT !.guild = WithPact(@, msg),
                          !.full = IF msg.how = "make" /\ Crowded(msg) # {} THEN @ \cup Sides(msg) ELSE @]
        BY ONLY <3>3, <3>4
      <3>6. QED
        BY <1>2, <3>2, <3>5 DEF mapif_parse_GuildAlliance
    <2>5. Sound(guild, full, n)
      BY DEF Fit, State
    <2>6. \/ msg.opp # FALSE \/ msg.how # "make" \/ {msg.guild, msg.other} \subseteq fm
          \/ Room(guild[msg.guild]) /\ Room(guild[msg.other])
      <3>1. SUFFICES ASSUME msg.opp = FALSE, msg.how = "make"
                     PROVE  \/ {msg.guild, msg.other} \subseteq fm
                            \/ Room(guild[msg.guild]) /\ Room(guild[msg.other])
        OBVIOUS
      <3>2. Sides(msg) = {msg.guild, msg.other}
        BY <3>1 DEF Sides
      <3>3. CASE Crowded(msg) # {}
        BY <2>2, <3>1, <3>2, <3>3
      <3>4. CASE Crowded(msg) = {}
        BY <3>2, <3>4 DEF Crowded, Room
      <3>5. QED
        BY <3>3, <3>4
    <2>7. full \subseteq fm
      BY <2>2
    <2>8. Sound(hs, fm, n)
      BY <1>2, <2>1, <2>5, <2>6, <2>7, PactSound
    <2>9. Fit(t, n)
      BY <2>3, <2>8 DEF Fit, StateShape
    <2>10. QED
      BY <2>4, <2>9, SendFits
  <1>3. QED
    BY <1>1, <1>2

-----------------------------------------------------------------------------
(* New guilds, and all that packets do *)

LEMMA NewbornShape ==
  ASSUME NEW c
  PROVE  GuildShape(Newborn(c)) /\ \A j \in Pacts : Newborn(c).alliance[j].guild = 0
  <1>1. Newborn(c).alliance = [j \in Pacts |-> NoPact]
    BY DEF Newborn
  <1>2. NoPact = [guild |-> NoPact.guild, opposition |-> NoPact.opposition] /\ NoPact.guild = 0
    BY DEF NoPact
  <1>3. Newborn(c).alliance = [j \in Pacts |-> [guild |-> Newborn(c).alliance[j].guild,
                                                opposition |-> Newborn(c).alliance[j].opposition]]
    BY <1>1, <1>2
  <1>4. Newborn(c) = [member |-> Newborn(c).member, master |-> Newborn(c).master, exp |-> Newborn(c).exp,
          guild_lv |-> Newborn(c).guild_lv, skill_point |-> Newborn(c).skill_point,
          max_member |-> Newborn(c).max_member, alliance |-> Newborn(c).alliance, board |-> Newborn(c).board]
    BY DEF Newborn
  <1>5. QED
    BY <1>1, <1>2, <1>3, <1>4 DEF GuildShape

(* A guild with no pacts, which nobody names. *)
LEMMA Unallied ==
  ASSUME NEW g, NEW x \in Ids, \A j \in Pacts : g.alliance[j].guild # x
  PROVE  Allied(g, x) = 0
  <1>1. ASSUME NEW j \in Pacts
        PROVE  g.alliance[j] # [guild |-> x, opposition |-> FALSE]
    <2>1. g.alliance[j].guild # x
      OBVIOUS
    <2>2. QED
      BY <2>1
  <1>2. PactsOf(g, x, FALSE) = {}
    BY <1>1 DEF PactsOf
  <1>3. QED
    BY <1>2, AlliedNat

LEMMA NewSound ==
  ASSUME NEW gs, NEW fl, NEW n \in Nat, Sound(gs, fl, n), NEW c, NEW hs, hs = [gs EXCEPT ![n] = Newborn(c)]
  PROVE  Sound(hs, fl, n + 1)
  <1>1. gs = [i \in Ids |-> gs[i]] /\ \A i \in Ids : Known(gs, i, n)
    BY DEF Sound
  <1>2. hs = [i \in Ids |-> hs[i]] /\ \A i \in Ids : hs[i] = IF i = n THEN Newborn(c) ELSE gs[i]
    BY <1>1
  <1>3. PICK g : g = Newborn(c)
    OBVIOUS
  <1>4. GuildShape(g) /\ \A j \in Pacts : g.alliance[j].guild = 0
    BY <1>3, NewbornShape
  <1>5. 0 \notin Ids /\ Ids \subseteq Nat /\ n < n + 1 /\ \A i \in Nat : i < n => i < n + 1
    BY DEF Ids
  <1>6. ASSUME NEW i \in Ids
        PROVE  Known(hs, i, n + 1)
    <2>1. CASE i = n
      <3>1. hs[i] = g
        BY <1>2, <1>3, <2>1
      <3>2. QED
        BY <1>4, <1>5, <2>1, <3>1 DEF Known
    <2>2. CASE i # n
      <3>1. hs[i] = gs[i] /\ Known(gs, i, n)
        BY <1>1, <1>2, <2>2
      <3>2. QED
        BY <1>5, <3>1 DEF Known
    <2>3. QED
      BY <2>1, <2>2
  <1>7. ASSUME NEW i \in Ids \ fl, NEW x \in Ids \ fl, hs[i] # Nil, hs[x] # Nil
        PROVE  Allied(hs[i], x) = Allied(hs[x], i)
    <2>1. CASE i = x
      BY <2>1
    <2>2. ASSUME NEW y \in Ids
          PROVE  Allied(g, y) = 0
      <3>1. \A j \in Pacts : g.alliance[j].guild # y
        BY <1>4, <1>5
      <3>2. QED
        BY <3>1, Unallied
    <2>3. ASSUME NEW y \in Ids, y # n, hs[y] # Nil, n \in Ids
          PROVE  Allied(hs[y], n) = 0
      <3>1. hs[y] = gs[y] /\ Known(gs, y, n) /\ gs[y] # Nil
        BY <1>1, <1>2, <2>3
      <3>2. \A j \in Pacts : gs[y].alliance[j].guild # n
        BY <2>3, <3>1 DEF Known
      <3>3. QED
        BY <2>3, <3>1, <3>2, Unallied
    <2>4. CASE i # x /\ i = n
      BY <1>2, <1>3, <1>7, <2>2, <2>3, <2>4
    <2>5. CASE i # x /\ x = n
      BY <1>2, <1>3, <1>7, <2>2, <2>3, <2>5
    <2>6. CASE i # n /\ x # n
      <3>1. hs[i] = gs[i] /\ hs[x] = gs[x]
        BY <1>2, <2>6
      <3>2. Mutual(gs, fl)
        BY DEF Sound
      <3>3. QED
        BY <1>7, <3>1, <3>2 DEF Mutual
    <2>7. QED
      BY <2>1, <2>4, <2>5, <2>6
  <1>8. Mutual(hs, fl)
    BY <1>7 DEF Mutual
  <1>9. QED
    BY <1>2, <1>6, <1>8 DEF Sound

LEMMA AnswerFits ==
  ASSUME NEW n, Fit(State, n), NEW m, NEW msg
  PROVE  Fit(Answer(m, msg), n)
  <1>1. CASE msg.kind = "request"
    BY <1>1, InfoRequestFits DEF Answer
  <1>2. CASE msg.kind = "add"
    BY <1>2, AddMemberFits DEF Answer
  <1>3. CASE msg.kind = "leave"
    BY <1>3, LeaveFits DEF Answer
  <1>4. CASE msg.kind = "infoshort"
    BY <1>4, InfoShortFits DEF Answer
  <1>5. CASE msg.kind = "change"
    BY <1>5, MemberInfoFits DEF Answer
  <1>6. CASE msg.kind = "break"
    BY <1>6, BreakFits DEF Answer
  <1>7. CASE msg.kind = "check"
    BY <1>7, CheckFits DEF Answer
  <1>8. CASE msg.kind = "skillup"
    BY <1>8, SkillUpFits DEF Answer
  <1>9. CASE msg.kind = "notice"
    BY <1>9, NoticeFits DEF Answer
  <1>10. CASE msg.kind = "level"
    BY <1>10, LevelFits DEF Answer
  <1>11. CASE msg.kind = "alliance"
    BY <1>11, AllianceFits DEF Answer
  <1>12. CASE msg.kind \notin {"request", "add", "leave", "infoshort", "change", "break", "check",
                               "skillup", "notice", "level", "alliance"}
    BY <1>12 DEF Answer
  <1>13. QED
    BY <1>1, <1>2, <1>3, <1>4, <1>5, <1>6, <1>7, <1>8, <1>9, <1>10, <1>11, <1>12

-----------------------------------------------------------------------------
(* The invariant *)

GuildInv == guild_newid \in Nat /\ Sound(guild, full, guild_newid)

LEMMA LoadedShape ==
  ASSUME NEW cs
  PROVE  GuildShape(Loaded(cs)) /\ \A j \in Pacts : Loaded(cs).alliance[j].guild = 0
  <1>1. PICK g : g = Newborn(cs[1])
    OBVIOUS
  <1>2. GuildShape(g) /\ \A j \in Pacts : g.alliance[j].guild = 0
    BY <1>1, NewbornShape
  <1>3. PICK x : x = [i \in Slots |-> IF i > Len(cs) THEN Vacant
                        ELSE [guild_makemember(cs[i], IF i = 1 THEN 0 ELSE 1) EXCEPT !.online = FALSE]]
    OBVIOUS
  <1>4. PICK h : h = [g EXCEPT !.member = x]
    OBVIOUS
  <1>5. h = Loaded(cs)
    BY <1>1, <1>3, <1>4 DEF Loaded
  <1>6. h = [member |-> x, master |-> g.master, exp |-> g.exp, guild_lv |-> g.guild_lv,
             skill_point |-> g.skill_point, max_member |-> g.max_member, alliance |-> g.alliance,
             board |-> g.board]
    BY <1>2, <1>4 DEF GuildShape
  <1>7. Alike(g, h)
    BY <1>2, <1>6, AlikeIs
  <1>8. QED
    BY <1>2, <1>5, <1>7 DEF Alike

LEMMA InitHolds ==
  ASSUME Init
  PROVE  GuildInv
  <1>1. PICK f : f = scene.founded
    OBVIOUS
  <1>2. /\ guild = [g \in Ids |-> IF g \in DOMAIN f THEN Loaded(f[g]) ELSE Nil]
        /\ guild_newid = Len(f) + 1
    BY <1>1 DEF Init
  <1>3. f \in Seq(Seq(Chars))
    BY <1>1, GuildAssumption DEF Init
  <1>4. Len(f) \in Nat /\ DOMAIN f = 1 .. Len(f)
    BY <1>3
  <1>5. ASSUME NEW id \in Ids, guild[id] # Nil
        PROVE  /\ GuildShape(guild[id]) /\ id < guild_newid
               /\ \A j \in Pacts : guild[id].alliance[j].guild = 0
    <2>1. id \in DOMAIN f /\ guild[id] = Loaded(f[id])
      BY <1>2, <1>5
    <2>2. id < guild_newid
      BY <1>2, <1>4, <2>1
    <2>3. QED
      BY <2>1, <2>2, LoadedShape
  <1>6. 0 \notin Ids
    BY DEF Ids
  <1>7. \A id \in Ids : Known(guild, id, guild_newid)
    BY <1>5, <1>6 DEF Known
  <1>8. ASSUME NEW id \in Ids \ full, NEW other \in Ids \ full, guild[id] # Nil, guild[other] # Nil
        PROVE  Allied(guild[id], other) = Allied(guild[other], id)
    <2>1. Allied(guild[id], other) = 0
      BY <1>5, <1>6, <1>8, Unallied
    <2>2. Allied(guild[other], id) = 0
      BY <1>5, <1>6, <1>8, Unallied
    <2>3. QED
      BY <2>1, <2>2
  <1>9. Mutual(guild, full)
    BY <1>8 DEF Mutual
  <1>10. QED
    BY <1>2, <1>4, <1>7, <1>9 DEF GuildInv, Sound

LEMMA FromMapKeeps ==
  ASSUME GuildInv, NEW m \in Maps, FromMap(m)
  PROVE  GuildInv'
  <1>1. Fit(State, guild_newid) /\ Sound(guild, full, guild_newid) /\ guild_newid \in Nat
    BY StateFits DEF GuildInv
  <1>2. PICK msg : msg = Head(toChar[m])
    OBVIOUS
  <1>3. \/ mapif_parse_CreateGuild(m, msg)
        \/ UNCHANGED <<guild, guild_newid, full>>
        \/ LET s == Answer(m, msg) IN guild' = s.guild /\ full' = s.full /\ guild_newid' = guild_newid
    BY <1>2 DEF FromMap
  <1>4. CASE UNCHANGED <<guild, guild_newid, full>>
    BY <1>1, <1>4 DEF GuildInv
  <1>5. CASE LET s == Answer(m, msg) IN guild' = s.guild /\ full' = s.full /\ guild_newid' = guild_newid
    <2>1. Fit(Answer(m, msg), guild_newid)
      BY <1>1, AnswerFits
    <2>2. PICK s : s = Answer(m, msg)
      OBVIOUS
    <2>3. Sound(s.guild, s.full, guild_newid)
      BY <2>1, <2>2 DEF Fit
    <2>4. guild' = s.guild /\ full' = s.full /\ guild_newid' = guild_newid
      BY <1>5, <2>2
    <2>5. Sound(guild', full', guild_newid')
      BY <2>3, <2>4
    <2>6. QED
      BY <1>1, <2>4, <2>5 DEF GuildInv
  <1>6. CASE mapif_parse_CreateGuild(m, msg)
    <2>1. CASE guild_newid \notin Ids
      BY <1>1, <1>6, <2>1 DEF mapif_parse_CreateGuild, GuildInv
    <2>2. CASE guild_newid \in Ids
      <3>1. PICK p : p = Put(State, guild_newid, Newborn(msg.nick))
        OBVIOUS
      <3>2. PICK s : s = Send(p, m, [kind |-> "created", nick |-> msg.nick, guild |-> guild_newid])
        OBVIOUS
      <3>3. guild' = s.guild /\ guild_newid' = guild_newid + 1 /\ full' = full
        BY <1>6, <2>2, <3>1, <3>2 DEF mapif_parse_CreateGuild
      <3>4. StateShape(State) /\ State.guild = guild
        BY <1>1, StateFits
      <3>5. StateShape(p) /\ p.guild = [guild EXCEPT ![guild_newid] = Newborn(msg.nick)]
        BY <3>1, <3>4, PutIs
      <3>6. s.guild = p.guild
        BY <3>2, <3>5, SendsAre
      <3>7. PICK gs : gs = guild
        OBVIOUS
      <3>8. PICK n : n = guild_newid
        OBVIOUS
      <3>9. PICK fl : fl = full
        OBVIOUS
      <3>10. PICK hs : hs = s.guild
        OBVIOUS
      <3>11. n \in Nat /\ Sound(gs, fl, n) /\ hs = [gs EXCEPT ![n] = Newborn(msg.nick)]
        BY <1>1, <3>5, <3>6, <3>7, <3>8, <3>9, <3>10
      <3>12. Sound(hs, fl, n + 1)
        BY <3>11, NewSound
      <3>13. Sound(guild', full', guild_newid')
        BY <3>3, <3>8, <3>9, <3>10, <3>12
      <3>14. QED
        BY <1>1, <3>3, <3>13 DEF GuildInv
    <2>3. QED
      BY <2>1, <2>2
  <1>7. QED
    BY <1>3, <1>4, <1>5, <1>6

(* Nothing but a packet at the char server touches the guilds there. *)
LEMMA OthersKeep ==
  ASSUME NEW m \in Maps, \/ FromChar(m) \/ guild_payexp_timer(m)
                         \/ \E c \in Chars : Login(m, c)
                         \/ \E a \in Accounts : map_quit(m, a)
  PROVE  UNCHANGED <<guild, guild_newid, full>>
  BY DEF FromChar, guild_payexp_timer, Login, map_quit

LEMMA ClientsKeep ==
  ASSUME NEW m \in Maps, NEW a \in Accounts,
         \/ guild_create(m, a) \/ AcceptInvite(m, a) \/ Refuse(m, a) \/ guild_leave(m, a)
         \/ guild_skillup(m, a) \/ atcommand_guildlevelup(m, a) \/ guild_break(m, a)
         \/ guild_payexp(m, a) \/ guild_reply_reqalliance(m, a)
         \/ \E b \in Accounts : guild_invite(m, a, b) \/ guild_reqalliance(m, a, b) \/ guild_opposition(m, a, b)
         \/ \E c \in Chars : guild_explusion(m, a, c) \/ \E pos \in 0 .. 1 : guild_change_memberposition(m, a, c, pos)
         \/ \E b \in Boards : guild_change_notice(m, a, b)
         \/ \E id \in Ids, opp \in BOOLEAN : guild_delalliance(m, a, id, opp)
  PROVE  UNCHANGED <<guild, guild_newid, full>>
  <1>1. CASE guild_create(m, a) \/ guild_leave(m, a) \/ guild_skillup(m, a) \/ guild_break(m, a)
    BY <1>1 DEF guild_create, guild_leave, guild_skillup, guild_break, Client
  <1>2. CASE AcceptInvite(m, a)
    BY <1>2 DEF AcceptInvite, Client
  <1>3. CASE Refuse(m, a)
    BY <1>3 DEF Refuse, Client
  <1>4. CASE atcommand_guildlevelup(m, a) \/ guild_payexp(m, a)
    BY <1>4 DEF atcommand_guildlevelup, guild_payexp
  <1>5. CASE guild_reply_reqalliance(m, a)
    BY <1>5 DEF guild_reply_reqalliance, Client
  <1>6. CASE \E b \in Accounts : guild_invite(m, a, b) \/ guild_reqalliance(m, a, b) \/ guild_opposition(m, a, b)
    BY <1>6 DEF guild_invite, guild_reqalliance, guild_opposition, Client
  <1>7. CASE \E c \in Chars : guild_explusion(m, a, c) \/ \E pos \in 0 .. 1 : guild_change_memberposition(m, a, c, pos)
    BY <1>7 DEF guild_explusion, guild_change_memberposition, Client
  <1>8. CASE \E b \in Boards : guild_change_notice(m, a, b)
    BY <1>8 DEF guild_change_notice, Client
  <1>9. CASE \E id \in Ids, opp \in BOOLEAN : guild_delalliance(m, a, id, opp)
    BY <1>9 DEF guild_delalliance, Client
  <1>10. QED
    BY <1>1, <1>2, <1>3, <1>4, <1>5, <1>6, <1>7, <1>8, <1>9

LEMMA StepHolds ==
  ASSUME GuildInv, [Next]_vars
  PROVE  GuildInv'
  <1>1. CASE \E m \in Maps : FromMap(m)
    BY <1>1, FromMapKeeps
  <1>2. CASE UNCHANGED <<guild, guild_newid, full>>
    BY <1>2 DEF GuildInv
  <1>3. (\E m \in Maps : FromMap(m)) \/ UNCHANGED <<guild, guild_newid, full>>
    <2>1. CASE Next
      <3>1. CASE \E m \in Maps : FromMap(m)
        BY <3>1
      <3>2. CASE \E m \in Maps : \/ FromChar(m) \/ guild_payexp_timer(m)
                                 \/ \E c \in Chars : Login(m, c)
                                 \/ \E a \in Accounts : map_quit(m, a)
        BY <3>2, OthersKeep
      <3>3. CASE \E m \in Maps, a \in Accounts :
                   \/ guild_create(m, a) \/ AcceptInvite(m, a) \/ Refuse(m, a) \/ guild_leave(m, a)
                   \/ guild_skillup(m, a) \/ atcommand_guildlevelup(m, a) \/ guild_break(m, a)
                   \/ guild_payexp(m, a) \/ guild_reply_reqalliance(m, a)
                   \/ \E b \in Accounts : guild_invite(m, a, b) \/ guild_reqalliance(m, a, b)
                                          \/ guild_opposition(m, a, b)
                   \/ \E c \in Chars : guild_explusion(m, a, c)
                                       \/ \E pos \in 0 .. 1 : guild_change_memberposition(m, a, c, pos)
                   \/ \E b \in Boards : guild_change_notice(m, a, b)
                   \/ \E id \in Ids, opp \in BOOLEAN : guild_delalliance(m, a, id, opp)
        BY <3>3, ClientsKeep
      <3>4. QED
        BY <2>1, <3>1, <3>2, <3>3 DEF Next
    <2>2. CASE UNCHANGED vars
      BY <2>2 DEF vars
    <2>3. QED
      BY <2>1, <2>2
  <1>4. QED
    BY <1>1, <1>2, <1>3

(* The guilds the char server knows have ids it has given out, and name no
   others in their pacts. *)
THEOREM GuildsKnown == Spec => []GuildInv
  <1>1. Init => GuildInv
    BY InitHolds
  <1>2. GuildInv /\ [Next]_vars => GuildInv'
    BY StepHolds
  <1>3. QED
    BY <1>1, <1>2, PTL DEF Spec

(* At the char server an alliance is one of both guilds, as often in one as in
   the other, as long as both had a free place for it: mapif_parse_GuildAlliance
   writes both, mapif_parse_BreakGuild clears all others of a guild that is no
   more, and no new guild gets an id that pacts already name. *)
THEOREM AlliancesAreMutual == Spec => []AlliancesMutual
  <1>1. GuildInv => AlliancesMutual
    BY DEF GuildInv, Sound, Mutual, Allied, AlliancesMutual
  <1>2. QED
    BY <1>1, GuildsKnown, PTL
=============================================================================
