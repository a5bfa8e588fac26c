------------------------------- MODULE Guild -------------------------------
(***************************************************************************)
(* Guilds: the char server's (char/int_guild.c) and the copies of the map  *)
(* servers (map/guild.c), kept by broadcasts as Party keeps parties; here  *)
(* with what guilds add: experience that members pay and map servers hold  *)
(* back for a while (guild_expcache_db), levels, the place for more        *)
(* members they buy, alliances and enmities, and expulsion.                *)
(*                                                                         *)
(* Position names, notice and emblem are one value, board.  A member is a  *)
(* character.  A skill other than the one that enlarges the guild does     *)
(* nothing here.  Loading a map tells the guild nothing in this code:      *)
(* clif_parse_LoadEndAck calls party_send_movemap only.                    *)
(*                                                                         *)
(* Bounds: guilds 1 .. MaxGuild; less than MaxAsked packets are under way  *)
(* from a map server whose clients act.  One of the Scenes says which      *)
(* guilds the char server has loaded, which characters log in, what kinds  *)
(* of things their clients do and how often (acts).                        *)
(***************************************************************************)
EXTENDS Integers, Sequences, FiniteSets, SequencesExt, FiniteSetsExt

CONSTANTS Maps, Accounts, Chars, AccountOf, Boards, Nil,
          MAX_GUILD,          \* places of members
          FIRST_PLACES,       \* of them usable at the start (16)
          MAX_GUILDALLIANCE,
  MAX_PACTS,          \* alliances above which no more is accepted (3)
  NEXTEXP, MaxLevel,
          MaxGuild, MaxAsked, Scenes

ASSUME GuildAssumption ==
  /\ AccountOf \in [Chars -> Accounts] /\ Nil \notin Chars \cup Boards
  /\ MAX_GUILD \in Nat /\ FIRST_PLACES \in 1 .. MAX_GUILD
  /\ MaxGuild \in Nat /\ MAX_GUILDALLIANCE \in Nat /\ NEXTEXP \in Nat \ {0} /\ MaxLevel \in Nat
  /\ \A s \in Scenes : s.founded \in Seq(Seq(Chars)) /\ Len(s.founded) <= MaxGuild

VARIABLES
  guild,          \* char server: id |-> guild, or Nil
  guild_newid,
  char_dat,       \* char server: character |-> guild_id saved with it
  guild_db,       \* map server, id |-> its copy, or Nil
  session,        \* map server, account |-> session, or Nil
  expcache,       \* map server, character |-> experience held back, or Nil
  toChar, toMap,
  paid,           \* history: experience members gave up for guilds
  full,           \* history: guilds without room for an alliance or enmity
  acts, scene     \* bounds

mapvars == <<guild_db, session, expcache>>
vars == <<guild, guild_newid, char_dat, mapvars, toChar, toMap, paid, full, acts, scene>>

Ids    == 1 .. MaxGuild
Slots  == 1 .. MAX_GUILD
Pacts  == 1 .. MAX_GUILDALLIANCE
Vacant == [nick |-> Nil, exp |-> 0, position |-> 1, online |-> FALSE]
NoPact == [guild |-> 0, opposition |-> FALSE]
guild_makemember(c, pos) == [nick |-> c, exp |-> 0, position |-> pos, online |-> TRUE]

Newborn(c) == [member   |-> [i \in Slots |-> IF i = 1 THEN guild_makemember(c, 0) ELSE Vacant],
               master   |-> c, exp |-> 0, guild_lv |-> 1, skill_point |-> 0,
               max_member |-> FIRST_PLACES,
               alliance |-> [j \in Pacts |-> NoPact], board |-> CHOOSE b \in Boards : TRUE]

First(S)    == Min(S)
Index(g, c) == {i \in 1 .. g.max_member : g.member[i].nick = c}
Free(g)     == {i \in 1 .. g.max_member : g.member[i].nick = Nil}
PactsOf(g, id, opp) == {j \in Pacts : g.alliance[j] = [guild |-> id, opposition |-> opp]}
guild_get_alliance_count(g, opp) ==
  Cardinality({j \in Pacts : g.alliance[j].guild # 0 /\ g.alliance[j].opposition = opp})

(* What a level and the experience towards the next amount to. *)
Worth(g) == (g.guild_lv - 1) * NEXTEXP + g.exp

(* inter_guild_init: the guilds of a scene, all members away. *)
Loaded(cs) == [Newborn(cs[1]) EXCEPT !.member = [i \in Slots |->
  IF i > Len(cs) THEN Vacant
  ELSE [guild_makemember(cs[i], IF i = 1 THEN 0 ELSE 1) EXCEPT !.online = FALSE]]]

Init ==
  /\ scene \in Scenes
  /\ LET f == scene.founded IN
     /\ guild = [g \in Ids |-> IF g \in DOMAIN f THEN Loaded(f[g]) ELSE Nil]
     /\ guild_newid = Len(f) + 1
     /\ char_dat = [c \in Chars |-> IF \E g \in DOMAIN f : c \in Range(f[g])
                                    THEN CHOOSE g \in DOMAIN f : c \in Range(f[g]) ELSE 0]
  /\ guild_db = [m \in Maps |-> [g \in Ids |-> Nil]]
  /\ session = [m \in Maps |-> [a \in Accounts |-> Nil]]
  /\ expcache = [m \in Maps |-> [c \in Chars |-> Nil]]
  /\ toChar = [m \in Maps |-> <<>>] /\ toMap = [m \in Maps |-> <<>>]
  /\ paid = 0 /\ full = {} /\ acts = 0

-----------------------------------------------------------------------------
(* Char server.  A handler works on the guilds and what it sends. *)
State == [guild |-> guild, out |-> toMap, full |-> full]
Put(s, id, g)    == [s EXCEPT !.guild[id] = g]
Send(s, m, msg)  == [s EXCEPT !.out[m] = Append(@, msg)]
SendAll(s, msg)  == [s EXCEPT !.out = [m \in Maps |-> Append(@[m], msg)]]
Info(s, id)      == [kind |-> "info", guild |-> id, info |-> s.guild[id]]
mapif_guild_info(s, id) == SendAll(s, Info(s, id))

(* Levels bought with the experience; the new guild and whether all have to
   be told. *)
LevelsUp(g) == IF g.guild_lv >= MaxLevel \/ g.exp < NEXTEXP THEN 0
               ELSE Min({g.exp \div NEXTEXP, MaxLevel - g.guild_lv})

(* Mutant: a level gained is not told. *)
CalcinfoSilent(s, id) ==
  LET g == s.guild[id]
      n == LevelsUp(g)
  IN Put(s, id, [g EXCEPT !.exp = @ - n * NEXTEXP, !.guild_lv = @ + n, !.skill_point = @ + n])

guild_calcinfo(s, id) ==
  LET g == s.guild[id]
      n == LevelsUp(g)
      h == [g EXCEPT !.exp = @ - n * NEXTEXP, !.guild_lv = @ + n, !.skill_point = @ + n]
  IN IF n = 0 THEN Put(s, id, h) ELSE mapif_guild_info(Put(s, id, h), id)

Dissolved(gs, id) ==
  [h \in Ids |-> IF h = id \/ gs[h] = Nil THEN Nil
                 ELSE [gs[h] EXCEPT !.alliance = [j \in Pacts |->
                         IF @[j].guild = id THEN [@[j] EXCEPT !.guild = 0] ELSE @[j]]]]

mapif_parse_BreakGuild(s, id) ==
  IF s.guild[id] = Nil THEN s
  ELSE SendAll([s EXCEPT !.guild = Dissolved(@, id)], [kind |-> "broken", guild |-> id])

mapif_parse_GuildLeave(s, id, c) ==
  LET g == s.guild[id]
      h == [g EXCEPT !.member[First(Index(g, c))] = Vacant]
      t == SendAll(Put(s, id, h), [kind |-> "leaved", guild |-> id, nick |-> c])
  IN IF g = Nil \/ Index(g, c) = {} THEN s
     ELSE IF \A i \in Slots : h.member[i].nick = Nil
     THEN mapif_parse_BreakGuild(t, id) ELSE mapif_guild_info(t, id)

mapif_parse_CreateGuild(m, msg) ==
  /\ msg.kind = "create"
  /\ IF guild_newid \notin Ids  \* bound: as if the name were taken
     THEN /\ toMap' = Send(State, m, [kind |-> "created", nick |-> msg.nick, guild |-> 0]).out
          /\ UNCHANGED <<guild, guild_newid>>
     ELSE LET s == Send(Put(State, guild_newid, Newborn(msg.nick)), m,
                        [kind |-> "created", nick |-> msg.nick, guild |-> guild_newid])
          IN guild' = s.guild /\ toMap' = Send(s, m, Info(s, guild_newid)).out
             /\ guild_newid' = guild_newid + 1
  /\ UNCHANGED full

mapif_parse_GuildInfo(m, msg) ==
  IF guild[msg.guild] = Nil THEN Send(State, m, [kind |-> "noinfo", guild |-> msg.guild])
  ELSE LET s == guild_calcinfo(State, msg.guild) IN Send(s, m, Info(s, msg.guild))

mapif_parse_GuildAddMember(m, msg) ==
  LET id == msg.guild
      g  == guild[id]
      Answer(s, fail) == Send(s, m, [kind |-> "added", guild |-> id, nick |-> msg.nick, fail |-> fail])
  IN IF g = Nil \/ Free(g) = {} THEN Answer(State, TRUE)
     ELSE LET s == Put(State, id, [g EXCEPT !.member[First(Free(g))] = guild_makemember(msg.nick, 1)])
          IN mapif_guild_info(guild_calcinfo(Answer(s, FALSE), id), id)

mapif_parse_GuildChangeMemberInfoShort(m, msg) ==
  LET id == msg.guild
      at == IF guild[id] = Nil THEN {} ELSE Index(guild[id], msg.nick)
  IN IF at = {} THEN State
     ELSE SendAll(Put(State, id, [guild[id] EXCEPT !.member[First(at)].online = msg.online]),
                  [kind |-> "infoshort", guild |-> id, nick |-> msg.nick, online |-> msg.online])

(* Mutant: the guild gets all a member has paid each time it pays. *)
ExpTotalAdded(m, msg) ==
  LET id == msg.guild
      g  == guild[id]
      at == IF g = Nil THEN {} ELSE Index(g, msg.nick)
      i  == First(at)
      h  == IF msg.what = "position" THEN [g EXCEPT !.member[i].position = msg.value]
            ELSE [g EXCEPT !.member[i].exp = msg.value, !.exp = @ + msg.value]
      s  == guild_calcinfo(Put(State, id, h), id)
      t  == IF msg.what = "position" THEN Put(State, id, h)
            ELSE SendAll(s, [kind |-> "exp", guild |-> id, exp |-> s.guild[id].exp])
  IN IF at = {} THEN State
     ELSE SendAll(t, [kind |-> "memberinfo", guild |-> id, nick |-> msg.nick,
                      what |-> msg.what, value |-> msg.value])

(* The position, or the experience a member has paid in all: the guild gets
   the difference to what was known. *)
mapif_parse_GuildMemberInfoChange(m, msg) ==
  LET id == msg.guild
      g  == guild[id]
      at == IF g = Nil THEN {} ELSE Index(g, msg.nick)
      i  == First(at)
      h  == IF msg.what = "position" THEN [g EXCEPT !.member[i].position = msg.value]
            ELSE [g EXCEPT !.member[i].exp = msg.value, !.exp = @ + msg.value - g.member[i].exp]
      s  == guild_calcinfo(Put(State, id, h), id)
      t  == IF msg.what = "position" THEN Put(State, id, h)
            ELSE SendAll(s, [kind |-> "exp", guild |-> id, exp |-> s.guild[id].exp])
  IN IF at = {} THEN State
     ELSE SendAll(t, [kind |-> "memberinfo", guild |-> id, nick |-> msg.nick,
                      what |-> msg.what, value |-> msg.value])

(* A guild's place for more members, bought with a skill point. *)
mapif_parse_GuildSkillUp(m, msg) ==
  LET id == msg.guild
      g  == guild[id]
      h  == [g EXCEPT !.skill_point = @ - 1, !.max_member = @ + 1]
  IN IF g = Nil \/ g.skill_point <= 0 \/ g.max_member = MAX_GUILD THEN State
     ELSE LET s == Put(State, id, h) IN
          SendAll(IF LevelsUp(h) = 0 THEN mapif_guild_info(s, id) ELSE guild_calcinfo(s, id),
                  [kind |-> "skillup", guild |-> id])

(* 0x303b, 0x303e, 0x303f *)
mapif_parse_GuildNotice(m, msg) ==
  IF guild[msg.guild] = Nil THEN State
  ELSE SendAll(Put(State, msg.guild, [guild[msg.guild] EXCEPT !.board = msg.board]),
               [kind |-> "notice", guild |-> msg.guild, board |-> msg.board])

mapif_parse_GuildBasicInfoChange(m, msg) ==
  LET g == guild[msg.guild]
      h == [g EXCEPT !.guild_lv = @ + 1, !.skill_point = @ + 1]
  IN IF g = Nil THEN State
     ELSE mapif_guild_info(IF g.guild_lv < MaxLevel THEN Put(State, msg.guild, h) ELSE State, msg.guild)

(* Pacts.  Both handlers, here and on the map servers, write the same places:
   an alliance in both guilds, an enmity in the first; the first free place
   is taken, the first that fits is cleared. *)
Changed(g, id, how, opp) ==
  LET at == IF how = "make" THEN {j \in Pacts : g.alliance[j].guild = 0} ELSE PactsOf(g, id, opp)
  IN IF at = {} THEN g
     ELSE [g EXCEPT !.alliance[First(at)] =
             IF how = "make" THEN [guild |-> id, opposition |-> opp] ELSE [@ EXCEPT !.guild = 0]]

Sides(msg) == IF msg.opp THEN {msg.guild} ELSE {msg.guild, msg.other}
Partner(msg, id) == IF id = msg.guild THEN msg.other ELSE msg.guild
Written(gs, id, msg) ==
  IF gs[id] = Nil THEN gs ELSE [gs EXCEPT ![id] = Changed(@, Partner(msg, id), msg.how, msg.opp)]

(* Mutant: an alliance is written for the one who asked only. *)
WithOnePact(gs, msg) == Written(gs, msg.guild, msg)
WithPact(gs, msg) ==
  LET hs == Written(gs, msg.guild, msg) IN IF msg.opp THEN hs ELSE Written(hs, msg.other, msg)

Crowded(msg) == {id \in Sides(msg) : \A j \in Pacts : guild[id].alliance[j].guild # 0}

mapif_parse_GuildAlliance(m, msg) ==
  IF guild[msg.guild] = Nil \/ guild[msg.other] = Nil THEN State
  ELSE SendAll([State EXCEPT !.guild = WithPact(@, msg),
                             !.full = IF msg.how = "make" /\ Crowded(msg) # {}
                                      THEN @ \cup Sides(msg) ELSE @], msg)

guild_check_conflict(m, msg) ==
  LET after[id \in 0 .. MaxGuild] ==
        IF id = 0 THEN State
        ELSE IF id = msg.guild THEN after[id - 1]
        ELSE mapif_parse_GuildLeave(after[id - 1], id, msg.nick)
  IN after[MaxGuild]

Answer(m, msg) ==
  CASE msg.kind = "request"   -> mapif_parse_GuildInfo(m, msg)
    [] msg.kind = "add"       -> mapif_parse_GuildAddMember(m, msg)
    [] msg.kind = "leave"     -> mapif_parse_GuildLeave(State, msg.guild, msg.nick)
    [] msg.kind = "infoshort" -> mapif_parse_GuildChangeMemberInfoShort(m, msg)
    [] msg.kind = "change"    -> mapif_parse_GuildMemberInfoChange(m, msg)
    [] msg.kind = "break"     -> mapif_parse_BreakGuild(State, msg.guild)
    [] msg.kind = "check"     -> guild_check_conflict(m, msg)
    [] msg.kind = "skillup"   -> mapif_parse_GuildSkillUp(m, msg)
    [] msg.kind = "notice"    -> mapif_parse_GuildNotice(m, msg)
    [] msg.kind = "level"     -> mapif_parse_GuildBasicInfoChange(m, msg)
    [] msg.kind = "alliance"  -> mapif_parse_GuildAlliance(m, msg)
    [] OTHER                  -> State  \* default: no packet of guilds

FromMap(m) ==
  /\ toChar[m] # <<>>
  /\ toChar' = [toChar EXCEPT ![m] = Tail(@)]
  /\ LET msg == Head(toChar[m]) IN
     \/ mapif_parse_CreateGuild(m, msg) /\ UNCHANGED char_dat
     \/ /\ msg.kind = "save"
        /\ char_dat' = [char_dat EXCEPT ![msg.nick] = msg.guild]
        /\ UNCHANGED <<guild, guild_newid, toMap, full>>
     \/ /\ msg.kind \notin {"create", "save"}
        /\ LET s == Answer(m, msg)
           IN guild' = s.guild /\ toMap' = s.out /\ full' = s.full
        /\ UNCHANGED <<char_dat, guild_newid>>
  /\ UNCHANGED <<mapvars, paid, acts, scene>>

-----------------------------------------------------------------------------
(* Map servers.  A copy points to the sessions of its members. *)
NoPointer == [i \in Slots |-> FALSE]
Copy(g, sd) == [member |-> g.member, master |-> g.master, exp |-> g.exp, guild_lv |-> g.guild_lv,
                skill_point |-> g.skill_point, max_member |-> g.max_member,
                alliance |-> g.alliance, board |-> g.board, sd |-> sd]
Here(m, c) == LET s == session[m][AccountOf[c]] IN s # Nil /\ s.nick = c
PutSession(m, a, s) == session' = [session EXCEPT ![m][a] = s]
PutCopy(m, id, g)   == guild_db' = [guild_db EXCEPT ![m][id] = g]
Ask(m, msgs)        == toChar' = [toChar EXCEPT ![m] = @ \o msgs]
Copies(m)           == {id \in Ids : guild_db[m][id] # Nil}

Pointers(member, id, s) ==
  [i \in Slots |-> /\ member[i].nick # Nil
                   /\ LET t == s[AccountOf[member[i].nick]]
                      IN t # Nil /\ t.nick = member[i].nick /\ t.guild_id = id]

guild_created(m, msg) ==
  /\ msg.kind = "created"
  /\ LET a == AccountOf[msg.nick]
         s == session[m][a]
     IN IF s = Nil \/ msg.guild = 0 THEN UNCHANGED session
        ELSE PutSession(m, a, [s EXCEPT !.guild_id = msg.guild, !.sended = FALSE])
  /\ UNCHANGED <<guild_db, expcache, toChar>>

(* A copy that is new sends away the sessions that are not in its list. *)
guild_recv_info(m, msg) ==
  LET id  == msg.guild
      out == {a \in Accounts : /\ guild_db[m][id] = Nil
                               /\ session[m][a] # Nil /\ session[m][a].guild_id = id
                               /\ \A i \in Slots : msg.info.member[i].nick # session[m][a].nick}
      s   == [a \in Accounts |-> IF a \in out THEN [session[m][a] EXCEPT !.guild_id = 0, !.sended = FALSE]
                                 ELSE session[m][a]]
      sd  == Pointers(msg.info.member, id, s)
  IN /\ msg.kind = "info"
     /\ PutCopy(m, id, Copy(msg.info, sd))
     /\ session' = [session EXCEPT ![m] = [a \in Accounts |->
          IF \E i \in Slots : sd[i] /\ AccountOf[msg.info.member[i].nick] = a
          THEN [s[a] EXCEPT !.sended = TRUE] ELSE s[a]]]
     /\ UNCHANGED <<expcache, toChar>>

guild_recv_noinfo(m, msg) ==
  /\ msg.kind = "noinfo"
  /\ session' = [session EXCEPT ![m] = [a \in Accounts |->
       IF @[a] # Nil /\ @[a].guild_id = msg.guild THEN [@[a] EXCEPT !.guild_id = 0] ELSE @[a]]]
  /\ UNCHANGED <<guild_db, expcache, toChar>>

(* The answer finds the account, whatever character it has by now. *)
guild_member_added(m, msg) ==
  LET a == AccountOf[msg.nick]
      s == session[m][a]
  IN /\ msg.kind = "added"
     /\ IF guild_db[m][msg.guild] = Nil THEN UNCHANGED <<session, toChar>>
        ELSE IF ~msg.fail /\ (s = Nil \/ s.invite = 0)
        THEN Ask(m, <<[kind |-> "leave", guild |-> msg.guild, nick |-> msg.nick]>>) /\ UNCHANGED session
        ELSE IF msg.fail
        THEN PutSession(m, a, [s EXCEPT !.invite = 0]) /\ UNCHANGED toChar
        ELSE /\ PutSession(m, a, [s EXCEPT !.invite = 0, !.sended = FALSE, !.guild_id = msg.guild])
             /\ Ask(m, <<[kind |-> "check", guild |-> msg.guild, nick |-> s.nick]>>)
     /\ UNCHANGED <<guild_db, expcache>>

guild_member_leaved(m, msg) ==
  LET g  == guild_db[m][msg.guild]
      at == Index(g, msg.nick)
      a  == AccountOf[msg.nick]
      s  == session[m][a]
  IN /\ msg.kind = "leaved"
     /\ PutCopy(m, msg.guild,
          [g EXCEPT !.member = [i \in Slots |-> IF i \in at THEN [@[i] EXCEPT !.nick = Nil] ELSE @[i]],
                    !.sd = [i \in Slots |-> @[i] /\ i \notin at]])
     /\ IF s # Nil /\ s.guild_id = msg.guild
        THEN PutSession(m, a, [s EXCEPT !.guild_id = 0, !.sended = FALSE]) ELSE UNCHANGED session
     /\ UNCHANGED <<expcache, toChar>>

guild_broken(m, msg) ==
  LET g == guild_db[m][msg.guild] IN
  /\ msg.kind = "broken"
  /\ IF g = Nil THEN UNCHANGED <<guild_db, session>>
     ELSE /\ session' = [session EXCEPT ![m] = [a \in Accounts |->
               IF @[a] # Nil /\ \E i \in Slots : g.sd[i] /\ g.member[i].nick = @[a].nick
               THEN [@[a] EXCEPT !.guild_id = 0, !.sended = FALSE] ELSE @[a]]]
          /\ guild_db' = [guild_db EXCEPT ![m] = Dissolved(@, msg.guild)]
  /\ UNCHANGED <<expcache, toChar>>

(* Not found, the packet is taken to be about the first place. *)
guild_recv_memberinfoshort(m, msg) ==
  LET g == guild_db[m][msg.guild]
      h == [g EXCEPT !.member = [i \in Slots |-> IF @[i].nick = msg.nick
                                                 THEN [@[i] EXCEPT !.online = msg.online] ELSE @[i]]]
  IN /\ msg.kind = "infoshort"
     /\ PutCopy(m, msg.guild, IF g = Nil THEN Nil
                              ELSE [h EXCEPT !.sd = Pointers(h.member, msg.guild, session[m])])
     /\ UNCHANGED <<session, expcache, toChar>>

(* 0x3839, 0x383a, 0x383b, 0x383d, 0x383e, 0x383f *)
Refreshed(g, msg) ==
  CASE msg.kind = "exp"        -> [g EXCEPT !.exp = msg.exp]
    [] msg.kind = "memberinfo" ->
         [g EXCEPT !.member = [i \in Slots |->
            IF @[i].nick # msg.nick THEN @[i]
            ELSE IF msg.what = "position" THEN [@[i] EXCEPT !.position = msg.value]
            ELSE [@[i] EXCEPT !.exp = msg.value]]]
    [] msg.kind = "notice"     -> [g EXCEPT !.board = msg.board]
    [] msg.kind = "skillup"    -> g

intif_parse_GuildChanged(m, msg) ==
  /\ msg.kind \in {"exp", "memberinfo", "notice", "skillup"}
  /\ PutCopy(m, msg.guild, IF guild_db[m][msg.guild] = Nil THEN Nil
                           ELSE Refreshed(guild_db[m][msg.guild], msg))
  /\ UNCHANGED <<session, expcache, toChar>>

guild_allianceack(m, msg) ==
  LET s == session[m][msg.acc] IN
  /\ msg.kind = "alliance"
  /\ guild_db' = [guild_db EXCEPT ![m] = WithPact(@, msg)]
  /\ IF s # Nil /\ msg.how = "make" /\ ~msg.opp
     THEN PutSession(m, msg.acc, [s EXCEPT !.ally = 0]) ELSE UNCHANGED session
  /\ UNCHANGED <<expcache, toChar>>

(* Packets that a map server does not survive: a member leaves a guild it has
   no copy of; a negative answer for a session that has gone. *)
Fatal(m, msg) ==
  \/ msg.kind = "leaved" /\ guild_db[m][msg.guild] = Nil
  \/ msg.kind = "added" /\ msg.fail /\ guild_db[m][msg.guild] # Nil
     /\ session[m][AccountOf[msg.nick]] = Nil

Dies(m) ==
  /\ session' = [session EXCEPT ![m] = [a \in Accounts |-> Nil]]
  /\ guild_db' = [guild_db EXCEPT ![m] = [g \in Ids |-> Nil]]
  /\ expcache' = [expcache EXCEPT ![m] = [c \in Chars |-> Nil]]
  /\ toChar' = [toChar EXCEPT ![m] = <<>>] /\ toMap' = [toMap EXCEPT ![m] = <<>>]

FromChar(m) ==
  /\ toMap[m] # <<>>
  /\ LET msg == Head(toMap[m]) IN
     IF Fatal(m, msg) THEN Dies(m)
     ELSE /\ toMap' = [toMap EXCEPT ![m] = Tail(@)]
          /\ \/ guild_created(m, msg)
             \/ guild_recv_info(m, msg)
             \/ guild_recv_noinfo(m, msg)
             \/ guild_member_added(m, msg)
             \/ guild_member_leaved(m, msg)
             \/ guild_broken(m, msg)
             \/ guild_recv_memberinfoshort(m, msg)
             \/ intif_parse_GuildChanged(m, msg)
             \/ guild_allianceack(m, msg)
  /\ UNCHANGED <<guild, guild_newid, char_dat, paid, full, acts, scene>>

-----------------------------------------------------------------------------
(* Sessions and what their clients do. *)
Idle(m, a, kind) == /\ session[m][a] # Nil /\ kind \in scene.kinds
                    /\ acts < scene.acts /\ acts' = acts + 1 /\ Len(toChar[m]) < MaxAsked
Mine(m, a) == LET s == session[m][a]
              IN IF s = Nil \/ s.guild_id \notin Copies(m) THEN Nil ELSE guild_db[m][s.guild_id]

Saving(c) == \E m \in Maps : \E i \in DOMAIN toChar[m] :
               toChar[m][i].kind = "save" /\ toChar[m][i].nick = c

Login(m, c) ==
  LET a == AccountOf[c]
      g == char_dat[c]
  IN /\ \A n \in Maps : session[n][a] = Nil
     /\ ~Saving(c) /\ c \in scene.chars /\ acts < scene.acts /\ acts' = acts + 1
     /\ PutSession(m, a, [nick |-> c, guild_id |-> g, invite |-> 0, inviter |-> Nil,
                          ally |-> 0, allier |-> Nil, sended |-> FALSE])
     /\ Ask(m, IF g # 0 /\ g \notin Copies(m) THEN <<[kind |-> "request", guild |-> g]>> ELSE <<>>)
     /\ UNCHANGED <<guild, guild_newid, char_dat, guild_db, expcache, toMap, paid, full, scene>>

(* map_quit refuses what is asked of the session; whoever asked for an
   alliance is not there any more: the map server dies. *)
AllierGone(m, s) == s.ally # 0 /\ session[m][s.allier] = Nil
map_quit(m, a) ==
  LET s == session[m][a]
      g == Mine(m, a)
      online == <<[kind |-> "infoshort", guild |-> s.guild_id, nick |-> s.nick, online |-> FALSE]>>
  IN /\ Idle(m, a, "leave game")
     /\ IF AllierGone(m, s) THEN Dies(m) /\ UNCHANGED char_dat
        ELSE /\ Ask(m, (IF g # Nil THEN online ELSE <<>>)
                      \o <<[kind |-> "save", nick |-> s.nick, guild |-> s.guild_id]>>)
             /\ PutSession(m, a, Nil)
             /\ guild_db' = IF g = Nil THEN guild_db
                            ELSE [guild_db EXCEPT ![m][s.guild_id].sd = [i \in Slots |->
                                    @[i] /\ i \notin Index(g, s.nick)]]
             /\ UNCHANGED <<expcache, toMap, char_dat>>
     /\ UNCHANGED <<guild, guild_newid, paid, full, scene>>

(* What clients ask of the guild leaves the guilds alone. *)
Client(m, a, kind, new, msgs) ==
  /\ Idle(m, a, kind) /\ session' = new /\ Ask(m, msgs)
  /\ UNCHANGED <<guild, guild_newid, char_dat, guild_db, expcache, toMap, paid, full, scene>>

guild_create(m, a) ==
  LET s == session[m][a]
  IN /\ s # Nil /\ s.guild_id = 0
     /\ Client(m, a, "create", session, <<[kind |-> "create", nick |-> s.nick]>>)

guild_invite(m, a, b) ==
  LET s == session[m][a]
      t == session[m][b]
  IN /\ Mine(m, a) # Nil /\ t # Nil /\ t.guild_id = 0 /\ t.invite = 0
     /\ Free(Mine(m, a)) # {}
     /\ Client(m, a, "invite",
               [session EXCEPT ![m][b].invite = s.guild_id, ![m][b].inviter = a], <<>>)

(* Where the one who invited is by now decides whether there is room; the
   guild joined is that of the invitation. *)
AcceptInvite(m, a) ==
  LET s == session[m][a]
      g == Mine(m, s.inviter)
  IN /\ s # Nil /\ s.invite # 0
     /\ IF session[m][s.inviter] = Nil
        THEN /\ Idle(m, a, "invite") /\ Dies(m)
             /\ UNCHANGED <<guild, guild_newid, char_dat, paid, full, scene>>
        ELSE IF g = Nil \/ Free(g) = {}
        THEN Client(m, a, "invite", [session EXCEPT ![m][a].invite = 0], <<>>)
        ELSE Client(m, a, "invite", session, <<[kind |-> "add", guild |-> s.invite, nick |-> s.nick]>>)

(* A refusal of whatever is asked, also what a warp does (pc_setpos): that of
   an alliance reads the session of whoever asked. *)
Refuse(m, a) ==
  LET s == session[m][a]
      t == session[m][s.allier]
      h == [s EXCEPT !.invite = 0]
  IN /\ s # Nil /\ (s.invite # 0 \/ s.ally # 0)
     /\ IF AllierGone(m, s)
        THEN /\ Idle(m, a, "refuse") /\ Dies(m)
             /\ UNCHANGED <<guild, guild_newid, char_dat, paid, full, scene>>
        ELSE Client(m, a, "refuse",
                    [session EXCEPT ![m][a] =
                       IF s.ally # 0 /\ s.ally = t.guild_id THEN [h EXCEPT !.ally = 0] ELSE h], <<>>)

guild_leave(m, a) ==
  LET s == session[m][a]
  IN /\ Mine(m, a) # Nil /\ Index(Mine(m, a), s.nick) # {}
     /\ Client(m, a, "leave", session, <<[kind |-> "leave", guild |-> s.guild_id, nick |-> s.nick]>>)

(* Position 0 may expel (CreateGuild gives it mode 0x11), itself included. *)
guild_explusion(m, a, c) ==
  LET g == Mine(m, a)
      s == session[m][a]
  IN /\ g # Nil /\ Index(g, c) # {}
     /\ \E i \in Index(g, s.nick) : g.member[i].position = 0
     /\ Client(m, a, "expel", session, <<[kind |-> "leave", guild |-> s.guild_id, nick |-> c]>>)

(* Any member's client may. *)
guild_change_memberposition(m, a, c, pos) ==
  LET s == session[m][a]
  IN /\ s # Nil /\ s.guild_id # 0
     /\ Client(m, a, "position", session,
               <<[kind |-> "change", guild |-> s.guild_id, nick |-> c, what |-> "position", value |-> pos]>>)

(* Notice, emblem and the names and rights of positions. *)
guild_change_notice(m, a, b) ==
  LET s == session[m][a]
  IN /\ s # Nil /\ s.guild_id # 0
     /\ Client(m, a, "notice", session, <<[kind |-> "notice", guild |-> s.guild_id, board |-> b]>>)

guild_skillup(m, a) ==
  LET g == Mine(m, a)
      s == session[m][a]
  IN /\ g # Nil /\ g.master = s.nick /\ g.skill_point > 0
     /\ Client(m, a, "skill", session, <<[kind |-> "skillup", guild |-> s.guild_id]>>)

(* @guildlvup; the level is counted as paid for. *)
atcommand_guildlevelup(m, a) ==
  LET g == Mine(m, a)
      s == session[m][a]
  IN /\ g # Nil /\ g.master = s.nick /\ g.guild_lv < MaxLevel
     /\ Idle(m, a, "skill") /\ Ask(m, <<[kind |-> "level", guild |-> s.guild_id]>>)
     /\ paid' = paid + NEXTEXP
     /\ UNCHANGED <<guild, guild_newid, char_dat, mapvars, toMap, full, scene>>

guild_break(m, a) ==
  LET g == Mine(m, a)
      s == session[m][a]
  IN /\ g # Nil /\ g.master = s.nick
     /\ \A i \in 1 .. g.max_member : g.member[i].nick \in {Nil, s.nick}
     /\ Client(m, a, "break", session, <<[kind |-> "break", guild |-> s.guild_id]>>)

(* Too many alliances are answered, not refused. *)
guild_reqalliance(m, a, b) ==
  LET s == session[m][a]
      t == session[m][b]
  IN /\ Mine(m, a) # Nil /\ Mine(m, b) # Nil /\ t.ally = 0
     /\ PactsOf(Mine(m, a), t.guild_id, FALSE) = {}
     /\ Client(m, a, "pact", [session EXCEPT ![m][b].ally = s.guild_id, ![m][b].allier = a], <<>>)

Pact(id, other, a, how, opp) ==
  [kind |-> "alliance", guild |-> id, other |-> other, acc |-> a, how |-> how, opp |-> opp]

guild_reply_reqalliance(m, a) ==
  LET s == session[m][a]
      t == session[m][s.allier]
      Crowd(g) == g = Nil \/ guild_get_alliance_count(g, FALSE) > MAX_PACTS
      EndEnmity(g, id, other, b) ==
        [n \in 1 .. Cardinality(PactsOf(g, other, TRUE)) |-> Pact(id, other, b, "cut", TRUE)]
  IN /\ s # Nil /\ s.ally # 0
     /\ IF t = Nil
        THEN /\ Idle(m, a, "pact") /\ Dies(m)
             /\ UNCHANGED <<guild, guild_newid, char_dat, paid, full, scene>>
        ELSE /\ s.ally = t.guild_id /\ ~Crowd(Mine(m, a)) /\ ~Crowd(Mine(m, s.allier))
             /\ Client(m, a, "pact", session,
                  EndEnmity(Mine(m, a), s.guild_id, t.guild_id, a)
                  \o EndEnmity(Mine(m, s.allier), t.guild_id, s.guild_id, s.allier)
                  \o <<Pact(s.guild_id, t.guild_id, a, "make", FALSE)>>)

guild_delalliance(m, a, id, opp) ==
  LET s == session[m][a]
  IN /\ s # Nil /\ s.guild_id # 0
     /\ Client(m, a, "pact", session, <<Pact(s.guild_id, id, a, "cut", opp)>>)

guild_opposition(m, a, b) ==
  LET s == session[m][a]
      t == session[m][b]
      g == Mine(m, a)
  IN /\ g # Nil /\ t # Nil /\ t.guild_id # 0 /\ PactsOf(g, t.guild_id, TRUE) = {}
     /\ Client(m, a, "pact", session,
          [n \in 1 .. Cardinality(PactsOf(g, t.guild_id, FALSE)) |->
             Pact(s.guild_id, t.guild_id, a, "cut", FALSE)]
          \o <<Pact(s.guild_id, t.guild_id, a, "make", TRUE)>>)

(* Experience held back; an entry stays the one of the guild it was made for.
   How much a position pays is left open (for a session that its copy does not
   list, pc_gainexp reads it from in front of the list). *)
guild_payexp(m, a) ==
  LET s == session[m][a]
      c == expcache[m][s.nick]
  IN /\ Mine(m, a) # Nil /\ Idle(m, a, "exp")
     /\ expcache' = [expcache EXCEPT ![m][s.nick] =
          IF c = Nil THEN [guild |-> s.guild_id, exp |-> 1] ELSE [c EXCEPT !.exp = @ + 1]]
     /\ paid' = paid + 1
     /\ UNCHANGED <<guild, guild_newid, char_dat, guild_db, session, toChar, toMap, full, scene>>

(* Every ten seconds what was held back becomes the member's total, unless it
   is not (any more) in that guild: then it stays. *)
guild_payexp_timer(m) ==
  LET Ready == {c \in Chars : /\ expcache[m][c] # Nil
                              /\ guild_db[m][expcache[m][c].guild] # Nil
                              /\ Index(guild_db[m][expcache[m][c].guild], c) # {}}
      Place(c) == First(Index(guild_db[m][expcache[m][c].guild], c))
      Total(c) == guild_db[m][expcache[m][c].guild].member[Place(c)].exp + expcache[m][c].exp
      Order    == SetToSeq(Ready)
  IN /\ Ready # {}
     /\ guild_db' = [guild_db EXCEPT ![m] = [id \in Ids |->
          IF @[id] = Nil THEN Nil
          ELSE [@[id] EXCEPT !.member = [i \in Slots |->
                 IF \E c \in Ready : expcache[m][c].guild = id /\ Place(c) = i
                 THEN [@[i] EXCEPT !.exp = @ + expcache[m][guild_db[m][id].member[i].nick].exp] ELSE @[i]]]]]
     /\ expcache' = [expcache EXCEPT ![m] = [c \in Chars |-> IF c \in Ready THEN Nil ELSE @[c]]]
     /\ Ask(m, [n \in DOMAIN Order |->
          [kind |-> "change", guild |-> expcache[m][Order[n]].guild, nick |-> Order[n],
           what |-> "exp", value |-> Total(Order[n])]])
     /\ UNCHANGED <<guild, guild_newid, char_dat, session, toMap, paid, full, acts, scene>>

Next ==
  \/ \E m \in Maps : FromMap(m) \/ FromChar(m) \/ guild_payexp_timer(m)
  \/ \E m \in Maps, c \in Chars : Login(m, c)
  \/ \E m \in Maps, a \in Accounts :
       \/ map_quit(m, a)
       \/ guild_create(m, a)
       \/ AcceptInvite(m, a)
       \/ Refuse(m, a)
       \/ guild_leave(m, a)
       \/ guild_skillup(m, a)
       \/ atcommand_guildlevelup(m, a)
       \/ guild_break(m, a)
       \/ guild_payexp(m, a)
       \/ guild_reply_reqalliance(m, a)
       \/ \E b \in Accounts : guild_invite(m, a, b) \/ guild_reqalliance(m, a, b) \/ guild_opposition(m, a, b)
       \/ \E c \in Chars : guild_explusion(m, a, c) \/ \E pos \in 0 .. 1 : guild_change_memberposition(m, a, c, pos)
       \/ \E b \in Boards : guild_change_notice(m, a, b)
       \/ \E id \in Ids, opp \in BOOLEAN : guild_delalliance(m, a, id, opp)

Spec == Init /\ [][Next]_vars

-----------------------------------------------------------------------------
(* When nothing is under way between a map server and the char server, the
   map server's copies are the char server's guilds (members with what they
   paid, level, places, board), pacts with guilds that are no more aside, and
   guilds that list a character twice (an invitation accepted twice). *)
Twice(h) == \E i, j \in Slots : i # j /\ h.member[i].nick = h.member[j].nick /\ h.member[i].nick # Nil
CopiesAgree ==
  \A m \in Maps, id \in Ids : toMap[m] = <<>> /\ toChar[m] = <<>> /\ guild_db[m][id] # Nil =>
    LET g == guild_db[m][id]
        h == guild[id]
        Pacts_(k) == {j \in Pacts : k.alliance[j].guild # 0 /\ guild[k.alliance[j].guild] # Nil}
    IN /\ h # Nil
       /\ Twice(h) \/ g = Copy([h EXCEPT !.alliance = g.alliance], g.sd)
       /\ \A j \in Pacts_(g) \cup Pacts_(h) : g.alliance[j] = h.alliance[j]

(* No guild has more than what characters gave up for guilds: neither the
   absolute totals two map servers send of one member nor a member that comes
   back with experience held back for another guild adds any twice. *)
NoExpFromNothing == MapThenSumSet(LAMBDA id : Worth(guild[id]), {id \in Ids : guild[id] # Nil}) <= paid

(* At the char server an alliance is one of both guilds, as often in one as in
   the other, as long as both had a free place for it. *)
AlliancesMutual ==
  \A id, other \in Ids \ full : guild[id] # Nil /\ guild[other] # Nil =>
    Cardinality(PactsOf(guild[id], other, FALSE)) = Cardinality(PactsOf(guild[other], id, FALSE))
=============================================================================
