----------------------------- MODULE SkillUnits -----------------------------
(***************************************************************************)
(* What skills put on the ground (map/skill.c): groups of units, kept in a *)
(* list of their caster, that act on whoever stands near, and the statuses *)
(* that point back at a unit.                                              *)
(*                                                                         *)
(* The ground is a line of cells.  SkillOf gives each kind its shape ("one"*)
(* unit, a "line" of three, a "disc" around a centre), the range of its    *)
(* group, the reach of a disc's centre, whether it is for "all", "friend"  *)
(* or "foe", and whether it gives a status; friends are Parties' members.  *)
(* The units' timer (every 100 ms) visits each unit: one step of the model *)
(* each, with the outcome of what depends on ticks (the interval of a      *)
(* victim, the end of a unit) chosen.  Blows, heals and looks are left out.*)
(*                                                                         *)
(* A list of MaxGroups (32 in the code) is full after as many casts, and   *)
(* MaxId groups are made in all.  A portal that waits is not the oldest of *)
(* a full list: it waits two seconds.                                      *)
(***************************************************************************)
EXTENDS Integers, FiniteSets, Sequences, SequencesExt, FiniteSetsExt

CONSTANTS Players, Casters, PartyOf, Cells, Walls, Scenes, SkillOf, MaxGroups, MaxId, Nil

SkillUnitsAssumption ==
  /\ Casters \subseteq Players /\ Cells \subseteq Int /\ Walls \subseteq Cells /\ PartyOf \in [Players -> Nat]
  /\ UNION Scenes \subseteq DOMAIN SkillOf /\ MaxGroups \in Nat \ {0} /\ MaxId \in Nat

VARIABLES
  kinds,      \* the skills at play
  list,       \* player |-> its skillunit[]: group_id (0: free), kind, state and units
  gat,        \* cell |-> "floor", "wall" or "ice"
  pos,        \* player |-> its cell, or Nil: on no map
  invincible, \* players just arrived
  sc,         \* player |-> status |-> the unit in its val2 or val4, or Nil
  dancing,    \* player |-> the group in val2 of SC_DANCING (a place of list), or Nil
  newid,      \* skill_unit_group_newid
  loose       \* history: <<player, status>> that nothing but its duration ends

vars == <<kinds, list, gat, pos, invincible, sc, dancing, newid, loose>>

Slots     == 1 .. MaxGroups
Statuses  == {k \in DOMAIN SkillOf : SkillOf[k].status}
Songs     == {k \in DOMAIN SkillOf : SkillOf[k].song}
Free      == [id |-> 0, kind |-> "none", flag |-> 0, val |-> 0, on |-> Nil, units |-> <<>>]

Init ==
  /\ kinds \in Scenes
  /\ list = [p \in Casters |-> [i \in Slots |-> Free]]
  /\ gat = [c \in Cells |-> IF c \in Walls THEN "wall" ELSE "floor"]
  /\ pos = [p \in Players |-> Nil] /\ invincible = {}
  /\ sc = [p \in Players |-> [k \in Statuses |-> Nil]]
  /\ dancing = [p \in Casters |-> Nil] /\ newid = 1 /\ loose = {}

-----------------------------------------------------------------------------
(* What a handler works on, and the pointer to a unit. *)
State == [list |-> list, gat |-> gat, pos |-> pos, sc |-> sc, dancing |-> dancing,
          newid |-> newid, loose |-> loose]
Becomes(s) ==
  /\ list' = s.list /\ gat' = s.gat /\ pos' = s.pos /\ sc' = s.sc
  /\ dancing' = s.dancing /\ newid' = s.newid /\ loose' = s.loose

UnitsOf(s) ==
  {[src |-> p, slot |-> i, id |-> s.list[p][i].id, cell |-> c] :
     <<p, i, c>> \in {x \in Casters \X Slots \X Cells : x[3] \in DOMAIN s.list[x[1]][x[2]].units}}
GroupOf(s, u) == s.list[u.src][u.slot]
Alive(s, u)   == GroupOf(s, u).id = u.id /\ u.cell \in DOMAIN GroupOf(s, u).units
(* -1: a disc's unit that is not its centre. *)
RangeOf(s, u) == GroupOf(s, u).units[u.cell].range
Within(a, b, r) == a # Nil /\ a \in (b - r) .. (b + r)

(* For "all" nothing else is looked at. *)
battle_check_target(s, u, v) ==
  LET for == SkillOf[GroupOf(s, u).kind].target
  IN \/ for = "all"
     \/ /\ v \notin invincible /\ s.pos[u.src] # Nil
        /\ (for = "friend") = (PartyOf[v] = PartyOf[u.src])

-----------------------------------------------------------------------------
skill_unit_onout(s, u, v) ==
  LET g == GroupOf(s, u)
      k == g.kind
  IN IF s.pos[v] = Nil \/ ~Alive(s, u) THEN s
     ELSE IF k = "ankle" THEN IF g.on = v THEN [s EXCEPT !.sc[v][k] = Nil] ELSE s
     ELSE IF k \in Statuses /\ s.sc[v][k] = u
     THEN [s EXCEPT !.sc[v][k] = Nil, !.loose = @ \ {<<v, k>>}] ELSE s

(* The status of an ankle snare has its own duration. *)
skill_unit_ondelete(s, u, v) == IF GroupOf(s, u).kind = "ankle" THEN s ELSE skill_unit_onout(s, u, v)

(* Whoever is no target just then keeps the status of what it leaves. *)
Missed(s, u, v) ==
  LET k == GroupOf(s, u).kind
  IN IF k \in Statuses /\ s.sc[v][k] = u THEN [s EXCEPT !.loose = @ \cup {<<v, k>>}] ELSE s

(* Mutant: the ice stays. *)
IceStays(s, u) == s
Melted(s, u)   == [s EXCEPT !.gat[u.cell] = GroupOf(s, u).units[u.cell].before]

Unset(s, u) ==
  LET g     == GroupOf(s, u)
      near  == {v \in Players : Within(s.pos[v], u.cell, SkillOf[g.kind].range)}
      meant == {v \in near : battle_check_target(s, u, v)}
      t     == FoldLeft(LAMBDA x, v : skill_unit_ondelete(x, u, v), s, SetToSeq(meant))
  IN FoldLeft(LAMBDA x, v : Missed(x, u, v), t, SetToSeq(near \ meant))

(* The unit alone; its cell is in no unit of the group afterwards. *)
Without(s, u) ==
  [s EXCEPT !.list[u.src][u.slot].units = [c \in DOMAIN @ \ {u.cell} |-> @[c]]]
Removed(s, u) == Without(Unset(IF GroupOf(s, u).kind = "icewall" THEN Melted(s, u) ELSE s, u), u)

(* Mutant: a song that is over leaves SC_DANCING. *)
StillDancing(s, p, i) == s
DanceOver(s, p, i)    == IF s.list[p][i].kind \in Songs THEN [s EXCEPT !.dancing[p] = Nil] ELSE s

Members(s, p, i) == SetToSeq({u \in UnitsOf(s) : u.src = p /\ u.slot = i})
skill_delunitgroup(s, p, i) ==
  IF s.list[p][i].id = 0 THEN s
  ELSE [FoldLeft(Removed, DanceOver(s, p, i), Members(s, p, i)) EXCEPT !.list[p][i] = Free]

Oldest(s, p) == CHOOSE i \in Slots : \A j \in Slots : s.list[p][i].id <= s.list[p][j].id
Room(s, p)   == LET g == s.list[p][Oldest(s, p)] IN g.id = 0 \/ ~(g.kind = "portal" /\ g.flag = 0)

(* The slot is the first free one or that of the oldest group, which ends. *)
SlotFor(s, p) ==
  LET free == {i \in Slots : s.list[p][i].id = 0} IN IF free = {} THEN Oldest(s, p) ELSE Min(free)
GroupIn(s, p, i, k, flag) ==
  [s EXCEPT !.list[p][i] = [id |-> s.newid, kind |-> k, flag |-> flag, val |-> 1, on |-> Nil, units |-> <<>>],
            !.newid = @ + 1,
            !.dancing[p] = IF k \in Songs THEN i ELSE @]
skill_initunitgroup(s, p, k, flag) ==
  LET i == SlotFor(s, p) IN GroupIn(skill_delunitgroup(s, p, i), p, i, k, flag)

Shape(k, x) ==
  Cells \cap CASE SkillOf[k].shape = "one"  -> {x}
               [] SkillOf[k].shape = "line" -> (x - 1) .. (x + 1)
               [] SkillOf[k].shape = "disc" -> (x - SkillOf[k].reach) .. (x + SkillOf[k].reach)

(* Mutant: ice stands on ice, too. *)
OnIce(s, k, c)    == s.gat[c] # "wall" /\ (s.gat[c] = "ice" => k = "icewall")
Passable(s, k, c) == s.gat[c] = "floor"

UnitsSet(s, p, i, k, x) ==
  LET range(c) == IF SkillOf[k].shape # "disc" THEN SkillOf[k].range
                  ELSE IF c = x THEN SkillOf[k].reach ELSE -1
      on == {c \in Shape(k, x) : Passable(s, k, c)}
  IN [s EXCEPT !.list[p][i].units = [c \in on |-> [range |-> range(c), before |-> s.gat[c]]],
               !.gat = [c \in Cells |-> IF k = "icewall" /\ c \in on THEN "ice" ELSE @[c]]]
skill_unitsetting(s, p, k, x, flag) ==
  UnitsSet(skill_initunitgroup(s, p, k, flag), p, SlotFor(s, p), k, x)

(* A portal that has waited opens: another group. *)
skill_unit_onlimit(s, u) ==
  IF GroupOf(s, u).kind = "portal" /\ GroupOf(s, u).flag = 0
  THEN skill_unitsetting(s, u.src, "portal", u.cell, 1) ELSE s

Emptied(s, u) == IF DOMAIN GroupOf(s, u).units = {} THEN skill_delunitgroup(s, u.src, u.slot) ELSE s
skill_delunit(s, u) == IF Alive(s, u) THEN Emptied(Removed(skill_unit_onlimit(s, u), u), u) ELSE s

-----------------------------------------------------------------------------
Newer(u, u2) == u.id > u2.id

(* A safety wall gives way to one of a lower level.  Of a unit that is gone the
   code reads freed memory: either way. *)
Given(s, u, v, luck) ==
  LET k  == GroupOf(s, u).kind
      u2 == s.sc[v][k]
  IN IF u2 = Nil \/ (u2 # u /\ k \notin {"quagmire"} /\ IF Alive(s, u2) /\ k # "safetywall" THEN Newer(u, u2) ELSE luck)
     THEN [s EXCEPT !.sc[v][k] = u, !.loose = @ \ {<<v, k>>}] ELSE s

(* Warped by a portal, as below. *)
Warped(s, v, c) ==
  [s EXCEPT !.pos[v] = c, !.loose = @ \cup {<<v, k>> : k \in {x \in Statuses : s.sc[v][x] # Nil}}]

skill_unit_onplace(s, u, v, luck) ==
  LET g == GroupOf(s, u)
      k == g.kind
      worn(t) == [t EXCEPT !.list[u.src][u.slot].val = @ - 1]
  IN CASE k = "ankle" -> IF g.on = Nil
                         THEN [s EXCEPT !.list[u.src][u.slot].on = v, !.sc[v][k] = u] ELSE s
       [] k \in Statuses \ {"ankle"} -> Given(s, u, v, luck)
       [] k = "trap" -> [s EXCEPT !.list[u.src][u.slot].flag = 1]
       [] k = "sanctuary" -> IF ~luck THEN s ELSE IF g.val <= 0 THEN skill_delunitgroup(s, u.src, u.slot) ELSE worn(s)
       [] k = "firewall" -> IF g.val <= 1 THEN skill_delunit(s, u) ELSE worn(s)
       [] k = "firepillar" /\ g.flag = 0 ->
            skill_unitsetting(skill_delunit(s, u), u.src, k, u.cell, 1)
       [] k = "portal" /\ g.flag = 1 ->
            IF g.val > 0 THEN Warped(worn(s), v, Nil) ELSE skill_delunitgroup(s, u.src, u.slot)
       [] OTHER -> s

(* The turn of one unit: whom it acts on (go: their interval is over), then
   its end (due).  Nothing is placed while the caster is not known. *)
skill_unit_timer_sub(u, go, due, luck) ==
  LET r    == RangeOf(State, u)
      near == {v \in go : Within(pos[v], u.cell, r)}
      on(s, v) == IF Alive(s, u) /\ battle_check_target(s, u, v) /\ s.pos[v] # Nil
                  THEN skill_unit_onplace(s, u, v, luck) ELSE s
      s    == FoldLeft(on, State, SetToSeq(near))
  IN /\ newid <= MaxId /\ Room(State, u.src)
     /\ (go # {} => go = near)
     /\ Becomes(IF due THEN skill_delunit(s, u) ELSE s)
     /\ UNCHANGED <<kinds, invincible>>

(* Every unit near acts on one that moved, in the order of the block lists. *)
skill_unit_move(s, v, up, go, luck) ==
  LET order == SetToSortSeq(UnitsOf(s), LAMBDA a, b :
                 IF up THEN a.id < b.id \/ (a.id = b.id /\ a.cell < b.cell)
                 ELSE a.id > b.id \/ (a.id = b.id /\ a.cell > b.cell))
      on(t, u) ==
        IF ~Alive(t, u) \/ t.pos[v] = Nil THEN t
        ELSE IF RangeOf(t, u) < 0 THEN t
        ELSE IF ~battle_check_target(t, u, v) THEN Missed(t, u, v)
        ELSE IF Within(t.pos[v], u.cell, RangeOf(t, u))
             THEN IF go THEN skill_unit_onplace(t, u, v, luck) ELSE t
             ELSE skill_unit_onout(t, u, v)
  IN FoldLeft(on, s, order)

-----------------------------------------------------------------------------
Walk(v, c) ==
  /\ pos[v] # Nil /\ c \in Cells /\ c \in {pos[v] - 1, pos[v] + 1} /\ gat[c] = "floor"
  /\ newid <= MaxId /\ (\A p \in Casters : Room(State, p))
  /\ \E up, go, luck \in BOOLEAN : Becomes(skill_unit_move([State EXCEPT !.pos[v] = c], v, up, go, luck))
  /\ UNCHANGED <<kinds, invincible>>

(* A blow that a safety wall takes. *)
Blow(v) ==
  LET u == sc[v]["safetywall"]
      g == GroupOf(State, u)
      s == IF ~Alive(State, u) THEN State
           ELSE IF g.val <= 1 THEN skill_delunit(State, u)
           ELSE [State EXCEPT !.list[u.src][u.slot].val = @ - 1]
  IN /\ pos[v] # Nil /\ u # Nil /\ newid <= MaxId /\ (\A p \in Casters : Room(State, p))
     /\ \E up, go, luck \in BOOLEAN : Becomes(skill_unit_move(s, v, up, go, luck))
     /\ UNCHANGED <<kinds, invincible>>

Cast(p, k, x) ==
  /\ k \in kinds /\ pos[p] # Nil /\ dancing[p] = Nil /\ Within(pos[p], x, 1)
  /\ (SkillOf[k].song => x = pos[p]) /\ newid <= MaxId /\ Room(State, p)
  /\ Becomes(skill_unitsetting(State, p, k, x, 0))
  /\ UNCHANGED <<kinds, invincible>>

StopDancing(s, p) == IF p \notin Casters \/ s.dancing[p] = Nil THEN s ELSE skill_delunitgroup(s, p, s.dancing[p])

(* Adaptation, a heavy blow, a status that stuns. *)
skill_stop_dancing(p) ==
  /\ p \in Casters /\ dancing[p] # Nil /\ Becomes(StopDancing(State, p)) /\ UNCHANGED <<kinds, invincible>>

(* Off the map until the client has loaded the next one.  Units are not told. *)
pc_setpos(v) ==
  /\ pos[v] # Nil /\ Becomes(Warped(StopDancing(State, v), v, Nil)) /\ UNCHANGED <<kinds, invincible>>
clif_parse_LoadEndAck(v, c) ==
  /\ pos[v] = Nil /\ gat[c] = "floor" /\ Becomes([State EXCEPT !.pos[v] = c])
  /\ invincible' = invincible \cup {v} /\ UNCHANGED kinds
pc_invincible_timer(v) ==
  /\ v \in invincible /\ invincible' = invincible \ {v}
  /\ UNCHANGED <<kinds, list, gat, pos, sc, dancing, newid, loose>>

skill_clear_unitgroup(s, p) ==
  IF p \notin Casters THEN s
  ELSE FoldLeft(LAMBDA t, i : skill_delunitgroup(t, p, i), s, [i \in Slots |-> i])
Cleared(s, v) == [s EXCEPT !.sc[v] = [k \in Statuses |-> Nil],
                           !.dancing = [p \in Casters |-> IF p = v THEN Nil ELSE @[p]],
                           !.loose = {x \in @ : x[1] # v}]
map_quit(v) ==
  /\ pos[v] # Nil
  /\ (v \in Casters => /\ newid <= MaxId
                       /\ \A i \in Slots : list[v][i].kind = "portal" => list[v][i].flag = 1)
  /\ Becomes([skill_clear_unitgroup(Cleared(State, v), v) EXCEPT !.pos[v] = Nil])
  /\ invincible' = invincible \ {v} /\ UNCHANGED kinds

skill_status_change_timer(v, k) ==
  /\ sc[v][k] # Nil /\ Becomes([State EXCEPT !.sc[v][k] = Nil, !.loose = @ \ {<<v, k>>}])
  /\ UNCHANGED <<kinds, invincible>>

Next ==
  \/ \E u \in UnitsOf(State), go \in SUBSET Players, due, luck \in BOOLEAN :
       skill_unit_timer_sub(u, go, due, luck)
  \/ \E p \in Casters : \E k \in kinds, x \in Cells : Cast(p, k, x)
  \/ \E v \in Players : \/ \E c \in Cells : Walk(v, c) \/ clif_parse_LoadEndAck(v, c)
                        \/ skill_stop_dancing(v) \/ pc_setpos(v) \/ pc_invincible_timer(v) \/ map_quit(v)
                        \/ Blow(v)
                        \/ \E k \in Statuses : skill_status_change_timer(v, k)

Spec == Init /\ [][Next]_vars

-----------------------------------------------------------------------------
(* The cells that are ice are those of an ice wall's units, one each, and each
   unit gives the floor back; who dances is the caster of the one song that is
   its own; and the unit that a status points to is there, except where its
   holder was warped, or could not be a target when the unit went, and for
   land protectors, which are not at play here: their group has range 0. *)
UnitsAgree ==
  /\ \A c \in Cells :
       LET ice == {u \in UnitsOf(State) : u.cell = c /\ GroupOf(State, u).kind = "icewall"}
       IN /\ (gat[c] = "ice") = (ice # {}) /\ Cardinality(ice) <= 1
          /\ \A u \in ice : GroupOf(State, u).units[c].before = "floor"
  /\ \A p \in Casters : {i \in Slots : list[p][i].kind \in Songs} = {dancing[p]} \ {Nil}
  /\ \A v \in Players : \A k \in Statuses \ {"land", "ankle"} :
       sc[v][k] # Nil /\ <<v, k>> \notin loose => Alive(State, sc[v][k])
=============================================================================
