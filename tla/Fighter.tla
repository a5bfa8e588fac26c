------------------------------ MODULE Fighter ------------------------------
(***************************************************************************)
(* What one player does with the body (map/pc.c, map/skill.c): walking,    *)
(* hitting, casting, paying for skills, spirit balls, dying and rising.    *)
(* Five timers run beside one another and each handler may be re-entered   *)
(* by what it causes: a blow that is thrown back, a warp that is stepped   *)
(* on, a skill that takes the player away.                                 *)
(*                                                                         *)
(* Time, distances, chances and the other side are choices (c): a target   *)
(* is "near", "far" or "gone"; what else a skill takes (zeny, items, a     *)
(* weapon, a state) is there or not (able).  A timer the session no longer *)
(* knows does nothing when it fires and is left out.  While the client     *)
(* loads a map it sends nothing but the end of it.                         *)
(*                                                                         *)
(* Left out: SC_ENDURE, what other statuses forbid, skills that cost hp,   *)
(* and a target that is no longer an enemy when the cast ends.             *)
(*                                                                         *)
(* Bound: MaxGrants times an item or an encore lets a skill be used.       *)
(***************************************************************************)
EXTENDS Integers, Sequences, FiniteSets, SequencesExt, FiniteSetsExt

CONSTANTS
  Scenes,     \* [skills, free: knows SA_FREECAST, gvg: the map is one of castles]
  SkillOf,    \* skill |-> [ground, cast: it has a casting time, sp, harms: at an enemy]
  MaxHp, MaxSp, MaxBalls, MAX_SKILLTIMERSKILL, MaxGrants, Nil

FighterAssumption ==
  /\ \A x \in Scenes : x.skills \subseteq DOMAIN SkillOf
  /\ \A k \in DOMAIN SkillOf : SkillOf[k].sp \in 0 .. MaxSp
  /\ MaxHp \in Nat \ {0} /\ MaxSp \in Nat /\ MaxBalls \in Nat \ {0} /\ MAX_SKILLTIMERSKILL \in Nat
  /\ MaxGrants \in Nat /\ Nil \notin DOMAIN SkillOf

VARIABLES
  play,     \* the scene
  sd,       \* the session
  burning,  \* the timers of spirit balls, the next to fire first
  menu,     \* the skill whose list of places the client shows, or Nil
  granted, freed,  \* history: skills to be used for nothing, and those used so
  vain      \* history: SA_CASTCANCEL was tried in vain during a cast

vars == <<play, sd, burning, menu, granted, freed, vain>>

Ball  == 1 .. MaxBalls
State == [sd |-> sd, burning |-> burning, menu |-> menu, granted |-> granted, freed |-> freed, vain |-> vain]
Becomes(s) ==
  /\ sd' = s.sd /\ burning' = s.burning /\ menu' = s.menu /\ granted' = s.granted /\ freed' = s.freed
  /\ vain' = s.vain /\ s.granted <= MaxGrants /\ UNCHANGED play

Init ==
  /\ play \in Scenes
  /\ sd = [here |-> TRUE, dead_sit |-> "stand", hp |-> MaxHp, sp |-> MaxSp,
           walk |-> FALSE, turn |-> FALSE, attack |-> FALSE, again |-> FALSE,
           cast |-> "no", skill |-> Nil, breaks |-> FALSE, slow |-> FALSE, prev_slow |-> FALSE,
           act |-> TRUE, move |-> TRUE, opt1 |-> FALSE, item |-> Nil, combo |-> Nil, later |-> 0, stuck |-> 0,
           spiritball |-> 0, spirit_timer |-> [i \in Ball |-> 0]]
  /\ burning = <<>> /\ menu = Nil /\ granted = 0 /\ freed = 0 /\ vain = FALSE

-----------------------------------------------------------------------------
pc_stopattack(s)   == [s EXCEPT !.sd.attack = FALSE, !.sd.again = FALSE]
pc_stop_walking(s) == [s EXCEPT !.sd.walk = FALSE]

pc_walktoxy_sub(s, found) == IF found THEN [s EXCEPT !.sd.walk = TRUE, !.sd.turn = FALSE] ELSE s

(* One who walks turns at the next cell. *)
pc_walktoxy(s, found) ==
  IF s.sd.walk /\ ~s.sd.turn THEN [s EXCEPT !.sd.turn = TRUE] ELSE pc_walktoxy_sub(s, found)

(* Mutant: the speed stays that of casting. *)
SpeedKept(s) == s
(* The speed from before the cast comes back. *)
SpeedBack(s) == IF play.free /\ s.sd.cast # "no" THEN [s EXCEPT !.sd.slow = s.sd.prev_slow] ELSE s

skill_castcancel(s) ==
  [SpeedBack(s) EXCEPT !.sd.act = TRUE, !.sd.move = TRUE, !.sd.cast = "no"]

(* Off the map until the client has loaded. *)
pc_setpos(s) ==
  [pc_stopattack(pc_stop_walking(skill_castcancel(s))) EXCEPT !.sd.here = FALSE, !.menu = Nil]

Speed(s) == [s EXCEPT !.sd.slow = FALSE]
pc_setrestartvalue(s) == [s EXCEPT !.sd.dead_sit = "stand", !.sd.hp = MaxHp]

pc_damage(s, damage) ==
  LET t == [pc_stop_walking(s) EXCEPT !.sd.dead_sit = "stand", !.sd.move = FALSE,
                                      !.sd.hp = IF @ > damage THEN @ - damage ELSE 0]
      dead == Speed([t EXCEPT !.sd.dead_sit = "dead"])
  IN IF s.sd.dead_sit = "dead" THEN s
     ELSE IF t.sd.hp > 0 THEN t
     ELSE IF play.gvg THEN pc_setpos(pc_setrestartvalue(dead)) ELSE dead

battle_damage(s, damage) ==
  IF ~s.sd.here \/ damage = 0 THEN s
  ELSE pc_damage(IF s.sd.cast # "no" /\ s.sd.breaks THEN skill_castcancel(s) ELSE s, damage)

pc_heal_sp(s, sp) ==
  [s EXCEPT !.sd.sp = IF @ + sp > MaxSp THEN MaxSp ELSE IF @ + sp < 0 THEN 0 ELSE @ + sp]

-----------------------------------------------------------------------------
(* The balls' timers, oldest first; 0 is none. *)
Shifted(st, n) == [i \in Ball |-> IF i + n \in Ball THEN st[i + n] ELSE 0]
NewTimer(s)    == Min((1 .. MaxBalls + 1) \ ToSet(s.burning))
Put(s, i)      == [s EXCEPT !.sd.spirit_timer[i] = NewTimer(s), !.burning = Append(@, NewTimer(s))]

pc_addspiritball(s, max) ==
  LET full == [s EXCEPT !.burning = SelectSeq(@, LAMBDA x : x # s.sd.spirit_timer[1]),
                        !.sd.spirit_timer = Shifted(@, 1)]
  IN IF s.sd.spiritball >= max THEN Put(full, s.sd.spiritball)
     ELSE Put([s EXCEPT !.sd.spiritball = @ + 1], s.sd.spiritball + 1)

pc_delspiritball(s, count) ==
  LET n == IF count > s.sd.spiritball THEN s.sd.spiritball ELSE count
      gone == {s.sd.spirit_timer[i] : i \in 1 .. n}
  IN [s EXCEPT !.sd.spiritball = @ - n, !.sd.spirit_timer = Shifted(@, n),
               !.burning = SelectSeq(@, LAMBDA x : x \notin gone)]

pc_spiritball_timer(s) ==
  LET st == s.sd.spirit_timer
      t  == [s EXCEPT !.burning = Tail(@)]
  IN IF st[1] # Head(s.burning) THEN t
     ELSE [t EXCEPT !.sd.spiritball = @ - 1, !.sd.spirit_timer = Shifted(st, 1)]

-----------------------------------------------------------------------------
(* Balls a skill takes: as many as there are for MO_FINGEROFFENSIVE. *)
Balls(s) ==
  CASE s.sd.skill = "finger" -> IF s.sd.spiritball \in 1 .. 2 THEN s.sd.spiritball ELSE 2
    [] s.sd.skill = "fist"   -> IF s.sd.combo = "finish" THEN 1 ELSE 2
    [] OTHER -> 0

ForNothing(s) == s.sd.item = s.sd.skill
Required(s, c) == c.able /\ s.sd.sp >= SkillOf[s.sd.skill].sp /\ s.sd.spiritball >= Balls(s)
skill_check_condition(s, c) ==
  /\ ~s.sd.opt1
  /\ ForNothing(s) \/
       /\ Required(s, c)
       /\ CASE s.sd.skill = "castcancel"  -> s.sd.cast # "no"
            [] s.sd.skill = "callspirits" -> s.sd.spiritball < MaxBalls
            [] s.sd.skill = "chain"       -> s.sd.combo = "triple"
            [] s.sd.skill = "finish"      -> s.sd.combo = "chain"
            [] OTHER -> TRUE
Pays(s) ==
  IF ForNothing(s) THEN [s EXCEPT !.sd.item = Nil, !.freed = @ + 1]
  ELSE pc_delspiritball(pc_heal_sp(s, -SkillOf[s.sd.skill].sp), Balls(s))

(* The rest of MO_FINGEROFFENSIVE's blows come later, as far as there is room. *)
skill_addtimerskill(s, n) ==
  [s EXCEPT !.sd.later = Min({@ + n, MAX_SKILLTIMERSKILL - s.sd.stuck})]

Blow(s, c) == IF c.hurt THEN battle_damage(s, 1) ELSE s

(* n: the balls it took. *)
skill_castend_damage_id(s, n, c) ==
  LET struck == Blow(s, c)
  IN CASE s.sd.skill = "finger" -> [skill_addtimerskill(struck, n - 1) EXCEPT !.sd.move = FALSE]
       [] s.sd.skill \in {"chain", "finish"} -> Blow([s EXCEPT !.sd.combo = s.sd.skill, !.sd.move = FALSE], c)
       [] s.sd.skill = "fist" -> [struck EXCEPT !.sd.move = FALSE, !.sd.act = FALSE, !.sd.combo = Nil]
       [] OTHER -> struck

skill_castend_nodamage_id(s) ==
  CASE s.sd.skill = "castcancel"  -> pc_heal_sp(skill_castcancel(s), -1)
    [] s.sd.skill = "callspirits" -> pc_addspiritball(s, MaxBalls)
    [] s.sd.skill = "encore"      -> [s EXCEPT !.sd.item = "song", !.granted = @ + 1]
    [] s.sd.skill \in {"teleport", "warp"} -> [s EXCEPT !.menu = s.sd.skill]
    [] OTHER -> s

(* A cast that is given up may act and move. *)
GivenUp(s) == [s EXCEPT !.sd.act = TRUE, !.sd.move = TRUE]
CastEnds(s, c) ==
  LET paid == pc_stop_walking(Pays(s))
      skill == SkillOf[s.sd.skill]
  IN CASE c.dist = "gone" \/ s.sd.dead_sit = "dead" -> s
       [] c.dist = "far" \/ ~skill_check_condition(s, c) -> GivenUp(s)
       [] skill.harms -> skill_castend_damage_id(paid, Balls(s), c)
       [] OTHER -> skill_castend_nodamage_id(paid)

(* Reached by its timer (fired), or at once.  SA_CASTCANCEL leaves the timer of
   the cast it ends to skill_castcancel; when it was tried in vain and that
   cast's own timer fires, the session keeps the id of a timer that is gone. *)
skill_castend_id(s, fired, c) ==
  IF ~s.sd.here THEN s
  ELSE IF s.sd.skill = "castcancel" THEN CastEnds(IF fired THEN [s EXCEPT !.sd.cast = "gone"] ELSE s, c)
       ELSE CastEnds([SpeedBack(s) EXCEPT !.sd.cast = "no"], c)

skill_castend_pos(s, c) == CastEnds([SpeedBack(s) EXCEPT !.sd.cast = "no"], c)

(* A skill is taken up: what it needs is there and the target is in range. *)
Taken(s, k, c) == skill_check_condition([s EXCEPT !.sd.skill = k], c) /\ c.dist = "near"
InVain(s, k)   == [s EXCEPT !.sd.skill = k, !.vain = @ \/ s.sd.cast # "no"]
ThirdBlow(s, k) == k = "fist" /\ s.sd.combo = "finish"
Casts(s, k)    == SkillOf[k].cast /\ s.sd.item # k /\ ~ThirdBlow(s, k)

(* The blows of a combo let the hitting go on. *)
Begun(s, k, c) ==
  LET t == IF k \in {"chain", "finish"} \/ ThirdBlow(s, k) THEN s ELSE pc_stopattack(s)
  IN [t EXCEPT !.sd.skill = k, !.sd.breaks = Casts(s, k), !.sd.act = ~Casts(s, k) /\ ~c.delay,
               !.sd.move = TRUE]

(* SA_FREECAST walks on, slowly; others stop. *)
StartCast(s, kind) ==
  IF play.free THEN [s EXCEPT !.sd.cast = kind, !.sd.prev_slow = s.sd.slow, !.sd.slow = TRUE]
  ELSE pc_stop_walking([s EXCEPT !.sd.cast = kind])

skill_use_id(s, k, c) ==
  IF ~Taken(s, k, c) THEN InVain(s, k)
  ELSE IF Casts(s, k) THEN StartCast(Begun(s, k, c), "id")
  ELSE IF k = "castcancel" THEN skill_castend_id(Begun(s, k, c), FALSE, c)
  ELSE skill_castend_id([Begun(s, k, c) EXCEPT !.sd.cast = "no"], FALSE, c)

skill_use_pos(s, k, c) ==
  IF ~Taken(s, k, c) THEN InVain(s, k)
  ELSE IF Casts(s, k) THEN StartCast(Begun(s, k, c), "pos")
  ELSE skill_castend_pos([Begun(s, k, c) EXCEPT !.sd.cast = "no"], c)

-----------------------------------------------------------------------------
(* Mutant: on, whatever the step led to. *)
Unheeding(s, flag) == [s EXCEPT !.sd.walk = TRUE]
(* On, unless something holds the walker. *)
Onward(s, flag) == IF flag THEN s ELSE [s EXCEPT !.sd.walk = TRUE]

(* One step: "half" a cell, the "next", the "last", one that is "blocked", one
   where an NPC is met, or a warp. *)
pc_walk(s, c) ==
  LET t == pc_stop_walking(s)
  IN CASE c.step = "half" /\ s.sd.turn -> pc_walktoxy_sub(t, c.found)
       [] c.step = "half"    -> Onward(t, FALSE)
       [] c.step = "next"    -> Onward(t, ~s.sd.move)
       [] c.step = "last"    -> t
       [] c.step = "blocked" -> pc_walktoxy_sub(t, c.found)
       [] c.step = "npc"     -> Onward(t, TRUE)
       [] c.step = "warp"    -> Onward(pc_setpos(t), TRUE)

Casting(s) == s.sd.cast # "no" /\ ~play.free

(* A blow, which may begin a combo or be thrown back. *)
battle_weapon_attack(s, c) ==
  IF s.sd.dead_sit = "dead" THEN s
  ELSE Blow(IF c.triple THEN [s EXCEPT !.sd.combo = "triple", !.sd.move = FALSE] ELSE s, c)

Again(s) == [s EXCEPT !.sd.attack = s.sd.again]
pc_attack_timer(s, c) ==
  LET t == [s EXCEPT !.sd.attack = FALSE]
  IN CASE ~s.sd.here \/ c.dist = "gone" \/ s.sd.dead_sit = "dead" \/ s.sd.opt1 \/ Casting(s) -> t
       [] ~s.sd.act /\ s.sd.cast = "no" -> t
       [] OTHER ->
            CASE c.dist = "far" -> t
              [] c.dist = "wall" -> Again(IF s.sd.move THEN pc_walktoxy(t, c.found) ELSE t)
              [] c.dist = "near" /\ s.sd.combo # Nil -> Again(t)
              [] OTHER -> Again(battle_weapon_attack(pc_stop_walking(t), c))

(* When the next blow may not come yet, the timer is set. *)
pc_attack(s, type, c) ==
  LET t == [pc_stopattack(s) EXCEPT !.sd.again = type]
  IN IF c.delay THEN [t EXCEPT !.sd.attack = TRUE] ELSE pc_attack_timer(t, c)

-----------------------------------------------------------------------------
Plain == [dist |-> "near", able |-> TRUE, hurt |-> FALSE, found |-> TRUE, delay |-> FALSE,
          triple |-> FALSE, step |-> "half"]
Combos == {FALSE} \cup {"chain" \in play.skills}

WalkTimer ==
  /\ sd.walk
  /\ \E step \in {"half", "next", "last", "blocked", "npc", "warp"}, found \in BOOLEAN :
       Becomes(pc_walk(State, [Plain EXCEPT !.step = step, !.found = found]))

AttackTimer ==
  /\ sd.attack
  /\ \E dist \in {"near", "far", "wall", "gone"}, hurt, found \in BOOLEAN, triple \in Combos :
       Becomes(pc_attack_timer(State, [Plain EXCEPT !.dist = dist, !.hurt = hurt, !.found = found,
                                                    !.triple = triple]))

CastTimer ==
  /\ sd.cast \in {"id", "pos"}
  /\ \E dist \in {"near", "far", "gone"}, able, hurt \in BOOLEAN :
       /\ dist = "gone" => sd.cast = "id"
       /\ LET c == [Plain EXCEPT !.dist = dist, !.able = able, !.hurt = hurt]
          IN Becomes(IF sd.cast = "id" THEN skill_castend_id(State, TRUE, c) ELSE skill_castend_pos(State, c))

BallTimer  == burning # <<>> /\ Becomes(pc_spiritball_timer(State))
ComboTimer == sd.combo # Nil /\ Becomes([State EXCEPT !.sd.combo = Nil])

(* A blow that was put off; off the map its place is not given back. *)
skill_timerskill ==
  /\ sd.later > 0
  /\ \E hurt \in BOOLEAN :
       LET s == [State EXCEPT !.sd.later = @ - 1]
       IN Becomes(IF ~sd.here THEN [s EXCEPT !.sd.stuck = @ + 1]
                  ELSE IF sd.dead_sit # "dead" THEN Blow(s, [Plain EXCEPT !.hurt = hurt]) ELSE s)

clif_parse_WalkToXY ==
  /\ sd.here /\ sd.dead_sit # "dead" /\ ~Casting(State) /\ sd.move /\ ~sd.opt1
  /\ \E found \in BOOLEAN : Becomes(pc_walktoxy(pc_stopattack(State), found))

clif_parse_ActionRequest ==
  /\ sd.here /\ sd.dead_sit # "dead" /\ ~sd.opt1
  /\ LET s == pc_stopattack(pc_stop_walking(State))
     IN \/ \E type, delay, hurt \in BOOLEAN, dist \in {"near", "far", "wall", "gone"}, triple \in Combos :
             Becomes(pc_attack(s, type, [Plain EXCEPT !.delay = delay, !.hurt = hurt, !.dist = dist,
                                                      !.triple = triple]))
        \/ \E pose \in {"sit", "stand"} : Becomes([s EXCEPT !.sd.dead_sit = pose])

clif_parse_UseSkill(k) ==
  /\ sd.here /\ sd.dead_sit # "dead" /\ ~sd.opt1
  /\ IF sd.cast # "no" THEN k = "castcancel" ELSE sd.act
  /\ play.gvg => k \notin {"teleport", "warp"}
  /\ \E dist \in {"near", "far"}, able, hurt, delay \in BOOLEAN :
       /\ SkillOf[k].harms \/ SkillOf[k].ground \/ dist = "near"
       /\ LET c == [Plain EXCEPT !.dist = dist, !.able = able, !.hurt = hurt, !.delay = delay]
          IN Becomes(IF SkillOf[k].ground THEN skill_use_pos(State, k, c) ELSE skill_use_id(State, k, c))

(* The place chosen from the list of a teleport or a warp. *)
clif_parse_UseSkillMap ==
  /\ menu # Nil
  /\ LET s == pc_stop_walking(pc_stopattack([State EXCEPT !.menu = Nil]))
     IN Becomes(IF ~sd.here \/ sd.dead_sit = "dead" \/ sd.opt1 \/ menu # sd.skill THEN [State EXCEPT !.menu = Nil]
                ELSE IF menu = "teleport" THEN pc_setpos(s) ELSE s)

(* An item's script lets a skill be used. *)
buildin_itemskill(k) ==
  sd.here /\ sd.dead_sit # "dead" /\ sd.cast = "no" /\ Becomes([State EXCEPT !.sd.item = k, !.granted = @ + 1])

clif_parse_Restart ==
  sd.here /\ sd.dead_sit = "dead" /\ Becomes(pc_setpos(pc_setrestartvalue(State)))
clif_parse_LoadEndAck == ~sd.here /\ Becomes([State EXCEPT !.sd.here = TRUE])
Resurrected ==
  sd.here /\ sd.dead_sit = "dead" /\ Becomes([State EXCEPT !.sd.dead_sit = "stand", !.sd.hp = 1])

(* What others do: hit, break a spell, warp, stun (damage may wake). *)
Hit         == sd.here /\ \E d \in {1, MaxHp}, wakes \in BOOLEAN :
                 Becomes(battle_damage([State EXCEPT !.sd.opt1 = @ /\ ~wakes], d))
SpellBroken == sd.cast # "no" /\ Becomes(pc_heal_sp(skill_castcancel(State), -1))
Warped      == sd.here /\ Becomes(pc_setpos(State))
Stunned     == sd.here /\ sd.dead_sit # "dead" /\ Becomes(pc_stopattack([State EXCEPT !.sd.opt1 = TRUE]))
Awakes      == sd.opt1 /\ Becomes([State EXCEPT !.sd.opt1 = FALSE])

(* Equipment or a status changes; rest; time passes. *)
pc_calcstatus   == Becomes(Speed(State))
pc_natural_heal ==
  /\ sd.dead_sit # "dead" /\ Becomes([pc_heal_sp(State, 1) EXCEPT !.sd.hp = IF sd.walk \/ @ = MaxHp THEN @ ELSE @ + 1])
TickPasses == \/ ~sd.act /\ sd.cast = "no" /\ Becomes([State EXCEPT !.sd.act = TRUE])
              \/ ~sd.move /\ Becomes([State EXCEPT !.sd.move = TRUE])

Next ==
  \/ WalkTimer \/ AttackTimer \/ CastTimer \/ BallTimer \/ ComboTimer \/ skill_timerskill
  \/ clif_parse_WalkToXY \/ clif_parse_ActionRequest \/ clif_parse_UseSkillMap
  \/ \E k \in play.skills : clif_parse_UseSkill(k) \/ buildin_itemskill(k)
  \/ clif_parse_Restart \/ clif_parse_LoadEndAck \/ Resurrected
  \/ Hit \/ SpellBroken \/ Warped \/ Stunned \/ Awakes
  \/ pc_calcstatus \/ pc_natural_heal \/ TickPasses

Spec == Init /\ [][Next]_vars

-----------------------------------------------------------------------------
(* Whatever interrupts what: one who is off the map neither walks, hits nor
   casts; one who casts without SA_FREECAST, or is dead, stands still; the
   speed of casting ends with the cast; the dead have no hit points and the
   living some; a cast's timer runs, unless SA_CASTCANCEL was tried in vain;
   there are as many timers of spirit balls as balls, known in their order;
   and no item or encore pays for two skills. *)
FighterAgrees ==
  /\ ~sd.here => ~sd.walk /\ ~sd.attack /\ sd.cast = "no"
  /\ sd.walk => ~Casting(State) /\ sd.dead_sit # "dead"
  /\ sd.slow => sd.cast # "no"
  /\ sd.dead_sit = "dead" <=> sd.hp = 0
  /\ sd.cast = "gone" => vain
  /\ sd.spiritball = Len(burning)
  /\ sd.spirit_timer = [i \in Ball |-> IF i <= Len(burning) THEN burning[i] ELSE 0]
  /\ freed + (IF sd.item = Nil THEN 0 ELSE 1) <= granted
=============================================================================
