-------------------------------- MODULE Mob --------------------------------
(***************************************************************************)
(* The monsters of one map (map/mob.c): how they come, think, walk, hit,   *)
(* use skills, loot, lead slaves, die and come back.                       *)
(*                                                                         *)
(* What depends on positions, chances and looks is a choice made where the *)
(* code asks for it: whether a target is "near" (in the range of a blow),  *)
(* "far" or "off" (lost, hidden, invincible), and whether a path is found. *)
(* A timer the monster no longer knows does nothing when it fires and is   *)
(* left out, so `timer` is whether the one it knows is in the heap.        *)
(*                                                                         *)
(* A scene is the set of monsters at play.  Bounds: MaxItems items lie     *)
(* about, are carried or falling; a monster waits for at most MaxSpawns    *)
(* respawns; a master has the slave of SlaveOf, once at a time.            *)
(***************************************************************************)
EXTENDS Integers, FiniteSets, Sequences, SequencesExt, FiniteSetsExt

CONSTANTS Mobs, Players, Scenes, Once, Scripted, SlaveOf,
          ClassOf, OtherClass, Mode, Skills, LastSkill,   \* mob_db: class |-> what it can do
          MaxHp, LOOTITEM_SIZE, MaxItems, MaxSpawns, Nil

MobAssumption ==
  /\ UNION Scenes \subseteq Mobs /\ Once \subseteq Mobs /\ Scripted \subseteq Mobs
  /\ DOMAIN SlaveOf \subseteq Mobs /\ \A m \in DOMAIN SlaveOf : SlaveOf[m] \in Once \ DOMAIN SlaveOf
  /\ MaxHp \in [Mobs -> Nat \ {0}] /\ LOOTITEM_SIZE \in Nat \ {0} /\ MaxItems \in Nat /\ MaxSpawns \in Nat
  /\ Nil \notin Mobs \cup Players

VARIABLES
  at,      \* the monsters at play
  mob,     \* monster |-> its mob_data
  here,    \* players on the map
  floor, falling,  \* items that lie there, and that a dead monster lets fall
  twice,   \* history: monsters that died once more while they were dying
  left     \* history: slaves whose master went without dying

vars == <<at, mob, here, floor, falling, twice, left>>

Unborn(m) ==
  [known |-> FALSE, class |-> ClassOf[m], onmap |-> FALSE, state |-> "IDLE", timer |-> FALSE,
   hp |-> 0, target |-> Nil, attackable |-> FALSE, attacked |-> Nil, path |-> FALSE, turn |-> FALSE,
   cast |-> "no", loot |-> 0, master |-> Nil, spawns |-> 0]

(* Placed: memset of state, and all that mob_spawn sets. *)
Placed(m, md) ==
  [Unborn(m) EXCEPT !.known = TRUE, !.onmap = TRUE, !.hp = MaxHp[m], !.spawns = md.spawns,
                    !.class = IF md.onmap THEN md.class ELSE ClassOf[m], !.path = md.path]

State == [mob |-> mob, floor |-> floor, falling |-> falling, twice |-> twice, left |-> left]
Becomes(s) ==
  /\ mob' = s.mob /\ floor' = s.floor /\ falling' = s.falling /\ twice' = s.twice /\ left' = s.left
  /\ s.floor + s.falling <= MaxItems
  /\ \A m \in at : s.mob[m].spawns <= MaxSpawns

ModeOf(s, m) == Mode[s.mob[m].class]
(* Those that walk in s with m as their master. *)
SlavesOf(s, m) == {t \in at : s.mob[t].onmap /\ s.mob[t].master = m}
Leaderless(s, m) == [s EXCEPT !.left = @ \cup SlavesOf(s, m)]

-----------------------------------------------------------------------------
skill_castcancel(s, m) == [s EXCEPT !.mob[m].cast = "no"]

mob_stopattack(s, m) ==
  [s EXCEPT !.mob[m].target = Nil, !.mob[m].attackable = FALSE, !.mob[m].attacked = Nil]

mob_changestate(s, m, state) ==
  LET t == [s EXCEPT !.mob[m].timer = state \in {"ATTACK", "DELAY"}, !.mob[m].state = state]
  IN CASE state = "WALK" /\ s.mob[m].path  -> [t EXCEPT !.mob[m].timer = TRUE]
       [] state = "WALK" /\ ~s.mob[m].path -> [t EXCEPT !.mob[m].state = "IDLE"]
       [] state = "DEAD" -> [mob_stopattack(skill_castcancel(t, m), m) EXCEPT !.mob[m].hp = 0]
       [] OTHER -> t

mob_stop_walking(s, m) ==
  IF s.mob[m].state = "WALK"
  THEN mob_changestate([s EXCEPT !.mob[m].path = FALSE], m, "IDLE") ELSE s

mob_walktoxy_sub(s, m, found) ==
  IF found THEN mob_changestate([s EXCEPT !.mob[m].path = TRUE, !.mob[m].turn = FALSE], m, "WALK") ELSE s

(* A monster that walks turns at the next cell. *)
mob_walktoxy(s, m, found) ==
  IF s.mob[m].state # "WALK" THEN mob_walktoxy_sub(s, m, found)
  ELSE IF found THEN [s EXCEPT !.mob[m].turn = TRUE] ELSE s

(* Of one that is spawned once nothing is left; no timer is set twice for one
   that is gone. *)
mob_setdelayspawn(s, m) ==
  IF ~s.mob[m].known THEN s
  ELSE IF m \in Once THEN [s EXCEPT !.mob[m].known = FALSE] ELSE [s EXCEPT !.mob[m].spawns = @ + 1]

(* One on the map is placed elsewhere; without room it is off the map for
   another five seconds. *)
mob_spawn(s, m, room) ==
  IF room THEN [s EXCEPT !.mob[m] = Placed(m, @), !.left = @ \ {m}]
  ELSE [Leaderless(s, m) EXCEPT !.mob[m].onmap = FALSE, !.mob[m].spawns = @ + 1]

mob_spawn_dataset(s, m) == [s EXCEPT !.mob[m] = [Unborn(m) EXCEPT !.known = TRUE]]
mob_once_spawn(s, m, room) == mob_spawn(mob_spawn_dataset(s, m), m, room)

mob_summonslave(s, m, room) ==
  IF m \notin DOMAIN SlaveOf THEN s
  ELSE LET t == SlaveOf[m]
       IN IF t \notin at \/ s.mob[t].known THEN s
          ELSE [mob_once_spawn(s, t, room) EXCEPT !.mob[t].master = m]

(* Slaves near it follow. *)
mob_warp(s, m) ==
  LET gone(x, t) == IF ~x.mob[t].onmap THEN x
                    ELSE [mob_stopattack(x, t) EXCEPT !.mob[t].state = "IDLE"]
  IN FoldLeft(gone, s, <<m>> \o SetToSeq(SlavesOf(s, m) \ {m}))

mob_class_change(s, m) ==
  IF ~s.mob[m].onmap THEN s
  ELSE [skill_castcancel(mob_changestate(mob_stopattack(s, m), m, "IDLE"), m) EXCEPT
          !.mob[m].class = OtherClass, !.mob[m].hp = IF @ < 1 THEN 1 ELSE @, !.mob[m].turn = FALSE]

-----------------------------------------------------------------------------
Gone(s, m) == mob_setdelayspawn([s EXCEPT !.mob[m].onmap = FALSE], m)

(* Removed by a script or caught: its slaves stay. *)
mob_delete(s, m) == Gone(Leaderless(mob_changestate(s, m, "DEAD"), m), m)

(* Killed while it is dying, by what its last skill or its script does. *)
Again(s, m) == [Gone(mob_changestate(s, m, "DEAD"), m) EXCEPT !.twice = @ \cup {m}]

(* A skill does to the monster that uses it, c chooses whether there is room
   for a slave and a blow is thrown back (hit). *)
Effect(s, m, skill, c) ==
  CASE skill = "summon"        -> mob_summonslave(s, m, c.room)
    [] skill = "metamorphosis" -> mob_class_change(s, m)
    [] skill = "teleport"      -> mob_warp(s, m)
    [] skill = "grandcross"    -> mob_changestate(s, m, "DELAY")
    [] OTHER                   -> s

CanUse(s, m, skill) == skill # Nil /\ s.mob[m].cast = "no" /\ s.mob[m].onmap
Harm(s, m, skill, c) ==
  IF ~CanUse(s, m, skill) THEN 0
  ELSE IF skill = "suicide" THEN MaxHp[m] ELSE IF skill = "strike" /\ c.hit THEN 1 ELSE 0

(* With a casting time; a skill on itself may make it its own target. *)
mobskill_use_id(s, m) ==
  LET self == "castsensor" \in ModeOf(s, m) /\ s.mob[m].state # "ATTACK"
  IN [s EXCEPT !.mob[m].cast = "live",
               !.mob[m].target = IF self THEN m ELSE @, !.mob[m].attackable = @ \/ self]

(* But for the harm done to itself. *)
UseSkill(s, m, skill, c) ==
  IF ~CanUse(s, m, skill) THEN s
  ELSE IF skill = "cast" THEN mobskill_use_id(s, m) ELSE Effect(mob_stop_walking(s, m), m, skill, c)

(* Its last skill is not ready again when it dies once more of it. *)
LastUsed(s, m, c) ==
  LET skill == LastSkill[s.mob[m].class]
      t     == UseSkill(s, m, skill, c)
  IN IF Harm(s, m, skill, c) > 0 THEN Again(t, m) ELSE t

(* What its script kills; the dying monster is still on the map then. *)
npc_event(s, m, c) ==
  LET victims == {t \in Scripted \cap at : s.mob[t].onmap}
  IN IF m \notin Scripted \/ ~c.kills THEN s
     ELSE FoldLeft(LAMBDA x, t : IF t = m THEN Again(x, t) ELSE mob_delete(x, t), s, SetToSeq(victims))

(* Experience and what else it drops are left out. *)
Dying(s, m, drops, c) ==
  LET t == LastUsed(mob_changestate(s, m, "DEAD"), m, c)
  IN npc_event([t EXCEPT !.falling = IF drops THEN @ + s.mob[m].loot ELSE @], m, c)

(* Mutant: slaves outlive their master. *)
SlavesStay(s, m, c) == s
mob_deleteslave(s, m, c) ==
  FoldLeft(LAMBDA x, t : IF x.mob[t].onmap THEN Gone(Dying(x, t, FALSE, c), t) ELSE x,
           s, SetToSeq(SlavesOf(s, m) \ {m}))

Die(s, m, drops, c) ==
  LET t == Dying(s, m, drops, c)
  IN Gone(mob_deleteslave([t EXCEPT !.mob[m].onmap = FALSE], m, c), m)

(* By the player p, or Nil. *)
mob_damage(s, m, p, damage, drops, c) ==
  LET t == mob_stop_walking(s, m)
      u == [t EXCEPT !.mob[m].attacked = IF @ = Nil THEN p ELSE @, !.mob[m].hp = @ - damage]
  IN IF ~s.mob[m].onmap THEN s
     ELSE IF s.mob[m].state = "DEAD" \/ s.mob[m].hp <= 0 THEN Again(s, m)
     ELSE IF u.mob[m].hp > 0 THEN u ELSE Die(u, m, drops, c)

mobskill_use(s, m, c) ==
  LET harm == Harm(s, m, c.skill, c)
      t    == UseSkill(s, m, c.skill, c)
  IN IF harm > 0 THEN mob_damage(t, m, Nil, harm, TRUE, c) ELSE t

mobskill_castend(s, m, c) ==
  IF ~s.mob[m].onmap THEN [s EXCEPT !.mob[m].cast = "stale"]
  ELSE LET t == [s EXCEPT !.mob[m].cast = "no"]
       IN IF c.skill \in {Nil, "cast"} THEN t ELSE mobskill_use(t, m, c)

-----------------------------------------------------------------------------
mob_unlocktarget(s, m) == [s EXCEPT !.mob[m].target = Nil, !.mob[m].attackable = FALSE]

(* On to the next half of a cell. *)
StepOn(s, m, goes) ==
  IF goes THEN [s EXCEPT !.mob[m].timer = TRUE, !.mob[m].state = "WALK"] ELSE s

(* Mutant: one that arrives is still said to walk. *)
ArrivesWalking(s, m) == [s EXCEPT !.mob[m].path = FALSE, !.mob[m].state = "WALK"]
Arrives(s, m)        == [s EXCEPT !.mob[m].path = FALSE]

(* One step; c chooses where: "half" a cell, the "next" one, the "last", a cell
   that hurts ("trap") or holds it ("snare"), or one that is blocked. *)
mob_walk(s, m, c) ==
  LET idle == [s EXCEPT !.mob[m].state = "IDLE"]
  IN CASE ~s.mob[m].path -> idle
       [] c.step = "half" /\ s.mob[m].turn -> mob_walktoxy_sub(idle, m, c.room)
       [] c.step \in {"half", "next"} -> StepOn(idle, m, TRUE)
       [] c.step = "last"    -> Arrives(idle, m)
       [] c.step = "trap"    -> StepOn(mob_damage(idle, m, Nil, 1, TRUE, c), m, TRUE)
       [] c.step = "snare"   -> idle
       [] c.step = "blocked" -> mob_walktoxy_sub(idle, m, c.room)

(* A blow may be thrown back and kill it: the timer is set all the same. *)
mob_attack(s, m, c) ==
  LET idle == [s EXCEPT !.mob[m].state = "IDLE"]
      p    == s.mob[m].target
      used == mobskill_use(idle, m, c)
      hit  == IF c.hit THEN mob_damage(idle, m, p, 1, TRUE, c) ELSE idle
  IN IF s.mob[m].cast # "no" \/ ~c.able THEN idle
     ELSE IF p \notin here \/ c.dist = "off" THEN mob_unlocktarget(idle, m)
     ELSE IF c.dist = "far" THEN idle
     ELSE IF c.skill # Nil THEN used
     ELSE [hit EXCEPT !.mob[m].timer = TRUE, !.mob[m].state = "ATTACK"]

mob_timer(s, m, c) ==
  LET t == [s EXCEPT !.mob[m].timer = FALSE]
  IN CASE ~s.mob[m].onmap \/ s.mob[m].state = "DEAD" -> t
       [] s.mob[m].state = "WALK"   -> mob_walk(t, m, c)
       [] s.mob[m].state = "ATTACK" -> mob_attack(t, m, c)
       [] s.mob[m].state = "DELAY"  -> mob_changestate(t, m, "IDLE")
       [] OTHER -> t

-----------------------------------------------------------------------------
Vacant(s, m) == s.mob[m].target = Nil \/ ~s.mob[m].attackable
Aim(s, m, p) == [s EXCEPT !.mob[m].target = p, !.mob[m].attackable = TRUE]

(* Others of its kind take up its attacker. *)
mob_ai_sub_hard_linksearch(s, m, c) ==
  LET near == {t \in at : /\ s.mob[t].onmap /\ s.mob[t].class = s.mob[m].class
                          /\ s.mob[t].target = Nil \/ ~s.mob[m].attackable}
  IN IF "assist" \notin ModeOf(s, m) \/ s.mob[m].attacked \notin here \/ ~c.mood THEN s
     ELSE FoldLeft(LAMBDA x, t : Aim(x, t, s.mob[m].attacked), s, SetToSeq(near))

TurnOnAttacker(s, m, c) ==
  LET p == s.mob[m].attacked
      t == [s EXCEPT !.mob[m].attacked = Nil]
  IN IF p = Nil \/ ModeOf(s, m) = {} \/ ~(Vacant(s, m) \/ ("active" \in ModeOf(s, m) /\ c.mood)) THEN s
     ELSE IF p \notin here \/ c.dist = "off" THEN t ELSE Aim(t, m, p)

(* A slave far off is warped to its master, another walks after it, and both
   fight the same; the rest of the search is left then. *)
mob_ai_sub_hard_mastersearch(s, m, c) ==
  LET l      == s.mob[m].master
      walked == IF Vacant(s, m) /\ c.able /\ ~s.mob[m].path THEN mob_walktoxy(s, m, c.room) ELSE s
      led    == /\ s.mob[l].target \in here /\ s.mob[l].attackable /\ Vacant(walked, m) /\ c.dist # "off"
  IN IF c.dist = "off" THEN mob_warp(s, m)
     ELSE IF led THEN Aim(walked, m, s.mob[l].target) ELSE walked
Led(s, m) == s.mob[m].master \in at /\ s.mob[s.mob[m].master].onmap

mob_ai_sub_hard_activesearch(s, m, c) ==
  IF "active" \in ModeOf(s, m) /\ Vacant(s, m) /\ here # {} /\ c.dist # "off"
  THEN Aim(s, m, CHOOSE p \in here : TRUE) ELSE s

mob_ai_sub_hard_lootsearch(s, m, c) ==
  IF "loot" \in ModeOf(s, m) /\ s.mob[m].target = Nil /\ s.floor > 0 /\ c.room
  THEN [s EXCEPT !.mob[m].target = "item", !.mob[m].attackable = FALSE] ELSE s

Chase(s, m, c) ==
  LET t == mobskill_use(s, m, c)
  IN IF "move" \notin ModeOf(s, m) THEN mob_unlocktarget(s, m)
     ELSE IF ~c.able THEN s
     ELSE IF t.mob[m].timer /\ t.mob[m].state # "ATTACK" /\ c.mood THEN t
     ELSE IF c.room THEN mob_walktoxy(t, m, TRUE)
     ELSE IF c.mood /\ t.mob[m].target # "item" THEN t ELSE mob_unlocktarget(t, m)

Strike(s, m) ==
  LET t == mob_stop_walking(s, m)
  IN IF t.mob[m].state = "ATTACK" THEN t ELSE mob_changestate(t, m, "ATTACK")

(* Mutant: what is looted lies there still. *)
TakenTwice(s) == s
Taken(s)      == [s EXCEPT !.floor = @ - 1]
(* One that carries all it can loses what it took first. *)
Loot(s, m) ==
  IF s.mob[m].state = "ATTACK" THEN s
  ELSE mob_unlocktarget(Taken([mob_stop_walking(s, m) EXCEPT
         !.mob[m].loot = IF @ < LOOTITEM_SIZE THEN @ + 1 ELSE @]), m)

WithTarget(s, m, c) ==
  LET p == s.mob[m].target
  IN CASE p \in here /\ c.dist = "near"  -> Strike(s, m)
       [] p = "item" /\ c.dist = "near" /\ s.floor > 0 -> Loot(s, m)
       [] (p \in here \/ (p = "item" /\ s.floor > 0)) /\ c.dist = "far" -> Chase(s, m, c)
       [] OTHER -> mob_unlocktarget(s, m)

(* After a thousand walks that failed it is spawned anew. *)
mob_randomwalk(s, m, c) ==
  IF c.room THEN mob_walktoxy(s, m, TRUE) ELSE IF c.mood THEN mob_spawn(s, m, c.dist # "off") ELSE s

mob_ai_sub_hard(s, m, c) ==
  LET a == IF ModeOf(s, m) = {} THEN [s EXCEPT !.mob[m].target = Nil] ELSE s
      b == TurnOnAttacker(mob_ai_sub_hard_linksearch(a, m, c), m, c)
      d == IF Led(b, m) THEN mob_ai_sub_hard_mastersearch(b, m, c)
           ELSE mob_ai_sub_hard_lootsearch(mob_ai_sub_hard_activesearch(b, m, c), m, c)
      used == mobskill_use(d, m, c)
  IN IF d.mob[m].target # Nil THEN WithTarget(d, m, c)
     ELSE IF c.skill # Nil THEN used
     ELSE IF "move" \in ModeOf(s, m) /\ c.able /\ ~Led(d, m) THEN mob_randomwalk(d, m, c) ELSE d

(* Of monsters far from every player. *)
mob_ai_sub_lazy(s, m, c) ==
  IF c.dist = "near" THEN mob_randomwalk(s, m, c)
  ELSE IF c.dist = "far" /\ "boss" \notin ModeOf(s, m) THEN mob_spawn(s, m, c.room) ELSE mob_warp(s, m)

-----------------------------------------------------------------------------
Plain == [skill |-> Nil, hit |-> FALSE, room |-> TRUE, able |-> TRUE, mood |-> FALSE, kills |-> FALSE,
          dist |-> "near", step |-> "half"]
SkillsOf(m) == {Nil} \cup Skills[mob[m].class]
(* What may follow its death. *)
Deaths(m) == [hit : IF LastSkill[mob[m].class] = "strike" THEN BOOLEAN ELSE {FALSE},
              kills : IF m \in Scripted THEN BOOLEAN ELSE {FALSE}]
Dies(d) == [Plain EXCEPT !.hit = d.hit, !.kills = d.kills]

MobTimer(m) ==
  /\ mob[m].timer
  /\ \E d \in Deaths(m), room \in BOOLEAN :
       \/ \E step \in {"half", "next", "last", "trap", "snare", "blocked"} :
            /\ mob[m].state # "ATTACK"
            /\ Becomes(mob_timer(State, m, [Dies(d) EXCEPT !.step = step, !.room = room]))
       \/ \E dist \in {"near", "far", "off"}, able, hit \in BOOLEAN, skill \in SkillsOf(m) :
            /\ mob[m].state = "ATTACK"
            /\ Becomes(mob_timer(State, m, [Plain EXCEPT !.dist = dist, !.able = able, !.hit = hit,
                                              !.skill = skill, !.room = room, !.kills = d.kills]))
  /\ UNCHANGED <<at, here>>

(* Every 100 ms, of those near a player. *)
mob_ai_hard(m) ==
  /\ mob[m].known /\ mob[m].onmap /\ mob[m].cast = "no" /\ mob[m].state # "DELAY" /\ here # {}
  /\ \E dist \in {"near", "far", "off"}, room, able, mood \in BOOLEAN, skill \in SkillsOf(m), d \in Deaths(m) :
       /\ dist = "near" => able
       /\ Becomes(mob_ai_sub_hard(State, m, [Dies(d) EXCEPT !.dist = dist, !.room = room, !.able = able,
                                               !.mood = mood, !.skill = skill]))
  /\ UNCHANGED <<at, here>>

mob_ai_lazy(m) ==
  /\ mob[m].known /\ mob[m].onmap /\ mob[m].cast = "no" /\ "move" \in ModeOf(State, m)
  /\ \E dist \in {"near", "far", "off"}, room, mood \in BOOLEAN :
       Becomes(mob_ai_sub_lazy(State, m, [Plain EXCEPT !.dist = dist, !.room = room, !.mood = mood]))
  /\ UNCHANGED <<at, here>>

CastTimer(m) ==
  /\ mob[m].cast = "live"
  /\ \E skill \in SkillsOf(m), d \in Deaths(m), room \in BOOLEAN :
       Becomes(mobskill_castend(State, m, [Dies(d) EXCEPT !.skill = skill, !.room = room]))
  /\ UNCHANGED <<at, here>>

(* No two respawn timers are ever wanted, but both fire. *)
mob_delayspawn(m) ==
  /\ mob[m].spawns > 0
  /\ \E room \in BOOLEAN :
       LET s == [State EXCEPT !.mob[m].spawns = @ - 1]
       IN Becomes(IF mob[m].known THEN mob_spawn(s, m, room) ELSE s)
  /\ UNCHANGED <<at, here>>

(* A player's blow; before it lands the monster may answer with a skill, or
   its casting is broken off. *)
Hit(m, p) ==
  /\ mob[m].onmap /\ p \in here
  /\ \E skill \in SkillsOf(m), d \in Deaths(m), broken \in BOOLEAN, damage \in {1, MaxHp[m]} :
       LET c == [Dies(d) EXCEPT !.skill = skill]
           s == mobskill_use(State, m, c)
       IN Becomes(mob_damage(IF broken THEN skill_castcancel(s, m) ELSE s, m, p, damage, TRUE, c))
  /\ UNCHANGED <<at, here>>

(* Provoked; stunned; warped by a skill; removed by a script, or caught. *)
mob_target(m, p) ==
  /\ mob[m].onmap /\ p \in here /\ Mode[mob[m].class] # {} /\ Becomes(Aim(State, m, p)) /\ UNCHANGED <<at, here>>
Stunned(m) == /\ mob[m].onmap /\ Becomes(mob_stop_walking(mob_stopattack(State, m), m)) /\ UNCHANGED <<at, here>>
Warped(m)  == /\ mob[m].onmap /\ Becomes(mob_warp(State, m)) /\ UNCHANGED <<at, here>>
Removed(m) == /\ mob[m].onmap /\ Becomes(mob_delete(State, m)) /\ UNCHANGED <<at, here>>
(* By a script, a dead branch, a GM. *)
OnceSpawn(m) ==
  /\ m \in Once /\ ~mob[m].known /\ m \notin {SlaveOf[t] : t \in DOMAIN SlaveOf}
  /\ \E room \in BOOLEAN : Becomes(mob_once_spawn(State, m, room))
  /\ UNCHANGED <<at, here>>

mob_delay_item_drop2 ==
  /\ falling > 0 /\ Becomes([State EXCEPT !.falling = @ - 1, !.floor = @ + 1]) /\ UNCHANGED <<at, here>>
Carried == FoldFunction(LAMBDA md, n : n + (IF md.onmap THEN md.loot ELSE 0), 0, mob)
(* Where something loots. *)
PlayerDrops ==
  /\ \E m \in at : "loot" \in Mode[ClassOf[m]]
  /\ floor + falling + Carried < MaxItems /\ Becomes([State EXCEPT !.floor = @ + 1]) /\ UNCHANGED <<at, here>>
map_clearflooritem ==
  /\ floor > 0 /\ Becomes([State EXCEPT !.floor = @ - 1]) /\ UNCHANGED <<at, here>>
Come(p)  == p \notin here /\ here' = here \cup {p} /\ UNCHANGED <<at, mob, floor, falling, twice, left>>
Leave(p) == p \in here /\ here' = here \ {p} /\ UNCHANGED <<at, mob, floor, falling, twice, left>>

Init ==
  /\ at \in Scenes
  /\ mob = [m \in at |-> IF m \in Once THEN Unborn(m) ELSE Placed(m, [Unborn(m) EXCEPT !.onmap = TRUE])]
  /\ here = {} /\ floor = 0 /\ falling = 0 /\ twice = {} /\ left = {}

Next ==
  \/ \E m \in at : \/ MobTimer(m) \/ mob_ai_hard(m) \/ mob_ai_lazy(m) \/ CastTimer(m) \/ mob_delayspawn(m)
                   \/ Stunned(m) \/ Warped(m) \/ Removed(m) \/ OnceSpawn(m)
                   \/ \E p \in Players : Hit(m, p) \/ mob_target(m, p)
  \/ mob_delay_item_drop2 \/ PlayerDrops \/ map_clearflooritem
  \/ \E p \in Players : Come(p) \/ Leave(p)

Spec == Init /\ [][Next]_vars

-----------------------------------------------------------------------------
(* No monster hangs: on the map it lives, and when it walks, hits or is held
   up its timer runs, as does that of the skill it casts.  One that is off the
   map has one timer to come back, and none has one while it is there, unless
   it died twice at once (then it comes twice); one that is spawned once is
   forgotten.  A slave's master is there, unless it was removed, not killed.
   No item is looted and left. *)
MobsAgree ==
  /\ \A m \in at :
       LET md == mob[m]
       IN /\ md.onmap => /\ md.known /\ md.state # "DEAD" /\ md.hp > 0 /\ md.cast # "stale"
                         /\ md.state \in {"WALK", "ATTACK", "DELAY"} => md.timer
          /\ m \notin twice => md.spawns = IF md.known /\ ~md.onmap THEN 1 ELSE 0
          /\ md.onmap /\ md.master # Nil /\ m \notin left => mob[md.master].onmap
  /\ floor + falling + Carried <= MaxItems
=============================================================================
