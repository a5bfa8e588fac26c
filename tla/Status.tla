------------------------------- MODULE Status -------------------------------
(***************************************************************************)
(* Status changes of a character or a monster (map/skill.c): each type has *)
(* a timer and counters in sc_data, and beside them are kept how many run  *)
(* (sc_count) and what clients see (opt1, opt2, option).                   *)
(*                                                                         *)
(* A type's timer is "none", "live" (a timer of the heap), or "stale": one *)
(* that is gone.  Live timers that no status names any more are counted in *)
(* orphans.  left is the counter that the type's timer counts down (val2   *)
(* or val3, from at most Rounds); what else a status carries only changes  *)
(* damage and abilities.  Resistance, immunity, sp and hp are choices.     *)
(*                                                                         *)
(* scene is the set of types at play, one of Scenes; at most MaxOrphans    *)
(* timers of a type outlive their session; nothing follows `rearmed`.      *)
(***************************************************************************)
EXTENDS Integers, Sequences, FiniteSets, SequencesExt, FiniteSetsExt

CONSTANTS Scenes, Rounds, MaxOrphans

StatusAssumption == Rounds \in Nat \ {0} /\ MaxOrphans \in Nat

VARIABLES
  kind,     \* "pc" or "mob"
  present,  \* it is on a map
  bl,       \* what the functions below work on
  rearmed   \* history: a timer went on after the status it belongs to was cleared

vars == <<kind, present, bl, rearmed>>

Option1  == <<"STONE", "FREEZE", "STAN", "SLEEP">>
Option2  == {"POISON", "CURSE", "SILENCE", "BLIND"}
Hidden   == {"HIDING", "CLOAKING"}
Bits     == Hidden \cup {"SIGHT", "RUWACH"}
Mounts   == {"FALCON", "RIDING"}
Enchants == {"ENCPOISON", "ASPERSIO", "FLAMELAUNCHER", "FROSTWEAPON", "LIGHTNINGLOADER", "SEISMICWEAPON"}
Fields   == {"VOLCANO", "DELUGE", "VIOLENTGALE", "LANDPROTECTOR"}
Lasting  == Mounts \cup {"AETERNA", "TRICKDEAD", "WEIGHT50", "WEIGHT90"}

Off        == [timer |-> "none", left |-> 0, stiff |-> FALSE]
Running(s, t) == t \in DOMAIN s.sc /\ s.sc[t].timer # "none"

Init ==
  /\ kind \in {"pc", "mob"} /\ present = TRUE /\ rearmed = FALSE
  /\ \E T \in Scenes :
       bl = [sc |-> [t \in T |-> Off], sc_count |-> 0, opt1 |-> 0, opt2 |-> {}, option |-> {},
             orphans |-> [t \in T |-> 0]]

-----------------------------------------------------------------------------
(* What the counters hold then is not read again. *)
Stopped(s, t) == [s EXCEPT !.sc[t] = Off, !.sc_count = @ - 1]

(* A live timer that is overwritten goes on. *)
add_timer(s, t) ==
  [s EXCEPT !.sc[t].timer = "live", !.orphans[t] = IF s.sc[t].timer = "live" THEN @ + 1 ELSE @]

Begun(s, t, left) ==
  [add_timer(s, t) EXCEPT !.sc_count = @ + 1, !.sc[t].left = left, !.sc[t].stiff = (t = "STONE")]

(* The statuses of a falcon and a peco follow the option. *)
clif_changeoption(s) ==
  LET mount(x, t) ==
        IF t \notin DOMAIN x.sc \/ (t \in x.option) = Running(x, t) THEN x
        ELSE IF t \in x.option THEN Begun(x, t, 0)
        ELSE IF x.sc_count > 0 THEN Stopped(x, t) ELSE x
  IN mount(mount(s, "FALCON"), "RIDING")

OptionOff(s, t) ==
  CASE t \in Range(Option1) -> clif_changeoption([s EXCEPT !.opt1 = 0])
    [] t \in Option2        -> clif_changeoption([s EXCEPT !.opt2 = @ \ {t}])
    [] t \in Bits           -> clif_changeoption([s EXCEPT !.option = @ \ {t}])
    [] OTHER                -> s

skill_status_change_end(s, t) ==
  IF Running(s, t) /\ s.sc_count > 0 THEN OptionOff(Stopped(s, t), t) ELSE s
EndAll(s, T) == FoldLeft(skill_status_change_end, s, SetToSeq(T))

(* What begins with t ends these. *)
skill_encchant_eremental_end(t) == Enchants \ {t}
Contrary(s, t) ==
  CASE t \in Enchants      -> skill_encchant_eremental_end(t)
    [] t \in Fields        -> Fields \ {t}
    [] t = "INCREASEAGI"   -> {"DECREASEAGI"}
    [] t = "DECREASEAGI"   -> {"INCREASEAGI"}
    [] t = "BLESSING"      -> {"CURSE"} \cup {x \in {"STONE"} : Running(s, x) /\ ~s.sc[x].stiff}
    [] t = "QUAGMIRE"      -> {"CONCENTRATE", "INCREASEAGI", "TWOHANDQUICKEN", "SPEARSQUICKEN",
                               "ADRENALINE", "LOUD"}
    [] OTHER               -> {}

(* Mutant: those of option 1 that end are still counted. *)
OptionOnKept(s, t) ==
  CASE t \in Range(Option1) ->
         LET x == IF Running(s, "DANCING") THEN skill_status_change_end(s, "DANCING") ELSE s
         IN clif_changeoption([x EXCEPT
              !.sc = [i \in DOMAIN @ |-> IF i \in Range(Option1) THEN Off ELSE @[i]],
              !.opt1 = IF t = "STONE" THEN 6 ELSE SelectInSeq(Option1, LAMBDA i : i = t)])
    [] t \in Option2 -> clif_changeoption([s EXCEPT !.opt2 = @ \cup {t}])
    [] t \in Bits    -> clif_changeoption([s EXCEPT !.option = @ \cup {t}])
    [] OTHER         -> s

OptionOn(s, t) ==
  CASE t \in Range(Option1) ->
         LET x == IF Running(s, "DANCING") THEN skill_status_change_end(s, "DANCING") ELSE s
             y == FoldLeft(LAMBDA z, i : IF Running(z, i) THEN Stopped(z, i) ELSE z, x, Option1)
         IN clif_changeoption([y EXCEPT
              !.opt1 = IF t = "STONE" THEN 6 ELSE SelectInSeq(Option1, LAMBDA i : i = t)])
    [] t \in Option2 -> clif_changeoption([s EXCEPT !.opt2 = @ \cup {t}])
    [] t \in Bits    -> clif_changeoption([s EXCEPT !.option = @ \cup {t}])
    [] OTHER         -> s

(* Slowing a poison that is not there only ends what slowed it before. *)
skill_status_change_start(s, t, left) ==
  LET x == IF Running(s, t) THEN Stopped(s, t) ELSE s
  IN CASE Running(s, t) /\ t \in {"STAN", "POISON", "BLIND", "SILENCE"} -> s
       [] t = "AETERNA" /\ (Running(s, "STONE") \/ Running(s, "FREEZE")) -> s
       [] t = "SLOWPOISON" /\ ~Running(x, "POISON") -> x
       [] OTHER -> Begun(OptionOn(EndAll(x, Contrary(x, t)), t), t, left)

(* RUWACH's bit stays, and those of falcon and peco begin again. *)
skill_status_change_clear(s) ==
  IF s.sc_count = 0 THEN s
  ELSE clif_changeoption([s EXCEPT !.sc = [t \in DOMAIN @ |-> [@[t] EXCEPT !.timer = "none"]],
                                   !.sc_count = 0, !.opt1 = 0, !.opt2 = {},
                                   !.option = @ \cap (Mounts \cup {"RUWACH"})])

skill_check_cloaking(s) ==
  [skill_status_change_end(s, "CLOAKING") EXCEPT !.option = @ \ {"CLOAKING"}]

battle_damage(s) ==
  EndAll(s, {"FREEZE", "STONE", "SLEEP", "AETERNA"} \cup
            IF kind = "pc" /\ s.option \cap Hidden # {} THEN Hidden ELSE {})

-----------------------------------------------------------------------------
(* A sight reveals its own caster, too. *)
skill_status_change_timer_sub(s) ==
  IF s.option \cap Hidden # {} THEN EndAll(s, Hidden) ELSE s

Petrified(s) == clif_changeoption([s EXCEPT !.sc["STONE"].stiff = FALSE, !.opt1 = 1])

(* What happens to one that a dissonance attacks: a monster may die of it. *)
Attacked(s, c) ==
  CASE c = "hit"                   -> battle_damage(s)
    [] c = "dies" /\ kind = "mob"  -> skill_status_change_clear(battle_damage(s))
    [] OTHER                       -> s

(* What the timer's function makes of s, whose t has the timer that fired or
   (own is FALSE) another; c is what it meets: nothing that lets it go on
   ("off": no sp, no target, no unit of the song), or more. *)
skill_status_change_timer(s, t, own, c) ==
  LET less == [s EXCEPT !.sc[t].left = @ - 1]
      over(x) == IF own /\ x.sc[t].timer = "stale" THEN skill_status_change_end(x, t) ELSE x
      again(x, goes) == IF goes THEN add_timer(x, t) ELSE over(x)
      more == less.sc[t].left > 0
  IN CASE t \in {"MAXIMIZEPOWER", "CLOAKING"} -> again(s, kind = "pc" /\ c # "off")
       [] t = "HIDING" /\ kind = "pc" /\ c # "off" -> again(less, more)
       [] t \in {"SIGHT", "RUWACH"} -> again(skill_status_change_timer_sub(less), more)
       [] t = "PROVOKE" -> again(s, s.sc[t].left # 0 /\ c # "off")
       [] t = "WATERBALL" /\ c # "off" -> again(less, more)
       [] t = "ENDURE" -> again(s, kind = "pc" /\ c # "off")
       [] t = "DISSONANCE" ->
            IF more /\ c # "off" THEN add_timer(Attacked(less, c), t) ELSE over(less)
       [] t = "LULLABY" ->
            IF more /\ c # "off"
            THEN add_timer(IF c = "hit" THEN skill_status_change_start(less, "SLEEP", 0) ELSE less, t)
            ELSE over(less)
       [] t = "STONE" -> IF s.sc[t].stiff THEN add_timer(Petrified(s), t) ELSE again(less, more)
       [] t = "POISON" -> IF Running(s, "SLOWPOISON") THEN add_timer(s, t) ELSE again(less, more)
       [] t \in Lasting -> IF own THEN add_timer(s, t) ELSE s
       [] OTHER -> over(s)

-----------------------------------------------------------------------------
Durations(t) ==
  CASE t \in {"STONE", "POISON"} -> 1 .. Rounds
    [] t \in {"HIDING", "SIGHT", "RUWACH", "WATERBALL"} -> 0 .. Rounds
    [] t \in {"DISSONANCE", "LULLABY"} -> {Rounds}
    [] t = "PROVOKE" -> {0, 1}
    [] OTHER -> {0}

Start(t) ==
  /\ present /\ \E n \in Durations(t) : bl' = skill_status_change_start(bl, t, n)
  /\ UNCHANGED <<kind, present, rearmed>>

(* Ended by a potion, by a blow, by equipment, by a script's sc_end. *)
End(t) ==
  /\ present /\ bl' = skill_status_change_end(bl, t)
  /\ UNCHANGED <<kind, present, rearmed>>

Outcomes(t) == IF t \in {"DISSONANCE", "LULLABY"} THEN {"on", "off", "hit", "dies"} ELSE {"on", "off"}

(* The blow that kills clears sc_data under the timer's function. *)
OwnTimer(t, c) ==
  LET s == [bl EXCEPT !.sc[t].timer = "stale"]
      dies == t = "DISSONANCE" /\ c = "dies" /\ kind = "mob" /\ bl.sc[t].left > 1
  IN /\ bl.sc[t].timer = "live" /\ (c \in {"hit", "dies"} => present)
     /\ bl' = skill_status_change_timer(s, t, TRUE, c)
     /\ present' = (present /\ ~dies) /\ rearmed' = (rearmed \/ dies)
     /\ UNCHANGED kind

(* With no session for the id nothing happens. *)
OtherTimer(t, c) ==
  LET s == [bl EXCEPT !.orphans[t] = @ - 1]
  IN /\ bl.orphans[t] > 0 /\ c \in {"on", "off"}
     /\ bl' = IF ~present /\ kind = "pc" THEN s ELSE skill_status_change_timer(s, t, FALSE, c)
     /\ \A x \in DOMAIN bl.sc : bl'.orphans[x] <= MaxOrphans
     /\ UNCHANGED <<kind, present, rearmed>>

Damage == /\ present /\ bl' = battle_damage(bl) /\ UNCHANGED <<kind, present, rearmed>>
Reveal == /\ present /\ bl' = skill_status_change_timer_sub(bl) /\ UNCHANGED <<kind, present, rearmed>>
Cloak  == /\ present /\ bl' = skill_check_cloaking(bl) /\ UNCHANGED <<kind, present, rearmed>>

pc_setoption(t) ==
  /\ present /\ kind = "pc" /\ t \in DOMAIN bl.sc
  /\ bl' = clif_changeoption([bl EXCEPT !.option = IF t \in @ THEN @ \ {t} ELSE @ \cup {t}])
  /\ UNCHANGED <<kind, present, rearmed>>

(* The timers that clearing began again outlive the session. *)
map_quit ==
  LET s == skill_status_change_clear(bl)
  IN /\ present /\ kind = "pc" /\ present' = FALSE
     /\ bl' = [s EXCEPT !.orphans = [t \in DOMAIN @ |-> IF Running(s, t) THEN @[t] + 1 ELSE @[t]],
                        !.sc = [t \in DOMAIN @ |-> Off], !.sc_count = 0]
     /\ \A t \in DOMAIN bl.sc : bl'.orphans[t] <= MaxOrphans
     /\ UNCHANGED <<kind, rearmed>>

(* OPTION_MASK keeps what is not a status, and falcon and peco. *)
pc_authok ==
  /\ ~present /\ kind = "pc" /\ present' = TRUE
  /\ bl' = [bl EXCEPT !.option = @ \cap Mounts, !.opt1 = 0, !.opt2 = {}]
  /\ UNCHANGED <<kind, rearmed>>

mob_changestate ==
  /\ present /\ kind = "mob" /\ present' = FALSE /\ bl' = skill_status_change_clear(bl)
  /\ UNCHANGED <<kind, rearmed>>

(* Timers that still run are forgotten. *)
mob_spawn ==
  /\ ~present /\ kind = "mob" /\ present' = TRUE
  /\ bl' = [bl EXCEPT !.sc = [t \in DOMAIN @ |-> [@[t] EXCEPT !.timer = "none"]],
                      !.orphans = [t \in DOMAIN @ |-> IF bl.sc[t].timer = "live" THEN @[t] + 1 ELSE @[t]],
                      !.sc_count = 0, !.opt1 = 0, !.opt2 = {}, !.option = {}]
  /\ \A t \in DOMAIN bl.sc : bl'.orphans[t] <= MaxOrphans
  /\ UNCHANGED <<kind, rearmed>>

Next == ~rearmed /\
  \/ \E t \in DOMAIN bl.sc : Start(t) \/ End(t)
  \/ \E t \in DOMAIN bl.sc : \E c \in Outcomes(t) : OwnTimer(t, c) \/ OtherTimer(t, c)
  \/ Damage \/ Reveal \/ Cloak \/ map_quit \/ pc_authok \/ mob_changestate \/ mob_spawn
  \/ \E t \in Mounts : pc_setoption(t)

Spec == Init /\ [][Next]_vars

-----------------------------------------------------------------------------
Now(T) == {t \in T : Running(bl, t)}

(* Until a monster dies of its own status (the timer's function then starts
   the status again, uncounted, and later ones can no longer be ended): the
   statuses that run are as many as are counted, each has its timer, no timer
   is without its status but those that a logout left of falcon and peco, the
   client's options are those of the statuses that run, and contrary ones do
   not run together. *)
StatusesAgree ==
  present /\ ~rearmed =>
    /\ bl.sc_count = Cardinality(Now(DOMAIN bl.sc))
    /\ \A t \in DOMAIN bl.sc : /\ bl.sc[t].timer # "stale"
                               /\ bl.orphans[t] = 0 \/ t \in Mounts
    /\ bl.opt1 = IF Now(Range(Option1)) = {} THEN 0
                 ELSE IF Now({"STONE"}) = {} THEN SelectInSeq(Option1, LAMBDA t : t \in Now(Range(Option1)))
                 ELSE IF bl.sc["STONE"].stiff THEN 6 ELSE 1
    /\ bl.opt2 = Now(Option2) /\ bl.option \cap Bits = Now(Bits)
    /\ \A T \in {Range(Option1), Enchants, Fields, {"INCREASEAGI", "DECREASEAGI"}} :
         Cardinality(Now(T)) <= 1
=============================================================================
