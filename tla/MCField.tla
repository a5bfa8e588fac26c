------------------------------ MODULE MCField -------------------------------
(***************************************************************************)
(* What goes on in the field, with the small worlds TLC explores: the      *)
(* statuses of one character or monster, and the units skills leave on the *)
(* ground.  A behaviour is one of them (`scene`) while the others stay as  *)
(* they began.                                                             *)
(***************************************************************************)
EXTENDS TLC, Integers

CONSTANTS p1, p2,   \* skill units: a caster, and one who walks about
          Nil

VARIABLES scene,  \* the part at work, and what Status, SkillUnits and Mob keep
  kind, present, bl, rearmed,
  kinds, list, gat, pos, invincible, sc, dancing, newid, loose,
  at, mob, here, floor, falling, twice, left

-----------------------------------------------------------------------------
Ailments == {
  {"STONE", "FREEZE", "BLESSING", "CURSE", "AETERNA", "LULLABY", "SLEEP", "DANCING"},
  {"POISON", "SLOWPOISON", "DISSONANCE", "STAN", "SILENCE", "PROVOKE"},
  {"HIDING", "CLOAKING", "RUWACH", "FALCON", "WATERBALL", "MAXIMIZEPOWER"},
  {"ENCPOISON", "ASPERSIO", "VOLCANO", "DELUGE", "QUAGMIRE", "INCREASEAGI", "DECREASEAGI", "ENDURE"}}
Statuses == INSTANCE Status WITH Scenes <- Ailments, Rounds <- 2, MaxOrphans <- 1

-----------------------------------------------------------------------------
Skill(shape, reach, range, target, status) ==
  [shape |-> shape, reach |-> reach, range |-> range, target |-> target, status |-> status, song |-> FALSE]
SkillOf ==
  "safetywall" :> Skill("one", 0, 0, "all", TRUE)   @@ "pneuma"     :> Skill("one", 0, 1, "all", TRUE) @@
  "sanctuary"  :> Skill("line", 0, 1, "all", FALSE) @@ "firewall"   :> Skill("line", 0, 0, "foe", FALSE) @@
  "firepillar" :> Skill("one", 0, 1, "foe", FALSE)  @@ "ankle"      :> Skill("one", 0, 1, "foe", TRUE) @@
  "portal"     :> Skill("one", 0, 0, "all", FALSE)  @@ "quagmire"   :> Skill("line", 0, 0, "foe", TRUE) @@
  "trap"       :> Skill("one", 0, 1, "foe", FALSE)  @@ "icewall"    :> Skill("line", 0, 0, "foe", FALSE) @@
  "volcano"    :> Skill("disc", 0, 2, "all", TRUE)  @@
  "song"       :> [Skill("disc", 1, 2, "foe", TRUE) EXCEPT !.song = TRUE]
Spells == {{"safetywall", "icewall"}, {"song"}, {"pneuma"}, {"quagmire"}, {"portal"},
           {"firepillar", "firewall"}, {"sanctuary", "trap"}, {"ankle"}, {"volcano"}}
People  == {p1, p2}
Casters == {p1}
PartyOf == p1 :> 1 @@ p2 :> 2
Cells   == 1 .. 3
Walls   == {3}
Units == INSTANCE SkillUnits WITH Players <- People, Scenes <- Spells, MaxGroups <- 2, MaxId <- 3

-----------------------------------------------------------------------------
Herds     == {{"porter"}, {"wolf", "cub"}, {"lord", "slave"}, {"bomb"}}
Creatures == UNION Herds
Visitors  == {"p"}
Lone      == {"slave"}
Eventful  == {"bomb"}
SlaveOf   == "lord" :> "slave"
ClassOf   == "porter" :> "poring" @@ "wolf" :> "wolf" @@ "cub" :> "wolf" @@ "lord" :> "boss" @@
             "slave" :> "egg" @@ "bomb" :> "mine"
MaxHp     == [m \in Creatures |-> IF m \in {"porter", "wolf", "bomb"} THEN 2 ELSE 1]
Mode      == "poring" :> {"move", "loot"} @@ "wolf" :> {"move", "assist"} @@ "egg" :> {} @@ "mine" :> {"move"} @@
             "boss" :> {"move", "active", "boss", "castsensor"}
Skills    == [class \in DOMAIN Mode |->
               CASE class = "boss" -> {"summon", "cast"}
                 [] class = "mine" -> {"suicide", "metamorphosis", "grandcross", "strike"}
                 [] OTHER -> {}]
LastSkill == [class \in DOMAIN Mode |-> IF class = "mine" THEN "strike" ELSE Nil]
Monsters == INSTANCE Mob WITH Mobs <- Creatures, Players <- Visitors, Scenes <- Herds, Once <- Lone,
                              Scripted <- Eventful, OtherClass <- "egg", MaxHp <- MaxHp, LOOTITEM_SIZE <- 1,
                              MaxItems <- 2, MaxSpawns <- 2

ASSUME FieldAssumption ==
  Statuses!StatusAssumption /\ Units!SkillUnitsAssumption /\ Monsters!MobAssumption

-----------------------------------------------------------------------------
Init == /\ scene \in {"statuses", "units", "monsters"} /\ Statuses!Init /\ Units!Init /\ Monsters!Init
        /\ (scene # "statuses" => kind = "pc" /\ DOMAIN bl.sc = CHOOSE T \in Ailments : TRUE)
        /\ (scene # "units" => kinds = CHOOSE K \in Spells : TRUE)
        /\ (scene # "monsters" => at = CHOOSE H \in Herds : TRUE)

statusVars == <<kind, present, bl, rearmed>>
unitVars   == <<kinds, list, gat, pos, invincible, sc, dancing, newid, loose>>
monsterVars == <<at, mob, here, floor, falling, twice, left>>

Next ==
  \/ scene = "statuses" /\ Statuses!Next /\ UNCHANGED <<scene, unitVars, monsterVars>>
  \/ scene = "units" /\ Units!Next /\ UNCHANGED <<scene, statusVars, monsterVars>>
  \/ scene = "monsters" /\ Monsters!Next /\ UNCHANGED <<scene, statusVars, unitVars>>

Spec == Init /\ [][Next]_<<scene, statusVars, unitVars, monsterVars>>

(* See Status, SkillUnits and Mob. *)
StatusesAgree == Statuses!StatusesAgree
UnitsAgree    == Units!UnitsAgree
MobsAgree     == Monsters!MobsAgree
=============================================================================
