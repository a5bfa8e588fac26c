------------------------------ MODULE MCPlayer ------------------------------
(***************************************************************************)
(* What one player does, with the small worlds TLC explores: the dialog    *)
(* with NPCs; walking, hitting and casting; what is worn; whispers.  While *)
(* a dialog goes on the client's other requests but the last are refused   *)
(* (npc_id), and whispers read nothing of the rest, so that a behaviour is *)
(* one of them (`scene`) while the others stay as they began.              *)
(***************************************************************************)
EXTENDS TLC, Integers

CONSTANT Nil

VARIABLES scene,  \* the part at work, and what Dialog, Fighter, Wear and Whisper keep
  sd, timers, disabled, window, reply,
  calls, runs, dropped, interrupted, strayed, away, filled, moves,
  play, body, burning, menu, granted, freed, vain,
  class, inventory, equip_index, weapontype1, weapontype2, shield, sc_data, floor, odd, rough,
  nick_db, server_fd, wis_list, wis_id, toChar, toMap, dead, whispers, roams

-----------------------------------------------------------------------------
Places  == {"square", "gate"}
Npcs    == {"guide", "guard", "shop"}
Shops   == {"shop"}
PlaceOf == "guide" :> "square" @@ "guard" :> "gate" @@ "shop" :> "square"
Script  ==
  "guide" :> <<<<"menu", <<2, 3>>>>, <<"next", 0>>, <<"input", 0>>, <<"event", "gift">>, <<"end", 0>>>> @@
  "guard" :> <<<<"next", 0>>, <<"warp", "gate">>, <<"menu", <<4>>>>, <<"mes", 0>>>>
Events  == {"gift", "dead"}
EventOf == "gift" :> [npc |-> "guard", pos |-> 1, near |-> TRUE] @@
           "dead" :> [npc |-> "guide", pos |-> 3, near |-> FALSE]
Talk == INSTANCE Dialog WITH MAX_EVENTQUEUE <- 2, MaxCalls <- 2, MaxMoves <- 4

-----------------------------------------------------------------------------
Skill(ground, cast, harms) == [ground |-> ground, cast |-> cast, sp |-> 1, harms |-> harms]
SkillOf ==
  "bolt"     :> Skill(FALSE, TRUE, TRUE)   @@ "wall"        :> Skill(TRUE, TRUE, FALSE)   @@
  "warp"     :> Skill(TRUE, TRUE, FALSE)   @@ "teleport"    :> Skill(FALSE, FALSE, FALSE) @@
  "finger"   :> Skill(FALSE, TRUE, TRUE)   @@ "callspirits" :> Skill(FALSE, TRUE, FALSE)  @@
  "chain"    :> Skill(FALSE, FALSE, TRUE)  @@ "finish"      :> Skill(FALSE, FALSE, TRUE)  @@
  "fist"     :> Skill(FALSE, TRUE, TRUE)   @@ "encore"      :> Skill(FALSE, FALSE, FALSE) @@
  "song"     :> Skill(FALSE, FALSE, FALSE) @@ "castcancel"  :> Skill(FALSE, FALSE, FALSE)
Way(skills, free, gvg) == [skills |-> skills, free |-> free, gvg |-> gvg]
Ways == {
  Way({"bolt", "wall", "castcancel"}, TRUE, FALSE), Way({"bolt"}, FALSE, TRUE),
  Way({"teleport", "warp"}, FALSE, FALSE), Way({"callspirits", "finger"}, FALSE, FALSE),
  Way({"chain", "finish", "fist"}, FALSE, FALSE), Way({"encore", "song", "castcancel"}, FALSE, FALSE)}
Fight == INSTANCE Fighter WITH
  Scenes <- Ways, sd <- body, MaxHp <- 2, MaxSp <- 1, MaxBalls <- 2, MAX_SKILLTIMERSKILL <- 1, MaxGrants <- 1

-----------------------------------------------------------------------------
Jobs == {"assassin", "knight"}
Item(equip, look, type, classes, arena) ==
  [equip |-> equip, look |-> look, type |-> type, classes |-> classes, arena |-> arena]
ItemOf ==
  "dagger" :> Item({"right"}, 1, 4, Jobs, FALSE) @@ "sword"  :> Item({"right"}, 2, 4, Jobs, TRUE) @@
  "bow"    :> Item({"left", "right"}, 11, 4, {"assassin"}, FALSE) @@
  "great"  :> Item({"left", "right"}, 3, 4, {"knight"}, FALSE) @@
  "shield" :> Item({"left"}, 1, 5, Jobs, FALSE) @@
  "ring"   :> Item({"left accessory", "right accessory"}, 0, 5, Jobs, FALSE)
Dress == INSTANCE Wear WITH Classes <- Jobs, Lefties <- {"assassin"}, MAX_INVENTORY <- 3

-----------------------------------------------------------------------------
Calls == INSTANCE Whisper WITH
  Maps <- {"m1", "m2"}, Chars <- {"ann", "bob"}, Callers <- {"ann"}, LastId <- 30000,
  MaxWhispers <- 2, MaxMoves <- 2, moves <- roams

ASSUME PlayerAssumption ==
  /\ Talk!DialogAssumption /\ Fight!FighterAssumption /\ Dress!WearAssumption
  /\ Calls!WhisperAssumption

-----------------------------------------------------------------------------
talkVars  == <<sd, timers, disabled, window, reply, calls, runs, dropped, interrupted, strayed, away,
               filled, moves>>
fightVars == <<play, body, burning, menu, granted, freed, vain>>
wearVars  == <<class, inventory, equip_index, weapontype1, weapontype2, shield, sc_data, floor, odd, rough>>
callVars  == <<nick_db, server_fd, wis_list, wis_id, toChar, toMap, dead, whispers, roams>>

Init == /\ scene \in {"talk", "fight", "wear", "whisper"}
        /\ Talk!Init /\ Fight!Init /\ Dress!Init /\ Calls!Init
        /\ (scene # "fight" => play = CHOOSE w \in Ways : TRUE)
        /\ (scene # "wear" => class = "knight")
        /\ (scene # "whisper" => nick_db = [c \in {"ann", "bob"} |-> "m1"])

Next ==
  \/ scene = "talk" /\ Talk!Next /\ UNCHANGED <<scene, fightVars, wearVars, callVars>>
  \/ scene = "fight" /\ Fight!Next /\ UNCHANGED <<scene, talkVars, wearVars, callVars>>
  \/ scene = "wear" /\ Dress!Next /\ UNCHANGED <<scene, talkVars, fightVars, callVars>>
  \/ scene = "whisper" /\ Calls!Next /\ UNCHANGED <<scene, talkVars, fightVars, wearVars>>

Spec == Init /\ [][Next]_<<scene, talkVars, fightVars, wearVars, callVars>> /\ Talk!Fairness

(* See Dialog, Fighter, Wear and Whisper. *)
DialogAgrees     == Talk!DialogAgrees
DialogEnds       == Talk!DialogEnds
FighterAgrees    == Fight!FighterAgrees
WearAgrees       == Dress!WearAgrees
WhispersAnswered == Calls!WhispersAnswered
=============================================================================
