------------------------------ MODULE MCGuild ------------------------------
(* Two map servers, two accounts, a character each; levels cost one. *)
EXTENDS Guild, TLC
CONSTANTS m1, m2, a1, a2, c1, c2, b1, b2
MCMaps == {m1, m2}
MCAccounts == {a1, a2}
MCChars == {c1, c2}
MCAccountOf == c1 :> a1 @@ c2 :> a2
MCBoards == {b1, b2}
(* The life of a guild from its creation; what its members pay, with a member
   that changes servers, with one that leaves and comes back; what else the
   members may change; pacts of two guilds. *)
MCScenes ==
  {[founded |-> <<>>, chars |-> {c1, c2}, acts |-> 7,
    kinds |-> {"create", "invite", "refuse", "leave", "break", "leave game"}],
   [founded |-> << <<c1, c2>> >>, chars |-> {c1, c2}, acts |-> 5,
    kinds |-> {"exp", "leave", "skill", "leave game"}],
   [founded |-> << <<c1, c2>> >>, chars |-> {c1, c2}, acts |-> 5,
    kinds |-> {"exp", "leave", "invite"}],
   [founded |-> << <<c1, c2>> >>, chars |-> {c1, c2}, acts |-> 4,
    kinds |-> {"expel", "leave", "position", "notice", "leave game"}],
   [founded |-> << <<c1>>, <<c2>> >>, chars |-> {c1, c2}, acts |-> 5,
    kinds |-> {"pact", "refuse", "break", "leave game"}]}
Symmetry == Permutations(MCMaps)
=============================================================================
