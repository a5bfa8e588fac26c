SPECIFICATION Spec
CONSTANTS
  m1 = m1
  m2 = m2
  a1 = a1
  a2 = a2
  c1 = c1
  c2 = c2
  b1 = b1
  b2 = b2
  Nil = Nil
  Maps <- MCMaps
  Accounts <- MCAccounts
  Chars <- MCChars
  AccountOf <- MCAccountOf
  Boards <- MCBoards
  MAX_GUILD = 3
  FIRST_PLACES = 2
  MAX_GUILDALLIANCE = 2
  MAX_PACTS = 1
  NEXTEXP = 1
  MaxLevel = 3
  MaxGuild = 2
  MaxAsked = 1
  Scenes <- MCScenes
SYMMETRY Symmetry
INVARIANTS
  
  
  AlliancesMutual
CHECK_DEADLOCK FALSE
