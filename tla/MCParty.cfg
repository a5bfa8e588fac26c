SPECIFICATION Spec
CONSTANTS
  m1 = m1
  m2 = m2
  a1 = a1
  a2 = a2
  c1 = c1
  c2 = c2
  c3 = c3
  Nil = Nil
  Maps <- MCMaps
  Accounts <- MCAccounts
  Chars <- MCChars
  AccountOf <- MCAccountOf
  Lv <- MCLv
  MAX_PARTY = 2
  MaxParty = 1
  MaxAsked = 1
  MaxActs = 6
  Options <- MCOptions
INVARIANTS
  CopiesAgree
  
  NoDanglingPointer
PROPERTIES
  AcceptedIsAnswered
CHECK_DEADLOCK FALSE
