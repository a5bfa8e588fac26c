SPECIFICATION Spec
CONSTANTS
  a1 = a1
  a2 = a2
  Accounts = {a1, a2}
  LoginIds = {i1}
  NumFds = 2
  Nums = {0, 1}
  Listed = 2
  LOGIN_FIFO_SIZE = 1
  AUTH_FIFO_SIZE = 1
  Roster <- MCRoster
  MaxLogins = 2
  MaxChars = 3
  MaxCharId = 4
  MaxQueue = 1
INVARIANTS   GrantIsTheChoice UniqueChars
PROPERTIES DeletesTheNamed
VIEW Relevant
