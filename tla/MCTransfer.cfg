SPECIFICATION Spec
CONSTANTS
  a1 = a1
  a2 = a2
  c1 = c1
  c2 = c2
  Maps = {m1, m2}
  Accounts = {a1}
  Chars = {c1}
  CharList <- MCOneChar
  AccountOf <- MCOneAccount
  Fds = {f1}
  Chunks = {k1}
  AUTH_FIFO_SIZE = 2
  MaxVersion = 1
  MaxQueue = 2
INVARIANTS NoLostUpdate
CONSTRAINT SomeClean
VIEW Relevant
