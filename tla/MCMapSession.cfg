SPECIFICATION Spec
CONSTANTS
  a1 = a1
  a2 = a2
  c1 = c1
  c2 = c2
  Maps = {m1}
  Accounts = {a1}
  Chars = {c1, c2}
  CharList <- MCTwoChars
  AccountOf <- MCOneAccount
  Fds = {f1, f2}
  Chunks = {k1, k2}
  AUTH_FIFO_SIZE = 1
  MaxVersion = 1
  MaxQueue = 2
INVARIANTS TypeOK OneSessionPerAccount  NoLostUpdate
PROPERTIES SavesInOrder
CONSTRAINT SomeClean
VIEW Relevant
SYMMETRY Alike
