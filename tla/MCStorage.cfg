SPECIFICATION Spec
CONSTANTS
  a = a
  potion = potion
  sword = sword
  Nowhere = Nowhere
  Accounts = {a}
  Maps = {m1, m2}
  Items = {potion, sword}
  Equips = {sword}
  WeightOf <- MCWeight
  MAX_INVENTORY = 2
  MAX_AMOUNT = 1
  MAX_ZENY = 0
  MaxWeight = 4
  MAX_STORAGE = 2
  MAX_CART = 2
  CartMaxWeight = 2
  Amounts = {1}
  InitGoods <- MCGoods
  InitStorage <- MCStorageOf
  MaxQueue = 2
INVARIANTS BoxesInOrder StorageKept
CONSTRAINT SomeCovered
SYMMETRY Alike
