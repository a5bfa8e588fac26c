SPECIFICATION Spec
CONSTANTS
  a = a
  b = b
  potion = potion
  sword = sword
  NoPartner = NoPartner
  Players = {a, b}
  Items = {potion, sword}
  Equips = {sword}
  WeightOf <- MCWeight
  MAX_INVENTORY = 2
  MAX_AMOUNT = 3
  MAX_ZENY = 4
  MaxWeight = 11
  MAX_DEAL = 2
  MAX_FLOOR = 1
  Amounts = {1}
  Zenys = {1}
  Prices = {1}
  InitGoods <- MCGoods
  InitZeny <- MCZeny
INVARIANTS  CarriesWithinLimit
PROPERTIES OffersFrozen ZenyOnlyFromPartner ExactExchange
