SPECIFICATION Spec
CONSTANTS
  k = k
  b1 = b1
  b2 = b2
  Bots = {k, b1, b2}
  Owners = {k}
  Items = {1, 2}
  Tax = 50
  GoldMax = 5
  MaxFlight = 2
  Prices <- OnePrices
  Purse <- Purses
  Goods <- OwnersGoods
SYMMETRY Buyers
INVARIANTS TypeOK NeverTwice NeverOverdrawn MirrorSettles NobodyWaits
PROPERTIES PriceHolds LossesAreKnown MoneyKept
CHECK_DEADLOCK FALSE
