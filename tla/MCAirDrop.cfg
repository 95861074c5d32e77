SPECIFICATION KnownSpec
CONSTANTS
  h1 = h1
  h2 = h2
  c1 = c1
  c2 = c2
  c3 = c3
  gold = gold
  Workers = {h1, h2}
  Customers = {c1, c2, c3}
  Coins = {gold}
  NumberAvailable <- OneCoin
  MaxMessages = 6
  MaxCalls = 6
  MaxDisturbances = 1
  NoCoin = NoCoin
  NoCustomer = NoCustomer
SYMMETRY Symmetry
INVARIANTS AirTypeOK EveryBonusClaimed AnsweredOnce NothingKept BoundedOvershoot BonusesWithinStock
CHECK_DEADLOCK FALSE
