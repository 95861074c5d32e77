SPECIFICATION FairSpec
CONSTANTS
  c1 = c1
  c2 = c2
  Workers = {w1, w2, w3}
  Coins = {c1, c2}
  NumberAvailable <- MCNumberAvailable
  MaxCalls = 5
  NoCoin = NoCoin
INVARIANTS TypeOK NeverOverdrawn ClaimsCounted
PROPERTIES PoolUntilRace CallReturns
CHECK_DEADLOCK FALSE
