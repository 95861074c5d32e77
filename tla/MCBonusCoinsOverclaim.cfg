SPECIFICATION Spec
CONSTANTS
  c1 = c1
  c2 = c2
  Workers = {w1, w2}
  Coins = {c1, c2}
  NumberAvailable <- MCNumberAvailable
  MaxCalls = 5
  NoCoin = NoCoin
INVARIANT ClaimsWithinStock
CHECK_DEADLOCK FALSE
