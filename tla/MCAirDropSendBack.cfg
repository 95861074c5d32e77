SPECIFICATION AirSpec
CONSTANTS
  h1 = h1
  h2 = h2
  c1 = c1
  c2 = c2
  c3 = c3
  gold = gold
  Workers = {h1}
  Customers = {c1}
  Coins = {gold}
  NumberAvailable <- OneCoin
  MaxMessages = 5
  MaxCalls = 5
  MaxDisturbances = 0
  NoCoin = NoCoin
  NoCustomer = NoCustomer
INVARIANT PaymentExpected
CHECK_DEADLOCK FALSE
