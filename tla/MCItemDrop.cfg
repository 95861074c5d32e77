SPECIFICATION Spec
CONSTANTS
  h1 = h1
  h2 = h2
  c1 = c1
  c2 = c2
  Workers = {h1, h2}
  Customers = {c1}
  Price = 3
  Fee = 1
  Amounts = {1, 2, 3, 5}
  MaxAmount = 5
  MaxFees = 1
  MaxMessages = 6
  MaxDisturbances = 1
  NoCustomer = NoCustomer
SYMMETRY Symmetry
INVARIANTS TypeOK ReturnsBounded FeesBounded ActiveSessionsBounded RefundedIsReturned
CHECK_DEADLOCK FALSE
