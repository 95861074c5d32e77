SPECIFICATION Spec
CONSTANTS
  m1 = m1
  m2 = m2
  m3 = m3
  Messages = {m1, m2, m3}
  CustomerOf <- MCCustomerOf
  Subscribers = {s1}
  PoolSize = 2
  MaxCrashes = 0
  MaxFailures = 0
  NoMessage = NoMessage
INVARIANT OneMessagePerCustomer
CHECK_DEADLOCK FALSE
