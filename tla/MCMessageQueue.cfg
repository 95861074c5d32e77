SPECIFICATION FairSpec
CONSTANTS
  m1 = m1
  m2 = m2
  m3 = m3
  Messages = {m1, m2, m3}
  CustomerOf <- MCCustomerOf
  Subscribers = {s1, s2}
  PoolSize = 2
  MaxCrashes = 1
  MaxFailures = 1
  NoMessage = NoMessage
INVARIANTS TypeOK OneOwner HandledAtMostOnce
PROPERTIES Promise EveryMessageClaimed EveryMessageAnswered
CHECK_DEADLOCK FALSE
