SPECIFICATION FairSpec
CONSTANTS
  t1 = t1
  pay1 = pay1
  pay2 = pay2
  empty = empty
  Messages = {t1, pay1, pay2, empty}
  Texts = {t1}
  Paying = {pay1, pay2}
  PoolSize = 2
  MaxFailures = 2
  MaxCrashes = 1
INVARIANTS TypeOK SettledWhenStored ReadIsKept GracefulStop
PROPERTIES BoundedOvertaking EveryMessageEnds
CHECK_DEADLOCK FALSE
