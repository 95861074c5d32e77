SPECIFICATION Spec
CONSTANTS
  p1 = p1
  p2 = p2
  p3 = p3
  Calls = {p1}
  Funds = 3
  MaxFaults = 2
INVARIANT PaidOnce
CHECK_DEADLOCK FALSE
