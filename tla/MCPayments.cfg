SPECIFICATION FairSpec
CONSTANTS
  p1 = p1
  p2 = p2
  p3 = p3
  Calls = {p1, p2, p3}
  Funds = 4
  MaxFaults = 3
INVARIANTS TypeOK PaymentsBounded SuccessIsTrue FailureIsTrue
PROPERTIES ReplyPromise CallReturns
CHECK_DEADLOCK FALSE
