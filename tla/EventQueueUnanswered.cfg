SPECIFICATION Spec
CONSTANTS
  f = f r1 = r1 k1 = k1 k2 = k2
  None = None
  Fn = {f}
  Request = {r1}
  Call = {k1}
  FnOf <- OneFn
  KindOf <- AllEvents
  RetryEventCount = 1
  RetryRequestCount = 1
  MaxRestarts = 0
  GlobalScaleLimit = 1
  Workers = 1
CHECK_DEADLOCK FALSE
INVARIANT ProcessedHasOutcome
