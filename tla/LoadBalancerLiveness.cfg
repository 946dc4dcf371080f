SPECIFICATION FairSpec
CONSTANTS
  c1 = c1 c2 = c2 a1 = a1 a2 = a2 f = f g = g r1 = r1 r2 = r2 k1 = k1 k2 = k2
  None = None
  Fn = {f, g}
  ImageOf <- TwoImages
  FnOf <- OneFn
  Inner = {r2}
  KindOf <- AllSync
  RetryEventCount = 1
  RetryRequestCount = 1
  MaxRestarts = 1
  Container = {c1}
  Addr = {a1}
  AddrOf <- OwnAddress
  Request = {r1, r2}
  Call = {k1, k2}
CHECK_DEADLOCK FALSE
PROPERTIES ClientAnswered RowsSettle
