SPECIFICATION Spec
CONSTANTS
  c1 = c1 c2 = c2 a1 = a1 a2 = a2 f = f g = g r1 = r1 r2 = r2 k1 = k1 k2 = k2
  None = None
  Fn = {f, g}
  ImageOf <- TwoImages
  FnOf <- OneFn
  Inner = {}
  KindOf <- AllSync
  RetryEventCount = 1
  RetryRequestCount = 1
  MaxRestarts = 0
  Container = {c1, c2}
  Addr = {a1}
  AddrOf <- ReusedAddress
  Request = {r1}
  Call = {k1}
CHECK_DEADLOCK FALSE
INVARIANT RightFunction
