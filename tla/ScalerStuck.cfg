SPECIFICATION FairSpec
CONSTANTS
  c1 = c1 c2 = c2 c3 = c3 a1 = a1 a2 = a2 a3 = a3 f = f
  None = None
  Fn = {f}
  Container = {c1}
  Addr = {a1}
  ImageOf <- OneImage
  AddrOf <- OwnAddress
  ScaleLimits = {1}
  MaxPending = 2
  MaxFaults = 0
  Fragile = {c1}
CHECK_DEADLOCK FALSE
PROPERTY LoopComesRound
