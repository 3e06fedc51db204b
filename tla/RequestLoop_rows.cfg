SPECIFICATION LoopFairSpec
CONSTANTS
  r1 = r1
  r2 = r2
  r3 = r3
  p1 = p1
  p2 = p2
  Requests = {r1, r2, r3}
  Processes = {p1, p2}
  Homes <- MCHomes
  Keys = {k1}
  Others = {m1}
  PoolSize = 2
INVARIANTS ConnectionsComeBack
PROPERTY RequestsEnd
CHECK_DEADLOCK FALSE
