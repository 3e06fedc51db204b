SPECIFICATION InferenceSpec
CONSTANTS
  c1 = c1
  c2 = c2
  c3 = c3
  p1 = p1
  p2 = p2
  Calls = {c1, c2, c3}
  Gateways = {p1, p2}
  Plans <- MCPlans
  RatePerMinute = 1
  RpmLimit = 2
  TokenLimit = 1
  MaxTokens = 1
  LastMinute = 1
  MinutesPerDay = 1
  MaxFaults = 1
INVARIANT EveryCallIsRecorded
CHECK_DEADLOCK FALSE
