SPECIFICATION MCSpec
CONSTANTS
  Ids <- FourIds
  Legacy <- OneLegacy
  Skew = 1
  Limit = 4
  Processes = {p1, p2}
  Aliases = {chat, embed}
  Values = {on, off}
  EnabledIn = {on}
  Absent = absent
  Admins = {w1, w2}
SYMMETRY Symmetric
INVARIANTS OrderlyChainVerifies ChainRooted ServesCommittedOnly
PROPERTY EditShows
CHECK_DEADLOCK FALSE
