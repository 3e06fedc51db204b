SPECIFICATION Spec
CONSTANTS
  Workspaces = {w1}
  Users = {u1, u2}
  Superusers = {}
  Slots = {s1, s2}
PROPERTY RemovalKeepsAnOwner
CHECK_DEADLOCK FALSE
