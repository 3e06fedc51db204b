SPECIFICATION Spec
CONSTANTS
  Tools = {t1, t2}
  Others = {malformed}
  Names <- MCNames
  Values = {x, y}
  Requests = {w1, w2}
  MaxVersion = 2
SYMMETRY Symmetric
INVARIANTS NewestSnapshotIsAgent BindingsFollowTheList
PROPERTY NoLostEdit
CHECK_DEADLOCK FALSE
