SPECIFICATION Spec
CONSTANTS
  Bundles = {b1, b2, b3, other}
  Other = other
  Names = {"n1", "n2"}
  NameOf <- TwoNames
  Nothing = nothing
  Faults = TRUE
  Slots = {s1, s2}
SYMMETRY Symmetric
CHECK_DEADLOCK FALSE
INVARIANTS OneActiveSerially VersionsDistinctSerially LoadedIsStored
PROPERTIES LoneActivationRepairs
