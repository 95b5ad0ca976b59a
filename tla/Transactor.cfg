CONSTANTS
  Names = {c1, c2}
  Specs = {s1, s2}
  None = None
  MaxEdits = 1
  MaxFails = 1
  MaxResets = 1
  MaxAttempts = 2
SPECIFICATION ClearSpec
INVARIANTS ReadyIsApplied StoredIsOwned NothingForgotten
PROPERTIES ComesToRest ClearedIsStored
CHECK_DEADLOCK FALSE
