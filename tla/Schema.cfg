CONSTANTS
  Repos = {r1, r2}
  MaxEdits = 4
  MaxFaults = 2
  None = None
SPECIFICATION FairSpec
INVARIANTS ReadyIsLoaded GoneIsRemoved
PROPERTIES SchemaIsDecided
CHECK_DEADLOCK FALSE
