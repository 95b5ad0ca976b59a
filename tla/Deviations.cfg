CONSTANTS
  Configs = {c}
  Device = Device
  Paths = {p}
  MaxStarts = 2
  MaxEdits = 3
  MaxFaults = 1
  None = None
SPECIFICATION FairSpec
INVARIANTS ReportIsWhole
PROPERTIES DeviationsConverge
CHECK_DEADLOCK FALSE
