CONSTANTS
  h = h
  Hosts = {h}
  DRSpecs <- MCSpecs
  Instances = {i1, i2}
  CSSpecs = {s1, s2}
  MaxEdits = 2
  MaxFaults = 1
  None = None
  Invalid = Invalid
SPECIFICATION FairSpec
INVARIANTS ConfigsAreCurrent
PROPERTIES OnlyCurrentDeletes FleetConverges
CHECK_DEADLOCK FALSE
