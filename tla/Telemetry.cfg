CONSTANTS
  p = p
  q = q
  bad = bad
  CRs = {1, 2}
  Paths = {p, q, bad}
  Unparsable = {bad}
  Specs <- MCSpecs
  TargetPorts = {0}
  MaxEdits = 2
  MaxFaults = 1
  None = None
SPECIFICATION FairSpec
INVARIANTS SnapshotIsStreamed CollectorIsCurrent
PROPERTIES SubscriptionsReachDevice
CHECK_DEADLOCK FALSE
