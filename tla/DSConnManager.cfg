CONSTANTS
  ChanCap = 3
  MaxDials = 4
SPECIFICATION ConnFairSpec
INVARIANTS UpHasClient
PROPERTIES Reconnects StopReleases
CHECK_DEADLOCK FALSE
