CONSTANTS
  MaxTargets = 2
  MaxCrashes = 1
  MaxFlips = 2
SPECIFICATION LifeFairSpec
INVARIANTS LifeTypeOK NoTargetNoDatastore UnregisteredDoesNotRun
PROPERTIES DeletionCompletes ReadyFollows
CHECK_DEADLOCK FALSE
