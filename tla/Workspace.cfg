CONSTANTS
  t1 = t1
  t2 = t2
  r1 = r1
  r2 = r2
  Targets = {t1, t2}
  Refs = {r1, r2}
  Git <- MCGit
  MaxFails = 1
  MaxEdits = 2
  None = None
SPECIFICATION FairSpec
INVARIANTS ConfirmedTogether
PROPERTIES ImplementsCommit ReadyIsComplete DeletionIsOrdered TransactionEnds
CHECK_DEADLOCK FALSE
