CONSTANTS
  ChanCap = 3
  MaxDials = 2
  Defs = {d1}
  Nil = Nil
  NoStore = NoStore
  NoKey = NoKey
  MaxToken = 1
SPECIFICATION Spec
INVARIANTS TypeOK HandedOutHoldsIntents IdleIsNotified
PROPERTIES ImplementsContract
