CONSTANTS
  ChanCap = 3
  MaxDials = 1
  Defs = {d1, d2}
  Nil = Nil
  NoStore = NoStore
  NoKey = NoKey
  MaxToken = 0
SPECIFICATION FairSpec
INVARIANTS UntouchedWhileHandedOut
PROPERTIES Settles
