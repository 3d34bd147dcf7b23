CONSTANTS
  s1 = s1
  Sales = {s1}
  OtherRelay = TRUE
  MaxTxs = 2
  MaxFresh = 2
  CHUNK = 1
  ATTEMPTS = 2
  CursorUnreadable = FALSE
  MaxLate = 2
  MaxCrashes = 0
SPECIFICATION Spec
INVARIANTS OthersNotBlamed
