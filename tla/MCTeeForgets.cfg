CONSTANTS
  s1 = s1
  Sales = {s1}
  OtherRelay = FALSE
  MaxTxs = 2
  MaxFresh = 2
  CHUNK = 1
  ATTEMPTS = 2
  CursorUnreadable = FALSE
  MaxLate = 2
  MaxCrashes = 1
SPECIFICATION FairSpec
PROPERTIES FailedHandlersRetried
