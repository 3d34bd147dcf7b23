CONSTANTS
  s1 = s1
  Sales = {s1}
  OtherRelay = TRUE
  MaxTxs = 4
  MaxLate = 2
  MaxFresh = 3
  CHUNK = 1
  ATTEMPTS = 2
  CursorUnreadable = TRUE
  MaxCrashes = 1
SPECIFICATION MCSpec
INVARIANTS DeliveredMatchesRecord NoKeyWithRefund FindingOnRecord RecordedOutcomeTrue
PROPERTIES EveryPurchaseAnswered EveryDisputeAnswered
