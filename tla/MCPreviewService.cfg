SPECIFICATION LiveSpec
CONSTANTS
  c = c
  p = p
  none = none
  Versions = {1}
  ContentOf <- MCContentOf
  Panels = {p, none}
  NoModels = none
  MaxFaults = 1
INVARIANTS
  AttachedIsStored
  OneRunPerVersion
PROPERTIES
  RunsBeginPaid
  PaidPreviewSettles
CHECK_DEADLOCK FALSE
