SPECIFICATION Spec
CONSTANTS
  c = c
  p = p
  none = none
  Versions = {1}
  ContentOf <- MCContentOf
  Panels = {p, none}
  NoModels = none
  MaxFaults = 0
INVARIANT SpendQuoted
CHECK_DEADLOCK FALSE
