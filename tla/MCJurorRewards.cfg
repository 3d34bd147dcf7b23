SPECIFICATION MCSpec
CONSTANTS
  a = a
  w = w
  s1 = s1
  s2 = s2
  Jurors = {a, w}
  Agents = {a}
  Hosted = {w}
  Keeper = w
  Disputes = {1}
  Salts = {s1, s2}
  MaxDrawn = 1
  MaxPending = 2
  MaxFaults = 1
  MaxScan = 1
  MaxFailures <- MCMaxFailures
PROPERTIES
  RewardsCollected
CHECK_DEADLOCK FALSE
