CONSTANTS
  c1 = c1
  c2 = c2
  Commands = {c1}
  Versions = {1}
  PriceOf <- MCPriceOf
  Bonds = {1}
  Budgets = {1}
  MaxPurchases = 2
  MaxFaults = 1
SPECIFICATION Spec
INVARIANTS SpendWithinBudget
