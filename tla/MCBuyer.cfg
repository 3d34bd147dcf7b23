CONSTANTS
  c1 = c1
  c2 = c2
  Commands = {c1, c2}
  Versions = {1, 2}
  PriceOf <- MCPriceOf
  Bonds = {1}
  Budgets = {1, 3}
  MaxPurchases = 2
  MaxFaults = 1
SPECIFICATION MCSpec
INVARIANTS LedgerSound BudgetKept
SYMMETRY Symmetry
