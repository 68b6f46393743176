\* Every operation but the recompute, one at a time: two periods, a date in
\* neither, three entries.
CONSTANTS
  Account = {1, 2, 3, 4, 5}
  DebitNormal = {1, 3}
  Income = {2}
  Expense = {3}
  Summary = 5
  Retained = 4
  e1 = e1
  e2 = e2
  e3 = e3
  Entry = {e1, e2, e3}
  Date = {10, 20, 30}
  Period = {1, 2}
  PeriodOf <- MCPeriodOf
  EndOf <- MCEndOf
  Dto <- MCDto
  None = None
  Ops = {"create", "update", "delete", "restore", "transfer", "post", "reverse", "child", "close"}
SPECIFICATION Spec
SYMMETRY Symmetry
INVARIANTS TypeOK CacheAgrees ReversalPaired ClosingMatchesNet
PROPERTIES PostedImmutable ClosedPeriodFrozen
CHECK_DEADLOCK FALSE
