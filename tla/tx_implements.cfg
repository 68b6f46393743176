\* Three connections, crashes included: posting, transfer, reversal, restore,
\* recompute and a new child account commit as single steps of Ledger.
CONSTANTS
  Account = {1, 2}
  DebitNormal = {1}
  Income = {2}
  Expense = {}
  Summary = 1
  Retained = 1
  e1 = e1
  e2 = e2
  e3 = e3
  p1 = p1
  p2 = p2
  p3 = p3
  Entry = {e1, e2, e3}
  Proc = {p1, p2, p3}
  Date = {10}
  Period = {1}
  PeriodOf <- MCPeriodOf
  EndOf <- MCEndOf
  Dto <- MCSale
  None = None
  Ops = {"create", "post", "transfer", "reverse", "restore", "recompute", "child"}
  Crashes = TRUE
SPECIFICATION Spec
SYMMETRY Symmetry
INVARIANTS FoldsSound
PROPERTIES Implements
