\* The statements and the recompute over every operation but reversal.
CONSTANTS
  Account = {1, 2, 3, 4, 5, 6, 7, 8, 9}
  DebitNormal = {1, 3, 8}
  Income = {2}
  Expense = {3}
  Summary = 5
  Retained = 4
  Asset = {1, 7}
  Liability = {6, 9}
  Equity = {4, 5, 8}
  Root = {9}
  CashFlow = {1}
  e1 = e1
  e2 = e2
  e3 = e3
  e4 = e4
  Entry = {e1, e2, e3, e4}
  Date = {10, 20}
  Period = {1, 2}
  PeriodOf <- MCPeriodOf
  EndOf <- MCEndOf
  Dto <- MCDto
  None = None
  Ops = {"create", "update", "delete", "restore", "post", "recompute", "close"}
SPECIFICATION Spec
SYMMETRY Symmetry
INVARIANTS SheetExplained ReportsAgree
PROPERTIES RecomputeIsNoOp
CHECK_DEADLOCK FALSE
