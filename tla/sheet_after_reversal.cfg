\* The balance sheet after a reversal.
CONSTANTS
  Account = {1, 2, 3, 4, 5, 6}
  DebitNormal = {1, 3}
  Income = {2}
  Expense = {3}
  Summary = 5
  Retained = 4
  Asset = {1}
  Liability = {6}
  Equity = {4, 5}
  Root = {}
  CashFlow = {1}
  e1 = e1
  e2 = e2
  e3 = e3
  e4 = e4
  Entry = {e1, e2}
  Date = {10, 20}
  Period = {1, 2}
  PeriodOf <- MCPeriodOf
  EndOf <- MCEndOf
  Dto <- PlainDto
  None = None
  Ops = {"create", "post", "reverse"}
SPECIFICATION Spec
SYMMETRY Symmetry
INVARIANTS BalanceSheetBalances
CHECK_DEADLOCK FALSE
