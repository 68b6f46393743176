\* A draft deleted while it is posted.
CONSTANTS
  Account = {1, 2}
  DebitNormal = {1}
  Income = {2}
  Expense = {}
  Summary = 1
  Retained = 1
  e1 = e1
  e2 = e2
  e3 = e3
  p1 = p1
  p2 = p2
  p3 = p3
  Entry = {e1}
  Proc = {p1, p2}
  Date = {10}
  Period = {1}
  PeriodOf <- MCPeriodOf
  EndOf <- MCEndOf
  Dto <- MCSale
  None = None
  Ops = {"create", "post", "delete"}
  Crashes = FALSE
SPECIFICATION Spec
SYMMETRY Symmetry
PROPERTIES PostedImmutable
