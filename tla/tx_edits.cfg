\* Two connections and two entries with opposite lines over two accounts:
\* edits, deletions, transfers, reversals and closes race; crashes included.
CONSTANTS
  Account = {1, 2}
  DebitNormal = {1}
  Income = {2}
  Expense = {}
  Summary = 1
  Retained = 1
  e1 = e1
  e2 = e2
  e3 = e3
  p1 = p1
  p2 = p2
  p3 = p3
  Entry = {e1, e2}
  Proc = {p1, p2}
  Date = {10}
  Period = {1}
  PeriodOf <- MCPeriodOf
  EndOf <- MCEndOf
  Dto <- MCBoth
  None = None
  Ops = {"create", "post", "transfer", "close", "reverse", "update", "delete", "restore"}
  Crashes = TRUE
SPECIFICATION FairSpec
INVARIANTS FoldsSound NoPosterCycle
PROPERTIES StatusAdvances RequestsEnd
