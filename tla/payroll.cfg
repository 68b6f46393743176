\* Two runs for two people by two requests at a time.
CONSTANTS
  w1 = w1
  w2 = w2
  r1 = r1
  r2 = r2
  c1 = c1
  c2 = c2
  p1 = p1
  p2 = p2
  Worker = {w1, w2}
  Run = {r1, r2}
  Period = {c1, c2}
  Person = {p1, p2}
  Salary = {0, 3}
  Percent <- MCPercent
  None = None
SPECIFICATION Spec
SYMMETRY Symmetry
INVARIANTS RunsSound OneEntryPerRun PostedAsShown DraftsArePostable
