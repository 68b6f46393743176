\* Two records of each of the four kinds.
CONSTANTS
  Kind = {"projects", "customers", "tasks", "personnel"}
  r1 = r1
  r2 = r2
  n1 = n1
  n2 = n2
  u1 = u1
  Record = {r1, r2}
  Name = {n1, n2}
  User = {u1}
  None = None
SPECIFICATION Spec
SYMMETRY Symmetry
INVARIANTS RowsSound  OneCreatePerForm OwnWritesShown
PROPERTIES DeletedUntouched
