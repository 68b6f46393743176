\* Two requests at a time over two accounts, any of them cut off between two
\* statements.
CONSTANTS
  w1 = w1
  w2 = w2
  u1 = u1
  u2 = u2
  a1 = a1
  a2 = a2
  s1 = s1
  s2 = s2
  Worker = {w1, w2}
  User = {u1, u2}
  Email = {a1, a2}
  CeoEmail = a1
  Secret = {s1, s2}
  LockAfter = 2
  MaxEnrolled = 1
  None = None
SPECIFICATION Spec
SYMMETRY Symmetry
INVARIANTS AccountsSound GuessesBounded EnabledIsVerified
CHECK_DEADLOCK FALSE
