\* Two connections, four audit rows, commits and rollbacks.
CONSTANTS
  c1 = c1
  c2 = c2
  u1 = u1
  u2 = u2
  Conn = {c1, c2}
  User = {u1, u2}
  Data = {"write"}
  Zone = {"server"}
  ZoneOf <- MCZoneOf
  Genesis <- MCGenesis
  Hash <- MCHash
  None = None
  MaxId = 4
SPECIFICATION Spec
SYMMETRY Symmetry
INVARIANTS TypeOK ChainIntact NeverMisattributed
PROPERTIES GrowsAtEnd
CHECK_DEADLOCK FALSE
