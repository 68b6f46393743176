\* One tab with two calls under way at a time; the role and the grants of its
\* user change.
CONSTANTS
  c1 = c1
  c2 = c2
  Call = {c1, c2}
  Profile <- MCProfile
  Visited = {"dashboard", "profile"}
  Watched = {"user.manage"}
  Null = Null
SPECIFICATION FairSpec
INVARIANTS TabSound NoFalseAlarm OfferedIsServed
PROPERTIES NavigationEnds CallsSettle RemovalArrives
CHECK_DEADLOCK FALSE
