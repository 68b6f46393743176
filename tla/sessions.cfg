\* Two requests at a time on two sessions of one user, an administrator who
\* resets the password, and crashes between two statements.
CONSTANTS
  Worker = {1, 2}
  MaxToken = 3
  MaxFamily = 2
  MaxPw = 2
  Crashes = TRUE
  None = None
SPECIFICATION Spec
INVARIANTS TokensSound SessionsSound
PROPERTIES DeadStaysDead
CHECK_DEADLOCK FALSE
