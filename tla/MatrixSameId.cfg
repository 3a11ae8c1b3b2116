SPECIFICATION Spec
CONSTANTS
  Messages = {m1, m2}
  Rooms = {q1}
  MaxTime = 1
  MaxRestarts = 0
  MaxErrors = 0
CHECK_DEADLOCK FALSE
INVARIANT Sent
