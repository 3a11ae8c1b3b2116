SPECIFICATION Spec
CONSTANTS
  Rooms = {q1}
  MaxStarts = 1
  MaxEvents = 0
  MaxErrors = 4
  Durable = TRUE
  OneSection = TRUE
  Patient = TRUE
CHECK_DEADLOCK FALSE
INVARIANT RetriesSinceSuccess
