SPECIFICATION FairSpec
CONSTANTS
  Rooms = {q1}
  MaxStarts = 2
  MaxEvents = 3
  MaxErrors = 4
  Durable = TRUE
  OneSection = FALSE
  Patient = FALSE
CHECK_DEADLOCK FALSE
INVARIANT RetriesBeforeGivingUp
PROPERTY Arrives
