SPECIFICATION Spec
CONSTANTS
  Rooms = {q1, q2}
  MaxStarts = 2
  MaxEvents = 4
  MaxErrors = 2
  Durable = TRUE
  OneSection = TRUE
  Patient = TRUE
CHECK_DEADLOCK FALSE
INVARIANTS
  TypeOK
  ExactlyOnce
  NoneSkipped
  StoreAgrees
  NoInvitationForgotten
SYMMETRY Interchangeable
