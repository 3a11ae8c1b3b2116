SPECIFICATION Spec
CONSTANTS
  Users = {u1, u2}
  MaxEvents = 3
  MaxRepeats = 1
  MaxRestarts = 1
  None = None
CHECK_DEADLOCK FALSE
INVARIANTS
  TypeOK
  BatchingIrrelevant
  RoomExact
SYMMETRY Interchangeable
