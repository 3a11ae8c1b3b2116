SPECIFICATION Spec
CONSTANTS
  Messages = {m1, m2, m3}
  Rooms = {q1, q2}
  MaxTime = 3
  MaxRestarts = 1
  MaxErrors = 1
CHECK_DEADLOCK FALSE
INVARIANTS
  TypeOK
  LostOnlyByOverlap
  CounterAhead
SYMMETRY Interchangeable
