SPECIFICATION Spec
CONSTANTS
    Rooms = {"q1", "q2"}
    Listeners = {l1, l2}
    Answers <- MCAnswers
    MaxAnswers = 2
    MaxChanges = 5
    MaxRestarts = 1
INVARIANTS
    TypeOK
    SteadyHearAll
    InvitesFirst
    SeenInStore
    EmittedOnce
    LateAtMostOnce
SYMMETRY Interchangeable
CHECK_DEADLOCK FALSE
