--------------------------- MODULE MCMatrixEvents ---------------------------
(* Answers with several events: two messages of a room, an invitation after  *)
(* the messages of another room in the answer, two invitations, messages of a *)
(* room the client left.                                                      *)
EXTENDS MatrixEvents, TLC

RoomOf(room, status, n) == [id |-> room, status |-> status, messages |-> n]

MCAnswers ==
    { << RoomOf("q1", "joined", 2) >>,
      << RoomOf("q1", "joined", 1), RoomOf("q2", "invited", 0) >>,
      << RoomOf("q1", "invited", 0), RoomOf("q2", "left", 1) >>,
      << RoomOf("q2", "invited", 0), RoomOf("q1", "invited", 0) >>,
      << >> }

Interchangeable == Permutations(Listeners)
=============================================================================
