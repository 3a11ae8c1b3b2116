--------------------------- MODULE MCMatrixRooms ---------------------------
(* Small instances of a room; its users are interchangeable. *)
EXTENDS MatrixRooms, TLC

Interchangeable == Permutations(Users)
=============================================================================
