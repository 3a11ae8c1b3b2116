--------------------------- MODULE MCMatrixClient ---------------------------
(* Small instances of the matrix client; its rooms are interchangeable. *)
EXTENDS MatrixClientProperties, TLC

Interchangeable == Permutations(Rooms)
=============================================================================
