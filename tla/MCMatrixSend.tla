---------------------------- MODULE MCMatrixSend ----------------------------
(* Small instances of sending; messages and rooms are interchangeable. *)
EXTENDS MatrixSend, TLC

Interchangeable == Permutations(Messages) \cup Permutations(Rooms)
=============================================================================
