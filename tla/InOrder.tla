------------------------------ MODULE InOrder ------------------------------
(***************************************************************************)
(* Sequences whose order is that of their places: Array.prototype.filter,  *)
(* and a homeserver that lists what happened.  They are defined by the     *)
(* cardinalities of sets rather than by SelectSeq, about which nothing can *)
(* be proved.                                                              *)
(***************************************************************************)
EXTENDS Naturals, Sequences, FiniteSets

UpTo(S, k) == {j \in S : j <= k}

\* The numbers of a finite set, from the least to the greatest.
InOrder(S) ==
    [i \in 1..Cardinality(S) |-> CHOOSE k \in S : Cardinality(UpTo(S, k)) = i]

\* What a sequence has at some of its places.
Pick(s, places) == [i \in 1..Cardinality(places) |-> s[InOrder(places)[i]]]
=============================================================================
