------------------------- MODULE BackendRefinement -------------------------
(***************************************************************************)
(* The notification backend implements the account registry: its account   *)
(* table holds the rows, and the row a handler keeps in a local variable   *)
(* is the row its request holds.                                           *)
(***************************************************************************)
EXTENDS BackendInvariant

Registry == INSTANCE AccountRegistry WITH
    rows <- accounts, held <- found, shown <- [r \in Requests |-> reply[r].rows]

\* Every step of a handler is one step of the registry, or none: though a
\* register takes three statements and any other request may run between
\* them, and statements fail and pods die, clients see a registry whose
\* operations are atomic.
ImplementsRegistry == Registry!Spec
=============================================================================
