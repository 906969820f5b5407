-------------------------- MODULE MCDocumentStore --------------------------
(***************************************************************************)
(* A small document store for TLC: the callers are interchangeable.          *)
(***************************************************************************)
EXTENDS DocumentStore, TLC

CONSTANTS x1, x2

\* One content is twice as long as the other.
TwoSizes == (x1 :> 2) @@ (x2 :> 1)

Symmetry == Permutations(Clients)
=============================================================================
