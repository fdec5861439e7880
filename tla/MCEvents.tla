------------------------------ MODULE MCEvents ------------------------------
(***************************************************************************)
(* Events for TLC: requests, and people, are interchangeable.              *)
(***************************************************************************)
EXTENDS Events, TLC

Symmetry == Permutations(Requests) \cup Permutations(People)

=============================================================================
