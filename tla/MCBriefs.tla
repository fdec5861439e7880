------------------------------ MODULE MCBriefs ------------------------------
(***************************************************************************)
(* Briefs for TLC: requests, and officials, are interchangeable.           *)
(***************************************************************************)
EXTENDS Briefs, TLC

Symmetry == Permutations(Requests) \cup Permutations(Officials)

=============================================================================
