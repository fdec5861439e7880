--------------------------- MODULE MCReviewQueue ---------------------------
(***************************************************************************)
(* ReviewQueue for TLC: requests of the same people are interchangeable.   *)
(***************************************************************************)
EXTENDS ReviewQueue, TLC

Symmetry == Permutations(CreatorRequests \ AdminRequests) \cup Permutations(AdminRequests \ CreatorRequests)

=============================================================================
