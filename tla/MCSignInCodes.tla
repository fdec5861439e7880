-------------------------- MODULE MCSignInCodes --------------------------
(***************************************************************************)
(* SignInCodes for TLC: requests are interchangeable, and so are IPs.      *)
(***************************************************************************)
EXTENDS SignInCodes, TLC

Symmetry == Permutations(Requests) \cup Permutations(IPs)

=============================================================================
