------------------------------ MODULE MCDigest ------------------------------
(***************************************************************************)
(* Digest for TLC: each user's frequency.                                  *)
(***************************************************************************)
EXTENDS Digest, TLC

Daily == [u \in Users |-> 1]

=============================================================================
