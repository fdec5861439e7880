--------------------------- MODULE MCVoteProcess ---------------------------
(***************************************************************************)
(* VoteProcess for TLC: accounts that are interchangeable, and receipts    *)
(* and threads, which always are.                                          *)
(***************************************************************************)
EXTENDS VoteProcess, TLC

Symmetry == Permutations(Users \ Admins) \cup Permutations(Receipts) \cup Permutations(Threads)

=============================================================================
