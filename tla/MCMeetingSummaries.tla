------------------------ MODULE MCMeetingSummaries ------------------------
(***************************************************************************)
(* MeetingSummaries for TLC: runs, and requests, are interchangeable.      *)
(***************************************************************************)
EXTENDS MeetingSummaries, TLC

Symmetry == Permutations(Runs) \cup Permutations(Requests)

=============================================================================
