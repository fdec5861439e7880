----------------------------- MODULE VoteOutcome -----------------------------
(***************************************************************************)
(* What a vote promises a community, with no requests, rows, versions or   *)
(* retries in it: endorsements are counted once per account, enough of     *)
(* them open the vote, each account votes once while it is open, and the   *)
(* close publishes how many voted.  Every step is indivisible.             *)
(***************************************************************************)
EXTENDS Naturals, FiniteSets, VoteLifecycle

CONSTANTS Users, Mode, Threshold, None

VARIABLES phase, endorsers, voters, published

outcome == <<phase, endorsers, voters, published>>

Init ==
    /\ phase = "draft"
    /\ endorsers = {}
    /\ voters = {}
    /\ published = None

Propose ==
    /\ canTransition(phase, "proposed", Mode)
    /\ phase' = "proposed"
    /\ UNCHANGED <<endorsers, voters, published>>

Endorse(u) ==
    /\ phase = "proposed"
    /\ u \notin endorsers
    /\ endorsers' = endorsers \cup {u}
    /\ phase' = IF Cardinality(endorsers') < Threshold THEN "proposed"
                ELSE IF Mode = "direct" THEN "threshold_met" ELSE "active"
    /\ UNCHANGED <<voters, published>>

TakeBack(u) ==
    /\ phase = "proposed"
    /\ u \in endorsers
    /\ endorsers' = endorsers \ {u}
    /\ UNCHANGED <<phase, voters, published>>

Open ==
    /\ canTransition(phase, "active", Mode)
    /\ phase' = "active"
    /\ UNCHANGED <<endorsers, voters, published>>

Cast(u) ==
    /\ phase = "active"
    /\ u \notin voters
    /\ voters' = voters \cup {u}
    /\ UNCHANGED <<phase, endorsers, published>>

Publish ==
    /\ phase = "active"
    /\ phase' = "finalized"
    /\ published' = Cardinality(voters)
    /\ UNCHANGED <<endorsers, voters>>

Next ==
    \/ Propose \/ Open \/ Publish
    \/ \E u \in Users : Endorse(u) \/ TakeBack(u) \/ Cast(u)

Spec == Init /\ [][Next]_outcome

=============================================================================
