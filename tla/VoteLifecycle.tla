---------------------------- MODULE VoteLifecycle ----------------------------
(***************************************************************************)
(* The lifecycle rules of a process, and of the civic.vote type: which     *)
(* statuses there are, which are public, which take actions, which moves   *)
(* the vote's own state machine allows, and what the type's descriptor     *)
(* declares about each action.  No state of its own.                       *)
(***************************************************************************)

\* The statuses a vote keeps inside its own state (state.status).
VoteStatuses == {"draft", "proposed", "threshold_met", "active", "closed", "finalized"}

\* The statuses a vote's row in `processes` can have.
NON_PUBLIC_STATUSES == {"pending_review", "archived"}
ProcessStatuses == VoteStatuses \cup NON_PUBLIC_STATUSES

isPubliclyFetchable(status) == status \notin NON_PUBLIC_STATUSES

isActionable(status) == status # "finalized"

isTerminalStatus(status) == status \in {"closed", "finalized"}

ActivationModes == {"direct", "proposal_required"}

\* The one difference between the two paths is what a draft may become.
getTransitions(mode) ==
    { <<"proposed", "threshold_met">>, <<"threshold_met", "active">>,
      <<"active", "closed">>, <<"closed", "finalized">> }
    \cup IF mode = "direct" THEN {<<"draft", "active">>}
                            ELSE {<<"draft", "proposed">>}

canTransition(from, to, mode) == <<from, to>> \in getTransitions(mode)

isVotingOpen(status) == status = "active"

isAcceptingSupport(status) == status = "proposed"

-----------------------------------------------------------------------------
(***************************************************************************)
(* The descriptor of civic.vote: the row statuses each action declares it  *)
(* runs from, and those it may leave the row in (`to: null` is "where it   *)
(* was").                                                                  *)
(***************************************************************************)
declaredFrom(action) ==
    CASE action = "propose"   -> {"draft", "pending_review"}
      [] action = "support"   -> {"proposed"}
      [] action = "unsupport" -> {"proposed"}
      [] action = "activate"  -> {"draft", "threshold_met", "pending_review"}
      [] action = "vote"      -> {"active"}
      [] action = "close"     -> {"active"}

allowedTargets(action, from) ==
    CASE action = "propose"   -> {"proposed"}
      [] action = "support"   -> {"proposed", "active"}
      [] action = "unsupport" -> {from}
      [] action = "activate"  -> {"active"}
      [] action = "vote"      -> {from}
      [] action = "close"     -> {"finalized"}

\* Actions run again on a fresh read when another write won.
retrySafeActions == {"propose", "support", "unsupport", "activate", "close"}

=============================================================================
