----------------------------- MODULE ReviewQueue -----------------------------
(***************************************************************************)
(* One draft on its way to the public: its creator submits it, the hub     *)
(* queues it, admins decide, and an approval publishes it.  The draft, the *)
(* review, its turns, the process row and the type's own row are separate  *)
(* tables; a decision writes them in several calls, which interleave with  *)
(* the other requests.  A call may fail (Fail), take effect but be         *)
(* reported as failed (`lost`), or the invocation may die (Crash).         *)
(***************************************************************************)
EXTENDS Naturals, Sequences, FiniteSets

CONSTANTS
    CreatorRequests,    \* requests the creator can have in flight
    AdminRequests,      \* requests admins can have in flight
    Kinds,              \* the kinds of request made
    ProcessTypes,       \* what is submitted: "vote", "proposal" or "conversation"
    AutoApprove,        \* the creator's submissions are approved at once
    Productions,        \* whether the hub runs in production: there a descriptor violation is only reported
    MaxAttempts,        \* MAX_ACTION_ATTEMPTS
    MaxRequests,        \* bound: requests made
    MaxFailures,        \* bound: calls that fail and do nothing
    MaxLost,            \* bound: calls that take effect and are reported as failed
    MaxCrashes,         \* bound: invocations lost
    None

Threads == CreatorRequests \cup AdminRequests

CreatorKinds == {"submit", "resubmit", "revise", "withdraw", "reopen"}
AdminKinds == {"approve", "request_changes", "decline"}

ASSUME ReviewAssumption ==
    /\ IsFiniteSet(CreatorRequests) /\ IsFiniteSet(AdminRequests)
    /\ Kinds \subseteq CreatorKinds \cup AdminKinds
    /\ ProcessTypes \subseteq {"vote", "proposal", "conversation"}
    /\ AutoApprove \in BOOLEAN /\ Productions \subseteq BOOLEAN
    /\ MaxAttempts \in Nat \ {0} /\ MaxRequests \in Nat
    /\ MaxFailures \in Nat /\ MaxLost \in Nat /\ MaxCrashes \in Nat

ReviewStatuses == {"pending_review", "changes_requested", "approved", "declined", "withdrawn"}

\* The moves transitions.ts lists.
VALID_TRANSITIONS ==
    { <<"pending_review", "approved">>, <<"pending_review", "changes_requested">>,
      <<"pending_review", "declined">>, <<"pending_review", "withdrawn">>,
      <<"changes_requested", "pending_review">>, <<"changes_requested", "withdrawn">> }

Actions == {"submit", "approve", "request_changes", "decline", "revise_resubmit", "withdraw"}

Events == Actions \cup {"created", "announced"}

VARIABLES
    draft,      \* the draft's status
    review,     \* the review's status, None before there is one
    turns,      \* review_turns, in the order they were inserted
    proc,       \* the process row: status, version, its text, the type's own state begun
    own,        \* the type's own row (proposals) exists
    log,        \* events, counted
    req,        \* the requests in flight
    type,       \* the type of the process submitted
    production, \* the hub runs in production
    overlapped, \* history: two requests were in flight at once
    requests, failures, lost, crashes

setting == <<type, production>>
vars == <<draft, review, turns, proc, own, log, req, setting, overlapped, requests, failures, lost, crashes>>

faults == <<failures, lost, crashes>>

ProcStatuses == {"pending_review", "archived", "draft", "proposed", "active"}

Procs == [status : ProcStatuses, version : Nat, text : Nat, begun : BOOLEAN]

ASSUME NoneIsNothing ==
    None \notin ReviewStatuses \cup ProcStatuses \cup Procs \cup CreatorKinds \cup AdminKinds \cup {"auto"}

public == proc # None /\ proc.status \notin {"pending_review", "archived"}

PCs == {"idle", "draft", "claimDraft", "check", "submit", "release", "read", "load", "claim",
        "turn", "insert", "act", "activate", "live", "own", "announce", "emit", "start", "started",
        "archive", "columns", "snapshot", "status", "reopen", "undoReview", "undoProcess"}

RequestRecords ==
    [pc : PCs, kind : Kinds \cup {"auto", None}, loaded : Nat, from : ProcStatuses \cup {None},
     text : Nat, turn : Nat, attempt : 0..MaxAttempts, live : BOOLEAN]

newRequest(pc, kind) ==
    [pc |-> pc, kind |-> kind, loaded |-> 0, from |-> None, text |-> 0, turn |-> 0,
     attempt |-> 1, live |-> FALSE]

Idle == newRequest("idle", None)

Init ==
    /\ draft = "drafting"
    /\ review = None
    /\ turns = <<>>
    /\ proc = None
    /\ own = FALSE
    /\ log = [e \in Events |-> 0]
    /\ req = [t \in Threads |-> Idle]
    /\ type \in ProcessTypes /\ production \in Productions /\ overlapped = FALSE
    /\ requests = 0 /\ failures = 0 /\ lost = 0 /\ crashes = 0

-----------------------------------------------------------------------------
(***************************************************************************)
(* What a request does next, and what it does with an error.               *)
(***************************************************************************)
at(t, pc) == req[t].pc = pc

approving(q) == q.kind \in {"approve", "auto"}

\* Between the claim of the review and the end of the approval's try block.
holdsClaim(q) ==
    approving(q) /\ q.pc \in {"turn", "insert", "act", "activate", "live", "own", "announce", "emit"}

\* Mutant: a failed posting leaves the claim.
thrown_claimKept(q) ==
    IF q.kind \in {"submit", "resubmit"} /\ q.pc \notin {"draft", "claimDraft", "release"}
    THEN [q EXCEPT !.pc = "release"]
    ELSE Idle

\* The catch blocks: a submission releases its draft, an approval its claim.
thrown(q) ==
    CASE q.kind \in {"submit", "resubmit"} /\ q.pc \notin {"draft", "claimDraft", "release"} ->
             [q EXCEPT !.pc = "release"]
      [] holdsClaim(q) -> [q EXCEPT !.pc = "undoReview"]
      [] OTHER -> Idle

\* The call answers and the request goes on as q, or the answer is lost.
becomes(t, q) ==
    /\ \/ req' = [req EXCEPT ![t] = q] /\ UNCHANGED lost
       \/ /\ lost < MaxLost
          /\ lost' = lost + 1
          /\ req' = [req EXCEPT ![t] = thrown(req[t])]
    /\ UNCHANGED <<setting, overlapped, requests, failures, crashes>>

goto(t, pc) == becomes(t, [req[t] EXCEPT !.pc = pc])

finish(t) == becomes(t, Idle)

\* The code throws: nothing of the request's own is lost or in doubt.
throw(t) ==
    /\ req' = [req EXCEPT ![t] = thrown(req[t])]
    /\ UNCHANGED <<setting, overlapped, requests, faults>>

emit(e) == log' = [log EXCEPT ![e] = @ + 1]

\* The routes of reviewController and the draft's submit route.
firstStep(kind) == IF kind \in {"submit", "resubmit"} THEN "draft" ELSE "read"

Begin(t, kind) ==
    /\ at(t, "idle")
    /\ requests < MaxRequests
    /\ kind \in CreatorKinds => t \in CreatorRequests
    /\ kind \in AdminKinds => t \in AdminRequests
    /\ kind # "submit" => review # None
    /\ requests' = requests + 1
    /\ overlapped' = (overlapped \/ \E other \in Threads \ {t} : ~at(other, "idle"))
    /\ req' = [req EXCEPT ![t] = newRequest(firstStep(kind), kind)]
    /\ UNCHANGED <<draft, review, turns, proc, own, log, setting, faults>>

-----------------------------------------------------------------------------
(***************************************************************************)
(* Submitting a draft (draftController.submit).                            *)
(***************************************************************************)
ownDraft(t) ==
    /\ at(t, "draft")
    /\ IF draft = "drafting" THEN goto(t, "claimDraft") ELSE throw(t)
    /\ UNCHANGED <<draft, review, turns, proc, own, log>>

claimDraftForSubmission(t) ==
    /\ at(t, "claimDraft")
    /\ IF draft = "drafting"
       THEN draft' = "submitted" /\ goto(t, "check")
       ELSE throw(t) /\ UNCHANGED draft
    /\ UNCHANGED <<review, turns, proc, own, log>>

\* The Code of Conduct check, an AI service: the text passes, or is refused.
codeOfConduct(t) ==
    /\ at(t, "check")
    /\ \/ goto(t, IF req[t].kind = "submit" THEN "submit" ELSE "read")
       \/ throw(t)
    /\ UNCHANGED <<draft, review, turns, proc, own, log>>

\* submitForReview: the process as it is queued (written, then given its review).
submitted == [status |-> "pending_review", version |-> 1, text |-> 0, begun |-> FALSE]

\* An admin's own submission goes on to be approved; a failure there is not the submitter's.
submitAsCreator == IF AutoApprove THEN newRequest("read", "auto") ELSE Idle

\* Mutant: no unique index on the draft.
submit_for_review_noIndex(t) ==
    /\ at(t, "submit")
    /\ review' = "pending_review"
    /\ proc' = submitted
    /\ turns' = <<[number |-> 1, action |-> "submit", text |-> 0]>>
    /\ emit("submit")
    /\ becomes(t, submitAsCreator)
    /\ UNCHANGED <<draft, own>>

\* One transaction: the process, the review, its first turn and the event; refused by
\* process_reviews_one_per_draft when the draft is queued already (and stays submitted).
submit_for_review(t) ==
    /\ at(t, "submit")
    /\ IF review = None
       THEN /\ review' = "pending_review"
            /\ proc' = submitted
            /\ turns' = <<[number |-> 1, action |-> "submit", text |-> 0]>>
            /\ emit("submit")
            /\ becomes(t, submitAsCreator)
       ELSE finish(t) /\ UNCHANGED <<review, proc, turns, log>>
    /\ UNCHANGED <<draft, own>>

releaseDraft(t) ==
    /\ at(t, "release")
    /\ draft' = "drafting"
    /\ finish(t)
    /\ UNCHANGED <<review, turns, proc, own, log>>

-----------------------------------------------------------------------------
(***************************************************************************)
(* Every decision starts from a read of the review.                        *)
(***************************************************************************)
\* Mutant: a revision is taken while the review is pending too.
mayDecide_revisePending(kind) ==
    CASE kind \in {"approve", "auto", "request_changes", "decline"} -> review = "pending_review"
      [] OTHER -> review \in {"pending_review", "changes_requested"}

mayDecide(kind) ==
    CASE kind \in {"approve", "auto", "request_changes", "decline"} -> review = "pending_review"
      [] kind = "withdraw" -> review \in {"pending_review", "changes_requested"}
      [] OTHER -> review = "changes_requested"

\* Mutant: a decline or a withdrawal does not archive the process.
afterRead_noArchive(kind) ==
    CASE kind \in {"approve", "auto"}     -> "load"
      [] kind \in {"revise", "resubmit"}  -> "columns"
      [] kind = "reopen"                  -> "reopen"
      [] OTHER                            -> "status"

afterRead(kind) ==
    CASE kind \in {"approve", "auto"}     -> "load"
      [] kind \in {"decline", "withdraw"} -> "archive"
      [] kind \in {"revise", "resubmit"}  -> "columns"
      [] kind = "reopen"                  -> "reopen"
      [] kind = "request_changes"         -> "status"

getReview(t) ==
    /\ at(t, "read")
    /\ IF mayDecide(req[t].kind) THEN goto(t, afterRead(req[t].kind)) ELSE throw(t)
    /\ UNCHANGED <<draft, review, turns, proc, own, log>>

archiveProcessRow(t) ==
    /\ at(t, "archive")
    /\ proc' = [proc EXCEPT !.status = "archived", !.version = @ + 1]
    /\ goto(t, "status")
    /\ UNCHANGED <<draft, review, turns, own, log>>

\* A revision writes the text; one made from the draft makes the type's state anew.
updateProcessColumns(t) ==
    /\ at(t, "columns")
    /\ proc' = [proc EXCEPT !.version = @ + 1, !.text = @ + 1,
                            !.begun = @ /\ req[t].kind # "resubmit"]
    /\ goto(t, "snapshot")
    /\ UNCHANGED <<draft, review, turns, own, log>>

readProcessForSnapshot(t) ==
    /\ at(t, "snapshot")
    /\ becomes(t, [req[t] EXCEPT !.pc = "status", !.text = proc.text])
    /\ UNCHANGED <<draft, review, turns, proc, own, log>>

decided(kind) ==
    CASE kind = "request_changes" -> "changes_requested"
      [] kind = "decline"         -> "declined"
      [] kind = "withdraw"        -> "withdrawn"
      [] OTHER                    -> "pending_review"

\* The review is written without looking at what it has become since the read.
updateReview(t) ==
    /\ at(t, "status")
    /\ review' = decided(req[t].kind)
    /\ goto(t, "turn")
    /\ UNCHANGED <<draft, turns, proc, own, log>>

reopenForRevision(t) ==
    /\ at(t, "reopen")
    /\ draft' = "drafting"
    /\ finish(t)
    /\ UNCHANGED <<review, turns, proc, own, log>>

-----------------------------------------------------------------------------
(***************************************************************************)
(* Turns: numbered one after the latest, read before it is inserted.       *)
(***************************************************************************)
latestTurnNumber == CHOOSE n \in {turns[i].number : i \in DOMAIN turns} :
                        \A i \in DOMAIN turns : turns[i].number <= n

actionOf(kind) ==
    CASE kind \in {"approve", "auto"}    -> "approve"
      [] kind \in {"revise", "resubmit"} -> "revise_resubmit"
      [] OTHER                           -> kind

getNextTurnNumber(t) ==
    /\ at(t, "turn")
    /\ becomes(t, [req[t] EXCEPT !.pc = "insert", !.turn = latestTurnNumber + 1])
    /\ UNCHANGED <<draft, review, turns, proc, own, log>>

\* After an approval's turn the process goes live: a vote by an action that must run, the
\* others by one write.
insertTurn(t) ==
    LET q == req[t]
    IN  /\ at(t, "insert")
        /\ turns' = Append(turns, [number |-> q.turn, action |-> actionOf(q.kind), text |-> q.text])
        /\ goto(t, IF ~approving(q) THEN "emit" ELSE IF type = "vote" THEN "act" ELSE "live")
        /\ UNCHANGED <<draft, review, proc, own, log>>

\* The restricted review event ends the decision; a conversation is then started.
emitReviewEvent(t) ==
    LET q == req[t]
    IN  /\ at(t, "emit")
        /\ emit(actionOf(q.kind))
        /\ IF approving(q) /\ type = "conversation" THEN goto(t, "start") ELSE finish(t)
        /\ UNCHANGED <<draft, review, turns, proc, own>>

-----------------------------------------------------------------------------
(***************************************************************************)
(* Approving.                                                              *)
(***************************************************************************)
readProcessRow(t) ==
    /\ at(t, "load")
    /\ becomes(t, [req[t] EXCEPT !.pc = "claim", !.loaded = proc.version])
    /\ UNCHANGED <<draft, review, turns, proc, own, log>>

\* Mutant: the claim is a plain update.
claimPendingReview_unconditional(t) ==
    /\ at(t, "claim")
    /\ review' = "approved"
    /\ goto(t, "turn")
    /\ UNCHANGED <<draft, turns, proc, own, log>>

\* Mutant: the process goes live before the approval is on record.
claimPendingReview_turnLater(t) ==
    /\ at(t, "claim")
    /\ IF review = "pending_review"
       THEN review' = "approved" /\ goto(t, IF type = "vote" THEN "act" ELSE "live")
       ELSE throw(t) /\ UNCHANGED review
    /\ UNCHANGED <<draft, turns, proc, own, log>>

claimPendingReview(t) ==
    /\ at(t, "claim")
    /\ IF review = "pending_review"
       THEN review' = "approved" /\ goto(t, "turn")
       ELSE throw(t) /\ UNCHANGED review
    /\ UNCHANGED <<draft, turns, proc, own, log>>

\* A vote by endorsements is proposed; the others rest where their handlers say.
activationOnApproval == CASE type = "vote"         -> "proposed"
                          [] type = "conversation" -> "draft"
                          [] type = "proposal"     -> "active"

\* Mutant: the type's own state is not asked.
attemptActivation_unchecked(t) ==
    /\ at(t, "act")
    /\ becomes(t, [req[t] EXCEPT !.pc = "activate", !.loaded = proc.version, !.from = proc.status])
    /\ UNCHANGED <<draft, review, turns, proc, own, log>>

\* executeAction as "system": process.propose, from whatever status the row has now, on a
\* vote whose own state is still a draft.
attemptActivation(t) ==
    /\ at(t, "act")
    /\ IF proc.begun
       THEN throw(t)
       ELSE becomes(t, [req[t] EXCEPT !.pc = "activate", !.loaded = proc.version, !.from = proc.status])
    /\ UNCHANGED <<draft, review, turns, proc, own, log>>

descriptorRefuses(q) == ~production /\ q.from \notin {"draft", "pending_review"}

\* The activation's own transaction, with the created event leading; a lost race is retried.
activate(t) ==
    LET q == req[t]
    IN  /\ at(t, "activate")
        /\ IF ~descriptorRefuses(q) /\ proc.version = q.loaded
           THEN /\ proc' = [proc EXCEPT !.status = activationOnApproval, !.version = @ + 1, !.begun = TRUE]
                /\ emit("created")
                /\ becomes(t, [q EXCEPT !.pc = "emit", !.live = TRUE])
           ELSE /\ IF ~descriptorRefuses(q) /\ q.attempt < MaxAttempts
                   THEN becomes(t, [q EXCEPT !.pc = "act", !.attempt = @ + 1])
                   ELSE throw(t)
                /\ UNCHANGED <<proc, log>>
        /\ UNCHANGED <<draft, review, turns, own>>

\* transition_process on the version loaded before the claim; a type with a row of its
\* own announces itself there.
goLive(t) ==
    LET q == req[t]
    IN  /\ at(t, "live")
        /\ IF proc.status = "pending_review" /\ proc.version = q.loaded
           THEN /\ proc' = [proc EXCEPT !.status = activationOnApproval, !.version = @ + 1]
                /\ IF type = "proposal"
                   THEN becomes(t, [q EXCEPT !.pc = "own", !.live = TRUE]) /\ UNCHANGED log
                   ELSE becomes(t, [q EXCEPT !.pc = "emit", !.live = TRUE]) /\ emit("created")
           ELSE throw(t) /\ UNCHANGED <<proc, log>>
        /\ UNCHANGED <<draft, review, turns, own>>

\* Mutant: the type's row is made over an existing one.
onApproved_upsert(t) ==
    /\ at(t, "own")
    /\ own' = TRUE
    /\ goto(t, "announce")
    /\ UNCHANGED <<draft, review, turns, proc, log>>

\* createProposal: the row has the process's id, so there is one.
onApproved(t) ==
    /\ at(t, "own")
    /\ IF own THEN throw(t) ELSE goto(t, "announce")
    /\ own' = TRUE
    /\ UNCHANGED <<draft, review, turns, proc, log>>

emitProposalSubmitted(t) ==
    /\ at(t, "announce")
    /\ emit("announced")
    /\ goto(t, "emit")
    /\ UNCHANGED <<draft, review, turns, proc, own>>

\* Best effort, after the approval: the handler takes a start from draft only; Polis is
\* asked, then the row written as it was read.
startConversation(t) ==
    /\ at(t, "start")
    /\ IF proc.status = "draft"
       THEN becomes(t, [req[t] EXCEPT !.pc = "started", !.loaded = proc.version])
       ELSE throw(t)
    /\ UNCHANGED <<draft, review, turns, proc, own, log>>

conversationStarted(t) ==
    /\ at(t, "started")
    /\ proc' = IF proc.version = req[t].loaded
               THEN [proc EXCEPT !.status = "active", !.version = @ + 1] ELSE proc
    /\ finish(t)
    /\ UNCHANGED <<draft, review, turns, own, log>>

\* The catch block: first the review, then the process if it went live.
undoReview(t) ==
    /\ at(t, "undoReview")
    /\ review' = "pending_review"
    /\ IF req[t].live THEN goto(t, "undoProcess") ELSE finish(t)
    /\ UNCHANGED <<draft, turns, proc, own, log>>

undoProcess(t) ==
    /\ at(t, "undoProcess")
    /\ proc' = [proc EXCEPT !.status = "pending_review", !.version = @ + 1]
    /\ finish(t)
    /\ UNCHANGED <<draft, review, turns, own, log>>

-----------------------------------------------------------------------------
\* A call fails and nothing of it happened.
Fail(t) ==
    /\ ~at(t, "idle")
    /\ failures < MaxFailures
    /\ failures' = failures + 1
    /\ req' = [req EXCEPT ![t] = thrown(req[t])]
    /\ UNCHANGED <<draft, review, turns, proc, own, log, setting, overlapped, requests, lost, crashes>>

\* The invocation dies: no catch block runs.
Crash(t) ==
    /\ ~at(t, "idle")
    /\ crashes < MaxCrashes
    /\ crashes' = crashes + 1
    /\ req' = [req EXCEPT ![t] = Idle]
    /\ UNCHANGED <<draft, review, turns, proc, own, log, setting, overlapped, requests, failures, lost>>

Step(t) ==
    \/ ownDraft(t) \/ claimDraftForSubmission(t) \/ codeOfConduct(t) \/ submit_for_review(t)
    \/ releaseDraft(t) \/ getReview(t) \/ archiveProcessRow(t) \/ updateProcessColumns(t)
    \/ readProcessForSnapshot(t) \/ updateReview(t) \/ reopenForRevision(t)
    \/ getNextTurnNumber(t) \/ insertTurn(t) \/ emitReviewEvent(t)
    \/ readProcessRow(t) \/ claimPendingReview(t) \/ attemptActivation(t) \/ activate(t)
    \/ goLive(t) \/ onApproved(t) \/ emitProposalSubmitted(t)
    \/ startConversation(t) \/ conversationStarted(t) \/ undoReview(t) \/ undoProcess(t)

Next == \E t \in Threads : Step(t) \/ Fail(t) \/ Crash(t) \/ \E kind \in Kinds : Begin(t, kind)

Spec == Init /\ [][Next]_vars

-----------------------------------------------------------------------------
(***************************************************************************)
(* What may be relied on.                                                  *)
(***************************************************************************)
\* Every variable keeps its shape.
TypeOK ==
    /\ draft \in {"drafting", "submitted"}
    /\ review \in ReviewStatuses \cup {None}
    /\ turns \in Seq([number : Nat, action : Actions, text : Nat])
    /\ proc \in Procs \cup {None}
    /\ own \in BOOLEAN
    /\ log \in [Events -> Nat]
    /\ req \in [Threads -> RequestRecords]
    /\ type \in ProcessTypes /\ production \in Productions /\ overlapped \in BOOLEAN
    /\ requests \in Nat /\ failures \in Nat /\ lost \in Nat /\ crashes \in Nat

\* No call failed, no answer was lost and no invocation died.
unbroken == failures = 0 /\ lost = 0 /\ crashes = 0

quiet == \A t \in Threads : at(t, "idle")

\* A draft is in the queue once: two tabs, a repeated submit after a lost answer or a
\* released claim never queue it again (submit_for_review, process_reviews_one_per_draft).
\* And it is not stranded: it is left "submitted" only when there is a review of it, so one
\* the check refused can be submitted again, unless a call failed or an invocation died.
QueuedOnce ==
    /\ log["submit"] = IF review = None THEN 0 ELSE 1
    /\ quiet /\ unbroken /\ draft = "submitted" => review # None

\* However often an approval fails after it went live and is made again, a proposal is
\* announced to the public once (its own row refuses the second), and a vote once for each
\* text (its own state refuses, until a resubmitted draft makes it anew).
AnnouncedOnce ==
    LET announced == log["created"] + log["announced"] IN
    /\ type = "proposal" => announced <= 1
    /\ type = "vote" /\ proc # None => announced <= 1 + proc.text

\* Whatever is public was approved first, and the approval is on the record.
ApprovalOnRecord == public => \E i \in DOMAIN turns : turns[i].action = "approve"

\* Two admins approving at once, one of them failing and giving its claim back: only one
\* of them is ever past the claim (claimPendingReview), while nobody revises.  A revision
\* on its way puts the review back in the queue whatever it has become (updateReview), and
\* a second approval may then claim it.
ClaimExclusive == Cardinality({t \in Threads : holdsClaim(req[t])}) <= 1

\* A review does not stay approved with nothing posted when one step of its approval
\* failed (approveReview's catch block).
ApprovedIsPosted ==
    quiet /\ review = "approved" /\ failures <= 1 /\ lost = 0 /\ crashes = 0 =>
        public /\ (type = "proposal" => own)

\* Decisions made one after another leave the review, the process and the record in
\* agreement, each turn under its own number, in order.
DecisionsAgree ==
    quiet /\ unbroken /\ ~overlapped /\ review # None =>
        /\ public <=> review = "approved"
        /\ proc.status = "archived" <=> review \in {"declined", "withdrawn"}
        /\ \A i \in DOMAIN turns : turns[i].number = i
        /\ \A a \in Actions : log[a] = Cardinality({i \in DOMAIN turns : turns[i].action = a})

\* A revision never rewrites, or sends back, what is already public, while creator and
\* admin each have one request in flight, no call failed and no invocation died: the
\* public sees the text that was approved.
PublicTextKept ==
    [][public /\ unbroken =>
         proc'.text = proc.text /\ proc'.begun = proc.begun]_vars

-----------------------------------------------------------------------------
(***************************************************************************)
(* What the code's comments and tables say, where the code does something  *)
(* else.                                                                   *)
(***************************************************************************)
\* transitions.ts: a review moves as VALID_TRANSITIONS lists, or back from an approval that
\* failed.
FollowsTransitions ==
    [][review # None /\ review' # review =>
         <<review, review'>> \in VALID_TRANSITIONS \cup {<<"approved", "pending_review">>}]_vars

\* "so the admin can retry cleanly" (approveReview): a review put back in the queue can be
\* approved, as far as the vote's own state goes.
RetryIsClean ==
    quiet /\ review = "pending_review" /\ type = "vote" => ~proc.begun

=============================================================================
