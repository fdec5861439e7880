----------------------------- MODULE VoteProcess -----------------------------
(***************************************************************************)
(* One vote on one hub, as the engine runs it: the vote's row in           *)
(* `processes`, its ballots and poll book, its event log and its brief in  *)
(* Postgres, and the requests (serverless invocations) that act on them at *)
(* the same time.  A database function or a single UPDATE is one atomic    *)
(* step; everything a request does between two of them is interleaved with *)
(* the other requests, and a request may be lost at any point.             *)
(*                                                                         *)
(* Requests are residents endorsing and voting, admins driving the         *)
(* lifecycle, archiving and restoring, and the hourly deadline job.        *)
(***************************************************************************)
EXTENDS Naturals, FiniteSets, VoteLifecycle

CONSTANTS
    Users,          \* accounts of the hub
    Admins,         \* those that hold the admin role
    Receipts,       \* receipt ids cast_ballot can hand out (uuids)
    Choices,        \* what a ballot can say
    Threads,        \* requests that can be in flight at once
    Kinds,          \* the kinds of request made
    Mode,           \* state.config.activation_mode
    Threshold,      \* state.config.support_threshold
    Productions,    \* the environments the hub is run in: isProductionEnv()
    BriefsOn,       \* the brief plugin is on for the hub
    MaxAttempts,    \* MAX_ACTION_ATTEMPTS
    MaxRequests,    \* bound: requests people make
    MaxCrashes,     \* bound: requests lost part way
    None            \* "no value" (SQL NULL)

ASSUME ConstantsAssumption ==
    /\ IsFiniteSet(Users) /\ Admins \subseteq Users
    /\ IsFiniteSet(Receipts) /\ None \notin Receipts
    /\ Mode \in ActivationModes
    /\ Threshold \in Nat
    /\ Productions \subseteq BOOLEAN /\ BriefsOn \in BOOLEAN
    /\ MaxAttempts \in Nat \ {0} /\ MaxRequests \in Nat /\ MaxCrashes \in Nat

ASSUME KindsAssumption ==
    Kinds \subseteq {"propose", "support", "unsupport", "activate", "vote",
                     "close", "archive", "restore", "deadline"}

VARIABLES
    row,        \* the vote's row: status, version, state
    claim,      \* close_claimed_until is in the future
    ballots,    \* vote_records: receipt -> choice
    voted,      \* vote_participation: who has voted
    log,        \* events about the vote and its brief, counted by type
    brief,      \* the brief spawned from the vote: the tally it shows
    past,       \* the clock is past state.voting_closes_at
    browser,    \* the receipt (and its change key) each user's browser holds
    req,        \* the requests in flight
    requests,   \* requests made so far
    crashes,    \* requests lost so far
    production  \* a descriptor violation is only reported; never changes

vars == <<row, claim, ballots, voted, log, brief, past, browser, req, requests, crashes, production>>

\* "updated" and "unarchived" are both civic.process.updated, whose data has the status the
\* row was moved from: "unarchived" is an action's that found the row archived.
EventTypes == {"proposed", "threshold_met", "started", "vote_submitted", "ended",
               "aggregation_completed", "result_published", "updated",
               "removed", "restored", "moderation", "unarchived",
               "brief_created", "brief_aggregation_completed"}

-----------------------------------------------------------------------------
(***************************************************************************)
(* The shapes of the data.                                                 *)
(***************************************************************************)
Tallies == [tally : [Choices -> Nat], total_votes : Nat]

ArchiveMeta == [previous_status : ProcessStatuses, announced : BOOLEAN]

ASSUME NoneAssumption == None \notin Tallies /\ None \notin ArchiveMeta

VoteStates ==
    [status : VoteStatuses, supporters : SUBSET Users, total_votes : Nat,
     opened : BOOLEAN, result : Tallies \cup {None}, closed_early : BOOLEAN,
     archive : ArchiveMeta \cup {None}]

Rows == [status : ProcessStatuses, version : Nat, state : VoteStates]

Snapshots == [status : ProcessStatuses, version : Nat, state : VoteStates, early : BOOLEAN]

PCs == {"idle", "attempt", "ballots", "write", "check", "cast", "reply", "claim",
        "after", "find", "spawn", "created", "aggregated"}

RequestRecords ==
    [pc : PCs, kind : Kinds \cup {None}, actor : Users \cup {None}, choice : Choices \cup {None},
     held : Receipts \cup {None}, attempt : 0..MaxAttempts, snap : Snapshots \cup {None},
     tally : Tallies \cup {None}]

\* computeTally: votes per choice, and how many ballots there are.
computeTally(b) ==
    [ tally |-> [c \in Choices |-> Cardinality({r \in DOMAIN b : b[r] = c})],
      total_votes |-> Cardinality(DOMAIN b) ]

emit(types) == log' = [e \in EventTypes |-> log[e] + IF e \in types THEN 1 ELSE 0]

-----------------------------------------------------------------------------
(***************************************************************************)
(* Requests.                                                               *)
(***************************************************************************)
newRequest(pc, kind, u, choice, held, n) ==
    [pc |-> pc, kind |-> kind, actor |-> u, choice |-> choice, held |-> held, attempt |-> n,
     snap |-> None, tally |-> None]

Idle == newRequest("idle", None, None, None, None, 0)

at(t, pc) == req[t].pc = pc

goto(t, pc) == req' = [req EXCEPT ![t].pc = pc]

finish(t) == req' = [req EXCEPT ![t] = Idle]

actionOf(kind) == IF kind = "deadline" THEN "close" ELSE kind

callerOf(q) == IF q.kind = "deadline" THEN "system"
               ELSE IF q.actor \in Admins THEN "admin" ELSE "resident"

\* createVoteState: a draft nobody has acted on.
createVoteState ==
    [status |-> "draft", supporters |-> {}, total_votes |-> 0, opened |-> FALSE,
     result |-> None, closed_early |-> FALSE, archive |-> None]

\* Made directly (createProcess), or submitted and waiting for review.
Init ==
    /\ row \in [status : {"draft", "pending_review"}, version : {0}, state : {createVoteState}]
    /\ claim = FALSE
    /\ ballots = <<>>
    /\ voted = {}
    /\ log = [e \in EventTypes |-> 0]
    /\ brief = None
    /\ past = FALSE
    /\ browser = [u \in Users |-> None]
    /\ req = [t \in Threads |-> Idle]
    /\ requests = 0
    /\ crashes = 0
    /\ production \in Productions

(***************************************************************************)
(* actOnProcess (and the admin archive routes): the gate is decided on a   *)
(* read of its own.  A resident gets no further on a row that is not       *)
(* public; only an admin is let through to the lifecycle actions.          *)
(***************************************************************************)
mayAct(kind, u) ==
    /\ kind \in {"propose", "activate", "close", "archive", "restore"} => u \in Admins
    /\ u \notin Admins => isPubliclyFetchable(row.status)

actOnProcess(t, kind, u, choice, held) ==
    /\ at(t, "idle")
    /\ requests < MaxRequests
    /\ mayAct(kind, u)
    /\ requests' = requests + 1
    /\ req' = [req EXCEPT ![t] = newRequest("attempt", kind, u, choice, held, 1)]
    /\ UNCHANGED <<row, claim, ballots, voted, log, brief, past, browser, crashes, production>>

Act(t) ==
    \E kind \in Kinds \ {"vote", "deadline"}, u \in Users :
        actOnProcess(t, kind, u, None, None)

\* A ballot, alone or with a receipt some browser holds (a shared one included).
Vote(t) ==
    /\ "vote" \in Kinds
    /\ \E u \in Users, c \in Choices, h \in {None} \cup {browser[v] : v \in Users} :
           actOnProcess(t, "vote", u, c, h)

(***************************************************************************)
(* attemptAction, its first half: the row is read again and the refusals   *)
(* that rest on that read are decided.  `early` (closeEarly.ts) is taken   *)
(* from the same read of the clock.                                        *)
(***************************************************************************)
\* The handler's own conditions (service.ts), on the state that was read.
handlerAccepts(action, u, st) ==
    CASE action = "propose"   -> canTransition(st.status, "proposed", Mode)
      [] action = "support"   -> isAcceptingSupport(st.status) /\ u \notin st.supporters
      [] action = "unsupport" -> isAcceptingSupport(st.status) /\ u \in st.supporters
      [] action = "activate"  -> canTransition(st.status, "active", Mode)
      [] action = "vote"      -> isVotingOpen(st.status)
      [] action = "close"     -> canTransition(st.status, "closed", Mode)

readAsClosed(st) == st.status = "active" /\ past

\* An archive of an archived row, or a restore of any other, is a no-op.
accepts(q) ==
    CASE q.kind = "archive" -> row.status # "archived"
      [] q.kind = "restore" -> row.status = "archived"
      [] OTHER -> /\ isActionable(row.status)
                  /\ callerOf(q) = "resident" => ~readAsClosed(row.state)
                  /\ handlerAccepts(actionOf(q.kind), q.actor, row.state)

earlyCloseOf(q) == callerOf(q) = "admin" /\ row.state.opened /\ ~past

nextStep(kind) ==
    CASE actionOf(kind) = "close" -> "ballots"
      [] kind = "vote"            -> "check"
      [] OTHER                    -> "write"

attemptAction(t) ==
    LET q == req[t]
        snap == [status |-> row.status, version |-> row.version, state |-> row.state,
                 early |-> earlyCloseOf(q)]
    IN  /\ at(t, "attempt")
        /\ req' = [req EXCEPT ![t] = IF accepts(q)
                                     THEN [q EXCEPT !.pc = nextStep(q.kind), !.snap = snap]
                                     ELSE Idle]
        /\ UNCHANGED <<row, claim, ballots, voted, log, brief, past, browser, requests, crashes, production>>

\* process.close reads every ballot, after the row.
getBallotChoicesForProcess(t) ==
    /\ at(t, "ballots")
    /\ req' = [req EXCEPT ![t].pc = "write", ![t].tally = computeTally(ballots)]
    /\ UNCHANGED <<row, claim, ballots, voted, log, brief, past, browser, requests, crashes, production>>

-----------------------------------------------------------------------------
(***************************************************************************)
(* What an action makes of the row image it read (service.ts), and the     *)
(* events it holds for the commit.                                         *)
(***************************************************************************)
activated(st) == [st EXCEPT !.status = "active", !.opened = TRUE]

\* Mutant: the threshold is compared one too low.
addSupport_offByOne(st, u) ==
    LET more == [st EXCEPT !.supporters = @ \cup {u}]
    IN  IF Cardinality(more.supporters) + 1 < Threshold THEN more
        ELSE IF Mode = "proposal_required" THEN activated(more)
        ELSE [more EXCEPT !.status = "threshold_met"]

addSupport(st, u) ==
    LET more == [st EXCEPT !.supporters = @ \cup {u}]
    IN  IF Cardinality(more.supporters) < Threshold THEN more
        ELSE IF Mode = "proposal_required" THEN activated(more)
        ELSE [more EXCEPT !.status = "threshold_met"]

archived(q) ==
    [q.snap.state EXCEPT !.archive = [previous_status |-> q.snap.status,
                                      announced |-> isPubliclyFetchable(q.snap.status)]]

\* Mutant: a restore leaves the mark in the state.
restored_markKept(q) == q.snap.state

\* restoreProcess drops the mark.
restored(q) == [q.snap.state EXCEPT !.archive = None]

handled(q) ==
    LET st == q.snap.state
    IN  CASE q.kind = "propose"   -> [st EXCEPT !.status = "proposed"]
          [] q.kind = "support"   -> addSupport(st, q.actor)
          [] q.kind = "unsupport" -> [st EXCEPT !.supporters = @ \ {q.actor}]
          [] q.kind = "activate"  -> activated(st)
          [] q.kind = "archive"   -> archived(q)
          [] q.kind = "restore"   -> restored(q)
          [] OTHER -> [st EXCEPT !.status = "finalized", !.result = q.tally,
                                 !.closed_early = q.snap.early]

\* syncStatus: the row follows the vote's own status after every action.
toStatus(q) ==
    CASE q.kind = "archive" -> "archived"
      [] q.kind = "restore" -> IF q.snap.state.archive = None THEN "closed"
                               ELSE q.snap.state.archive.previous_status
      [] OTHER -> handled(q).status

heldEvents(q) ==
    CASE q.kind = "propose"  -> {"proposed"}
      [] q.kind = "support"  -> CASE handled(q).status = "proposed" -> {}
                                  [] handled(q).status = "active"   -> {"threshold_met", "started"}
                                  [] OTHER                          -> {"threshold_met"}
      [] q.kind = "unsupport" -> {}
      [] q.kind = "activate" -> {"started"}
      [] q.kind = "archive"  -> {"moderation"} \cup
                                IF handled(q).archive.announced THEN {"removed"} ELSE {}
      [] q.kind = "restore"  -> {"moderation"} \cup
                                IF q.snap.state.archive # None /\ q.snap.state.archive.announced
                                THEN {"restored"} ELSE {}
      [] OTHER -> {"ended", "aggregation_completed", "result_published"}

\* A status event goes with an action that moved the row's status.
statusEvents(q) ==
    IF q.kind \in {"archive", "restore"} \/ toStatus(q) = q.snap.status THEN {}
    ELSE IF q.snap.status = "archived" THEN {"unarchived"} ELSE {"updated"}

actionEvents(q) == heldEvents(q) \cup statusEvents(q)

\* checkAgainstDescriptor: outside production a disagreement writes nothing.
descriptorRefuses(q) ==
    /\ ~production
    /\ q.kind \notin {"archive", "restore"}
    /\ \/ q.snap.status \notin declaredFrom(actionOf(q.kind))
       \/ toStatus(q) \notin allowedTargets(actionOf(q.kind), q.snap.status)

(***************************************************************************)
(* transition_process: under the row lock, refused unless the row still    *)
(* has the status and the version that were read; otherwise status, state  *)
(* and events in one transaction, and the trigger bumps the version.       *)
(***************************************************************************)
\* Mutant: only the status is compared, as before processes.version existed.
unmoved_statusOnly(q) == row.status = q.snap.status

unmoved(q) == row.status = q.snap.status /\ row.version = q.snap.version

\* Mutant: only "closed" ends a process (a vote used to stop there).
enteredTerminal_closedOnly(q) ==
    q.kind \notin {"archive", "restore"} /\ q.snap.status # "closed" /\ toStatus(q) = "closed"

enteredTerminal(q) ==
    q.kind \notin {"archive", "restore"} /\ ~isTerminalStatus(q.snap.status) /\ isTerminalStatus(toStatus(q))

transitionProcess(t) ==
    LET q == req[t]
    IN  /\ at(t, "write")
        /\ ~descriptorRefuses(q)
        /\ unmoved(q)
        /\ row' = [status |-> toStatus(q), version |-> row.version + 1, state |-> handled(q)]
        /\ emit(actionEvents(q))
        /\ IF enteredTerminal(q) THEN goto(t, "after") ELSE finish(t)
        /\ UNCHANGED <<claim, ballots, voted, brief, past, browser, requests, crashes, production>>

\* Mutant: the handler's events are written as they are emitted, won or lost.
ProcessChangedError_eventsKept(t) ==
    LET q == req[t]
    IN  /\ at(t, "write") /\ ~descriptorRefuses(q) /\ ~unmoved(q)
        /\ emit(heldEvents(q))
        /\ finish(t)
        /\ UNCHANGED <<row, claim, ballots, voted, brief, past, browser, requests, crashes, production>>

\* Refused: a retry-safe action is run again from its read, up to MaxAttempts times.
ProcessChangedError(t) ==
    LET q == req[t]
    IN  /\ at(t, "write")
        /\ ~descriptorRefuses(q)
        /\ ~unmoved(q)
        /\ req' = [req EXCEPT ![t] =
                     IF actionOf(q.kind) \in retrySafeActions /\ q.attempt < MaxAttempts
                     THEN newRequest("attempt", q.kind, q.actor, None, None, q.attempt + 1)
                     ELSE Idle]
        /\ UNCHANGED <<row, claim, ballots, voted, log, brief, past, browser, requests, crashes, production>>

descriptorViolation(t) ==
    /\ at(t, "write")
    /\ descriptorRefuses(req[t])
    /\ finish(t)
    /\ UNCHANGED <<row, claim, ballots, voted, log, brief, past, browser, requests, crashes, production>>

-----------------------------------------------------------------------------
(***************************************************************************)
(* Casting a ballot.  process.vote first asks the poll book when the       *)
(* browser sent no receipt, and checks the clock; cast_ballot then starts  *)
(* its transaction, whose now() is the time it started.                    *)
(***************************************************************************)
submitVote(t) ==
    LET q == req[t]
    IN  /\ at(t, "check")
        /\ IF past \/ (q.held = None /\ q.actor \in voted)
           THEN finish(t)
           ELSE goto(t, "cast")
        /\ UNCHANGED <<row, claim, ballots, voted, log, brief, past, browser, requests, crashes, production>>

counted(st) == [st EXCEPT !.total_votes = @ + 1]

\* A first vote: poll book, ballot, the count on the row (so its version) and the event.
firstVote(t, r) ==
    LET q == req[t]
    IN  /\ q.actor \notin voted
        /\ q.held = None
        /\ voted' = voted \cup {q.actor}
        /\ ballots' = [s \in DOMAIN ballots \cup {r} |-> IF s = r THEN q.choice ELSE ballots[s]]
        /\ row' = [status |-> row.status, version |-> row.version + 1, state |-> counted(row.state)]
        /\ emit({"vote_submitted"})
        \* The answer is lost when the action then fails on the status it read.
        /\ req' = [req EXCEPT ![t] = IF q.snap.status = "active"
                                     THEN [q EXCEPT !.pc = "reply", !.held = r] ELSE Idle]

\* A change under a receipt: the ballot alone, its event unless it says the same.
changeVote(t) ==
    LET q == req[t]
    IN  /\ q.actor \in voted
        /\ q.held \in DOMAIN ballots
        /\ ballots' = [ballots EXCEPT ![q.held] = q.choice]
        /\ emit(IF ballots[q.held] = q.choice THEN {} ELSE {"vote_submitted"})
        /\ finish(t)
        /\ UNCHANGED <<row, voted>>

\* vote_not_open, receipt_without_vote, already_voted, receipt_not_accepted.
castRefused(t) ==
    LET q == req[t]
    IN  /\ \/ row.status # "active"
           \/ q.actor \notin voted /\ q.held # None
           \/ q.actor \in voted /\ q.held \notin DOMAIN ballots
        /\ finish(t)
        /\ UNCHANGED <<row, ballots, voted, log>>

\* Mutant: the status is not checked again under the lock.
cast_ballot_noStatusCheck(t) ==
    /\ at(t, "cast")
    /\ \/ \E r \in Receipts \ DOMAIN ballots : firstVote(t, r)
       \/ changeVote(t)
    /\ UNCHANGED <<claim, brief, past, browser, requests, crashes, production>>

cast_ballot(t) ==
    /\ at(t, "cast")
    /\ \/ /\ row.status = "active"
          /\ \/ \E r \in Receipts \ DOMAIN ballots : firstVote(t, r)
             \/ changeVote(t)
       \/ castRefused(t)
    /\ UNCHANGED <<claim, brief, past, browser, requests, crashes, production>>

\* The answer reaches the voter's browser, which keeps the receipt and key.
recordOrUpdateVote(t) ==
    /\ at(t, "reply")
    /\ browser' = [browser EXCEPT ![req[t].actor] = req[t].held]
    /\ finish(t)
    /\ UNCHANGED <<row, claim, ballots, voted, log, brief, past, requests, crashes, production>>

-----------------------------------------------------------------------------
(***************************************************************************)
(* The deadline.  The hourly job reads the public active votes; one past   *)
(* its deadline is claimed with a conditional update (which bumps the      *)
(* version like any other), then closed as an ordinary action.  A run that *)
(* overlaps another (delivered twice, or an hour late) counts as a         *)
(* request.                                                                *)
(***************************************************************************)
overlapping == \E t \in Threads : req[t].kind = "deadline"

closeIfExpired(t) ==
    /\ "deadline" \in Kinds
    /\ at(t, "idle")
    /\ overlapping => requests < MaxRequests
    /\ readAsClosed(row.state) /\ row.status = "active"
    /\ requests' = requests + IF overlapping THEN 1 ELSE 0
    /\ req' = [req EXCEPT ![t] = newRequest("claim", "deadline", None, None, None, 1)]
    /\ UNCHANGED <<row, claim, ballots, voted, log, brief, past, browser, crashes, production>>

closeAtDeadline(t) ==
    /\ at(t, "claim")
    /\ IF row.status = "active" /\ ~claim
       THEN /\ claim' = TRUE
            /\ row' = [row EXCEPT !.version = @ + 1]
            /\ goto(t, "attempt")
       ELSE /\ finish(t)
            /\ UNCHANGED <<row, claim>>
    /\ UNCHANGED <<ballots, voted, log, brief, past, browser, requests, crashes, production>>

\* Mutant: a claim that never lapses.
ClaimLapses_never ==
    /\ claim /\ row.state.result # None
    /\ claim' = FALSE
    /\ UNCHANGED <<row, ballots, voted, log, brief, past, browser, req, requests, crashes, production>>

\* CLOSE_CLAIM_MS go by.
ClaimLapses ==
    /\ claim
    /\ claim' = FALSE
    /\ UNCHANGED <<row, ballots, voted, log, brief, past, browser, req, requests, crashes, production>>

DeadlinePasses ==
    /\ row.state.opened /\ ~past
    /\ past' = TRUE
    /\ UNCHANGED <<row, claim, ballots, voted, log, brief, browser, req, requests, crashes, production>>

-----------------------------------------------------------------------------
(***************************************************************************)
(* After a close has committed: the after-commit work (which rewrites the  *)
(* ballots in another order and writes nothing else here), then the brief. *)
(***************************************************************************)
afterCommit(t) ==
    /\ at(t, "after")
    /\ goto(t, "find")
    /\ UNCHANGED <<row, claim, ballots, voted, log, brief, past, browser, requests, crashes, production>>

\* findExistingBriefId, then generateBrief counts the ballots again.
generateBrief(t) ==
    /\ at(t, "find")
    /\ IF brief = None /\ BriefsOn
       THEN req' = [req EXCEPT ![t].pc = "spawn", ![t].tally = computeTally(ballots)]
       ELSE finish(t)
    /\ UNCHANGED <<row, claim, ballots, voted, log, brief, past, browser, requests, crashes, production>>

\* Insert-or-skip on the unique index processes_one_brief_per_source.
spawnBriefFromClosedProcess(t) ==
    /\ at(t, "spawn")
    /\ IF brief = None
       THEN brief' = req[t].tally /\ goto(t, "created")
       ELSE finish(t) /\ UNCHANGED brief
    /\ UNCHANGED <<row, claim, ballots, voted, log, past, browser, requests, crashes, production>>

emitBriefEvents(t) ==
    \/ /\ at(t, "created")
       /\ emit({"brief_created"})
       /\ goto(t, "aggregated")
       /\ UNCHANGED <<row, claim, ballots, voted, brief, past, browser, requests, crashes, production>>
    \/ /\ at(t, "aggregated")
       /\ emit({"brief_aggregation_completed"})
       /\ finish(t)
       /\ UNCHANGED <<row, claim, ballots, voted, brief, past, browser, requests, crashes, production>>

\* The invocation dies, or a database call in it fails: nothing more of it runs.
Crash(t) ==
    /\ ~at(t, "idle")
    /\ crashes < MaxCrashes
    /\ crashes' = crashes + 1
    /\ finish(t)
    /\ UNCHANGED <<row, claim, ballots, voted, log, brief, past, browser, requests, production>>

Progress(t) ==
    \/ attemptAction(t) \/ getBallotChoicesForProcess(t)
    \/ transitionProcess(t) \/ ProcessChangedError(t) \/ descriptorViolation(t)
    \/ submitVote(t) \/ cast_ballot(t) \/ recordOrUpdateVote(t)
    \/ closeAtDeadline(t)
    \/ afterCommit(t) \/ generateBrief(t) \/ spawnBriefFromClosedProcess(t) \/ emitBriefEvents(t)

Next ==
    \/ \E t \in Threads : Act(t) \/ Vote(t) \/ closeIfExpired(t) \/ Progress(t) \/ Crash(t)
    \/ ClaimLapses
    \/ DeadlinePasses

Spec == Init /\ [][Next]_vars

-----------------------------------------------------------------------------
(***************************************************************************)
(* What may be relied on.                                                  *)
(***************************************************************************)
\* Every variable keeps its shape.
TypeOK ==
    /\ row \in Rows
    /\ claim \in BOOLEAN
    /\ DOMAIN ballots \subseteq Receipts
    /\ ballots \in [DOMAIN ballots -> Choices]
    /\ voted \subseteq Users
    /\ log \in [EventTypes -> Nat]
    /\ brief \in Tallies \cup {None}
    /\ past \in BOOLEAN
    /\ browser \in [Users -> Receipts \cup {None}]
    /\ req \in [Threads -> RequestRecords]
    /\ requests \in Nat
    /\ crashes \in Nat
    /\ production \in Productions

\* Two voters at once, a voter and an endorsement, a voter and an archive: the count
\* on the vote's row, the poll book and the ballots never disagree (cast_ballot counts
\* under the row lock; transition_process refuses a write on top of a missed ballot).
CountMatches ==
    /\ row.state.total_votes = Cardinality(DOMAIN ballots)
    /\ row.state.total_votes = Cardinality(voted)

\* A published result counts every voter, whatever was cast between the close's read
\* of the ballots and its write.
ResultCountsEveryVoter ==
    row.state.result # None => row.state.result.total_votes = Cardinality(voted)

\* Once a result is published no ballot is added or changed, no later close replaces
\* it, and the vote never opens again (a second close, an archive and a restore
\* included).
ResultFrozen ==
    [][row.state.result # None =>
         /\ ballots' = ballots
         /\ row'.state.result = row.state.result
         /\ row'.state.status = "finalized"]_vars

\* The public log says what happened to the row, once: a vote that opened says so once,
\* a losing close publishes nothing, every ballot has its event.
LogMatchesRow ==
    /\ log["started"] = IF row.state.opened THEN 1 ELSE 0
    /\ \A e \in {"ended", "aggregation_completed", "result_published"} :
           log[e] = IF row.state.result # None THEN 1 ELSE 0
    /\ log["vote_submitted"] >= Cardinality(DOMAIN ballots)
    /\ log["brief_created"] <= (IF brief # None THEN 1 ELSE 0)
    /\ log["brief_aggregation_completed"] <= log["brief_created"]

\* An endorsement, once saved, leaves the vote only by its own author taking it back:
\* no concurrent endorsement, activation, archive or restore writes an older list over it.
EndorsementsKept ==
    [][\A u \in row.state.supporters :
         \/ u \in row'.state.supporters
         \/ \E t \in Threads : req[t].kind = "unsupport" /\ req[t].actor = u /\ transitionProcess(t)]_vars

\* A vote that no admin opens by hand opens with enough endorsements, each from a different
\* account: two endorsements at once cannot open it one short.
OpenedByThreshold ==
    row.state.opened /\ Mode = "proposal_required" => Cardinality(row.state.supporters) >= Threshold

\* The brief made from the vote shows the tally of the ballots as they stand.
BriefIsFinalTally ==
    brief # None => brief = computeTally(ballots) /\ brief.total_votes = row.state.total_votes

\* The row's status and the status in the vote's state agree whenever the vote is public
\* (syncStatus after every action; archive and restore put back what was there).
StatusAgrees ==
    isPubliclyFetchable(row.status) => row.status = row.state.status

\* The public removals and restorations account for where the vote is: no restoration
\* without a removal it undoes, no removal left standing unless the vote is down or the log
\* has the action that brought it up instead of a restore, which outside production none
\* does.  (archiveProcess announces, restoreProcess undoes what the mark says was announced.)
RemovalsAccounted ==
    LET announced == row.state.archive # None /\ row.state.archive.announced
        down == row.status = "archived"
    IN  /\ log["restored"] + (IF announced THEN 1 ELSE 0) <= log["removed"]
        /\ log["removed"] <= log["restored"] + log["unarchived"] + IF down /\ announced THEN 1 ELSE 0
        /\ down => row.state.archive # None
        /\ row.state.archive # None /\ ~down => log["unarchived"] > 0
        /\ ~production => log["unarchived"] = 0

\* What the requests do to the vote, seen from outside, is a behaviour of VoteOutcome:
\* every committed step is one indivisible step there, and nothing else is visible.
Outcome == INSTANCE VoteOutcome WITH
    phase     <- row.state.status,
    endorsers <- row.state.supporters,
    voters    <- voted,
    published <- IF row.state.result = None THEN None ELSE row.state.result.total_votes

\* The vote as the community sees it follows VoteOutcome.
ImplementsOutcome == Outcome!Spec

-----------------------------------------------------------------------------
(***************************************************************************)
(* A request that is not lost runs to its end; the deadline job runs every *)
(* hour; claims lapse; the clock advances.  Nobody need ever act.          *)
(***************************************************************************)
Fairness ==
    /\ \A t \in Threads : WF_vars(Progress(t))
    /\ WF_vars(\E t \in Threads : closeIfExpired(t))
    /\ WF_vars(ClaimLapses)
    /\ WF_vars(DeadlinePasses)

FairSpec == Spec /\ Fairness

\* Every vote that opens is closed with a result, or is archived, although the job's
\* close may lose its race, exhaust its attempts, or die after taking the claim.
DeadlineCloses ==
    row.state.opened ~> (row.state.result # None \/ row.status = "archived")

\* A closed vote gets its brief unless the request that closed it was lost.
BriefFollows ==
    row.state.result # None ~> (brief # None \/ crashes > 0)

-----------------------------------------------------------------------------
(***************************************************************************)
(* What the code's comments say, where the code does something else.       *)
(***************************************************************************)
\* "a ballot either lands before the close (and the close, refused on its version,
\* counts it) or is refused" (cast_ballot): the published tally is the ballots'.
ResultCountsEveryBallot ==
    row.state.result # None => row.state.result = computeTally(ballots)

\* "Non-public processes (pending_review, archived) accept no actions from non-admins"
\* (actOnProcess): no resident's action changes the row of an archived vote.
ArchivedTakesNoAction ==
    [][\A t \in Threads :
         row.status = "archived" /\ req[t].actor \in Users \ Admins /\ ~at(t, "idle")
         => ~transitionProcess(t)]_vars

\* "A restore undoes exactly what was announced" (ArchiveMeta, processService.ts): once a
\* vote is not under an archive, no announced removal is left without its restoration.
RemovalUndone ==
    row.state.archive = None => log["removed"] = log["restored"]

=============================================================================
