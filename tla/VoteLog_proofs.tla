--------------------------- MODULE VoteLog_proofs ---------------------------
(***************************************************************************)
(* Proofs about what VoteProcess tells the public: the event log, the      *)
(* brief made from the vote, how a vote opens, and what an archive leaves. *)
(* They rest on the invariant IInv of VoteProcess_proofs.                  *)
(***************************************************************************)
EXTENDS VoteProcess_proofs

\* The request is on its way from a committed close to the brief's events.
Publishing(q) == q.pc \in {"after", "find", "spawn", "created", "aggregated"}

\* The request has made the brief and has not yet recorded both of its events.
Recording(q) == q.pc \in {"created", "aggregated"}

\* A vote has opened when its status says so; before that it has no result.
OpenInv == row.state.opened <=> row.state.status \in {"active", "closed", "finalized"}

\* What opening takes when no admin opens the vote.
ThresholdInv ==
    Mode = "proposal_required" /\ row.state.status \notin {"draft", "proposed"}
        => Cardinality(row.state.supporters) >= Threshold

\* The events of the vote itself.
VoteLogInv ==
    /\ log["started"] = IF row.state.opened THEN 1 ELSE 0
    /\ \A e \in {"ended", "aggregation_completed", "result_published"} :
           log[e] = IF row.state.result # None THEN 1 ELSE 0
    /\ log["vote_submitted"] >= Cardinality(DOMAIN ballots)

\* The events of its brief: at most one request ever records them, in order.
BriefLogInv ==
    /\ brief = None => log["brief_created"] = 0 /\ \A t \in Threads : ~Recording(req[t])
    /\ log["brief_created"] <= 1 /\ log["brief_aggregation_completed"] <= log["brief_created"]
    /\ \A t \in Threads : Recording(req[t]) =>
          /\ log["brief_aggregation_completed"] = 0
          /\ log["brief_created"] = IF at(t, "created") THEN 0 ELSE 1
          /\ \A s \in Threads \ {t} : ~Recording(req[s])

\* From a close's commit on, the ballots a brief may show are the final ones.
FinalTallyInv ==
    /\ \A t \in Threads : Publishing(req[t]) => row.state.result # None
    /\ \A t \in Threads : at(t, "spawn") => req[t].tally = computeTally(ballots)
    /\ brief # None => row.state.result # None /\ brief = computeTally(ballots)

LogInv ==
    /\ OpenInv /\ ThresholdInv /\ VoteLogInv /\ BriefLogInv /\ FinalTallyInv
    /\ RemovalsAccounted

-----------------------------------------------------------------------------
(***************************************************************************)
(* How an action that goes through changes the vote.                       *)
(***************************************************************************)
\* What each kind of action asks of the vote's state st, and what it makes of it, h.
Moves(q, st, h) ==
    /\ q.kind = "propose" => st.status = "draft" /\ h.status = "proposed" /\ h.opened = st.opened
    /\ q.kind = "unsupport" => st.status = "proposed" /\ h.status = "proposed" /\ h.opened = st.opened
    /\ q.kind = "support" =>
          /\ st.status = "proposed" /\ h.status \in {"proposed", "threshold_met", "active"}
          /\ IF h.status = "active" THEN h.opened ELSE h.opened = st.opened
          /\ h.status # "proposed" => Cardinality(h.supporters) >= Threshold
    /\ q.kind = "activate" =>
          /\ st.status \in {"draft", "threshold_met"} /\ h.status = "active" /\ h.opened
          /\ Mode = "proposal_required" => st.status = "threshold_met"
    /\ q.kind \in {"archive", "restore"} => h.status = st.status /\ h.opened = st.opened
    /\ q.kind \in {"close", "deadline"} =>
          st.status = "active" /\ h.status = "finalized" /\ h.opened = st.opened
    /\ q.kind \notin {"support", "unsupport"} => h.supporters = st.supporters
    /\ q.kind \notin {"archive", "restore"} => h.archive = st.archive

\* Each kind of action is accepted from the statuses its handler names, and leaves the
\* status, the endorsements and the archive mark it should.
LEMMA HandledMove ==
    ASSUME NEW q \in RequestRecords, NEW st \in VoteStates, q.snap.state = st, Accepted(q),
           q.kind \in Kinds, q.kind # "vote"
    PROVE  Moves(q, st, handled(q))
<1> USE DEF Moves
<1>1. CASE q.kind = "propose"
  <2>1. handled(q) = [st EXCEPT !.status = "proposed"] /\ st.status = "draft"
    BY <1>1 DEF handled, Accepted, handlerAccepts, actionOf, canTransition, getTransitions
  <2> QED
    BY <1>1, <2>1 DEF VoteStates
<1>2. CASE q.kind = "unsupport"
  <2>1. handled(q) = [st EXCEPT !.supporters = @ \ {q.actor}] /\ st.status = "proposed"
    BY <1>2 DEF handled, Accepted, handlerAccepts, actionOf, isAcceptingSupport
  <2> QED
    BY <1>2, <2>1 DEF VoteStates
<1>3. CASE q.kind = "support"
  <2> DEFINE more == [st EXCEPT !.supporters = @ \cup {q.actor}]
  <2>1. handled(q) = addSupport(st, q.actor) /\ st.status = "proposed"
    BY <1>3 DEF handled, Accepted, handlerAccepts, actionOf, isAcceptingSupport
  <2>2. /\ more.status = st.status /\ more.opened = st.opened /\ more.archive = st.archive
        /\ more.supporters = st.supporters \cup {q.actor}
    BY DEF VoteStates
  <2>3. Cardinality(more.supporters) \in Nat /\ Threshold \in Nat
    <3>1. more.supporters \subseteq st.supporters \cup {q.actor} /\ st.supporters \subseteq Users
      BY <2>2 DEF VoteStates
    <3>2. IsFiniteSet(st.supporters)
      BY <3>1, FS_Subset, ConstantsAssumption
    <3>3. IsFiniteSet(more.supporters)
      BY <2>2, <3>2, FS_AddElement
    <3> QED
      BY <3>3, FS_CardinalityType, ConstantsAssumption
  <2>4. CASE Cardinality(more.supporters) < Threshold
    BY <1>3, <2>1, <2>2, <2>4 DEF addSupport
  <2>5. CASE ~(Cardinality(more.supporters) < Threshold) /\ Mode = "proposal_required"
    <3>1. handled(q) = activated(more)
      BY <2>1, <2>5 DEF addSupport
    <3>2. /\ activated(more).status = "active" /\ activated(more).opened
          /\ activated(more).supporters = more.supporters /\ activated(more).archive = more.archive
      BY DEF activated, VoteStates
    <3> HIDE DEF more
    <3> QED
      BY <1>3, <2>1, <2>2, <2>3, <2>5, <3>1, <3>2
  <2>6. CASE ~(Cardinality(more.supporters) < Threshold) /\ Mode # "proposal_required"
    <3> DEFINE met == [more EXCEPT !.status = "threshold_met"]
    <3>1. handled(q) = met
      BY <2>1, <2>6 DEF addSupport
    <3>2. /\ met.status = "threshold_met" /\ met.opened = more.opened
          /\ met.supporters = more.supporters /\ met.archive = more.archive
      BY DEF VoteStates
    <3> HIDE DEF more, met
    <3> QED
      BY <1>3, <2>1, <2>2, <2>3, <2>6, <3>1, <3>2
  <2> QED
    BY <2>4, <2>5, <2>6
<1>4. CASE q.kind = "activate"
  <2>1. /\ handled(q) = activated(st) /\ st.status \in {"draft", "threshold_met"}
        /\ Mode = "proposal_required" => st.status = "threshold_met"
    BY <1>4 DEF handled, Accepted, handlerAccepts, actionOf, canTransition, getTransitions
  <2> QED
    BY <1>4, <2>1 DEF activated, VoteStates
<1>5. CASE q.kind \in {"archive", "restore"}
  BY <1>5 DEF handled, archived, restored, VoteStates
<1>6. CASE q.kind \in {"close", "deadline"}
  <2>1. st.status = "active"
    BY <1>6 DEF Accepted, handlerAccepts, actionOf, canTransition, getTransitions
  <2> QED
    BY <1>6, <2>1 DEF handled, VoteStates
<1> QED
  BY <1>1, <1>2, <1>3, <1>4, <1>5, <1>6, KindsAssumption

\* The state a winning write replaces is the row's.
LEMMA WriteMove ==
    ASSUME IInv, NEW t \in Threads, transitionProcess(t)
    PROVE  /\ row.state \in VoteStates /\ row'.state = handled(req[t]) /\ row'.status = toStatus(req[t])
           /\ req[t] \in RequestRecords /\ req[t].snap.state = row.state /\ req[t].snap.status = row.status
           /\ Accepted(req[t]) /\ req[t].kind \in Kinds \ {"vote"} /\ emit(actionEvents(req[t]))
BY WriteIsCurrent DEF IInv, TypeInv, TypeOK, Rows, transitionProcess

-----------------------------------------------------------------------------
(***************************************************************************)
(* How a vote opens.                                                       *)
(***************************************************************************)
\* A vote is open, or was, exactly when it has been activated.
LEMMA NextOpen == IInv /\ OpenInv /\ [Next]_vars => OpenInv'
<1> SUFFICES ASSUME IInv, OpenInv, [Next]_vars PROVE OpenInv'
  OBVIOUS
<1> USE DEF OpenInv
<1>1. row.state \in VoteStates
  BY DEF IInv, TypeInv, TypeOK, Rows
<1>2. CASE row'.state = row.state
  BY <1>2
<1>3. CASE row'.state = counted(row.state)
  BY <1>1, <1>3 DEF counted, VoteStates
<1>4. ASSUME NEW t \in Threads, transitionProcess(t) PROVE OpenInv'
  <2>1. /\ row'.state = handled(req[t]) /\ req[t] \in RequestRecords /\ req[t].snap.state = row.state
        /\ Accepted(req[t]) /\ req[t].kind \in Kinds /\ req[t].kind # "vote"
    BY <1>4, WriteMove
  <2>2. Moves(req[t], row.state, row'.state)
    BY <1>1, <2>1, HandledMove
  <2> QED
    BY <1>1, <2>1, <2>2, KindsAssumption DEF Moves, VoteStates
<1> QED
  BY <1>2, <1>3, <1>4, StateStep

\* A vote that needs endorsements has enough of them from the moment it leaves "proposed".
LEMMA NextThreshold == IInv /\ ThresholdInv /\ [Next]_vars => ThresholdInv'
<1> SUFFICES ASSUME IInv, ThresholdInv, [Next]_vars, Mode = "proposal_required",
                    row'.state.status \notin {"draft", "proposed"}
             PROVE  Cardinality(row'.state.supporters) >= Threshold
  BY DEF ThresholdInv
<1> USE DEF ThresholdInv
<1>1. row.state \in VoteStates
  BY DEF IInv, TypeInv, TypeOK, Rows
<1>2. CASE row'.state = row.state
  BY <1>2
<1>3. CASE row'.state = counted(row.state)
  BY <1>1, <1>3 DEF counted, VoteStates
<1>4. ASSUME NEW t \in Threads, transitionProcess(t)
      PROVE  Cardinality(row'.state.supporters) >= Threshold
  <2>1. /\ row'.state = handled(req[t]) /\ req[t] \in RequestRecords /\ req[t].snap.state = row.state
        /\ Accepted(req[t]) /\ req[t].kind \in Kinds /\ req[t].kind # "vote"
    BY <1>4, WriteMove
  <2>2. Moves(req[t], row.state, row'.state)
    BY <1>1, <2>1, HandledMove
  <2> QED
    BY <2>1, <2>2, KindsAssumption DEF Moves
<1> QED
  BY <1>2, <1>3, <1>4, StateStep

-----------------------------------------------------------------------------
(***************************************************************************)
(* What a step does to the log, the brief and the requests after a close.  *)
(***************************************************************************)
\* emit adds one to the events it is given and leaves the others.
LEMMA EmitCount ==
    ASSUME TypeOK, NEW types, emit(types), NEW e \in EventTypes
    PROVE  log[e] \in Nat /\ log'[e] = log[e] + IF e \in types THEN 1 ELSE 0
BY DEF TypeOK, emit

\* Whoever acts, the log grows with a winning write, with a ballot or with the brief's own
\* events, and otherwise neither it, the ballots nor what the row says changes.
LEMMA LogStep ==
    ASSUME IInv, [Next]_vars
    PROVE  \/ \E t \in Threads : transitionProcess(t) /\ UNCHANGED <<ballots, brief>>
           \/ \E t \in Threads, r \in Receipts \ DOMAIN ballots :
                  at(t, "cast") /\ firstVote(t, r) /\ UNCHANGED brief
           \/ \E t \in Threads : changeVote(t) /\ UNCHANGED brief
           \/ \E t \in Threads : emitBriefEvents(t)
           \/ /\ UNCHANGED <<log, ballots>>
              /\ row'.status = row.status /\ row'.state = row.state
<1>1. ASSUME NEW t \in Threads, closeAtDeadline(t)
      PROVE  UNCHANGED <<log, ballots>> /\ row'.status = row.status /\ row'.state = row.state
  BY <1>1 DEF closeAtDeadline, IInv, TypeInv, TypeOK, Rows
<1>2. ASSUME NEW t \in Threads,
             Act(t) \/ Vote(t) \/ closeIfExpired(t) \/ Crash(t) \/ attemptAction(t)
             \/ getBallotChoicesForProcess(t) \/ ProcessChangedError(t) \/ descriptorViolation(t)
             \/ submitVote(t) \/ recordOrUpdateVote(t) \/ afterCommit(t) \/ generateBrief(t)
             \/ spawnBriefFromClosedProcess(t)
      PROVE  UNCHANGED <<row, log, ballots>>
  BY <1>2 DEF Act, Vote, actOnProcess, closeIfExpired, Crash, attemptAction,
              getBallotChoicesForProcess, ProcessChangedError, descriptorViolation, submitVote,
              recordOrUpdateVote, afterCommit, generateBrief, spawnBriefFromClosedProcess
<1>3. ASSUME ClaimLapses \/ DeadlinePasses \/ UNCHANGED vars PROVE UNCHANGED <<row, log, ballots>>
  BY <1>3 DEF ClaimLapses, DeadlinePasses, vars
<1>4. ASSUME NEW t \in Threads, transitionProcess(t) PROVE UNCHANGED <<ballots, brief>>
  BY <1>4 DEF transitionProcess
<1>5. ASSUME NEW t \in Threads, cast_ballot(t)
      PROVE  /\ at(t, "cast") /\ UNCHANGED brief
             /\ \/ \E r \in Receipts \ DOMAIN ballots : firstVote(t, r)
                \/ changeVote(t)
                \/ UNCHANGED <<row, log, ballots>>
  BY <1>5 DEF cast_ballot, castRefused
<1> QED
  BY <1>1, <1>2, <1>3, <1>4, <1>5 DEF Next, Progress

\* A request past its close's commit got there by that commit or moved one step on.
LEMMA PublishStep ==
    ASSUME IInv, [Next]_vars, NEW s \in Threads, Publishing(req'[s])
    PROVE  \/ req'[s] = req[s]
           \/ transitionProcess(s) /\ enteredTerminal(req[s]) /\ req'[s].pc = "after"
           \/ Publishing(req[s]) /\ req'[s].pc = "find"
           \/ /\ generateBrief(s) /\ req[s].pc = "find" /\ req'[s].pc = "spawn"
              /\ req'[s].tally = computeTally(ballots)
           \/ spawnBriefFromClosedProcess(s) /\ brief = None /\ req'[s].pc = "created"
           \/ emitBriefEvents(s) /\ req[s].pc = "created" /\ req'[s].pc = "aggregated"
<1> DEFINE Goal == \/ req'[s] = req[s]
                   \/ transitionProcess(s) /\ enteredTerminal(req[s]) /\ req'[s].pc = "after"
                   \/ Publishing(req[s]) /\ req'[s].pc = "find"
                   \/ /\ generateBrief(s) /\ req[s].pc = "find" /\ req'[s].pc = "spawn"
                      /\ req'[s].tally = computeTally(ballots)
                   \/ spawnBriefFromClosedProcess(s) /\ brief = None /\ req'[s].pc = "created"
                   \/ emitBriefEvents(s) /\ req[s].pc = "created" /\ req'[s].pc = "aggregated"
<1>1. req \in [Threads -> RequestRecords]
  BY DEF IInv, TypeInv, TypeOK
<1>2. ASSUME NEW t \in Threads, NEW q, req' = [req EXCEPT ![t] = q], ~Publishing(q)
      PROVE  Goal
  BY <1>1, <1>2
<1>3. ASSUME NEW t \in Threads, finish(t) PROVE Goal
  <2>1. ~Publishing(Idle)
    BY DEF Idle, newRequest, Publishing
  <2> QED
    BY <1>2, <1>3, <2>1 DEF finish
<1>4. ASSUME NEW t \in Threads, NEW pc, goto(t, pc) PROVE s # t => req'[s] = req[s]
  BY <1>1, <1>4 DEF goto
<1>5. ASSUME NEW t \in Threads, NEW pc, goto(t, pc) PROVE req'[t].pc = pc
  BY <1>1, <1>5 DEF goto, RequestRecords
<1>6. ASSUME NEW t \in Threads, NEW pc \in {"attempt", "cast"}, goto(t, pc) PROVE Goal
  BY <1>4, <1>5, <1>6 DEF Publishing
<1>7. ASSUME NEW t \in Threads, NEW kind, NEW u, NEW choice, NEW held, NEW n,
             NEW pc \in {"attempt", "claim"},
             req' = [req EXCEPT ![t] = newRequest(pc, kind, u, choice, held, n)]
      PROVE  Goal
  <2>1. ~Publishing(newRequest(pc, kind, u, choice, held, n))
    BY DEF newRequest, Publishing
  <2> QED
    BY <1>2, <1>7, <2>1
<1>8. ASSUME NEW t \in Threads, Act(t) \/ Vote(t) \/ closeIfExpired(t) PROVE Goal
  BY <1>7, <1>8 DEF Act, Vote, actOnProcess, closeIfExpired
<1>9. ASSUME NEW t \in Threads, attemptAction(t) PROVE Goal
  <2> DEFINE q == [req[t] EXCEPT !.pc = nextStep(req[t].kind),
                       !.snap = [status |-> row.status, version |-> row.version, state |-> row.state,
                                 early |-> earlyCloseOf(req[t])]]
  <2>1. q.pc = nextStep(req[t].kind)
    BY <1>1 DEF RequestRecords
  <2>2. ~Publishing(q)
    BY <2>1 DEF nextStep, Publishing
  <2>3. finish(t) \/ req' = [req EXCEPT ![t] = q]
    BY <1>9 DEF attemptAction, finish
  <2> QED
    BY <1>2, <1>3, <2>2, <2>3
<1>10. ASSUME NEW t \in Threads, getBallotChoicesForProcess(t) PROVE Goal
  <2> DEFINE q == [req[t] EXCEPT !.pc = "write", !.tally = computeTally(ballots)]
  <2>1. ~Publishing(q)
    BY <1>1 DEF RequestRecords, Publishing
  <2> QED
    BY <1>2, <1>10, <2>1 DEF getBallotChoicesForProcess
<1>11. ASSUME NEW t \in Threads, transitionProcess(t) PROVE Goal
  BY <1>3, <1>4, <1>5, <1>11 DEF transitionProcess
<1>12. ASSUME NEW t \in Threads, ProcessChangedError(t) PROVE Goal
  BY <1>3, <1>7, <1>12 DEF ProcessChangedError, finish
<1>13. ASSUME NEW t \in Threads,
              descriptorViolation(t) \/ recordOrUpdateVote(t) \/ Crash(t) \/ submitVote(t)
              \/ closeAtDeadline(t)
       PROVE  Goal
  BY <1>3, <1>6, <1>13 DEF descriptorViolation, recordOrUpdateVote, Crash, submitVote, closeAtDeadline
<1>14. ASSUME NEW t \in Threads, cast_ballot(t) PROVE Goal
  <2>1. ASSUME NEW r, firstVote(t, r) PROVE Goal
    <3> DEFINE q == [req[t] EXCEPT !.pc = "reply", !.held = r]
    <3>1. ~Publishing(q)
      BY <1>1 DEF RequestRecords, Publishing
    <3> QED
      BY <1>2, <1>3, <2>1, <3>1 DEF firstVote, finish
  <2> QED
    BY <1>3, <1>14, <2>1 DEF cast_ballot, changeVote, castRefused
<1>15. ASSUME NEW t \in Threads, afterCommit(t) PROVE Goal
  BY <1>4, <1>5, <1>15 DEF afterCommit, at, Publishing
<1>16. ASSUME NEW t \in Threads, generateBrief(t) PROVE Goal
  <2> DEFINE q == [req[t] EXCEPT !.pc = "spawn", !.tally = computeTally(ballots)]
  <2>1. q.pc = "spawn" /\ q.tally = computeTally(ballots)
    BY <1>1 DEF RequestRecords
  <2>2. finish(t) \/ req' = [req EXCEPT ![t] = q]
    BY <1>16 DEF generateBrief
  <2> HIDE DEF q
  <2> QED
    BY <1>1, <1>3, <1>16, <2>1, <2>2 DEF generateBrief, at
<1>17. ASSUME NEW t \in Threads, spawnBriefFromClosedProcess(t) PROVE Goal
  BY <1>3, <1>4, <1>5, <1>17 DEF spawnBriefFromClosedProcess
<1>18. ASSUME NEW t \in Threads, emitBriefEvents(t) PROVE Goal
  BY <1>3, <1>4, <1>5, <1>18 DEF emitBriefEvents, at
<1>19. ASSUME ClaimLapses \/ DeadlinePasses \/ UNCHANGED vars PROVE Goal
  BY <1>19 DEF ClaimLapses, DeadlinePasses, vars
<1> QED
  BY <1>8, <1>9, <1>10, <1>11, <1>12, <1>13, <1>14, <1>15, <1>16, <1>17, <1>18, <1>19
     DEF Next, Progress

\* Only a spawn that finds no brief makes one.
LEMMA BriefStep ==
    ASSUME [Next]_vars
    PROVE  \/ brief' = brief
           \/ \E t \in Threads : spawnBriefFromClosedProcess(t) /\ brief = None /\ brief' = req[t].tally
<1>1. ASSUME NEW t \in Threads,
             Act(t) \/ Vote(t) \/ closeIfExpired(t) \/ Crash(t) \/ attemptAction(t)
             \/ getBallotChoicesForProcess(t) \/ ProcessChangedError(t) \/ descriptorViolation(t)
             \/ submitVote(t) \/ recordOrUpdateVote(t) \/ afterCommit(t) \/ generateBrief(t)
             \/ emitBriefEvents(t) \/ transitionProcess(t) \/ closeAtDeadline(t) \/ cast_ballot(t)
      PROVE  brief' = brief
  BY <1>1 DEF Act, Vote, actOnProcess, closeIfExpired, Crash, attemptAction,
              getBallotChoicesForProcess, ProcessChangedError, descriptorViolation, submitVote,
              recordOrUpdateVote, afterCommit, generateBrief, emitBriefEvents, transitionProcess,
              closeAtDeadline, cast_ballot
<1>2. ASSUME NEW t \in Threads, spawnBriefFromClosedProcess(t)
      PROVE  brief' = brief \/ (brief = None /\ brief' = req[t].tally)
  BY <1>2 DEF spawnBriefFromClosedProcess
<1>3. ASSUME ClaimLapses \/ DeadlinePasses \/ UNCHANGED vars PROVE brief' = brief
  BY <1>3 DEF ClaimLapses, DeadlinePasses, vars
<1> QED
  BY <1>1, <1>2, <1>3 DEF Next, Progress

-----------------------------------------------------------------------------
(***************************************************************************)
(* What an archive leaves.                                                 *)
(***************************************************************************)
\* What each kind of write says of removals: an action only that it found the row archived.
LEMMA RemovalEvents ==
    ASSUME NEW q, q.kind \in Kinds \ {"vote", "archive", "restore"}
    PROVE  /\ actionEvents(q) \cap {"removed", "restored"} = {}
           /\ "unarchived" \in actionEvents(q) <=> q.snap.status = "archived" /\ toStatus(q) # "archived"
<1>1. heldEvents(q) \cap {"removed", "restored", "unarchived"} = {}
  BY KindsAssumption DEF heldEvents
<1>2. statusEvents(q) = IF toStatus(q) = q.snap.status THEN {}
                        ELSE IF q.snap.status = "archived" THEN {"unarchived"} ELSE {"updated"}
  BY DEF statusEvents
<1> QED
  BY <1>1, <1>2 DEF actionEvents

\* No step changes the environment the hub runs in.
LEMMA ProductionStays == ASSUME [Next]_vars PROVE production' = production
<1>1. ASSUME NEW t \in Threads,
             \/ Act(t) \/ Vote(t) \/ closeIfExpired(t) \/ Crash(t) \/ attemptAction(t)
             \/ getBallotChoicesForProcess(t) \/ ProcessChangedError(t) \/ descriptorViolation(t)
             \/ submitVote(t) \/ recordOrUpdateVote(t) \/ afterCommit(t) \/ generateBrief(t)
             \/ spawnBriefFromClosedProcess(t)
      PROVE  production' = production
  BY <1>1 DEF Act, Vote, actOnProcess, closeIfExpired, Crash, attemptAction,
              getBallotChoicesForProcess, ProcessChangedError, descriptorViolation, submitVote,
              recordOrUpdateVote, afterCommit, generateBrief, spawnBriefFromClosedProcess
<1>2. ASSUME NEW t \in Threads,
             transitionProcess(t) \/ cast_ballot(t) \/ closeAtDeadline(t) \/ emitBriefEvents(t)
      PROVE  production' = production
  BY <1>2 DEF transitionProcess, cast_ballot, closeAtDeadline, emitBriefEvents
<1>3. ASSUME ClaimLapses \/ DeadlinePasses \/ UNCHANGED vars PROVE production' = production
  BY <1>3 DEF ClaimLapses, DeadlinePasses, vars
<1> QED
  BY <1>1, <1>2, <1>3 DEF Next, Progress

\* Archives announce, restores undo what was announced, and an action that is written over
\* an archive leaves its own trace.
LEMMA NextRemoval ==
    ASSUME IInv, RemovalsAccounted, [Next]_vars
    PROVE  RemovalsAccounted'
<1> USE DEF RemovalsAccounted
<1>1. /\ row \in Rows /\ row.state \in VoteStates /\ log \in [EventTypes -> Nat]
      /\ {"removed", "restored", "unarchived"} \subseteq EventTypes
  BY DEF IInv, TypeInv, TypeOK, Rows, EventTypes
<1>2. production' = production
  BY ProductionStays
<1>3. ASSUME row'.status = row.status, row'.state.archive = row.state.archive,
             log'["removed"] = log["removed"], log'["restored"] = log["restored"],
             log'["unarchived"] = log["unarchived"]
      PROVE  RemovalsAccounted'
  BY <1>2, <1>3
<1>4. ASSUME NEW types, emit(types), NEW e \in {"removed", "restored", "unarchived"}
      PROVE  log[e] \in Nat /\ log'[e] = log[e] + IF e \in types THEN 1 ELSE 0
  BY <1>1, <1>4, EmitCount DEF IInv, TypeInv
<1>5. ASSUME NEW t \in Threads, transitionProcess(t) PROVE RemovalsAccounted'
  <2> DEFINE q == req[t]
             st == row.state
  <2>1. /\ row'.state = handled(q) /\ row'.status = toStatus(q) /\ q \in RequestRecords
        /\ q.snap.state = st /\ q.snap.status = row.status
        /\ Accepted(q) /\ q.kind \in Kinds \ {"vote"} /\ emit(actionEvents(q))
    BY <1>5, WriteMove
  <2>2. \A e \in {"removed", "restored", "unarchived"} :
           log[e] \in Nat /\ log'[e] = log[e] + IF e \in actionEvents(q) THEN 1 ELSE 0
    BY <1>4, <2>1
  <2>3. CASE q.kind = "archive"
    <3>1. /\ row'.status = "archived" /\ row.status # "archived"
          /\ row'.state.archive = [previous_status |-> row.status,
                                   announced |-> isPubliclyFetchable(row.status)]
      BY <1>1, <2>1, <2>3 DEF toStatus, handled, archived, Accepted, VoteStates
    <3>2. row'.state.archive \in ArchiveMeta
      BY <1>1, <3>1 DEF ArchiveMeta, Rows, isPubliclyFetchable
    <3>3. actionEvents(q) = {"moderation"} \cup IF row'.state.archive.announced THEN {"removed"} ELSE {}
      BY <2>1, <2>3 DEF actionEvents, heldEvents, statusEvents
    <3>4. /\ log'["removed"] = log["removed"] + IF row'.state.archive.announced THEN 1 ELSE 0
          /\ log'["restored"] = log["restored"] /\ log'["unarchived"] = log["unarchived"]
      <4>1. "restored" \notin actionEvents(q) /\ "unarchived" \notin actionEvents(q)
        BY <3>3
      <4>2. "removed" \in actionEvents(q) <=> row'.state.archive.announced
        BY <3>3
      <4> QED
        BY <2>2, <4>1, <4>2
    <3>5. row'.state.archive # None
      BY <3>2, NoneAssumption
    <3> QED
      BY <1>2, <2>2, <3>1, <3>4, <3>5
  <2>4. CASE q.kind = "restore"
    <3>1. row.status = "archived" /\ st.archive # None
      BY <2>1, <2>4 DEF Accepted
    <3>2. row'.status = st.archive.previous_status /\ row'.state.archive = None
      BY <1>1, <2>1, <2>4, <3>1 DEF toStatus, handled, restored, VoteStates
    <3>3. row'.status # "archived"
      BY <3>1, <3>2 DEF IInv, StatusInv, ArchiveInv
    <3>4. actionEvents(q) = {"moderation"} \cup IF st.archive.announced THEN {"restored"} ELSE {}
      BY <2>1, <2>4, <3>1 DEF actionEvents, heldEvents, statusEvents
    <3>5. /\ log'["restored"] = log["restored"] + IF st.archive.announced THEN 1 ELSE 0
          /\ log'["removed"] = log["removed"] /\ log'["unarchived"] = log["unarchived"]
      <4>1. "removed" \notin actionEvents(q) /\ "unarchived" \notin actionEvents(q)
        BY <3>4
      <4>2. "restored" \in actionEvents(q) <=> st.archive.announced
        BY <3>4
      <4> QED
        BY <2>2, <4>1, <4>2
    <3> QED
      BY <1>2, <2>2, <3>1, <3>2, <3>3, <3>5
  <2>5. CASE q.kind \notin {"archive", "restore"}
    <3>1. row'.status # "archived" /\ row'.state.archive = st.archive
      <4>1. handled(q) \in VoteStates /\ toStatus(q) = handled(q).status
        BY <1>5, <2>1, <2>5, HandledType, WriteIsCurrent DEF IInv, toStatus
      <4>2. handled(q).archive = st.archive
        BY <1>1, <2>1, <2>5, HandledMove DEF Moves
      <4> QED
        BY <2>1, <4>1, <4>2 DEF VoteStates, VoteStatuses
    <3>2. /\ log'["removed"] = log["removed"] /\ log'["restored"] = log["restored"]
          /\ log'["unarchived"] = log["unarchived"] + IF row.status = "archived" THEN 1 ELSE 0
      BY <2>1, <2>2, <2>5, <3>1, RemovalEvents
    <3>3. row.status = "archived" => production
      BY <1>5, <2>1, <2>5, KindsAssumption
         DEF transitionProcess, descriptorRefuses, declaredFrom, actionOf
    <3> QED
      BY <1>2, <2>2, <3>1, <3>2, <3>3
  <2> QED
    BY <2>3, <2>4, <2>5
<1>6. ASSUME NEW t \in Threads, NEW r, firstVote(t, r) PROVE RemovalsAccounted'
  <2>1. row'.status = row.status /\ row'.state = counted(row.state) /\ emit({"vote_submitted"})
    BY <1>6 DEF firstVote
  <2>2. row'.state.archive = row.state.archive
    BY <1>1, <2>1 DEF counted, VoteStates
  <2> QED
    BY <1>3, <1>4, <2>1, <2>2
<1>7. ASSUME NEW t \in Threads, changeVote(t) PROVE RemovalsAccounted'
  BY <1>3, <1>4, <1>7 DEF changeVote
<1>8. ASSUME NEW t \in Threads, emitBriefEvents(t) PROVE RemovalsAccounted'
  BY <1>3, <1>4, <1>8 DEF emitBriefEvents
<1> QED
  BY <1>3, <1>5, <1>6, <1>7, <1>8, LogStep

-----------------------------------------------------------------------------
(***************************************************************************)
(* The vote's events.                                                      *)
(***************************************************************************)
\* What a winning write announces.
LEMMA WriteEvents ==
    ASSUME NEW q, q.kind \in Kinds, q.kind # "vote",
           q.kind = "support" => handled(q).status \in {"proposed", "threshold_met", "active"}
    PROVE  /\ "started" \in actionEvents(q) <=>
                  q.kind = "activate" \/ (q.kind = "support" /\ handled(q).status = "active")
           /\ \A e \in {"ended", "aggregation_completed", "result_published"} :
                  e \in actionEvents(q) <=> q.kind \in {"close", "deadline"}
           /\ actionEvents(q) \cap {"vote_submitted", "brief_created", "brief_aggregation_completed"} = {}
<1>1. CASE q.kind = "support"
  BY <1>1 DEF actionEvents, heldEvents, statusEvents
<1>2. CASE q.kind # "support"
  BY <1>2, KindsAssumption DEF actionEvents, heldEvents, statusEvents
<1> QED
  BY <1>1, <1>2

\* The log keeps step with the row: one start for an opening, one end for a result, an
\* event for every ballot.
LEMMA NextVoteLog == IInv /\ OpenInv /\ VoteLogInv /\ [Next]_vars => VoteLogInv'
<1> SUFFICES ASSUME IInv, OpenInv, VoteLogInv, [Next]_vars PROVE VoteLogInv'
  OBVIOUS
<1> DEFINE ends == {"ended", "aggregation_completed", "result_published"}
<1>1. row.state \in VoteStates /\ TypeOK /\ log \in [EventTypes -> Nat] /\ IsFiniteSet(DOMAIN ballots)
  BY BallotsFinite DEF IInv, TypeInv, TypeOK, Rows
<1>2. Cardinality(DOMAIN ballots) \in Nat /\ log["vote_submitted"] \in Nat
  BY <1>1, FS_CardinalityType DEF EventTypes
<1>3. ASSUME row'.state.opened = row.state.opened, row'.state.result = row.state.result,
             log'["started"] = log["started"], \A e \in ends : log'[e] = log[e],
             log'["vote_submitted"] >= Cardinality(DOMAIN ballots')
      PROVE  VoteLogInv'
  BY <1>3 DEF VoteLogInv
<1>4. ASSUME NEW t \in Threads, transitionProcess(t), UNCHANGED ballots PROVE VoteLogInv'
  <2> DEFINE q == req[t]
  <2>1. /\ row'.state = handled(q) /\ q \in RequestRecords /\ q.snap.state = row.state
        /\ Accepted(q) /\ q.kind \in Kinds /\ q.kind # "vote" /\ emit(actionEvents(q))
    BY <1>4, WriteMove
  <2>2. Moves(q, row.state, row'.state)
    BY <1>1, <2>1, HandledMove
  <2>3. q.kind = "support" => handled(q).status \in {"proposed", "threshold_met", "active"}
    BY <2>1, <2>2 DEF Moves
  <2>4. /\ "started" \in actionEvents(q) <=>
                 q.kind = "activate" \/ (q.kind = "support" /\ row'.state.status = "active")
        /\ \A e \in ends : e \in actionEvents(q) <=> q.kind \in {"close", "deadline"}
        /\ "vote_submitted" \notin actionEvents(q)
    BY <2>1, <2>3, WriteEvents
  <2>5. log'["vote_submitted"] = log["vote_submitted"]
    BY <1>1, <1>2, <2>1, <2>4, EmitCount DEF EventTypes
  <2>6. log'["started"] = IF row'.state.opened THEN 1 ELSE 0
    <3>1. log'["started"] = log["started"] + IF "started" \in actionEvents(q) THEN 1 ELSE 0
      BY <1>1, <2>1, EmitCount DEF EventTypes
    <3>2. q.kind = "activate" \/ (q.kind = "support" /\ row'.state.status = "active")
            => ~row.state.opened /\ row'.state.opened
      BY <2>2 DEF Moves, OpenInv
    <3>3. ~(q.kind = "activate" \/ (q.kind = "support" /\ row'.state.status = "active"))
            => row'.state.opened = row.state.opened
      BY <2>1, <2>2, KindsAssumption DEF Moves
    <3> QED
      BY <2>4, <3>1, <3>2, <3>3 DEF VoteLogInv
  <2>7. ASSUME NEW e \in ends PROVE log'[e] = IF row'.state.result # None THEN 1 ELSE 0
    <3>1. log'[e] = log[e] + IF q.kind \in {"close", "deadline"} THEN 1 ELSE 0
      BY <1>1, <2>1, <2>4, <2>7, EmitCount DEF EventTypes
    <3>2. /\ q.kind \notin {"close", "deadline"} => row'.state.result = row.state.result
          /\ q.kind \in {"close", "deadline"} => row'.state.result = q.tally
      BY <1>1, <2>1, HandledFrame
    <3>3. q.kind \in {"close", "deadline"} => q.tally # None /\ row.state.result = None
      <4>1. RequestOK(q) /\ q.pc = "write"
        BY <1>4, WriteIsCurrent DEF IInv
      <4> QED
        BY <2>2, <4>1, NoneAssumption DEF RequestOK, actionOf, Moves, IInv, StatusInv, ResultInv
    <3> QED
      BY <2>7, <3>1, <3>2, <3>3 DEF VoteLogInv
  <2> QED
    BY <1>2, <1>4, <2>5, <2>6, <2>7 DEF VoteLogInv
<1>5. ASSUME NEW t \in Threads, NEW r \in Receipts \ DOMAIN ballots, firstVote(t, r) PROVE VoteLogInv'
  <2>1. row'.state = counted(row.state) /\ emit({"vote_submitted"})
        /\ DOMAIN ballots' = DOMAIN ballots \cup {r}
    BY <1>5 DEF firstVote
  <2>2. Cardinality(DOMAIN ballots') = Cardinality(DOMAIN ballots) + 1
    BY <1>1, <1>5, <2>1, FS_AddElement
  <2>3. row'.state.opened = row.state.opened /\ row'.state.result = row.state.result
    BY <1>1, <2>1 DEF counted, VoteStates
  <2>4. log'["started"] = log["started"] /\ \A e \in ends : log'[e] = log[e]
    BY <1>1, <2>1 DEF emit, EventTypes
  <2>5. log'["vote_submitted"] = log["vote_submitted"] + 1
    BY <1>1, <2>1, EmitCount DEF EventTypes
  <2>6. log'["vote_submitted"] >= Cardinality(DOMAIN ballots')
    BY <1>2, <2>2, <2>5 DEF VoteLogInv
  <2> QED
    BY <1>3, <2>3, <2>4, <2>6
<1>6. ASSUME NEW t \in Threads, changeVote(t) PROVE VoteLogInv'
  <2>1. PICK types \in {{}, {"vote_submitted"}} : emit(types)
    BY <1>6 DEF changeVote
  <2>2. row' = row /\ DOMAIN ballots' = DOMAIN ballots
    BY <1>1, <1>6 DEF changeVote, TypeOK
  <2>3. log'["started"] = log["started"] /\ \A e \in ends : log'[e] = log[e]
    BY <1>1, <2>1 DEF emit, EventTypes
  <2>4. log'["vote_submitted"] \in {log["vote_submitted"], log["vote_submitted"] + 1}
    BY <1>1, <2>1 DEF emit, EventTypes
  <2> QED
    BY <1>2, <1>3, <2>2, <2>3, <2>4 DEF VoteLogInv
<1>7. ASSUME NEW t \in Threads, emitBriefEvents(t) PROVE VoteLogInv'
  <2>1. PICK types \in {{"brief_created"}, {"brief_aggregation_completed"}} : emit(types)
    BY <1>7 DEF emitBriefEvents
  <2>2. UNCHANGED <<row, ballots>>
    BY <1>7 DEF emitBriefEvents
  <2>3. /\ log'["started"] = log["started"] /\ \A e \in ends : log'[e] = log[e]
        /\ log'["vote_submitted"] = log["vote_submitted"]
    BY <1>1, <2>1 DEF emit, EventTypes
  <2> QED
    BY <1>2, <1>3, <2>2, <2>3 DEF VoteLogInv
<1>8. ASSUME UNCHANGED <<log, ballots>>, row'.state = row.state PROVE VoteLogInv'
  BY <1>3, <1>8 DEF VoteLogInv
<1> QED
  BY <1>4, <1>5, <1>6, <1>7, <1>8, LogStep

-----------------------------------------------------------------------------
(***************************************************************************)
(* The brief and its events.                                               *)
(***************************************************************************)
\* No step but the brief's own touches its events.
LEMMA BriefEvents ==
    ASSUME IInv, [Next]_vars
    PROVE  \/ /\ log'["brief_created"] = log["brief_created"]
              /\ log'["brief_aggregation_completed"] = log["brief_aggregation_completed"]
           \/ \E t \in Threads : emitBriefEvents(t)
<1>1. log \in [EventTypes -> Nat] /\ TypeOK
  BY DEF IInv, TypeInv, TypeOK
<1>2. ASSUME NEW types, emit(types), types \cap {"brief_created", "brief_aggregation_completed"} = {}
      PROVE  /\ log'["brief_created"] = log["brief_created"]
             /\ log'["brief_aggregation_completed"] = log["brief_aggregation_completed"]
  BY <1>1, <1>2, EmitCount DEF EventTypes
<1>3. ASSUME NEW t \in Threads, transitionProcess(t)
      PROVE  /\ log'["brief_created"] = log["brief_created"]
             /\ log'["brief_aggregation_completed"] = log["brief_aggregation_completed"]
  <2>1. /\ row.state \in VoteStates
        /\ row'.state = handled(req[t]) /\ req[t] \in RequestRecords /\ req[t].snap.state = row.state
        /\ Accepted(req[t]) /\ req[t].kind \in Kinds /\ req[t].kind # "vote" /\ emit(actionEvents(req[t]))
    BY <1>3, WriteMove
  <2>2. Moves(req[t], row.state, handled(req[t]))
    BY <2>1, HandledMove
  <2>3. actionEvents(req[t]) \cap {"brief_created", "brief_aggregation_completed"} = {}
    BY <2>1, <2>2, WriteEvents DEF Moves
  <2> QED
    BY <1>2, <2>1, <2>3
<1>4. ASSUME NEW t \in Threads, NEW r, firstVote(t, r)
      PROVE  /\ log'["brief_created"] = log["brief_created"]
             /\ log'["brief_aggregation_completed"] = log["brief_aggregation_completed"]
  BY <1>2, <1>4 DEF firstVote
<1>5. ASSUME NEW t \in Threads, changeVote(t)
      PROVE  /\ log'["brief_created"] = log["brief_created"]
             /\ log'["brief_aggregation_completed"] = log["brief_aggregation_completed"]
  BY <1>2, <1>5 DEF changeVote
<1> QED
  BY <1>3, <1>4, <1>5, LogStep

\* One request at most ever has the brief's events to record, and records each once.
LEMMA NextBriefLog == IInv /\ BriefLogInv /\ [Next]_vars => BriefLogInv'
<1> SUFFICES ASSUME IInv, BriefLogInv, [Next]_vars PROVE BriefLogInv'
  OBVIOUS
<1> DEFINE made == log["brief_created"]
           told == log["brief_aggregation_completed"]
<1>1. log \in [EventTypes -> Nat] /\ TypeOK /\ made \in Nat /\ told \in Nat
      /\ req \in [Threads -> RequestRecords]
  BY DEF IInv, TypeInv, TypeOK, EventTypes
<1>2. ASSUME NEW s \in Threads, Recording(req'[s])
      PROVE  \/ req'[s] = req[s]
             \/ spawnBriefFromClosedProcess(s) /\ brief = None /\ req'[s].pc = "created"
             \/ emitBriefEvents(s) /\ req[s].pc = "created" /\ req'[s].pc = "aggregated"
  BY <1>2, PublishStep DEF Recording, Publishing
<1>3. ASSUME NEW t \in Threads, spawnBriefFromClosedProcess(t), brief = None PROVE BriefLogInv'
  <2>1. brief' = req[t].tally /\ goto(t, "created") /\ UNCHANGED log
    BY <1>3 DEF spawnBriefFromClosedProcess
  <2>2. brief' # None
    <3>1. req[t].tally \in Tallies
      BY <1>3 DEF spawnBriefFromClosedProcess, at, IInv, TypeInv, RequestsOK, RequestOK
    <3> QED
      BY <2>1, <3>1, NoneAssumption
  <2>3. made = 0 /\ told = 0 /\ \A s \in Threads : ~Recording(req[s])
    BY <1>1, <1>3 DEF BriefLogInv
  <2>4. req'[t].pc = "created" /\ \A s \in Threads \ {t} : req'[s] = req[s]
    BY <1>1, <2>1 DEF goto, RequestRecords
  <2> QED
    BY <2>1, <2>2, <2>3, <2>4 DEF BriefLogInv, Recording, at
<1>4. ASSUME NEW t \in Threads, emitBriefEvents(t), at(t, "created") PROVE BriefLogInv'
  <2>1. emit({"brief_created"}) /\ goto(t, "aggregated") /\ UNCHANGED brief
    BY <1>4 DEF emitBriefEvents, at
  <2>2. /\ made = 0 /\ told = 0 /\ brief # None
        /\ \A s \in Threads \ {t} : ~Recording(req[s])
    BY <1>1, <1>4 DEF BriefLogInv, Recording, at
  <2>3. log'["brief_created"] = 1 /\ log'["brief_aggregation_completed"] = 0
    BY <1>1, <2>1, <2>2, EmitCount DEF EventTypes
  <2>4. req'[t].pc = "aggregated" /\ \A s \in Threads \ {t} : req'[s] = req[s]
    BY <1>1, <2>1 DEF goto, RequestRecords
  <2> QED
    BY <2>1, <2>2, <2>3, <2>4 DEF BriefLogInv, Recording, at
<1>5. ASSUME NEW t \in Threads, emitBriefEvents(t), at(t, "aggregated") PROVE BriefLogInv'
  <2>1. emit({"brief_aggregation_completed"}) /\ finish(t) /\ UNCHANGED brief
    BY <1>5 DEF emitBriefEvents, at
  <2>2. /\ made = 1 /\ told = 0 /\ brief # None
        /\ \A s \in Threads \ {t} : ~Recording(req[s])
    BY <1>1, <1>5 DEF BriefLogInv, Recording, at
  <2>3. log'["brief_created"] = 1 /\ log'["brief_aggregation_completed"] = 1
    BY <1>1, <2>1, <2>2, EmitCount DEF EventTypes
  <2>4. ~Recording(req'[t]) /\ \A s \in Threads \ {t} : req'[s] = req[s]
    BY <1>1, <2>1 DEF finish, Idle, newRequest, Recording
  <2> QED
    BY <2>1, <2>2, <2>3, <2>4 DEF BriefLogInv
<1>6. ASSUME brief' = brief, log'["brief_created"] = made, log'["brief_aggregation_completed"] = told,
             \A s \in Threads : Recording(req'[s]) => req'[s] = req[s]
      PROVE  BriefLogInv'
  BY <1>6 DEF BriefLogInv, at
<1>7. CASE \E t \in Threads : emitBriefEvents(t)
  BY <1>4, <1>5, <1>7 DEF emitBriefEvents
<1>8. CASE \E t \in Threads : spawnBriefFromClosedProcess(t) /\ brief = None
  BY <1>3, <1>8
<1>9. CASE ~(\E t \in Threads : emitBriefEvents(t))
           /\ ~(\E t \in Threads : spawnBriefFromClosedProcess(t) /\ brief = None)
  <2>1. brief' = brief
    BY <1>9, BriefStep
  <2>2. log'["brief_created"] = made /\ log'["brief_aggregation_completed"] = told
    BY <1>9, BriefEvents
  <2>3. \A s \in Threads : Recording(req'[s]) => req'[s] = req[s]
    BY <1>2, <1>9
  <2> QED
    BY <1>6, <2>1, <2>2, <2>3
<1> QED
  BY <1>7, <1>8, <1>9

\* A close that goes through publishes a result.
LEMMA CloseHasResult ==
    ASSUME IInv, NEW t \in Threads, transitionProcess(t), enteredTerminal(req[t])
    PROVE  row'.state.result # None
<1>1. /\ row.state \in VoteStates /\ row'.state = handled(req[t])
      /\ req[t] \in RequestRecords /\ req[t].snap.state = row.state
      /\ Accepted(req[t]) /\ req[t].kind \in Kinds /\ req[t].kind # "vote"
  BY WriteMove
<1>2. Moves(req[t], row.state, handled(req[t]))
  BY <1>1, HandledMove
<1>3. toStatus(req[t]) = handled(req[t]).status /\ toStatus(req[t]) \in {"closed", "finalized"}
  BY DEF enteredTerminal, toStatus, isTerminalStatus
<1>4. req[t].kind \in {"close", "deadline"}
  BY <1>1, <1>2, <1>3, KindsAssumption DEF Moves, enteredTerminal
<1>5. req[t].tally \in Tallies
  BY <1>4, WriteIsCurrent DEF IInv, RequestOK, actionOf
<1> QED
  BY <1>1, <1>4, <1>5, HandledFrame, NoneAssumption

\* Once a result is out, no step changes it or the ballots.
LEMMA ResultStays ==
    ASSUME IInv, [Next]_vars, row.state.result # None
    PROVE  ballots' = ballots /\ row'.state.result # None
<1>1. row.state.status = "finalized" /\ row.status # "active" /\ row.state \in VoteStates
  BY DEF IInv, StatusInv, StatusAgrees, ResultInv, isPubliclyFetchable, NON_PUBLIC_STATUSES,
         TypeInv, TypeOK, Rows
<1>2. ballots' = ballots
  BY <1>1, BallotStep
<1>3. ASSUME NEW t \in Threads, transitionProcess(t), row'.state = handled(req[t])
      PROVE  row'.state.result = row.state.result
  <2>1. req[t].kind \in {"archive", "restore"} /\ req[t].snap.state = row.state
    BY <1>1, <1>3, FinalizedTakesNoAction, WriteIsCurrent DEF IInv
  <2> QED
    BY <1>1, <1>3, <2>1 DEF handled, archived, restored, VoteStates
<1> QED
  BY <1>1, <1>2, <1>3, StateStep

\* A brief, and the tally a request is about to make one of, are the ballots', which no step
\* changes any more.
LEMMA NextFinalTally == IInv /\ FinalTallyInv /\ [Next]_vars => FinalTallyInv'
<1> SUFFICES ASSUME IInv, FinalTallyInv, [Next]_vars PROVE FinalTallyInv'
  OBVIOUS
<1>1. ASSUME NEW s \in Threads, Publishing(req'[s])
      PROVE  row'.state.result # None
  <2>1. CASE Publishing(req[s])
    BY <2>1, ResultStays DEF FinalTallyInv
  <2>2. CASE ~Publishing(req[s])
    <3>1. transitionProcess(s) /\ enteredTerminal(req[s])
      BY <1>1, <2>2, PublishStep
         DEF Publishing, spawnBriefFromClosedProcess, at
    <3> QED
      BY <3>1, CloseHasResult
  <2> QED
    BY <2>1, <2>2
<1>2. ASSUME NEW s \in Threads, req'[s].pc = "spawn"
      PROVE  req'[s].tally = computeTally(ballots')
  <2>1. Publishing(req'[s])
    BY <1>2 DEF Publishing
  <2>2. \/ req'[s] = req[s]
        \/ req[s].pc = "find" /\ req'[s].tally = computeTally(ballots)
    BY <1>2, <2>1, PublishStep
  <2>3. Publishing(req[s]) /\ req'[s].tally = computeTally(ballots)
    BY <1>2, <2>2 DEF Publishing, FinalTallyInv, at
  <2>4. ballots' = ballots
    BY <2>3, ResultStays DEF FinalTallyInv
  <2> QED
    BY <2>3, <2>4
<1>3. ASSUME brief' # None
      PROVE  row'.state.result # None /\ brief' = computeTally(ballots')
  <2>1. CASE brief' = brief
    <3>1. row.state.result # None /\ brief = computeTally(ballots)
      BY <1>3, <2>1 DEF FinalTallyInv
    <3> QED
      BY <2>1, <3>1, ResultStays
  <2>2. ASSUME NEW t \in Threads, spawnBriefFromClosedProcess(t), brief' = req[t].tally
        PROVE  row'.state.result # None /\ brief' = computeTally(ballots')
    <3>1. at(t, "spawn") /\ Publishing(req[t])
      BY <2>2 DEF spawnBriefFromClosedProcess, at, Publishing
    <3>2. row.state.result # None /\ brief' = computeTally(ballots)
      BY <2>2, <3>1 DEF FinalTallyInv
    <3> QED
      BY <3>2, ResultStays
  <2> QED
    BY <2>1, <2>2, BriefStep
<1> QED
  BY <1>1, <1>2, <1>3 DEF FinalTallyInv, at

-----------------------------------------------------------------------------
(***************************************************************************)
(* The invariant, and what follows from it.                                *)
(***************************************************************************)
\* A vote just created has said nothing, opened nothing and has no brief.
LEMMA InitLog == Init => LogInv
<1> SUFFICES ASSUME Init PROVE LogInv
  OBVIOUS
<1>1. /\ row.status \in {"draft", "pending_review"} /\ row.state = createVoteState
      /\ ballots = <<>> /\ brief = None /\ \A e \in EventTypes : log[e] = 0
  BY DEF Init
<1>2. \A t \in Threads : req[t].pc = "idle"
  BY DEF Init, Idle, newRequest
<1>3. Cardinality(DOMAIN ballots) = 0
  <2>1. DOMAIN ballots = {}
    BY <1>1
  <2> QED
    BY <2>1, FS_EmptySet
<1>4. OpenInv /\ ThresholdInv
  BY <1>1 DEF OpenInv, ThresholdInv, createVoteState
<1>5. VoteLogInv
  BY <1>1, <1>3 DEF VoteLogInv, EventTypes, createVoteState
<1>6. BriefLogInv /\ FinalTallyInv
  BY <1>1, <1>2 DEF BriefLogInv, FinalTallyInv, Recording, Publishing, EventTypes, at
<1>7. RemovalsAccounted
  BY <1>1 DEF RemovalsAccounted, createVoteState, EventTypes
<1> QED
  BY <1>4, <1>5, <1>6, <1>7 DEF LogInv

\* Every step keeps the invariant.
LEMMA NextLog == IInv /\ LogInv /\ [Next]_vars => LogInv'
<1>1. IInv /\ RemovalsAccounted /\ [Next]_vars => RemovalsAccounted'
  BY NextRemoval
<1> QED
  BY <1>1, NextOpen, NextThreshold, NextVoteLog, NextBriefLog, NextFinalTally DEF LogInv

\* The invariant holds in every reachable state.
LEMMA LogInvariance == Spec => []LogInv
<1>1. Init /\ IInv => LogInv
  BY InitLog
<1> QED
  BY <1>1, NextLog, Invariance, PTL DEF Spec

\* The public log says what happened to the row, once, whatever requests race, retry or die:
\* a losing write leaves no event, and one request records the brief.
THEOREM LogIsTrue == Spec => []LogMatchesRow
<1>1. LogInv => LogMatchesRow
  <2> SUFFICES ASSUME LogInv PROVE LogMatchesRow
    OBVIOUS
  <2> QED
    BY DEF LogInv, VoteLogInv, BriefLogInv, LogMatchesRow
<1> QED
  BY <1>1, LogInvariance, PTL

\* The brief shows the tally of the final ballots, whichever of several closes made it.
THEOREM BriefIsFinal == Spec => []BriefIsFinalTally
<1>1. IInv /\ LogInv => BriefIsFinalTally
  <2> SUFFICES ASSUME IInv, LogInv, brief # None
               PROVE  brief = computeTally(ballots) /\ brief.total_votes = row.state.total_votes
    BY DEF BriefIsFinalTally
  <2>1. brief = computeTally(ballots)
    BY DEF LogInv, FinalTallyInv
  <2>2. computeTally(ballots).total_votes = Cardinality(DOMAIN ballots)
    BY BallotsFinite, TallyType DEF IInv, TypeInv
  <2> QED
    BY <2>1, <2>2 DEF IInv, CountInv, CountMatches
<1> QED
  BY <1>1, Invariance, LogInvariance, PTL

\* A vote that needs endorsements opens with enough, for any threshold.
THEOREM OpensWithEnough == Spec => []OpenedByThreshold
<1>1. LogInv => OpenedByThreshold
  BY DEF LogInv, OpenInv, ThresholdInv, OpenedByThreshold
<1> QED
  BY <1>1, LogInvariance, PTL

\* In production and outside it, every restoration undoes a removal, and a removal stands
\* only while the vote is down, or where the log shows the action that was written over the
\* archive: outside production there is none, so there a restore undoes exactly what was
\* announced.  In production it need not (RemovalUndone).
THEOREM RemovalsAreAccounted == Spec => []RemovalsAccounted
<1>1. LogInv => RemovalsAccounted
  BY DEF LogInv
<1> QED
  BY <1>1, LogInvariance, PTL

=============================================================================
