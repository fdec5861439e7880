------------------------- MODULE VoteProcess_proofs -------------------------
(***************************************************************************)
(* Proofs about VoteProcess, for any number of accounts, receipts, choices *)
(* and concurrent requests, any bounds on requests and crashes, in both    *)
(* activation modes, in production and outside it.                         *)
(***************************************************************************)
EXTENDS VoteProcess, FiniteSetTheorems, TLAPS

\* The request holds an image of the row that it will write on top of, or vote on.
Holding(q) == q.pc \in {"ballots", "write", "check", "cast"}

\* What the request was let through on, as a fact about the image it holds.
Accepted(q) ==
    CASE q.kind = "archive" -> q.snap.status # "archived"
      [] q.kind = "restore" -> q.snap.status = "archived"
      [] OTHER -> handlerAccepts(actionOf(q.kind), q.actor, q.snap.state)

\* A request in flight has what its next step reads.
RequestOK(q) ==
    /\ q.pc # "idle" => /\ q.kind \in Kinds
                        /\ q.kind # "deadline" => q.actor \in Users
                        /\ q.kind = "vote" => q.choice \in Choices
    /\ Holding(q) => q.snap \in Snapshots /\ Accepted(q)
    /\ q.pc \in {"ballots", "write"} => q.kind # "vote"
    /\ q.pc \in {"check", "cast", "reply"} => q.kind = "vote"
    /\ q.pc = "ballots" => actionOf(q.kind) = "close"
    /\ q.pc = "write" /\ actionOf(q.kind) = "close" => q.tally \in Tallies
    /\ q.pc = "spawn" => q.tally \in Tallies

RequestsOK == \A t \in Threads : RequestOK(req[t])

TypeInv == TypeOK /\ RequestsOK

-----------------------------------------------------------------------------
(***************************************************************************)
(* Lemmas about the operators.                                             *)
(***************************************************************************)
\* A tally of any ballots has the shape of a result.
LEMMA TallyType ==
    ASSUME NEW b, IsFiniteSet(DOMAIN b)
    PROVE  computeTally(b) \in Tallies /\ computeTally(b).total_votes = Cardinality(DOMAIN b)
<1>1. \A c \in Choices : Cardinality({r \in DOMAIN b : b[r] = c}) \in Nat
  <2> TAKE c \in Choices
  <2>1. {r \in DOMAIN b : b[r] = c} \subseteq DOMAIN b
    OBVIOUS
  <2>2. IsFiniteSet({r \in DOMAIN b : b[r] = c})
    BY <2>1, FS_Subset
  <2> QED
    BY <2>2, FS_CardinalityType
<1>2. Cardinality(DOMAIN b) \in Nat
  BY FS_CardinalityType
<1> QED
  BY <1>1, <1>2 DEF computeTally, Tallies

\* The ballots of a well-typed state are finitely many.
LEMMA BallotsFinite ==
    ASSUME TypeOK
    PROVE  IsFiniteSet(DOMAIN ballots) /\ IsFiniteSet(voted)
BY FS_Subset, ConstantsAssumption DEF TypeOK

\* What a request makes of a well-typed image is a well-typed state of the vote.
LEMMA HandledType ==
    ASSUME NEW q \in RequestRecords, RequestOK(q), q.pc = "write"
    PROVE  handled(q) \in VoteStates /\ toStatus(q) \in ProcessStatuses
<1>1. q.snap \in Snapshots /\ q.snap.state \in VoteStates /\ q.snap.status \in ProcessStatuses
  BY DEF RequestOK, Holding, Snapshots
<1>2. q.kind \in Kinds /\ (q.kind # "deadline" => q.actor \in Users) /\ q.kind # "vote"
  BY DEF RequestOK
<1>3. CASE q.kind = "propose"
  BY <1>1, <1>3 DEF handled, toStatus, VoteStates, ProcessStatuses, VoteStatuses
<1>4. CASE q.kind = "support"
  <2>1. addSupport(q.snap.state, q.actor) \in VoteStates
    BY <1>1, <1>2, <1>4 DEF addSupport, activated, VoteStates, VoteStatuses
  <2> QED
    BY <2>1, <1>4 DEF handled, toStatus, VoteStates, ProcessStatuses
<1>5. CASE q.kind = "unsupport"
  BY <1>1, <1>5 DEF handled, toStatus, VoteStates, ProcessStatuses
<1>6. CASE q.kind = "activate"
  BY <1>1, <1>6 DEF handled, toStatus, activated, VoteStates, ProcessStatuses, VoteStatuses
<1>7. CASE q.kind = "archive"
  BY <1>1, <1>7 DEF handled, toStatus, archived, restored, VoteStates, ArchiveMeta, ProcessStatuses,
                    NON_PUBLIC_STATUSES, isPubliclyFetchable
<1>8. CASE q.kind = "restore"
  BY <1>1, <1>8, NoneAssumption
     DEF handled, restored, toStatus, VoteStates, ArchiveMeta, ProcessStatuses, VoteStatuses
<1>9. CASE q.kind \in {"close", "deadline"}
  <2>1. q.tally \in Tallies
    BY <1>9 DEF RequestOK, actionOf
  <2> QED
    BY <1>1, <1>9, <2>1 DEF handled, toStatus, Snapshots, VoteStates, ProcessStatuses, VoteStatuses
<1> QED
  BY <1>2, <1>3, <1>4, <1>5, <1>6, <1>7, <1>8, <1>9, KindsAssumption

-----------------------------------------------------------------------------
(***************************************************************************)
(* Types, and what a request in flight carries.                            *)
(***************************************************************************)
\* The request that moves on is well formed, the others are untouched.
LEMMA OneRequest ==
    ASSUME TypeInv, NEW t \in Threads, NEW q \in RequestRecords, RequestOK(q),
           req' = [req EXCEPT ![t] = q]
    PROVE  req' \in [Threads -> RequestRecords] /\ RequestsOK'
<1>1. req \in [Threads -> RequestRecords]
  BY DEF TypeInv, TypeOK
<1>2. req' \in [Threads -> RequestRecords]
  BY <1>1
<1>3. ASSUME NEW s \in Threads PROVE RequestOK(req[s])'
  <2>1. CASE s = t
    <3>1. req'[s] = q
      BY <1>1, <2>1
    <3> QED
      BY <3>1 DEF RequestOK, Holding, Accepted
  <2>2. CASE s # t
    <3>1. req'[s] = req[s] /\ RequestOK(req[s])
      BY <1>1, <2>2 DEF TypeInv, RequestsOK
    <3> QED
      BY <3>1 DEF RequestOK, Holding, Accepted
  <2> QED
    BY <2>1, <2>2
<1> QED
  BY <1>2, <1>3 DEF RequestsOK

\* A request that ends, starts or starts over is well formed.
LEMMA NewRequestOK ==
    ASSUME NEW pc \in {"idle", "attempt", "claim"}, NEW kind \in Kinds \cup {None},
           NEW u \in Users \cup {None}, NEW choice \in Choices \cup {None},
           NEW held \in Receipts \cup {None}, NEW n \in 0..MaxAttempts,
           pc # "idle" => /\ kind \in Kinds
                          /\ kind # "deadline" => u \in Users
                          /\ kind = "vote" => choice \in Choices
    PROVE  /\ newRequest(pc, kind, u, choice, held, n) \in RequestRecords
           /\ RequestOK(newRequest(pc, kind, u, choice, held, n))
BY DEF newRequest, RequestRecords, PCs, RequestOK, Holding

\* A thread with no request in flight is well formed.
LEMMA IdleOK == Idle \in RequestRecords /\ RequestOK(Idle)
<1>1. 0 \in 0..MaxAttempts
  BY ConstantsAssumption
<1> QED
  BY <1>1, NewRequestOK DEF Idle

\* The types hold initially.
LEMMA InitType == Init => TypeInv
<1> SUFFICES ASSUME Init PROVE TypeInv
  OBVIOUS
<1>1. createVoteState \in VoteStates
  BY DEF createVoteState, VoteStates, VoteStatuses
<1>2. row \in Rows
  BY <1>1 DEF Init, Rows, ProcessStatuses, VoteStatuses, NON_PUBLIC_STATUSES
<1>3. DOMAIN ballots = {} /\ ballots \in [DOMAIN ballots -> Choices]
  BY DEF Init
<1> QED
  BY <1>2, <1>3, IdleOK, ConstantsAssumption
     DEF Init, TypeInv, TypeOK, RequestsOK

\* Counting an event keeps the log a log.
LEMMA EmitType ==
    ASSUME TypeOK, NEW types, emit(types)
    PROVE  log' \in [EventTypes -> Nat]
BY DEF TypeOK, emit

\* Every step keeps the types and leaves each request with what its next step needs.
LEMMA NextType == TypeInv /\ [Next]_vars => TypeInv'
<1> SUFFICES ASSUME TypeInv, [Next]_vars PROVE TypeInv'
  OBVIOUS
<1> USE DEF TypeInv
<1>0. 0 \in 0..MaxAttempts /\ 1 \in 0..MaxAttempts
  BY ConstantsAssumption
<1>1. \A t \in Threads : req[t] \in RequestRecords /\ RequestOK(req[t])
  BY DEF TypeOK, RequestsOK
<1>2. IsFiniteSet(DOMAIN ballots) /\ computeTally(ballots) \in Tallies
  BY BallotsFinite, TallyType
<1>3. ASSUME NEW t \in Threads, Act(t) PROVE TypeInv'
  <2>1. PICK kind \in Kinds \ {"vote", "deadline"}, u \in Users :
            actOnProcess(t, kind, u, None, None)
    BY <1>3 DEF Act
  <2> DEFINE q == newRequest("attempt", kind, u, None, None, 1)
  <2>2. q \in RequestRecords /\ RequestOK(q)
    BY <1>0, NewRequestOK
  <2>3. req' = [req EXCEPT ![t] = q]
    BY <2>1 DEF actOnProcess
  <2>4. req' \in [Threads -> RequestRecords] /\ RequestsOK'
    BY <2>2, <2>3, OneRequest
  <2> QED
    BY <2>1, <2>4 DEF actOnProcess, TypeOK
<1>4. ASSUME NEW t \in Threads, Vote(t) PROVE TypeInv'
  <2>1. PICK u \in Users, c \in Choices, h \in {None} \cup {browser[v] : v \in Users} :
            actOnProcess(t, "vote", u, c, h)
    BY <1>4 DEF Vote
  <2> DEFINE q == newRequest("attempt", "vote", u, c, h, 1)
  <2>2. h \in Receipts \cup {None} /\ "vote" \in Kinds
    BY <1>4 DEF TypeOK, Vote
  <2>3. q \in RequestRecords /\ RequestOK(q)
    BY <1>0, <2>2, NewRequestOK
  <2>4. req' = [req EXCEPT ![t] = q]
    BY <2>1 DEF actOnProcess
  <2>5. req' \in [Threads -> RequestRecords] /\ RequestsOK'
    BY <2>3, <2>4, OneRequest
  <2> QED
    BY <2>1, <2>5 DEF actOnProcess, TypeOK
<1>5. ASSUME NEW t \in Threads, attemptAction(t) PROVE TypeInv'
  <2> DEFINE snap == [status |-> row.status, version |-> row.version, state |-> row.state,
                      early |-> earlyCloseOf(req[t])]
             q == [req[t] EXCEPT !.pc = nextStep(req[t].kind), !.snap = snap]
  <2>1. CASE accepts(req[t])
    <3>1. snap \in Snapshots
      BY DEF TypeOK, Rows, Snapshots, earlyCloseOf
    <3>2. req[t].pc = "attempt" /\ req[t].kind \in Kinds
          /\ (req[t].kind # "deadline" => req[t].actor \in Users)
          /\ (req[t].kind = "vote" => req[t].choice \in Choices)
      BY <1>1, <1>5 DEF attemptAction, at, RequestOK
    <3>3. nextStep(req[t].kind) \in {"ballots", "check", "write"}
      BY DEF nextStep
    <3>4. q \in RequestRecords
      BY <1>1, <3>1, <3>3 DEF RequestRecords, PCs
    <3>5. q.snap = snap /\ q.kind = req[t].kind /\ q.actor = req[t].actor
          /\ q.choice = req[t].choice /\ q.pc = nextStep(req[t].kind)
      BY <1>1 DEF RequestRecords
    <3>6. Accepted(q)
      BY <2>1, <3>5 DEF accepts, Accepted
    <3>7. /\ q.pc \in {"ballots", "write"} => q.kind # "vote"
          /\ q.pc \in {"check", "cast", "reply"} => q.kind = "vote"
          /\ q.pc = "ballots" => actionOf(q.kind) = "close"
          /\ q.pc = "write" => actionOf(q.kind) # "close"
          /\ q.pc # "spawn"
      BY <3>5 DEF nextStep, actionOf
    <3>8. RequestOK(q)
      BY <3>1, <3>2, <3>3, <3>5, <3>6, <3>7 DEF RequestOK
    <3>9. req' = [req EXCEPT ![t] = q]
      BY <1>5, <2>1 DEF attemptAction
    <3>10. req' \in [Threads -> RequestRecords] /\ RequestsOK'
      BY <3>4, <3>8, <3>9, OneRequest
    <3> QED
      BY <1>5, <3>10 DEF attemptAction, TypeOK
  <2>2. CASE ~accepts(req[t])
    <3>1. req' = [req EXCEPT ![t] = Idle]
      BY <1>5, <2>2 DEF attemptAction
    <3>2. req' \in [Threads -> RequestRecords] /\ RequestsOK'
      BY <3>1, IdleOK, OneRequest
    <3> QED
      BY <1>5, <3>2 DEF attemptAction, TypeOK
  <2> QED
    BY <2>1, <2>2
<1>6. ASSUME NEW t \in Threads, getBallotChoicesForProcess(t) PROVE TypeInv'
  <2> DEFINE q == [req[t] EXCEPT !.pc = "write", !.tally = computeTally(ballots)]
  <2>1. q \in RequestRecords
    BY <1>1, <1>2 DEF RequestRecords, PCs
  <2>2. RequestOK(q)
    BY <1>1, <1>2, <1>6 DEF getBallotChoicesForProcess, at, RequestRecords, RequestOK, Holding, Accepted
  <2>3. req' = [req EXCEPT ![t] = q]
    BY <1>6 DEF getBallotChoicesForProcess
  <2>4. req' \in [Threads -> RequestRecords] /\ RequestsOK'
    BY <2>1, <2>2, <2>3, OneRequest
  <2> QED
    BY <1>6, <2>4 DEF getBallotChoicesForProcess, TypeOK
<1>7. ASSUME NEW t \in Threads, finish(t)
      PROVE  req' \in [Threads -> RequestRecords] /\ RequestsOK'
  BY <1>7, IdleOK, OneRequest DEF finish
<1>8. ASSUME NEW t \in Threads, NEW pc \in {"cast", "attempt", "after", "find", "created", "aggregated"},
             goto(t, pc), req[t].pc # "idle",
             pc = "cast" => Holding(req[t]) /\ req[t].kind = "vote"
      PROVE  req' \in [Threads -> RequestRecords] /\ RequestsOK'
  <2> DEFINE q == [req[t] EXCEPT !.pc = pc]
  <2>1. q \in RequestRecords
    BY <1>1 DEF RequestRecords, PCs
  <2>2. RequestOK(q)
    BY <1>1, <1>8 DEF RequestRecords, RequestOK, Holding, Accepted
  <2>3. req' = [req EXCEPT ![t] = q]
    BY <1>8 DEF goto
  <2> QED
    BY <2>1, <2>2, <2>3, OneRequest
<1>9. ASSUME NEW t \in Threads, transitionProcess(t) PROVE TypeInv'
  <2>1. req[t].pc = "write"
    BY <1>9 DEF transitionProcess, at
  <2>2. handled(req[t]) \in VoteStates /\ toStatus(req[t]) \in ProcessStatuses
    BY <1>1, <2>1, HandledType
  <2>3. row' \in Rows
    BY <1>9, <2>2 DEF transitionProcess, TypeOK, Rows
  <2>4. log' \in [EventTypes -> Nat]
    BY <1>9, EmitType DEF transitionProcess
  <2>5. goto(t, "after") \/ finish(t)
    BY <1>9 DEF transitionProcess
  <2>6. req' \in [Threads -> RequestRecords] /\ RequestsOK'
    BY <1>7, <1>8, <2>1, <2>5
  <2> QED
    BY <1>9, <2>3, <2>4, <2>6 DEF transitionProcess, TypeOK
<1>10. ASSUME NEW t \in Threads, ProcessChangedError(t) PROVE TypeInv'
  <2>1. CASE actionOf(req[t].kind) \in retrySafeActions /\ req[t].attempt < MaxAttempts
    <3> DEFINE q == newRequest("attempt", req[t].kind, req[t].actor, None, None, req[t].attempt + 1)
    <3>1. req[t].attempt + 1 \in 0..MaxAttempts
      BY <1>1, <2>1, ConstantsAssumption DEF RequestRecords
    <3>2. /\ req[t].kind \in Kinds /\ req[t].kind # "vote"
          /\ req[t].kind # "deadline" => req[t].actor \in Users
          /\ req[t].actor \in Users \cup {None}
      BY <1>1, <1>10 DEF ProcessChangedError, at, RequestOK, RequestRecords
    <3>3. q \in RequestRecords /\ RequestOK(q)
      BY <3>1, <3>2, NewRequestOK
    <3>4. req' = [req EXCEPT ![t] = q]
      BY <1>10, <2>1 DEF ProcessChangedError
    <3>5. req' \in [Threads -> RequestRecords] /\ RequestsOK'
      BY <3>3, <3>4, OneRequest
    <3> QED
      BY <1>10, <3>5 DEF ProcessChangedError, TypeOK
  <2>2. CASE ~(actionOf(req[t].kind) \in retrySafeActions /\ req[t].attempt < MaxAttempts)
    <3>1. finish(t)
      BY <1>10, <2>2 DEF ProcessChangedError, finish
    <3> QED
      BY <1>7, <1>10, <3>1 DEF ProcessChangedError, TypeOK
  <2> QED
    BY <2>1, <2>2
<1>11. ASSUME NEW t \in Threads, descriptorViolation(t) PROVE TypeInv'
  BY <1>7, <1>11 DEF descriptorViolation, TypeOK
<1>12. ASSUME NEW t \in Threads, submitVote(t) PROVE TypeInv'
  <2>1. req[t].pc = "check" /\ Holding(req[t]) /\ req[t].kind = "vote"
    BY <1>1, <1>12 DEF submitVote, at, Holding, RequestOK
  <2>2. goto(t, "cast") \/ finish(t)
    BY <1>12 DEF submitVote
  <2>3. req' \in [Threads -> RequestRecords] /\ RequestsOK'
    BY <1>7, <1>8, <2>1, <2>2
  <2> QED
    BY <1>12, <2>3 DEF submitVote, TypeOK
<1>13. ASSUME NEW t \in Threads, cast_ballot(t) PROVE TypeInv'
  <2>1. req[t].pc = "cast" /\ req[t].actor \in Users /\ req[t].choice \in Choices /\ req[t].kind = "vote"
    BY <1>1, <1>13 DEF cast_ballot, at, RequestOK
  <2>2. ASSUME NEW r \in Receipts \ DOMAIN ballots, firstVote(t, r) PROVE TypeInv'
    <3>1. ballots' \in [DOMAIN ballots' -> Choices] /\ DOMAIN ballots' \subseteq Receipts
      BY <2>1, <2>2 DEF firstVote, TypeOK
    <3>2. row' \in Rows
      <4>1. row \in Rows
        BY DEF TypeOK
      <4>2. row' = [status |-> row.status, version |-> row.version + 1, state |-> counted(row.state)]
        BY <2>2 DEF firstVote
      <4>3. counted(row.state) \in VoteStates
        BY <4>1 DEF Rows, VoteStates, counted
      <4> QED
        BY <4>1, <4>2, <4>3 DEF Rows
    <3>3. log' \in [EventTypes -> Nat]
      BY <2>2, EmitType DEF firstVote
    <3>4. voted' \subseteq Users
      BY <2>1, <2>2 DEF firstVote, TypeOK
    <3>5. CASE req[t].snap.status = "active"
      <4> DEFINE q == [req[t] EXCEPT !.pc = "reply", !.held = r]
      <4>1. q \in RequestRecords /\ RequestOK(q)
        BY <1>1, <2>1 DEF RequestRecords, PCs, RequestOK, Holding
      <4>2. req' = [req EXCEPT ![t] = q]
        BY <2>2, <3>5 DEF firstVote
      <4>3. req' \in [Threads -> RequestRecords] /\ RequestsOK'
        BY <4>1, <4>2, OneRequest
      <4> QED
        BY <1>13, <3>1, <3>2, <3>3, <3>4, <4>3 DEF cast_ballot, TypeOK
    <3>6. CASE req[t].snap.status # "active"
      <4>1. finish(t)
        BY <2>2, <3>6 DEF firstVote, finish
      <4> QED
        BY <1>7, <1>13, <3>1, <3>2, <3>3, <3>4, <4>1 DEF cast_ballot, TypeOK
    <3> QED
      BY <3>5, <3>6
  <2>3. ASSUME changeVote(t) PROVE TypeInv'
    <3>1. ballots' \in [DOMAIN ballots' -> Choices] /\ DOMAIN ballots' \subseteq Receipts
      BY <2>1, <2>3 DEF changeVote, TypeOK
    <3>2. log' \in [EventTypes -> Nat]
      BY <2>3, EmitType DEF changeVote
    <3> QED
      BY <1>7, <1>13, <2>3, <3>1, <3>2 DEF cast_ballot, changeVote, TypeOK
  <2>4. ASSUME castRefused(t) PROVE TypeInv'
    BY <1>7, <1>13, <2>4 DEF cast_ballot, castRefused, TypeOK
  <2> QED
    BY <1>13, <2>2, <2>3, <2>4 DEF cast_ballot
<1>14. ASSUME NEW t \in Threads, recordOrUpdateVote(t) PROVE TypeInv'
  <2>1. browser' \in [Users -> Receipts \cup {None}]
    BY <1>1, <1>14 DEF recordOrUpdateVote, TypeOK, RequestRecords
  <2> QED
    BY <1>7, <1>14, <2>1 DEF recordOrUpdateVote, TypeOK
<1>15. ASSUME NEW t \in Threads, closeIfExpired(t) PROVE TypeInv'
  <2> DEFINE q == newRequest("claim", "deadline", None, None, None, 1)
  <2>1. q \in RequestRecords /\ RequestOK(q)
    BY <1>0, <1>15, NewRequestOK DEF closeIfExpired
  <2>2. req' = [req EXCEPT ![t] = q]
    BY <1>15 DEF closeIfExpired
  <2>3. req' \in [Threads -> RequestRecords] /\ RequestsOK'
    BY <2>1, <2>2, OneRequest
  <2> QED
    BY <1>15, <2>3 DEF closeIfExpired, TypeOK
<1>16. ASSUME NEW t \in Threads, closeAtDeadline(t) PROVE TypeInv'
  <2>1. req[t].pc = "claim"
    BY <1>16 DEF closeAtDeadline, at
  <2>2. goto(t, "attempt") \/ finish(t)
    BY <1>16 DEF closeAtDeadline
  <2>3. req' \in [Threads -> RequestRecords] /\ RequestsOK'
    BY <1>7, <1>8, <2>1, <2>2
  <2>4. row \in Rows /\ claim \in BOOLEAN
    BY DEF TypeOK
  <2>5. row' = row \/ row' = [row EXCEPT !.version = @ + 1]
    BY <1>16 DEF closeAtDeadline
  <2>6. row' \in Rows
    BY <2>4, <2>5 DEF Rows
  <2>7. claim' \in BOOLEAN
    BY <1>16, <2>4 DEF closeAtDeadline
  <2> QED
    BY <1>16, <2>3, <2>6, <2>7 DEF closeAtDeadline, TypeOK
<1>17. ASSUME NEW t \in Threads, afterCommit(t) PROVE TypeInv'
  BY <1>8, <1>17 DEF afterCommit, at, TypeOK
<1>18. ASSUME NEW t \in Threads, generateBrief(t) PROVE TypeInv'
  <2>1. CASE brief = None /\ BriefsOn
    <3> DEFINE q == [req[t] EXCEPT !.pc = "spawn", !.tally = computeTally(ballots)]
    <3>1. q \in RequestRecords
      BY <1>1, <1>2 DEF RequestRecords, PCs
    <3>2. RequestOK(q)
      BY <1>1, <1>2, <1>18 DEF generateBrief, at, RequestRecords, RequestOK, Holding
    <3>3. req' = [req EXCEPT ![t] = q]
      BY <1>18, <2>1 DEF generateBrief
    <3>4. req' \in [Threads -> RequestRecords] /\ RequestsOK'
      BY <3>1, <3>2, <3>3, OneRequest
    <3> QED
      BY <1>18, <3>4 DEF generateBrief, TypeOK
  <2>2. CASE ~(brief = None /\ BriefsOn)
    BY <1>7, <1>18, <2>2 DEF generateBrief, TypeOK
  <2> QED
    BY <2>1, <2>2
<1>19. ASSUME NEW t \in Threads, spawnBriefFromClosedProcess(t) PROVE TypeInv'
  <2>1. req[t].pc = "spawn" /\ req[t].tally \in Tallies
    BY <1>1, <1>19 DEF spawnBriefFromClosedProcess, at, RequestOK
  <2>2. goto(t, "created") \/ finish(t)
    BY <1>19 DEF spawnBriefFromClosedProcess
  <2>3. req' \in [Threads -> RequestRecords] /\ RequestsOK'
    BY <1>7, <1>8, <2>1, <2>2
  <2> QED
    BY <1>19, <2>1, <2>3 DEF spawnBriefFromClosedProcess, TypeOK
<1>20. ASSUME NEW t \in Threads, emitBriefEvents(t) PROVE TypeInv'
  <2>1. log' \in [EventTypes -> Nat]
    BY <1>20, EmitType DEF emitBriefEvents
  <2> QED
    BY <1>7, <1>8, <1>20, <2>1 DEF emitBriefEvents, at, TypeOK
<1>21. ASSUME NEW t \in Threads, Crash(t) PROVE TypeInv'
  BY <1>7, <1>21 DEF Crash, TypeOK
<1>22. CASE ClaimLapses \/ DeadlinePasses \/ UNCHANGED vars
  <2>1. UNCHANGED req
    BY <1>22 DEF ClaimLapses, DeadlinePasses, vars
  <2>2. RequestsOK'
    BY <2>1 DEF RequestsOK, RequestOK, Holding, Accepted
  <2> QED
    BY <1>22, <2>2 DEF ClaimLapses, DeadlinePasses, vars, TypeOK
<1> QED
  BY <1>3, <1>4, <1>5, <1>6, <1>9, <1>10, <1>11, <1>12, <1>13, <1>14, <1>15, <1>16, <1>17,
     <1>18, <1>19, <1>20, <1>21, <1>22 DEF Next, Progress

\* TypeOK is an invariant: whatever requests interleave, retry or die, every row, ballot,
\* tally and request keeps its shape, and no action is tried more than MaxAttempts times.
THEOREM TypeCorrect == Spec => []TypeOK
<1>1. Spec => []TypeInv
  BY InitType, NextType, PTL DEF Spec
<1> QED
  BY <1>1, PTL DEF TypeInv

-----------------------------------------------------------------------------
(***************************************************************************)
(* The optimistic lock: an image whose version is still the row's is the   *)
(* row.                                                                    *)
(***************************************************************************)
SnapshotInv ==
    \A t \in Threads : Holding(req[t]) =>
        /\ req[t].snap.version <= row.version
        /\ req[t].snap.version = row.version =>
               req[t].snap.status = row.status /\ req[t].snap.state = row.state

\* A close about to write has counted every ballot cast, unless the row has moved.
CloseTallyInv ==
    \A t \in Threads :
        req[t].pc = "write" /\ actionOf(req[t].kind) = "close" /\ req[t].snap.version = row.version
        => req[t].tally.total_votes = Cardinality(DOMAIN ballots)

\* The row, the poll book and the set of ballots are written by three steps only, each
\* of which moves the version.
RowMoves(t) ==
    \/ transitionProcess(t) /\ UNCHANGED <<ballots, voted>>
    \/ row.status = "active" /\ cast_ballot(t) /\ \E r \in Receipts \ DOMAIN ballots : firstVote(t, r)
    \/ row' = [row EXCEPT !.version = @ + 1] /\ UNCHANGED <<ballots, voted>>

\* Whatever step is taken, the row, the poll book and the ballots' receipts stay, or one
\* request moved the row.
LEMMA RowStep ==
    ASSUME TypeInv, [Next]_vars
    PROVE  \/ row' = row /\ DOMAIN ballots' = DOMAIN ballots /\ voted' = voted
           \/ \E t \in Threads : RowMoves(t)
<1>1. ASSUME NEW t \in Threads, cast_ballot(t)
      PROVE  (row' = row /\ DOMAIN ballots' = DOMAIN ballots /\ voted' = voted) \/ RowMoves(t)
  BY <1>1 DEF cast_ballot, changeVote, castRefused, RowMoves, TypeInv, TypeOK
<1>2. ASSUME NEW t \in Threads, transitionProcess(t) PROVE RowMoves(t)
  BY <1>2 DEF transitionProcess, RowMoves
<1>3. ASSUME NEW t \in Threads, closeAtDeadline(t)
      PROVE  (row' = row /\ ballots' = ballots /\ voted' = voted) \/ RowMoves(t)
  BY <1>3 DEF closeAtDeadline, RowMoves
<1>4. ASSUME NEW t \in Threads,
             Act(t) \/ Vote(t) \/ closeIfExpired(t) \/ Crash(t) \/ attemptAction(t)
             \/ getBallotChoicesForProcess(t) \/ ProcessChangedError(t) \/ descriptorViolation(t)
             \/ submitVote(t) \/ recordOrUpdateVote(t) \/ afterCommit(t) \/ generateBrief(t)
             \/ spawnBriefFromClosedProcess(t) \/ emitBriefEvents(t)
      PROVE  UNCHANGED <<row, ballots, voted>>
  BY <1>4 DEF Act, Vote, actOnProcess, closeIfExpired, Crash, attemptAction,
              getBallotChoicesForProcess, ProcessChangedError, descriptorViolation, submitVote,
              recordOrUpdateVote, afterCommit, generateBrief, spawnBriefFromClosedProcess,
              emitBriefEvents
<1>5. ASSUME ClaimLapses \/ DeadlinePasses \/ UNCHANGED vars PROVE UNCHANGED <<row, ballots, voted>>
  BY <1>5 DEF ClaimLapses, DeadlinePasses, vars
<1> QED
  BY <1>1, <1>2, <1>3, <1>4, <1>5 DEF Next, Progress

\* Every write of the row moves its version by one (the processes_version trigger).
LEMMA VersionMoves ==
    ASSUME TypeInv, NEW t \in Threads, RowMoves(t)
    PROVE  row'.version = row.version + 1
<1>1. row \in Rows
  BY DEF TypeInv, TypeOK
<1>2. CASE transitionProcess(t)
  BY <1>2 DEF transitionProcess
<1>3. ASSUME NEW r, firstVote(t, r) PROVE row'.version = row.version + 1
  BY <1>3 DEF firstVote
<1>4. CASE row' = [row EXCEPT !.version = @ + 1]
  BY <1>1, <1>4 DEF Rows
<1> QED
  BY <1>2, <1>3, <1>4 DEF RowMoves

\* How one request's image and tally change in a step.
KeepsImage(p, q) ==
    /\ Holding(p) /\ q.snap = p.snap
    /\ q.pc = "write" /\ actionOf(q.kind) = "close" =>
         \/ p.pc = "write" /\ actionOf(p.kind) = "close" /\ q.tally = p.tally
         \/ q.tally = computeTally(ballots)

TakesImage(q) ==
    /\ q.snap.status = row.status /\ q.snap.version = row.version /\ q.snap.state = row.state
    /\ ~(q.pc = "write" /\ actionOf(q.kind) = "close")

\* A request that holds an image of the row after a step held it before, or has just read
\* it (attemptAction).
LEMMA RequestStep ==
    ASSUME TypeInv, [Next]_vars, NEW s \in Threads, Holding(req'[s])
    PROVE  \/ KeepsImage(req[s], req'[s]) /\ (UNCHANGED row => DOMAIN ballots' = DOMAIN ballots)
           \/ TakesImage(req'[s]) /\ UNCHANGED <<row, ballots>>
<1> DEFINE Goal == \/ KeepsImage(req[s], req'[s])
                   \/ TakesImage(req'[s]) /\ UNCHANGED <<row, ballots>>
<1>1. req \in [Threads -> RequestRecords]
  BY DEF TypeInv, TypeOK
<1>2. req'[s] = req[s] => Goal
  BY <1>1 DEF KeepsImage, Holding
<1> DEFINE Only(t, q) == req'[t] = q /\ \A x \in Threads \ {t} : req'[x] = req[x]
<1>3. ASSUME NEW t \in Threads, \A x \in Threads \ {t} : req'[x] = req[x],
             \/ ~Holding(req'[t]) \/ KeepsImage(req[t], req'[t])
             \/ TakesImage(req'[t]) /\ UNCHANGED <<row, ballots>>
      PROVE  Goal
  BY <1>2, <1>3
<1>4. ASSUME NEW t \in Threads, finish(t) PROVE Goal
  <2>1. Only(t, Idle)
    BY <1>1, <1>4 DEF finish
  <2>2. ~Holding(Idle)
    BY DEF Idle, newRequest, Holding
  <2> QED
    BY <1>3, <2>1, <2>2
<1>5. ASSUME NEW t \in Threads, NEW pc \in {"attempt", "after", "find", "created", "aggregated"},
             goto(t, pc)
      PROVE  Goal
  <2>1. Only(t, [req[t] EXCEPT !.pc = pc])
    BY <1>1, <1>5 DEF goto
  <2>2. ~Holding([req[t] EXCEPT !.pc = pc])
    BY <1>1 DEF RequestRecords, Holding
  <2> QED
    BY <1>3, <2>1, <2>2
<1>6. ASSUME NEW t \in Threads, NEW kind, NEW u, NEW choice, NEW held, NEW n,
             NEW pc \in {"attempt", "claim"},
             req' = [req EXCEPT ![t] = newRequest(pc, kind, u, choice, held, n)]
      PROVE  Goal
  <2>1. Only(t, newRequest(pc, kind, u, choice, held, n))
    BY <1>1, <1>6
  <2>2. ~Holding(newRequest(pc, kind, u, choice, held, n))
    BY DEF newRequest, Holding
  <2> QED
    BY <1>3, <2>1, <2>2
<1>7. ASSUME NEW t \in Threads, Act(t) \/ Vote(t) PROVE Goal
  BY <1>6, <1>7 DEF Act, Vote, actOnProcess
<1>8. ASSUME NEW t \in Threads, attemptAction(t) PROVE Goal
  <2> DEFINE snap == [status |-> row.status, version |-> row.version, state |-> row.state,
                      early |-> earlyCloseOf(req[t])]
             q == [req[t] EXCEPT !.pc = nextStep(req[t].kind), !.snap = snap]
  <2>1. CASE accepts(req[t])
    <3>1. q.snap = snap /\ q.kind = req[t].kind /\ q.pc = nextStep(req[t].kind)
      BY <1>1 DEF RequestRecords
    <3>2. TakesImage(q)
      BY <3>1 DEF TakesImage, nextStep
    <3>3. Only(t, q) /\ UNCHANGED <<row, ballots>>
      BY <1>1, <1>8, <2>1 DEF attemptAction
    <3> QED
      BY <1>3, <3>2, <3>3
  <2>2. CASE ~accepts(req[t])
    BY <1>4, <1>8, <2>2 DEF attemptAction, finish
  <2> QED
    BY <2>1, <2>2
<1>9. ASSUME NEW t \in Threads, getBallotChoicesForProcess(t) PROVE Goal
  <2> DEFINE q == [req[t] EXCEPT !.pc = "write", !.tally = computeTally(ballots)]
  <2>1. KeepsImage(req[t], q)
    BY <1>1, <1>9 DEF getBallotChoicesForProcess, at, KeepsImage, Holding, RequestRecords
  <2>2. Only(t, q)
    BY <1>1, <1>9 DEF getBallotChoicesForProcess
  <2> QED
    BY <1>3, <2>1, <2>2
<1>10. ASSUME NEW t \in Threads, submitVote(t) PROVE Goal
  <2> DEFINE q == [req[t] EXCEPT !.pc = "cast"]
  <2>1. KeepsImage(req[t], q)
    BY <1>1, <1>10 DEF submitVote, at, KeepsImage, Holding, RequestRecords
  <2>2. CASE goto(t, "cast")
    <3>1. Only(t, q)
      BY <1>1, <2>2 DEF goto
    <3> QED
      BY <1>3, <2>1, <3>1
  <2> QED
    BY <1>4, <1>10, <2>2 DEF submitVote
<1>11. ASSUME NEW t \in Threads, cast_ballot(t) PROVE Goal
  <2>1. ASSUME NEW r, firstVote(t, r) PROVE Goal
    <3> DEFINE q == [req[t] EXCEPT !.pc = "reply", !.held = r]
    <3>1. ~Holding(q)
      BY <1>1 DEF RequestRecords, Holding
    <3>2. Only(t, q) \/ finish(t)
      BY <1>1, <2>1 DEF firstVote, finish
    <3> QED
      BY <1>3, <1>4, <3>1, <3>2
  <2> QED
    BY <1>4, <1>11, <2>1 DEF cast_ballot, changeVote, castRefused
<1>12. ASSUME NEW t \in Threads, generateBrief(t) PROVE Goal
  <2> DEFINE q == [req[t] EXCEPT !.pc = "spawn", !.tally = computeTally(ballots)]
  <2>1. ~Holding(q)
    BY <1>1 DEF RequestRecords, Holding
  <2>2. Only(t, q) \/ finish(t)
    BY <1>1, <1>12 DEF generateBrief
  <2> QED
    BY <1>3, <1>4, <2>1, <2>2
<1>13. ASSUME NEW t \in Threads, ProcessChangedError(t) PROVE Goal
  BY <1>4, <1>6, <1>13 DEF ProcessChangedError, finish
<1>14. ASSUME NEW t \in Threads,
              transitionProcess(t) \/ descriptorViolation(t) \/ recordOrUpdateVote(t)
              \/ closeAtDeadline(t) \/ afterCommit(t) \/ spawnBriefFromClosedProcess(t)
              \/ emitBriefEvents(t) \/ Crash(t)
       PROVE  Goal
  <2>1. finish(t) \/ goto(t, "attempt") \/ goto(t, "after") \/ goto(t, "find")
        \/ goto(t, "created") \/ goto(t, "aggregated")
    BY <1>14 DEF transitionProcess, descriptorViolation, recordOrUpdateVote, closeAtDeadline,
                 afterCommit, spawnBriefFromClosedProcess, emitBriefEvents, Crash
  <2> QED
    BY <1>4, <1>5, <2>1
<1>15. ASSUME NEW t \in Threads, closeIfExpired(t) PROVE Goal
  BY <1>6, <1>15 DEF closeIfExpired
<1>16. ASSUME ClaimLapses \/ DeadlinePasses \/ UNCHANGED vars PROVE Goal
  BY <1>2, <1>16 DEF ClaimLapses, DeadlinePasses, vars
<1>17. Goal
  BY <1>7, <1>8, <1>9, <1>10, <1>11, <1>12, <1>13, <1>14, <1>15, <1>16 DEF Next, Progress
<1>18. UNCHANGED row => DOMAIN ballots' = DOMAIN ballots
  <2>1. row.version \in Nat
    BY DEF TypeInv, TypeOK, Rows
  <2> QED
    BY <2>1, RowStep, VersionMoves
<1> QED
  BY <1>17, <1>18

\* No step leaves a request with an image of the current version that differs from the row:
\* the version check of transition_process is enough.
LEMMA NextSnapshot == TypeInv /\ SnapshotInv /\ [Next]_vars => SnapshotInv'
<1> SUFFICES ASSUME TypeInv, SnapshotInv, [Next]_vars, NEW s \in Threads, Holding(req'[s])
             PROVE  /\ req'[s].snap.version <= row'.version
                    /\ req'[s].snap.version = row'.version =>
                         req'[s].snap.status = row'.status /\ req'[s].snap.state = row'.state
  BY DEF SnapshotInv, Holding
<1>1. row.version \in Nat
  BY DEF TypeInv, TypeOK, Rows
<1>2. row' = row \/ row'.version = row.version + 1
  BY RowStep, VersionMoves
<1>3. CASE TakesImage(req'[s]) /\ UNCHANGED <<row, ballots>>
  BY <1>1, <1>3 DEF TakesImage
<1>4. CASE KeepsImage(req[s], req'[s])
  <2>1. req[s].snap \in Snapshots
    BY <1>4 DEF KeepsImage, TypeInv, RequestsOK, RequestOK
  <2>2. req[s].snap.version \in Nat
    BY <2>1 DEF Snapshots
  <2> QED
    BY <1>1, <1>2, <1>4, <2>2 DEF KeepsImage, SnapshotInv
<1> QED
  BY <1>3, <1>4, RequestStep

\* The write that goes through was made from the row as it is.
LEMMA WriteIsCurrent ==
    ASSUME TypeInv, SnapshotInv, NEW t \in Threads, transitionProcess(t)
    PROVE  /\ req[t] \in RequestRecords /\ RequestOK(req[t]) /\ req[t].pc = "write"
           /\ req[t].snap.status = row.status /\ req[t].snap.state = row.state
           /\ req[t].snap.version = row.version
           /\ Accepted(req[t]) /\ req[t].kind \in Kinds /\ req[t].kind # "vote"
<1>1. req[t] \in RequestRecords /\ RequestOK(req[t])
  BY DEF TypeInv, TypeOK, RequestsOK
<1>2. req[t].pc = "write" /\ Holding(req[t]) /\ req[t].snap.version = row.version
  BY DEF transitionProcess, at, unmoved, Holding
<1>3. req[t].snap.status = row.status /\ req[t].snap.state = row.state
  BY <1>2 DEF SnapshotInv
<1> QED
  BY <1>1, <1>2, <1>3 DEF RequestOK

-----------------------------------------------------------------------------
(***************************************************************************)
(* The row's two statuses, what an archive remembers, and the result.      *)
(***************************************************************************)
ArchiveInv ==
    row.status = "archived" =>
        /\ row.state.archive # None
        /\ isPubliclyFetchable(row.state.archive.previous_status) =>
               row.state.archive.previous_status = row.state.status
        /\ row.state.archive.previous_status # "archived"

ResultInv == row.state.result # None <=> row.state.status = "finalized"

StatusInv == StatusAgrees /\ ArchiveInv /\ ResultInv

\* Actions, archives and restores keep the two statuses, the archive mark and the result in
\* agreement.
LEMMA NextStatus == TypeInv /\ SnapshotInv /\ StatusInv /\ [Next]_vars => StatusInv'
<1> SUFFICES ASSUME TypeInv, SnapshotInv, StatusInv, [Next]_vars PROVE StatusInv'
  OBVIOUS
<1> USE DEF StatusInv, StatusAgrees, ArchiveInv, ResultInv
<1>1. row \in Rows /\ row.state \in VoteStates
  BY DEF TypeInv, TypeOK, Rows
<1>2. CASE row' = row
  BY <1>2
<1>3. ASSUME NEW t \in Threads, NEW r, firstVote(t, r) PROVE StatusInv'
  <2>1. row'.status = row.status /\ row'.state = counted(row.state)
    BY <1>3 DEF firstVote
  <2>2. /\ row'.state.status = row.state.status /\ row'.state.result = row.state.result
        /\ row'.state.archive = row.state.archive
    BY <1>1, <2>1 DEF counted, VoteStates
  <2> QED
    BY <2>1, <2>2 DEF isPubliclyFetchable
<1>4. CASE row' = [row EXCEPT !.version = @ + 1]
  <2>1. row'.status = row.status /\ row'.state = row.state
    BY <1>1, <1>4 DEF Rows
  <2> QED
    BY <2>1 DEF isPubliclyFetchable
<1>5. ASSUME NEW t \in Threads, transitionProcess(t) PROVE StatusInv'
  <2> DEFINE q == req[t]
             st == row.state
  <2>1. /\ q \in RequestRecords /\ RequestOK(q) /\ q.pc = "write"
        /\ q.snap.status = row.status /\ q.snap.state = st
        /\ Accepted(q) /\ q.kind \in Kinds /\ q.kind # "vote"
    BY <1>5, WriteIsCurrent
  <2>2. row'.status = toStatus(q) /\ row'.state = handled(q)
    BY <1>5 DEF transitionProcess
  <2> HIDE DEF q, st
  <2>3. CASE q.kind = "propose"
    <3>1. handled(q) = [st EXCEPT !.status = "proposed"] /\ toStatus(q) = "proposed" /\ st.status = "draft"
      BY <1>1, <2>1, <2>3 DEF handled, toStatus, Accepted, handlerAccepts, actionOf, canTransition,
                              getTransitions, st, VoteStates
    <3> QED
      BY <1>1, <2>2, <3>1 DEF VoteStates, isPubliclyFetchable, NON_PUBLIC_STATUSES, st
  <2>4. CASE q.kind = "activate"
    <3>1. handled(q) = activated(st) /\ toStatus(q) = "active" /\ st.status \in {"draft", "threshold_met"}
      BY <1>1, <2>1, <2>4 DEF handled, toStatus, activated, Accepted, handlerAccepts, actionOf,
                              canTransition, getTransitions, st, VoteStates
    <3> QED
      BY <1>1, <2>2, <3>1 DEF VoteStates, activated, isPubliclyFetchable, NON_PUBLIC_STATUSES, st
  <2>5. CASE q.kind = "support"
    <3>1. handled(q) = addSupport(st, q.actor) /\ toStatus(q) = handled(q).status /\ st.status = "proposed"
      BY <2>1, <2>5 DEF handled, toStatus, Accepted, handlerAccepts, actionOf, isAcceptingSupport
    <3>2. /\ addSupport(st, q.actor).status \in {"proposed", "threshold_met", "active"}
          /\ addSupport(st, q.actor).result = st.result
      BY <1>1, <3>1 DEF addSupport, activated, VoteStates, st
    <3> QED
      BY <2>2, <3>1, <3>2 DEF isPubliclyFetchable, NON_PUBLIC_STATUSES, st
  <2>6. CASE q.kind = "unsupport"
    <3>1. /\ handled(q) = [st EXCEPT !.supporters = @ \ {q.actor}]
          /\ toStatus(q) = handled(q).status /\ st.status = "proposed"
      BY <2>1, <2>6 DEF handled, toStatus, Accepted, handlerAccepts, actionOf, isAcceptingSupport
    <3>2. handled(q).status = "proposed" /\ handled(q).result = st.result
      BY <1>1, <3>1 DEF VoteStates, st
    <3> QED
      BY <2>2, <3>1, <3>2 DEF isPubliclyFetchable, NON_PUBLIC_STATUSES, st
  <2>7. CASE q.kind = "archive"
    <3>1. toStatus(q) = "archived" /\ handled(q) = archived(q) /\ row.status # "archived"
      BY <2>1, <2>7 DEF handled, toStatus, Accepted
    <3>2. /\ archived(q).status = st.status /\ archived(q).result = st.result
          /\ archived(q).archive = [previous_status |-> row.status,
                                    announced |-> isPubliclyFetchable(row.status)]
      BY <1>1, <2>1 DEF archived, VoteStates, st
    <3>3. archived(q).archive \in ArchiveMeta
      BY <1>1, <3>2 DEF ArchiveMeta, Rows, isPubliclyFetchable
    <3> QED
      BY <2>2, <3>1, <3>2, <3>3, NoneAssumption DEF isPubliclyFetchable, NON_PUBLIC_STATUSES, st
  <2>8. CASE q.kind = "restore"
    <3>1. /\ toStatus(q) = st.archive.previous_status /\ row.status = "archived"
          /\ handled(q) = [st EXCEPT !.archive = None]
      BY <2>1, <2>8 DEF handled, restored, toStatus, Accepted, st
    <3>2. handled(q).status = st.status /\ handled(q).result = st.result
      BY <1>1, <3>1 DEF VoteStates, st
    <3> QED
      BY <2>2, <3>1, <3>2 DEF isPubliclyFetchable, NON_PUBLIC_STATUSES, st
  <2>9. CASE q.kind \in {"close", "deadline"}
    <3>1. q.tally \in Tallies
      BY <2>1, <2>9 DEF RequestOK, actionOf
    <3>2. handled(q).status = "finalized" /\ handled(q).result = q.tally /\ toStatus(q) = "finalized"
      BY <1>1, <2>1, <2>9 DEF handled, toStatus, VoteStates, st
    <3> QED
      BY <2>2, <3>1, <3>2, NoneAssumption DEF isPubliclyFetchable, NON_PUBLIC_STATUSES
  <2> QED
    BY <2>1, <2>3, <2>4, <2>5, <2>6, <2>7, <2>8, <2>9, KindsAssumption
<1> QED
  BY <1>2, <1>3, <1>4, <1>5, RowStep DEF RowMoves

-----------------------------------------------------------------------------
(***************************************************************************)
(* Counting.                                                               *)
(***************************************************************************)
\* No action writes the count of voters; only a close writes the result; only its author
\* removes an endorsement.
LEMMA HandledFrame ==
    ASSUME NEW q \in RequestRecords, q.snap.state \in VoteStates, q.kind \in Kinds, q.kind # "vote"
    PROVE  /\ handled(q).total_votes = q.snap.state.total_votes
           /\ q.kind \notin {"close", "deadline"} => handled(q).result = q.snap.state.result
           /\ q.kind \in {"close", "deadline"} => handled(q).result = q.tally
           /\ q.kind # "unsupport" => q.snap.state.supporters \subseteq handled(q).supporters
           /\ q.snap.state.supporters \ {q.actor} \subseteq handled(q).supporters
<1>1. CASE q.kind = "support"
  <2>1. handled(q) = addSupport(q.snap.state, q.actor)
    BY <1>1 DEF handled
  <2> QED
    BY <1>1, <2>1 DEF addSupport, activated, VoteStates
<1>2. CASE q.kind \in {"propose", "unsupport", "restore"}
  BY <1>2 DEF handled, restored, VoteStates
<1>3. CASE q.kind = "activate"
  BY <1>3 DEF handled, activated, VoteStates
<1>4. CASE q.kind = "archive"
  BY <1>4 DEF handled, archived, restored, VoteStates
<1>5. CASE q.kind \in {"close", "deadline"}
  BY <1>5 DEF handled, VoteStates
<1> QED
  BY <1>1, <1>2, <1>3, <1>4, <1>5, KindsAssumption

\* A close about to write at the current version counted every ballot there is.
LEMMA NextCloseTally ==
    TypeInv /\ SnapshotInv /\ CloseTallyInv /\ [Next]_vars => CloseTallyInv'
<1> SUFFICES ASSUME TypeInv, SnapshotInv, CloseTallyInv, [Next]_vars, NEW s \in Threads,
                    req'[s].pc = "write", actionOf(req'[s].kind) = "close",
                    req'[s].snap.version = row'.version
             PROVE  req'[s].tally.total_votes = Cardinality(DOMAIN ballots')
  BY DEF CloseTallyInv, actionOf
<1>1. Holding(req'[s])
  BY DEF Holding
<1>2. KeepsImage(req[s], req'[s]) /\ (UNCHANGED row => DOMAIN ballots' = DOMAIN ballots)
  BY <1>1, RequestStep DEF TakesImage
<1>3. row' = row
  <2>1. row.version \in Nat /\ req[s].snap.version \in Nat
    BY <1>2 DEF TypeInv, TypeOK, Rows, RequestsOK, RequestOK, KeepsImage, Snapshots
  <2>2. req[s].snap.version <= row.version
    BY <1>2 DEF SnapshotInv, KeepsImage
  <2>3. row' = row \/ row'.version = row.version + 1
    BY RowStep, VersionMoves
  <2> QED
    BY <1>2, <2>1, <2>2, <2>3 DEF KeepsImage
<1>4. computeTally(ballots).total_votes = Cardinality(DOMAIN ballots)
  BY BallotsFinite, TallyType DEF TypeInv
<1> QED
  BY <1>2, <1>3, <1>4 DEF KeepsImage, CloseTallyInv

CountInv == CountMatches /\ ResultCountsEveryVoter

\* The counts agree, and the result counts every voter, after any step.
LEMMA NextCount ==
    TypeInv /\ SnapshotInv /\ StatusInv /\ CloseTallyInv /\ CountInv /\ [Next]_vars => CountInv'
<1> SUFFICES ASSUME TypeInv, SnapshotInv, StatusInv, CloseTallyInv, CountInv, [Next]_vars
             PROVE  CountInv'
  OBVIOUS
<1> USE DEF CountInv, CountMatches, ResultCountsEveryVoter
<1>1. row \in Rows /\ row.state \in VoteStates /\ row.state.total_votes \in Nat
  BY DEF TypeInv, TypeOK, Rows, VoteStates
<1>2. IsFiniteSet(DOMAIN ballots) /\ IsFiniteSet(voted)
  BY BallotsFinite DEF TypeInv
<1>3. CASE row' = row /\ DOMAIN ballots' = DOMAIN ballots /\ voted' = voted
  BY <1>3
<1>4. CASE row' = [row EXCEPT !.version = @ + 1] /\ UNCHANGED <<ballots, voted>>
  <2>1. row'.state = row.state
    BY <1>1, <1>4 DEF Rows
  <2> QED
    BY <1>4, <2>1
<1>5. ASSUME NEW t \in Threads, NEW r \in Receipts \ DOMAIN ballots, row.status = "active",
             firstVote(t, r)
      PROVE  CountInv'
  <2>1. row'.state = counted(row.state)
    BY <1>5 DEF firstVote
  <2>2. row'.state.total_votes = row.state.total_votes + 1 /\ row'.state.result = row.state.result
    BY <1>1, <2>1 DEF counted, VoteStates
  <2>3. DOMAIN ballots' = DOMAIN ballots \cup {r} /\ r \notin DOMAIN ballots
    BY <1>5 DEF firstVote
  <2>4. Cardinality(DOMAIN ballots') = Cardinality(DOMAIN ballots) + 1
    BY <1>2, <2>3, FS_AddElement
  <2>5. voted' = voted \cup {req[t].actor} /\ req[t].actor \notin voted
    BY <1>5 DEF firstVote
  <2>6. Cardinality(voted') = Cardinality(voted) + 1
    BY <1>2, <2>5, FS_AddElement
  <2>7. row.state.result = None
    BY <1>5 DEF StatusInv, StatusAgrees, ResultInv, isPubliclyFetchable, NON_PUBLIC_STATUSES
  <2> QED
    BY <2>2, <2>4, <2>6, <2>7
<1>6. ASSUME NEW t \in Threads, transitionProcess(t), UNCHANGED <<ballots, voted>> PROVE CountInv'
  <2>1. /\ req[t] \in RequestRecords /\ RequestOK(req[t]) /\ req[t].pc = "write"
        /\ req[t].snap.state = row.state /\ req[t].snap.version = row.version
        /\ req[t].kind \in Kinds /\ req[t].kind # "vote"
    BY <1>6, WriteIsCurrent
  <2>2. row'.state = handled(req[t])
    BY <1>6 DEF transitionProcess
  <2>3. /\ row'.state.total_votes = row.state.total_votes
        /\ req[t].kind \notin {"close", "deadline"} => row'.state.result = row.state.result
        /\ req[t].kind \in {"close", "deadline"} => row'.state.result = req[t].tally
    BY <1>1, <2>1, <2>2, HandledFrame
  <2>4. req[t].kind \in {"close", "deadline"} =>
            req[t].tally.total_votes = Cardinality(DOMAIN ballots)
    BY <2>1 DEF CloseTallyInv, actionOf
  <2> QED
    BY <1>6, <2>3, <2>4
<1> QED
  BY <1>3, <1>4, <1>5, <1>6, RowStep DEF RowMoves

-----------------------------------------------------------------------------
(***************************************************************************)
(* The invariant, and what follows from it.                                *)
(***************************************************************************)
IInv == TypeInv /\ SnapshotInv /\ StatusInv /\ CloseTallyInv /\ CountInv

\* A vote just created satisfies the invariant.
LEMMA InitInv == Init => IInv
<1> SUFFICES ASSUME Init PROVE IInv
  OBVIOUS
<1>1. \A t \in Threads : req[t].pc = "idle"
  BY DEF Init, Idle, newRequest
<1>2. SnapshotInv /\ CloseTallyInv
  BY <1>1 DEF SnapshotInv, CloseTallyInv, Holding
<1>3. row.status \in {"draft", "pending_review"} /\ row.state = createVoteState
  BY DEF Init
<1>4. StatusInv
  BY <1>3 DEF StatusInv, StatusAgrees, ArchiveInv, ResultInv, createVoteState, isPubliclyFetchable,
              NON_PUBLIC_STATUSES
<1>5. Cardinality(DOMAIN ballots) = 0 /\ Cardinality(voted) = 0
  <2>1. DOMAIN ballots = {} /\ voted = {}
    BY DEF Init
  <2> QED
    BY <2>1, FS_EmptySet
<1>6. CountInv
  BY <1>3, <1>5 DEF CountInv, CountMatches, ResultCountsEveryVoter, createVoteState
<1> QED
  BY <1>2, <1>4, <1>6, InitType DEF IInv

\* Every step keeps the invariant.
LEMMA NextInv == IInv /\ [Next]_vars => IInv'
BY NextType, NextSnapshot, NextStatus, NextCloseTally, NextCount DEF IInv

\* The invariant holds in every reachable state.
LEMMA Invariance == Spec => []IInv
BY InitInv, NextInv, PTL DEF Spec

\* The count on the row, the poll book and the ballots agree, whatever interleaves.
THEOREM CountsAgree == Spec => []CountMatches
<1>1. IInv => CountMatches
  BY DEF IInv, CountInv
<1> QED
  BY <1>1, Invariance, PTL

\* A published result counts every voter.
THEOREM ResultIsComplete == Spec => []ResultCountsEveryVoter
<1>1. IInv => ResultCountsEveryVoter
  BY DEF IInv, CountInv
<1> QED
  BY <1>1, Invariance, PTL

\* A public vote has one status.
THEOREM StatusesAgree == Spec => []StatusAgrees
<1>1. IInv => StatusAgrees
  BY DEF IInv, StatusInv
<1> QED
  BY <1>1, Invariance, PTL

-----------------------------------------------------------------------------
(***************************************************************************)
(* What no step may do.                                                    *)
(***************************************************************************)
\* Ballots change only on an open vote.
LEMMA BallotStep == ASSUME [Next]_vars PROVE ballots' = ballots \/ row.status = "active"
<1>1. ASSUME NEW t \in Threads, cast_ballot(t) PROVE ballots' = ballots \/ row.status = "active"
  BY <1>1 DEF cast_ballot, castRefused
<1>2. ASSUME NEW t \in Threads,
             Act(t) \/ Vote(t) \/ closeIfExpired(t) \/ Crash(t) \/ attemptAction(t)
             \/ getBallotChoicesForProcess(t) \/ ProcessChangedError(t) \/ descriptorViolation(t)
             \/ submitVote(t) \/ recordOrUpdateVote(t) \/ afterCommit(t) \/ generateBrief(t)
             \/ spawnBriefFromClosedProcess(t) \/ emitBriefEvents(t) \/ transitionProcess(t)
             \/ closeAtDeadline(t)
      PROVE  ballots' = ballots
  BY <1>2 DEF Act, Vote, actOnProcess, closeIfExpired, Crash, attemptAction,
              getBallotChoicesForProcess, ProcessChangedError, descriptorViolation, submitVote,
              recordOrUpdateVote, afterCommit, generateBrief, spawnBriefFromClosedProcess,
              emitBriefEvents, transitionProcess, closeAtDeadline
<1>3. ASSUME ClaimLapses \/ DeadlinePasses \/ UNCHANGED vars PROVE ballots' = ballots
  BY <1>3 DEF ClaimLapses, DeadlinePasses, vars
<1> QED
  BY <1>1, <1>2, <1>3 DEF Next, Progress

\* What every step does to the vote's own state.
LEMMA StateStep ==
    ASSUME IInv, [Next]_vars
    PROVE  \/ row'.state = row.state /\ voted' = voted
           \/ /\ row.status = "active" /\ row'.state = counted(row.state)
              /\ \E u \in Users \ voted : voted' = voted \cup {u}
           \/ \E t \in Threads : transitionProcess(t) /\ row'.state = handled(req[t]) /\ voted' = voted
<1>1. row \in Rows
  BY DEF IInv, TypeInv, TypeOK
<1>2. ASSUME NEW t \in Threads, NEW r, row.status = "active", cast_ballot(t), firstVote(t, r)
      PROVE  /\ row'.state = counted(row.state)
             /\ \E u \in Users \ voted : voted' = voted \cup {u}
  <2>1. req[t].actor \in Users
    BY <1>2 DEF IInv, TypeInv, RequestsOK, RequestOK, cast_ballot, at
  <2> QED
    BY <1>2, <2>1 DEF firstVote
<1>3. ASSUME row' = [row EXCEPT !.version = @ + 1] PROVE row'.state = row.state
  BY <1>1, <1>3 DEF Rows
<1> QED
  BY <1>2, <1>3, RowStep DEF RowMoves, transitionProcess, IInv

\* A finalized vote takes no action but an archive or a restore.
LEMMA FinalizedTakesNoAction ==
    ASSUME IInv, NEW t \in Threads, transitionProcess(t), row.state.status = "finalized"
    PROVE  req[t].kind \in {"archive", "restore"}
<1>1. Accepted(req[t]) /\ req[t].snap.state = row.state /\ req[t].kind \in Kinds /\ req[t].kind # "vote"
  BY WriteIsCurrent DEF IInv
<1> QED
  BY <1>1, KindsAssumption DEF Accepted, handlerAccepts, actionOf, canTransition, getTransitions,
                               isAcceptingSupport

\* Once a result is out, neither it nor any ballot changes, and the vote stays finalized.
THEOREM ResultIsFinal == Spec => ResultFrozen
<1> DEFINE A == row.state.result # None =>
                  /\ ballots' = ballots
                  /\ row'.state.result = row.state.result
                  /\ row'.state.status = "finalized"
<1>1. IInv /\ [Next]_vars => A
  <2> SUFFICES ASSUME IInv, [Next]_vars, row.state.result # None
               PROVE  /\ ballots' = ballots
                      /\ row'.state.result = row.state.result
                      /\ row'.state.status = "finalized"
    OBVIOUS
  <2>1. row.state.status = "finalized" /\ row.status # "active"
    BY DEF IInv, StatusInv, StatusAgrees, ResultInv, isPubliclyFetchable, NON_PUBLIC_STATUSES
  <2>2. ballots' = ballots
    BY <2>1, BallotStep
  <2>3. row.state \in VoteStates
    BY DEF IInv, TypeInv, TypeOK, Rows
  <2>4. ASSUME NEW t \in Threads, transitionProcess(t), row'.state = handled(req[t])
        PROVE  row'.state.result = row.state.result /\ row'.state.status = "finalized"
    <3>1. req[t].kind \in {"archive", "restore"}
      BY <2>1, <2>4, FinalizedTakesNoAction
    <3>2. req[t].snap.state = row.state
      BY <2>4, WriteIsCurrent DEF IInv
    <3> QED
      BY <2>1, <2>3, <2>4, <3>1, <3>2 DEF handled, archived, restored, VoteStates
  <2> QED
    BY <2>1, <2>2, <2>4, StateStep
<1>2. Spec => [][A]_vars
  BY <1>1, Invariance, PTL DEF Spec
<1> QED
  BY <1>2 DEF ResultFrozen

\* An endorsement is only ever taken back by its author.
THEOREM EndorsementsAreKept == Spec => EndorsementsKept
<1> DEFINE A == \A u \in row.state.supporters :
                  \/ u \in row'.state.supporters
                  \/ \E t \in Threads : req[t].kind = "unsupport" /\ req[t].actor = u /\ transitionProcess(t)
<1>1. IInv /\ [Next]_vars => A
  <2> SUFFICES ASSUME IInv, [Next]_vars, NEW u \in row.state.supporters, u \notin row'.state.supporters
               PROVE  \E t \in Threads : req[t].kind = "unsupport" /\ req[t].actor = u /\ transitionProcess(t)
    OBVIOUS
  <2>1. row.state \in VoteStates
    BY DEF IInv, TypeInv, TypeOK, Rows
  <2>2. counted(row.state).supporters = row.state.supporters
    BY <2>1 DEF counted, VoteStates
  <2>3. PICK t \in Threads : transitionProcess(t) /\ row'.state = handled(req[t])
    BY <2>2, StateStep
  <2>4. /\ req[t] \in RequestRecords /\ req[t].snap.state = row.state
        /\ req[t].kind \in Kinds /\ req[t].kind # "vote"
    BY <2>3, WriteIsCurrent DEF IInv
  <2>5. req[t].kind = "unsupport" /\ req[t].actor = u
    BY <2>1, <2>3, <2>4, HandledFrame
  <2> QED
    BY <2>3, <2>5
<1>2. Spec => [][A]_vars
  BY <1>1, Invariance, PTL DEF Spec
<1> QED
  BY <1>2 DEF EndorsementsKept

-----------------------------------------------------------------------------
(***************************************************************************)
(* VoteProcess implements VoteOutcome: each write that wins is one step    *)
(* there, and every other step of every request is invisible.              *)
(***************************************************************************)
\* The abstract vote counts accounts the way the concrete one does.
LEMMA SameCardinality == ASSUME NEW S PROVE Outcome!Cardinality(S) = Cardinality(S)
BY DEF Cardinality, Outcome!Cardinality

\* The winning write of each kind of action is that action of the abstract vote.
LEMMA WriteImplements ==
    ASSUME IInv, NEW t \in Threads, transitionProcess(t), row'.state = handled(req[t]), voted' = voted
    PROVE  Outcome!Next \/ UNCHANGED Outcome!outcome
<1> DEFINE q == req[t]
           st == row.state
<1>1. /\ q \in RequestRecords /\ RequestOK(q) /\ q.pc = "write" /\ q.snap.state = st
      /\ q.snap.version = row.version /\ Accepted(q) /\ q.kind \in Kinds /\ q.kind # "vote"
  BY WriteIsCurrent DEF IInv
<1>2. st \in VoteStates
  BY DEF IInv, TypeInv, TypeOK, Rows
<1>3. q.kind # "deadline" => q.actor \in Users
  BY <1>1 DEF RequestOK
<1>4. CASE q.kind = "propose"
  <2>1. canTransition(st.status, "proposed", Mode) /\ row'.state = [st EXCEPT !.status = "proposed"]
    BY <1>1, <1>4 DEF Accepted, handlerAccepts, actionOf, handled
  <2>2. Outcome!Propose
    BY <1>2, <2>1 DEF Outcome!Propose, VoteStates, Outcome!canTransition, canTransition,
                      Outcome!getTransitions, getTransitions
  <2> QED
    BY <2>2 DEF Outcome!Next
<1>5. CASE q.kind = "support"
  <2>1. st.status = "proposed" /\ q.actor \notin st.supporters /\ row'.state = addSupport(st, q.actor)
    BY <1>1, <1>5 DEF Accepted, handlerAccepts, actionOf, handled, isAcceptingSupport
  <2>2. /\ row'.state.supporters = st.supporters \cup {q.actor}
        /\ row'.state.result = st.result
        /\ row'.state.status = IF Cardinality(row'.state.supporters) < Threshold THEN "proposed"
                               ELSE IF Mode = "direct" THEN "threshold_met" ELSE "active"
    <3> DEFINE more == [st EXCEPT !.supporters = @ \cup {q.actor}]
               met == [more EXCEPT !.status = "threshold_met"]
    <3>1. /\ more.supporters = st.supporters \cup {q.actor} /\ more.result = st.result
          /\ more.status = "proposed"
      BY <1>2, <2>1 DEF VoteStates
    <3>2. /\ activated(more).supporters = more.supporters /\ activated(more).result = more.result
          /\ activated(more).status = "active"
      BY <1>2 DEF VoteStates, activated
    <3>3. Mode \in {"direct", "proposal_required"}
      BY ConstantsAssumption DEF ActivationModes
    <3>4. row'.state = IF Cardinality(more.supporters) < Threshold THEN more
                       ELSE IF Mode = "proposal_required" THEN activated(more)
                       ELSE met
      BY <2>1 DEF addSupport
    <3>5. /\ met.supporters = more.supporters /\ met.result = more.result
          /\ met.status = "threshold_met"
      BY <1>2 DEF VoteStates
    <3> HIDE DEF more, met
    <3> QED
      BY <3>1, <3>2, <3>3, <3>4, <3>5
  <2>3. Outcome!Endorse(q.actor)
    BY <2>1, <2>2, SameCardinality DEF Outcome!Endorse
  <2> QED
    BY <1>3, <1>5, <2>3 DEF Outcome!Next
<1>6. CASE q.kind = "unsupport"
  <2>1. /\ st.status = "proposed" /\ q.actor \in st.supporters
        /\ row'.state = [st EXCEPT !.supporters = @ \ {q.actor}]
    BY <1>1, <1>6 DEF Accepted, handlerAccepts, actionOf, handled, isAcceptingSupport
  <2>2. Outcome!TakeBack(q.actor)
    BY <1>2, <2>1 DEF Outcome!TakeBack, VoteStates
  <2> QED
    BY <1>3, <1>6, <2>2 DEF Outcome!Next
<1>7. CASE q.kind = "activate"
  <2>1. canTransition(st.status, "active", Mode) /\ row'.state = activated(st)
    BY <1>1, <1>7 DEF Accepted, handlerAccepts, actionOf, handled
  <2>2. Outcome!Open
    BY <1>2, <2>1 DEF Outcome!Open, activated, VoteStates, Outcome!canTransition, canTransition,
                      Outcome!getTransitions, getTransitions
  <2> QED
    BY <2>2 DEF Outcome!Next
<1>8. CASE q.kind \in {"archive", "restore"}
  <2>1. /\ row'.state.status = st.status /\ row'.state.supporters = st.supporters
        /\ row'.state.result = st.result
    BY <1>1, <1>2, <1>8 DEF handled, archived, restored, VoteStates
  <2> QED
    BY <2>1 DEF Outcome!outcome
<1>9. CASE q.kind \in {"close", "deadline"}
  <2>1. st.status = "active"
    BY <1>1, <1>9 DEF Accepted, handlerAccepts, actionOf, canTransition, getTransitions
  <2>2. q.tally \in Tallies /\ q.tally # None
    BY <1>1, <1>9, NoneAssumption DEF RequestOK, actionOf
  <2>3. q.tally.total_votes = Cardinality(voted)
    BY <1>1, <1>9 DEF IInv, CloseTallyInv, CountInv, CountMatches, actionOf
  <2>4. /\ row'.state.status = "finalized" /\ row'.state.supporters = st.supporters
        /\ row'.state.result = q.tally
    BY <1>1, <1>2, <1>9 DEF handled, VoteStates
  <2>5. Outcome!Publish
    BY <2>1, <2>2, <2>3, <2>4, SameCardinality DEF Outcome!Publish
  <2> QED
    BY <2>5 DEF Outcome!Next
<1> QED
  BY <1>1, <1>4, <1>5, <1>6, <1>7, <1>8, <1>9, KindsAssumption

\* Every step is a step of the abstract vote, or changes nothing it shows.
LEMMA StepImplements ==
    IInv /\ [Next]_vars => [Outcome!Next]_Outcome!outcome
<1> SUFFICES ASSUME IInv, [Next]_vars PROVE Outcome!Next \/ UNCHANGED Outcome!outcome
  OBVIOUS
<1>1. CASE row'.state = row.state /\ voted' = voted
  BY <1>1 DEF Outcome!outcome
<1>2. ASSUME row.status = "active", row'.state = counted(row.state),
             NEW u \in Users \ voted, voted' = voted \cup {u}
      PROVE  Outcome!Next
  <2>1. row.state.status = "active"
    BY <1>2 DEF IInv, StatusInv, StatusAgrees, isPubliclyFetchable, NON_PUBLIC_STATUSES
  <2>2. row.state \in VoteStates
    BY DEF IInv, TypeInv, TypeOK, Rows
  <2>3. /\ row'.state.status = row.state.status /\ row'.state.supporters = row.state.supporters
        /\ row'.state.result = row.state.result
    BY <1>2, <2>2 DEF counted, VoteStates
  <2>4. Outcome!Cast(u)
    BY <1>2, <2>1, <2>3 DEF Outcome!Cast
  <2> QED
    BY <1>2, <2>4 DEF Outcome!Next
<1>3. ASSUME NEW t \in Threads, transitionProcess(t), row'.state = handled(req[t]), voted' = voted
      PROVE  Outcome!Next \/ UNCHANGED Outcome!outcome
  BY <1>3, WriteImplements
<1> QED
  BY <1>1, <1>2, <1>3, StateStep

\* The vote the requests act on behaves, for the community, as VoteOutcome says.
THEOREM VoteImplementsOutcome == Spec => ImplementsOutcome
<1>1. Init => Outcome!Init
  BY DEF Init, Outcome!Init, createVoteState
<1> QED
  BY <1>1, StepImplements, Invariance, PTL DEF Spec, ImplementsOutcome, Outcome!Spec

=============================================================================
