------------------------- MODULE ReviewQueue_proofs -------------------------
(***************************************************************************)
(* Proofs about ReviewQueue: for any creators' and admins' requests, of    *)
(* any kinds and in any number, whatever fails, is lost or dies.           *)
(***************************************************************************)
EXTENDS ReviewQueue, FiniteSetTheorems, SequenceTheorems, TLAPS

\* Which kinds of request make a call, and for which types.
Plan(pc, kind) ==
    \/ pc = "idle"
    \/ pc \in {"draft", "claimDraft", "check", "release"} /\ kind \in {"submit", "resubmit"}
    \/ pc = "submit" /\ kind = "submit"
    \/ pc = "read" /\ kind \notin {"submit", None}
    \/ pc = "archive" /\ kind \in {"decline", "withdraw"}
    \/ pc \in {"columns", "snapshot"} /\ kind \in {"revise", "resubmit"}
    \/ pc = "status" /\ kind \in {"decline", "withdraw", "request_changes", "revise", "resubmit"}
    \/ pc = "reopen" /\ kind = "reopen"
    \/ pc \in {"turn", "insert", "emit"} /\ kind \notin {"submit", "reopen", None}
    \/ /\ kind \in {"approve", "auto"}
       /\ \/ pc \in {"load", "claim", "undoReview", "undoProcess"}
          \/ pc \in {"act", "activate"} /\ type = "vote"
          \/ pc = "live" /\ type # "vote"
          \/ pc \in {"own", "announce"} /\ type = "proposal"
          \/ pc \in {"start", "started"} /\ type = "conversation"

\* A request made on a review that is there; an idle thread has no request.
RequestOK(q) ==
    /\ q \in RequestRecords /\ Plan(q.pc, q.kind)
    /\ q.kind \notin {"submit", None} => review # None
    /\ q.pc = "idle" <=> q.kind = None

\* The review, its process and its first turn are made together, and one of the
\* turns has the highest number.
MadeInv ==
    /\ review = None <=> proc = None
    /\ review # None => \E i \in DOMAIN turns : \A j \in DOMAIN turns : turns[j].number <= turns[i].number

TypeInv == TypeOK /\ MadeInv /\ \A t \in Threads : RequestOK(req[t])

Queueing(q) == q.pc \in {"check", "submit", "release"}

\* A draft that is submitted and not queued has a request that will queue it or release it.
QueueInv ==
    /\ log["submit"] = IF review = None THEN 0 ELSE 1
    /\ draft = "submitted" /\ review = None /\ unbroken => \E t \in Threads : Queueing(req[t])

\* Which requests come after the approval's turn.
recorded(q) == approving(q) /\ q.pc \in {"act", "activate", "live", "own", "announce", "emit", "start", "started"}

Approved == \E i \in DOMAIN turns : turns[i].action = "approve"

\* A request about to write the process knows an earlier version, or the process as it is.
VersionInv ==
    \A t \in Threads :
        /\ req[t].pc = "activate" =>
              req[t].loaded <= proc.version /\ (req[t].loaded = proc.version => ~proc.begun)
        /\ req[t].pc = "started" =>
              req[t].loaded <= proc.version /\ (req[t].loaded = proc.version => proc.status = "draft")

RecordInv ==
    /\ public => Approved
    /\ \A t \in Threads : recorded(req[t]) => Approved

\* The proposals about to be announced.
Announcing == {t \in Threads : req[t].pc = "announce"}

AnnounceInv ==
    /\ type = "proposal" => /\ log["created"] = 0
                            /\ log["announced"] + Cardinality(Announcing) <= IF own THEN 1 ELSE 0
    /\ type = "vote" => /\ log["announced"] = 0
                        /\ proc = None => log["created"] = 0
                        /\ proc # None => log["created"] <= proc.text + IF proc.begun THEN 1 ELSE 0

\* One call at most failed.
tame == failures <= 1 /\ lost = 0 /\ crashes = 0

\* Who has the claim, or is about to give it back.
claims(q) == holdsClaim(q) \/ q.pc = "undoReview"

Claiming == {t \in Threads : claims(req[t])}

ClaimInv ==
    /\ \A s, t \in Claiming : s = t
    /\ Claiming # {} => review # "pending_review"

-----------------------------------------------------------------------------
(***************************************************************************)
(* What a step does to the requests.                                       *)
(***************************************************************************)
\* The kinds of request that there are.
LEMMA KindsAre ==
    /\ None \notin {"submit", "resubmit", "revise", "withdraw", "reopen", "approve", "request_changes", "decline", "auto"}
    /\ Kinds \subseteq {"submit", "resubmit", "revise", "withdraw", "reopen", "approve", "request_changes", "decline"}
BY ReviewAssumption, NoneIsNothing DEF CreatorKinds, AdminKinds

\* A request as it begins.
LEMMA NewIs ==
    ASSUME NEW pc \in PCs, NEW kind \in Kinds \cup {"auto", None}
    PROVE  /\ newRequest(pc, kind) \in RequestRecords
           /\ newRequest(pc, kind).pc = pc /\ newRequest(pc, kind).kind = kind
<1>1. 1 \in 0..MaxAttempts
  BY ReviewAssumption
<1> QED
  BY <1>1 DEF newRequest, RequestRecords

LEMMA IdleIs ==
    /\ Idle \in RequestRecords /\ Idle.pc = "idle" /\ Idle.kind = None
    /\ RequestOK(Idle)
<1>1. Idle \in RequestRecords /\ Idle.pc = "idle" /\ Idle.kind = None
  BY NewIs DEF Idle, PCs
<1> QED
  BY <1>1, KindsAre DEF RequestOK, Plan

\* An error ends a request, sends a submission to release its draft, and an approval
\* to give back its claim.
LEMMA ThrownIs ==
    ASSUME NEW q, RequestOK(q)
    PROVE  /\ RequestOK(thrown(q)) /\ thrown(q) \in RequestRecords
           /\ q.pc \in {"check", "submit"} => thrown(q).pc = "release"
           /\ holdsClaim(q) \/ thrown(q).pc # "undoReview"
           /\ \/ thrown(q) = Idle
              \/ thrown(q).pc = "release" /\ q.pc \notin {"draft", "claimDraft", "release"}
              \/ thrown(q).pc = "undoReview" /\ holdsClaim(q)
<1>1. q \in RequestRecords
  BY DEF RequestOK
<1>2. CASE q.kind \in {"submit", "resubmit"} /\ q.pc \notin {"draft", "claimDraft", "release"}
  <2> DEFINE p == [q EXCEPT !.pc = "release"]
  <2>0. ~holdsClaim(q)
    BY <1>2 DEF holdsClaim, approving
  <2>1. thrown(q) = p
    BY <1>2, <2>0 DEF thrown
  <2>2. p \in RequestRecords /\ p.pc = "release" /\ p.kind = q.kind
    BY <1>1 DEF RequestRecords, PCs
  <2> HIDE DEF p
  <2>3. RequestOK(p)
    BY <1>2, <2>2, KindsAre DEF RequestOK, Plan
  <2> QED
    BY <1>2, <2>1, <2>2, <2>3
<1>3. CASE ~(q.kind \in {"submit", "resubmit"} /\ q.pc \notin {"draft", "claimDraft", "release"}) /\ holdsClaim(q)
  <2> DEFINE p == [q EXCEPT !.pc = "undoReview"]
  <2>1. thrown(q) = p
    BY <1>3 DEF thrown
  <2>2. p \in RequestRecords /\ p.pc = "undoReview" /\ p.kind = q.kind
    BY <1>1 DEF RequestRecords, PCs
  <2> HIDE DEF p
  <2>3. RequestOK(p)
    BY <1>3, <2>2, KindsAre DEF RequestOK, Plan, holdsClaim, approving
  <2>4. q.pc \notin {"check", "submit"}
    BY <1>3 DEF holdsClaim
  <2> QED
    BY <1>3, <2>1, <2>2, <2>3, <2>4
<1>4. CASE ~(q.kind \in {"submit", "resubmit"} /\ q.pc \notin {"draft", "claimDraft", "release"}) /\ ~holdsClaim(q)
  <2>1. thrown(q) = Idle
    BY <1>4 DEF thrown
  <2>2. q.pc \notin {"check", "submit"}
    BY <1>4, KindsAre DEF RequestOK, Plan
  <2> QED
    BY <2>1, <2>2, IdleIs
<1> QED
  BY <1>2, <1>3, <1>4


-----------------------------------------------------------------------------
(***************************************************************************)
(* A step of one request: it goes on, ends, or meets an error.             *)
(***************************************************************************)
\* The others stay as they are, and so does what the hub and the process are.
Acts(t) ==
    /\ req' \in [Threads -> RequestRecords] /\ \A s \in Threads \ {t} : req'[s] = req[s]
    /\ type' = type /\ production' = production
    /\ overlapped' \in BOOLEAN /\ requests' \in Nat
    /\ lost' \in Nat /\ failures' \in Nat /\ crashes' \in Nat
    /\ unbroken' => unbroken
    /\ tame' => tame
    /\ overlapped => overlapped'

\* This step's call failed, its answer was lost, or its invocation died.
Faulted == ~unbroken' /\ (tame' => unbroken)

\* Its answer was lost, or its invocation died.
Lost == Faulted /\ ~tame'

\* Two calls mark the request live; what a request reads it holds until it reads it again.
Keeps(t) ==
    /\ req'[t].live <=> req[t].live \/ (req[t].pc \in {"activate", "live"} /\ req'[t].pc \in {"own", "emit"})
    /\ req'[t].loaded = IF req'[t].pc \in {"claim", "activate", "started"} THEN proc.version ELSE req[t].loaded
    /\ req'[t].from = IF req'[t].pc = "activate" THEN proc.status ELSE req[t].from
    /\ req'[t].turn = IF req'[t].pc = "insert" THEN latestTurnNumber + 1 ELSE req[t].turn

\* The request goes on, or its call ends in an error.
GoesOn(t, pc) ==
    /\ Acts(t) /\ RequestOK(req'[t])
    /\ \/ req'[t].pc = pc /\ req'[t].kind = req[t].kind /\ Keeps(t)
       \/ req'[t] = thrown(req[t]) /\ Lost

\* It ends, or its call ends in an error.
Ends(t) ==
    /\ Acts(t) /\ RequestOK(req'[t])
    /\ req'[t] = Idle \/ (req'[t] = thrown(req[t]) /\ Lost)

\* The steps of a request that change nothing but the request.
QuietSteps ==
    { <<"draft", "claimDraft">>, <<"check", "submit">>, <<"check", "read">>, <<"read", "load">>,
      <<"read", "archive">>, <<"read", "columns">>, <<"read", "reopen">>, <<"read", "status">>,
      <<"snapshot", "status">>, <<"turn", "insert">>, <<"load", "claim">>, <<"act", "activate">>,
      <<"activate", "act">>, <<"start", "started">> }

\* The code throws for a reason of its own.
Refused(q) ==
    \/ q.pc \in {"draft", "claimDraft", "check", "read", "start"}
    \/ q.pc = "claim" /\ review # "pending_review"
    \/ q.pc = "act" /\ proc.begun
    \/ q.pc = "activate" /\ (descriptorRefuses(q) \/ proc.version # q.loaded)
    \/ q.pc = "live" /\ (proc.status # "pending_review" \/ proc.version # q.loaded)
    \/ q.pc = "own" /\ own

\* A request begins.
Begins(t) ==
    /\ \E kind \in Kinds :
          /\ req'[t] = newRequest(firstStep(kind), kind)
          /\ kind \in CreatorKinds => t \in CreatorRequests
          /\ kind \in AdminKinds => t \in AdminRequests
    /\ ~overlapped' => \A s \in Threads \ {t} : req[s].pc = "idle"

Quiet(t) ==
    /\ Acts(t) /\ RequestOK(req'[t])
    /\ UNCHANGED <<draft, review, turns, proc, own, log>>
    /\ \/ req'[t] = thrown(req[t]) /\ (Faulted \/ Refused(req[t]))
       \/ req'[t] = Idle /\ (Lost \/ (req[t].pc = "submit" /\ review # None))
       \/ req[t].pc = "idle" /\ req'[t].pc \in {"draft", "read"} /\ Begins(t)
       \/ /\ <<req[t].pc, req'[t].pc>> \in QuietSteps /\ req'[t].kind = req[t].kind /\ Keeps(t)
          /\ req[t].pc = "read" => mayDecide(req[t].kind) /\ req'[t].pc = afterRead(req[t].kind)
          /\ req[t].pc = "activate" => descriptorRefuses(req[t]) \/ proc.version # req[t].loaded
          /\ req'[t].pc = "activate" => ~proc.begun
          /\ req'[t].pc = "started" => proc.status = "draft"

\* One request's record is replaced.
LEMMA Replaced ==
    ASSUME TypeInv, NEW t \in Threads, NEW q \in RequestRecords, req' = [req EXCEPT ![t] = q]
    PROVE  req' \in [Threads -> RequestRecords] /\ req'[t] = q /\ \A s \in Threads \ {t} : req'[s] = req[s]
BY DEF TypeInv, TypeOK

\* A call answers, or its answer is lost.
LEMMA Becomes ==
    ASSUME TypeInv, NEW t \in Threads, NEW q, RequestOK(q), becomes(t, q)
    PROVE  /\ Acts(t) /\ RequestOK(req'[t])
           /\ req'[t] = q \/ (req'[t] = thrown(req[t]) /\ Lost)
<1>1. RequestOK(req[t]) /\ q \in RequestRecords
  BY DEF TypeInv, RequestOK
<1>2. RequestOK(thrown(req[t])) /\ thrown(req[t]) \in RequestRecords
  BY <1>1, ThrownIs
<1>3. UNCHANGED <<type, production, overlapped, requests, failures, crashes>>
  BY DEF becomes, setting
<1>4. overlapped \in BOOLEAN
  BY DEF TypeInv, TypeOK
<1>5. requests \in Nat /\ failures \in Nat /\ lost \in Nat /\ crashes \in Nat
  BY DEF TypeInv, TypeOK
<1>6. CASE req' = [req EXCEPT ![t] = q] /\ lost' = lost
  <2>1. req' \in [Threads -> RequestRecords] /\ req'[t] = q /\ \A s \in Threads \ {t} : req'[s] = req[s]
    BY <1>1, <1>6, Replaced
  <2> QED
    BY <1>3, <1>4, <1>5, <1>6, <2>1 DEF Acts, unbroken, tame
<1>7. CASE lost' = lost + 1 /\ req' = [req EXCEPT ![t] = thrown(req[t])]
  <2>1. req' \in [Threads -> RequestRecords] /\ req'[t] = thrown(req[t]) /\ \A s \in Threads \ {t} : req'[s] = req[s]
    BY <1>2, <1>7, Replaced
  <2>2. lost' \in Nat /\ lost' # 0
    BY <1>5, <1>7
  <2> QED
    BY <1>2, <1>3, <1>4, <1>5, <2>1, <2>2 DEF Acts, unbroken, tame, Faulted, Lost
<1> QED
  BY <1>6, <1>7 DEF becomes

\* The code throws.
LEMMA Throws ==
    ASSUME TypeInv, NEW t \in Threads, throw(t)
    PROVE  Acts(t) /\ RequestOK(req'[t]) /\ req'[t] = thrown(req[t])
<1>1. RequestOK(req[t])
  BY DEF TypeInv
<1>2. RequestOK(thrown(req[t])) /\ thrown(req[t]) \in RequestRecords
  BY <1>1, ThrownIs
<1>3. req' \in [Threads -> RequestRecords] /\ req'[t] = thrown(req[t]) /\ \A s \in Threads \ {t} : req'[s] = req[s]
  BY <1>2, Replaced DEF throw
<1>4. UNCHANGED <<type, production, overlapped, requests, failures, lost, crashes>>
  BY DEF throw, setting, faults
<1>5. overlapped \in BOOLEAN
  BY DEF TypeInv, TypeOK
<1>6. requests \in Nat /\ failures \in Nat /\ lost \in Nat /\ crashes \in Nat
  BY DEF TypeInv, TypeOK
<1> QED
  BY <1>2, <1>3, <1>4, <1>5, <1>6 DEF Acts, unbroken, tame

\* A request in flight that goes on as its kind may.
LEMMA Goes ==
    ASSUME TypeInv, NEW t \in Threads, NEW pc \in PCs, Plan(pc, req[t].kind), pc # "idle",
           req[t].pc # "idle", pc \notin {"claim", "activate", "started", "insert"},
           req[t].pc \notin {"activate", "live"}
    PROVE  /\ RequestOK([req[t] EXCEPT !.pc = pc])
           /\ goto(t, pc) => GoesOn(t, pc)
<1> DEFINE q == [req[t] EXCEPT !.pc = pc]
<1>1. RequestOK(req[t])
  BY DEF TypeInv
<1>2. /\ q \in RequestRecords /\ q.pc = pc /\ q.kind = req[t].kind
      /\ q.live = req[t].live /\ q.loaded = req[t].loaded /\ q.from = req[t].from /\ q.turn = req[t].turn
  BY <1>1 DEF RequestOK, RequestRecords
<1>3. goto(t, pc) <=> becomes(t, q)
  BY DEF goto
<1> HIDE DEF q
<1>4. RequestOK(q)
  BY <1>1, <1>2 DEF RequestOK
<1>5. ASSUME becomes(t, q) PROVE GoesOn(t, pc)
  <2>1. Acts(t) /\ RequestOK(req'[t]) /\ (req'[t] = q \/ (req'[t] = thrown(req[t]) /\ Lost))
    BY <1>4, <1>5, Becomes
  <2>2. CASE req'[t] = q
    BY <1>2, <2>1, <2>2 DEF GoesOn, Keeps
  <2> QED
    BY <2>1, <2>2 DEF GoesOn
<1>6. goto(t, pc) => GoesOn(t, pc)
  BY <1>3, <1>5
<1>7. RequestOK([req[t] EXCEPT !.pc = pc])
  BY <1>4 DEF q
<1> QED
  BY <1>6, <1>7

LEMMA Finishes ==
    ASSUME TypeInv, NEW t \in Threads, finish(t)
    PROVE  Ends(t)
<1>1. RequestOK(Idle)
  BY IdleIs
<1>2. becomes(t, Idle)
  BY DEF finish
<1> QED
  BY <1>1, <1>2, Becomes DEF Ends

\* A request in flight: its step is one of its kind, and there is a review but for a
\* first submission.
LEMMA InFlight ==
    ASSUME TypeInv, NEW t \in Threads
    PROVE  /\ RequestOK(req[t]) /\ Plan(req[t].pc, req[t].kind)
           /\ req[t].pc # "idle" => req[t].kind # None
           /\ req[t].kind \notin {"submit", None} => review # None /\ proc \in Procs
           /\ req[t].loaded \in Nat /\ req[t].turn \in Nat /\ req[t].text \in Nat
           /\ req[t].attempt \in 0..MaxAttempts /\ req[t].live \in BOOLEAN
           /\ req[t].kind \in Kinds \cup {"auto", None}
<1>1. RequestOK(req[t]) /\ (review = None <=> proc = None)
  BY DEF TypeInv, MadeInv
<1>2. proc \in Procs \cup {None}
  BY DEF TypeInv, TypeOK
<1>3. Plan(req[t].pc, req[t].kind) /\ (req[t].pc # "idle" => req[t].kind # None)
  BY <1>1 DEF RequestOK
<1>4. req[t].kind \notin {"submit", None} => review # None /\ proc \in Procs
  BY <1>1, <1>2 DEF RequestOK
<1>5. req[t] \in RequestRecords
  BY <1>1 DEF RequestOK
<1>6. /\ req[t].loaded \in Nat /\ req[t].turn \in Nat /\ req[t].text \in Nat
      /\ req[t].attempt \in 0..MaxAttempts /\ req[t].live \in BOOLEAN
      /\ req[t].kind \in Kinds \cup {"auto", None}
  BY <1>5 DEF RequestRecords
<1> QED
  BY <1>1, <1>3, <1>4, <1>6

\* The turns.
Turn == [number : Nat, action : Actions, text : Nat]

LEMMA TurnsAre ==
    ASSUME TypeInv
    PROVE  /\ turns \in Seq(Turn) /\ DOMAIN turns = 1..Len(turns) /\ Len(turns) \in Nat
           /\ \A j \in DOMAIN turns : turns[j] \in Turn
<1>1. turns \in Seq(Turn)
  BY DEF TypeInv, TypeOK, Turn
<1>2. Len(turns) \in Nat /\ DOMAIN turns = 1..Len(turns)
  BY <1>1, LenProperties
<1>3. \A j \in 1..Len(turns) : turns[j] \in Turn
  BY <1>1, ElementOfSeq
<1> QED
  BY <1>1, <1>2, <1>3

\* The number after the latest turn's is a number.
LEMMA LatestIs ==
    ASSUME TypeInv, review # None
    PROVE  latestTurnNumber + 1 \in Nat
<1>1. PICK i \in DOMAIN turns : \A j \in DOMAIN turns : turns[j].number <= turns[i].number
  BY DEF TypeInv, MadeInv
<1>2. \A j \in DOMAIN turns : turns[j].number \in Nat
  BY TurnsAre DEF Turn
<1> DEFINE numbers == {turns[j].number : j \in DOMAIN turns}
<1>3. \E n \in numbers : \A j \in DOMAIN turns : turns[j].number <= n
  BY <1>1
<1>4. latestTurnNumber \in numbers
  BY <1>3 DEF latestTurnNumber
<1> QED
  BY <1>2, <1>4

LEMMA OwnDraftIs ==
    ASSUME TypeInv, NEW t \in Threads, ownDraft(t)
    PROVE  Quiet(t)
<1>1. req[t].pc = "draft" /\ UNCHANGED <<draft, review, turns, proc, own, log>>
  BY DEF ownDraft, at
<1>2. Plan("claimDraft", req[t].kind) /\ "claimDraft" \in PCs
  BY <1>1, InFlight, KindsAre DEF Plan, PCs
<1>3. CASE goto(t, "claimDraft")
  <2>1. GoesOn(t, "claimDraft")
    BY <1>1, <1>2, <1>3, Goes
  <2> QED
    BY <1>1, <2>1 DEF GoesOn, Quiet, QuietSteps, Lost
<1>4. CASE throw(t)
  BY <1>1, <1>4, Throws DEF Quiet, Refused
<1> QED
  BY <1>3, <1>4 DEF ownDraft

LEMMA CodeOfConductIs ==
    ASSUME TypeInv, NEW t \in Threads, codeOfConduct(t)
    PROVE  Quiet(t)
<1>1. req[t].pc = "check" /\ UNCHANGED <<draft, review, turns, proc, own, log>>
  BY DEF codeOfConduct, at
<1>2. req[t].kind \in {"submit", "resubmit"}
  BY <1>1, InFlight DEF Plan
<1>3. CASE req[t].kind = "submit" /\ goto(t, "submit")
  <2>1. Plan("submit", req[t].kind) /\ "submit" \in PCs
    BY <1>3, KindsAre DEF Plan, PCs
  <2>2. GoesOn(t, "submit")
    BY <1>1, <1>3, <2>1, Goes
  <2> QED
    BY <1>1, <2>2 DEF GoesOn, Quiet, QuietSteps, Lost
<1>4. CASE req[t].kind # "submit" /\ goto(t, "read")
  <2>1. Plan("read", req[t].kind) /\ "read" \in PCs
    BY <1>2, <1>4, KindsAre DEF Plan, PCs
  <2>2. GoesOn(t, "read")
    BY <1>1, <1>4, <2>1, Goes
  <2> QED
    BY <1>1, <2>2 DEF GoesOn, Quiet, QuietSteps, Lost
<1>5. CASE throw(t)
  BY <1>1, <1>5, Throws DEF Quiet, Refused
<1> QED
  BY <1>3, <1>4, <1>5 DEF codeOfConduct

LEMMA GetReviewIs ==
    ASSUME TypeInv, NEW t \in Threads, getReview(t)
    PROVE  Quiet(t)
<1>1. req[t].pc = "read" /\ UNCHANGED <<draft, review, turns, proc, own, log>>
  BY DEF getReview, at
<1> DEFINE next == afterRead(req[t].kind)
<1>2. req[t].kind \in {"approve", "auto", "decline", "withdraw", "revise", "resubmit", "reopen", "request_changes"}
  BY <1>1, InFlight, KindsAre DEF Plan
<1>3. CASE mayDecide(req[t].kind) /\ goto(t, next)
  <2>1. Plan(next, req[t].kind) /\ next \in {"load", "archive", "columns", "reopen", "status"}
    BY <1>2, KindsAre DEF Plan, afterRead
  <2> HIDE DEF next
  <2>2. next \in PCs /\ next # "idle"
    BY <2>1 DEF PCs
  <2>3. GoesOn(t, next)
    BY <1>1, <1>3, <2>1, <2>2, Goes
  <2> QED
    BY <1>1, <1>3, <2>1, <2>3 DEF GoesOn, Quiet, QuietSteps, next, Lost
<1>4. CASE throw(t)
  BY <1>1, <1>4, Throws DEF Quiet, Refused
<1> QED
  BY <1>3, <1>4 DEF getReview

LEMMA SnapshotIs ==
    ASSUME TypeInv, NEW t \in Threads, readProcessForSnapshot(t)
    PROVE  Quiet(t)
<1>1. req[t].pc = "snapshot" /\ UNCHANGED <<draft, review, turns, proc, own, log>>
  BY DEF readProcessForSnapshot, at
<1>2. req[t].kind \in {"revise", "resubmit"} /\ proc \in Procs /\ RequestOK(req[t])
  BY <1>1, InFlight, KindsAre DEF Plan
<1> DEFINE q == [req[t] EXCEPT !.pc = "status", !.text = proc.text]
<1>3. /\ q \in RequestRecords /\ q.pc = "status" /\ q.kind = req[t].kind
      /\ q.live = req[t].live /\ q.loaded = req[t].loaded /\ q.from = req[t].from /\ q.turn = req[t].turn
  BY <1>2 DEF RequestOK, RequestRecords, PCs, Procs
<1>4. becomes(t, q)
  BY DEF readProcessForSnapshot
<1> HIDE DEF q
<1>5. RequestOK(q)
  BY <1>2, <1>3, KindsAre DEF RequestOK, Plan
<1>6. Acts(t) /\ RequestOK(req'[t]) /\ (req'[t] = q \/ (req'[t] = thrown(req[t]) /\ Lost))
  BY <1>4, <1>5, Becomes
<1>7. CASE req'[t] = q
  BY <1>1, <1>3, <1>6, <1>7 DEF Quiet, QuietSteps, Keeps
<1> QED
  BY <1>1, <1>6, <1>7 DEF Quiet, Lost

LEMMA NextTurnIs ==
    ASSUME TypeInv, NEW t \in Threads, getNextTurnNumber(t)
    PROVE  Quiet(t)
<1>1. req[t].pc = "turn" /\ UNCHANGED <<draft, review, turns, proc, own, log>>
  BY DEF getNextTurnNumber, at
<1>2. req[t].kind \notin {"submit", "reopen", None} /\ review # None /\ RequestOK(req[t])
  BY <1>1, InFlight, KindsAre DEF Plan
<1> DEFINE n == latestTurnNumber + 1
           q == [req[t] EXCEPT !.pc = "insert", !.turn = n]
<1>3. n \in Nat
  BY <1>2, LatestIs
<1>4. becomes(t, q)
  BY DEF getNextTurnNumber
<1> HIDE DEF n
<1>5. /\ q \in RequestRecords /\ q.pc = "insert" /\ q.kind = req[t].kind
      /\ q.live = req[t].live /\ q.loaded = req[t].loaded /\ q.from = req[t].from /\ q.turn = n
  BY <1>2, <1>3 DEF RequestOK, RequestRecords, PCs
<1> HIDE DEF q
<1>6. RequestOK(q)
  BY <1>2, <1>5, KindsAre DEF RequestOK, Plan
<1>7. Acts(t) /\ RequestOK(req'[t]) /\ (req'[t] = q \/ (req'[t] = thrown(req[t]) /\ Lost))
  BY <1>4, <1>6, Becomes
<1>8. CASE req'[t] = q
  BY <1>1, <1>5, <1>7, <1>8 DEF Quiet, QuietSteps, Keeps, n
<1> QED
  BY <1>1, <1>7, <1>8 DEF Quiet, Lost

LEMMA ReadProcessIs ==
    ASSUME TypeInv, NEW t \in Threads, readProcessRow(t)
    PROVE  Quiet(t)
<1>1. req[t].pc = "load" /\ UNCHANGED <<draft, review, turns, proc, own, log>>
  BY DEF readProcessRow, at
<1>2. req[t].kind \in {"approve", "auto"} /\ proc \in Procs /\ RequestOK(req[t])
  BY <1>1, InFlight, KindsAre DEF Plan
<1> DEFINE q == [req[t] EXCEPT !.pc = "claim", !.loaded = proc.version]
<1>3. /\ q \in RequestRecords /\ q.pc = "claim" /\ q.kind = req[t].kind
      /\ q.live = req[t].live /\ q.loaded = proc.version /\ q.from = req[t].from /\ q.turn = req[t].turn
  BY <1>2 DEF RequestOK, RequestRecords, PCs, Procs
<1>4. becomes(t, q)
  BY DEF readProcessRow
<1> HIDE DEF q
<1>5. RequestOK(q)
  BY <1>2, <1>3, KindsAre DEF RequestOK, Plan
<1>6. Acts(t) /\ RequestOK(req'[t]) /\ (req'[t] = q \/ (req'[t] = thrown(req[t]) /\ Lost))
  BY <1>4, <1>5, Becomes
<1>7. CASE req'[t] = q
  BY <1>1, <1>3, <1>6, <1>7 DEF Quiet, QuietSteps, Keeps
<1> QED
  BY <1>1, <1>6, <1>7 DEF Quiet, Lost

LEMMA AttemptIs ==
    ASSUME TypeInv, NEW t \in Threads, attemptActivation(t)
    PROVE  Quiet(t)
<1>1. req[t].pc = "act" /\ UNCHANGED <<draft, review, turns, proc, own, log>>
  BY DEF attemptActivation, at
<1>2. /\ req[t].kind \in {"approve", "auto"} /\ type = "vote"
      /\ proc \in Procs /\ RequestOK(req[t])
  BY <1>1, InFlight, KindsAre DEF Plan
<1>3. CASE throw(t) /\ proc.begun
  BY <1>1, <1>3, Throws DEF Quiet, Refused
<1> DEFINE q == [req[t] EXCEPT !.pc = "activate", !.loaded = proc.version, !.from = proc.status]
<1>4. /\ q \in RequestRecords /\ q.pc = "activate" /\ q.kind = req[t].kind
      /\ q.live = req[t].live /\ q.loaded = proc.version /\ q.from = proc.status /\ q.turn = req[t].turn
  BY <1>2 DEF RequestOK, RequestRecords, PCs, Procs
<1>5. (throw(t) /\ proc.begun) \/ (~proc.begun /\ becomes(t, q))
  BY DEF attemptActivation
<1> HIDE DEF q
<1>6. RequestOK(q)
  BY <1>2, <1>4, KindsAre DEF RequestOK, Plan
<1>7. CASE ~proc.begun /\ becomes(t, q)
  <2>1. Acts(t) /\ RequestOK(req'[t]) /\ (req'[t] = q \/ (req'[t] = thrown(req[t]) /\ Lost))
    BY <1>6, <1>7, Becomes
  <2>2. CASE req'[t] = q
    BY <1>1, <1>4, <1>7, <2>1, <2>2 DEF Quiet, QuietSteps, Keeps
  <2> QED
    BY <1>1, <2>1, <2>2 DEF Quiet, Lost
<1> QED
  BY <1>3, <1>5, <1>7

LEMMA StartIs ==
    ASSUME TypeInv, NEW t \in Threads, startConversation(t)
    PROVE  Quiet(t)
<1>1. req[t].pc = "start" /\ UNCHANGED <<draft, review, turns, proc, own, log>>
  BY DEF startConversation, at
<1>2. /\ req[t].kind \in {"approve", "auto"} /\ type = "conversation"
      /\ proc \in Procs /\ RequestOK(req[t])
  BY <1>1, InFlight, KindsAre DEF Plan
<1>3. CASE throw(t)
  BY <1>1, <1>3, Throws DEF Quiet, Refused
<1> DEFINE q == [req[t] EXCEPT !.pc = "started", !.loaded = proc.version]
<1>4. /\ q \in RequestRecords /\ q.pc = "started" /\ q.kind = req[t].kind
      /\ q.live = req[t].live /\ q.loaded = proc.version /\ q.from = req[t].from /\ q.turn = req[t].turn
  BY <1>2 DEF RequestOK, RequestRecords, PCs, Procs
<1>5. throw(t) \/ (proc.status = "draft" /\ becomes(t, q))
  BY DEF startConversation
<1> HIDE DEF q
<1>6. RequestOK(q)
  BY <1>2, <1>4, KindsAre DEF RequestOK, Plan
<1>7. CASE proc.status = "draft" /\ becomes(t, q)
  <2>1. Acts(t) /\ RequestOK(req'[t]) /\ (req'[t] = q \/ (req'[t] = thrown(req[t]) /\ Lost))
    BY <1>6, <1>7, Becomes
  <2>2. CASE req'[t] = q
    BY <1>1, <1>4, <1>7, <2>1, <2>2 DEF Quiet, QuietSteps, Keeps
  <2> QED
    BY <1>1, <2>1, <2>2 DEF Quiet, Lost
<1> QED
  BY <1>3, <1>5, <1>7

\* A fault ends the request, or sends it to its catch block.
LEMMA FailIs ==
    ASSUME TypeInv, NEW t \in Threads, Fail(t)
    PROVE  Quiet(t)
<1>1. RequestOK(req[t])
  BY InFlight
<1>2. RequestOK(thrown(req[t])) /\ thrown(req[t]) \in RequestRecords
  BY <1>1, ThrownIs
<1>3. req' \in [Threads -> RequestRecords] /\ req'[t] = thrown(req[t]) /\ \A s \in Threads \ {t} : req'[s] = req[s]
  BY <1>2, Replaced DEF Fail
<1>4. /\ UNCHANGED <<draft, review, turns, proc, own, log, type, production, overlapped, requests, lost, crashes>>
      /\ failures' = failures + 1
  BY DEF Fail, setting
<1>5. overlapped \in BOOLEAN
  BY DEF TypeInv, TypeOK
<1>6. requests \in Nat /\ failures \in Nat /\ lost \in Nat /\ crashes \in Nat
  BY DEF TypeInv, TypeOK
<1>7. failures' \in Nat /\ failures' # 0
  BY <1>4, <1>6
<1>8. Acts(t) /\ Faulted
  BY <1>3, <1>4, <1>5, <1>6, <1>7 DEF Acts, unbroken, tame, Faulted
<1> QED
  BY <1>2, <1>3, <1>4, <1>8 DEF Quiet

LEMMA CrashIs ==
    ASSUME TypeInv, NEW t \in Threads, Crash(t)
    PROVE  Quiet(t)
<1>2. RequestOK(Idle) /\ Idle \in RequestRecords
  BY IdleIs
<1>3. req' \in [Threads -> RequestRecords] /\ req'[t] = Idle /\ \A s \in Threads \ {t} : req'[s] = req[s]
  BY <1>2, Replaced DEF Crash
<1>4. /\ UNCHANGED <<draft, review, turns, proc, own, log, type, production, overlapped, requests, lost, failures>>
      /\ crashes' = crashes + 1
  BY DEF Crash, setting
<1>5. overlapped \in BOOLEAN
  BY DEF TypeInv, TypeOK
<1>6. requests \in Nat /\ failures \in Nat /\ lost \in Nat /\ crashes \in Nat
  BY DEF TypeInv, TypeOK
<1>7. crashes' \in Nat /\ crashes' # 0
  BY <1>4, <1>6
<1>8. Acts(t) /\ Lost
  BY <1>3, <1>4, <1>5, <1>6, <1>7 DEF Acts, unbroken, tame, Faulted, Lost
<1> QED
  BY <1>2, <1>3, <1>4, <1>8 DEF Quiet

LEMMA BeginIs ==
    ASSUME TypeInv, NEW t \in Threads, NEW kind \in Kinds, Begin(t, kind)
    PROVE  Quiet(t)
<1> DEFINE pc == firstStep(kind)
           q == newRequest(pc, kind)
<1>1. pc \in {"draft", "read"} /\ (pc = "draft" <=> kind \in {"submit", "resubmit"})
  BY DEF firstStep
<1>2. req' = [req EXCEPT ![t] = q] /\ req[t].pc = "idle" /\ (kind # "submit" => review # None)
  BY DEF Begin, at
<1>11. /\ kind \in CreatorKinds => t \in CreatorRequests
       /\ kind \in AdminKinds => t \in AdminRequests
       /\ ~overlapped' => \A s \in Threads \ {t} : req[s].pc = "idle"
  BY DEF Begin, at
<1>12. q = newRequest(firstStep(kind), kind)
  OBVIOUS
<1> HIDE DEF pc
<1>3. pc \in PCs
  BY <1>1 DEF PCs
<1>4. q \in RequestRecords /\ q.pc = pc /\ q.kind = kind
  BY <1>3, NewIs
<1> HIDE DEF q
<1>5. RequestOK(q)
  BY <1>1, <1>2, <1>4, KindsAre DEF RequestOK, Plan
<1>6. req' \in [Threads -> RequestRecords] /\ req'[t] = q /\ \A s \in Threads \ {t} : req'[s] = req[s]
  BY <1>2, <1>4, Replaced
<1>7. /\ UNCHANGED <<draft, review, turns, proc, own, log, type, production, failures, lost, crashes>>
      /\ requests' = requests + 1
  BY DEF Begin, setting, faults
<1>8. overlapped' \in BOOLEAN /\ (overlapped => overlapped')
  BY DEF Begin, TypeInv, TypeOK
<1>9. requests \in Nat /\ failures \in Nat /\ lost \in Nat /\ crashes \in Nat
  BY DEF TypeInv, TypeOK
<1>10. Acts(t)
  BY <1>6, <1>7, <1>8, <1>9 DEF Acts, unbroken, tame
<1>13. Begins(t)
  BY <1>6, <1>11, <1>12 DEF Begins
<1> QED
  BY <1>1, <1>2, <1>4, <1>5, <1>6, <1>7, <1>10, <1>13 DEF Quiet

-----------------------------------------------------------------------------
(***************************************************************************)
(* The steps that write, or do as a quiet step does.                       *)
(***************************************************************************)
LEMMA ClaimDraftIs ==
    ASSUME TypeInv, NEW t \in Threads, claimDraftForSubmission(t)
    PROVE  Quiet(t) \/ ( /\ GoesOn(t, "check") /\ req[t].pc = "claimDraft"
                         /\ draft' = "submitted" /\ (req'[t].pc = "check" \/ Faulted)
                         /\ UNCHANGED <<review, turns, proc, own, log>> )
<1>1. req[t].pc = "claimDraft" /\ UNCHANGED <<review, turns, proc, own, log>>
  BY DEF claimDraftForSubmission, at
<1>2. req[t].kind \in {"submit", "resubmit"} /\ RequestOK(req[t])
  BY <1>1, InFlight DEF Plan
<1>3. CASE throw(t) /\ draft' = draft
  BY <1>1, <1>3, Throws DEF Quiet, Refused
<1> DEFINE q == [req[t] EXCEPT !.pc = "check"]
<1>4. /\ q \in RequestRecords /\ q.pc = "check" /\ q.kind = req[t].kind
      /\ q.live = req[t].live /\ q.loaded = req[t].loaded /\ q.from = req[t].from /\ q.turn = req[t].turn
  BY <1>2 DEF RequestOK, RequestRecords, PCs
<1>5. (throw(t) /\ draft' = draft) \/ (draft' = "submitted" /\ becomes(t, q))
  BY DEF claimDraftForSubmission, goto
<1> HIDE DEF q
<1>6. RequestOK(q)
  BY <1>2, <1>4, KindsAre DEF RequestOK, Plan
<1>7. CASE draft' = "submitted" /\ becomes(t, q)
  <2>1. Acts(t) /\ RequestOK(req'[t]) /\ (req'[t] = q \/ (req'[t] = thrown(req[t]) /\ Lost))
    BY <1>6, <1>7, Becomes
  <2>2. CASE req'[t] = q
    BY <1>1, <1>4, <1>7, <2>1, <2>2 DEF GoesOn, Keeps
  <2> QED
    BY <1>1, <1>7, <2>1, <2>2 DEF GoesOn, Lost
<1> QED
  BY <1>3, <1>5, <1>7

LEMMA SubmitIs ==
    ASSUME TypeInv, NEW t \in Threads, submit_for_review(t)
    PROVE  Quiet(t) \/ ( /\ Acts(t) /\ req[t].pc = "submit" /\ review = None
                         /\ \/ req'[t] = submitAsCreator
                            \/ req'[t] = thrown(req[t]) /\ Lost
                         /\ review' = "pending_review" /\ proc' = submitted
                         /\ turns' = <<[number |-> 1, action |-> "submit", text |-> 0]>>
                         /\ log' = [log EXCEPT !["submit"] = @ + 1]
                         /\ UNCHANGED <<draft, own>> )
<1>1. req[t].pc = "submit" /\ UNCHANGED <<draft, own>>
  BY DEF submit_for_review, at
<1>2. req[t].kind = "submit" /\ RequestOK(req[t])
  BY <1>1, InFlight DEF Plan
<1>3. CASE review # None
  <2>1. finish(t) /\ UNCHANGED <<review, turns, proc, log>>
    BY <1>3 DEF submit_for_review
  <2>2. Ends(t)
    BY <2>1, Finishes
  <2> QED
    BY <1>1, <1>3, <2>1, <2>2 DEF Ends, Quiet, Lost
<1>4. CASE review = None
  <2>1. /\ becomes(t, submitAsCreator)
        /\ review' = "pending_review" /\ proc' = submitted
        /\ turns' = <<[number |-> 1, action |-> "submit", text |-> 0]>>
        /\ log' = [log EXCEPT !["submit"] = @ + 1]
    BY <1>4 DEF submit_for_review, emit
  <2>2. submitAsCreator \in RequestRecords
    <3>1. newRequest("read", "auto") \in RequestRecords
      BY NewIs DEF PCs
    <3> QED
      BY <3>1, IdleIs DEF submitAsCreator
  <2>3. thrown(req[t]) \in RequestRecords
    BY <1>2, ThrownIs
  <2>4. \/ req' = [req EXCEPT ![t] = submitAsCreator] /\ lost' = lost
        \/ req' = [req EXCEPT ![t] = thrown(req[t])] /\ lost' = lost + 1
    BY <2>1 DEF becomes
  <2>5. UNCHANGED <<type, production, overlapped, requests, failures, crashes>>
    BY <2>1 DEF becomes, setting
  <2>6. /\ req' \in [Threads -> RequestRecords]
        /\ \A s \in Threads \ {t} : req'[s] = req[s]
        /\ \/ req'[t] = submitAsCreator
           \/ req'[t] = thrown(req[t]) /\ lost' = lost + 1
    BY <2>2, <2>3, <2>4, Replaced
  <2>7. overlapped \in BOOLEAN
    BY DEF TypeInv, TypeOK
  <2>8. requests \in Nat /\ failures \in Nat /\ lost \in Nat /\ crashes \in Nat
    BY DEF TypeInv, TypeOK
  <2>9. lost' \in Nat /\ (lost' = 0 => lost = 0)
    BY <2>4, <2>8
  <2>10. Acts(t)
    BY <2>5, <2>6, <2>7, <2>8, <2>9 DEF Acts, unbroken, tame
  <2>11. lost' = lost + 1 => Lost
    BY <2>8 DEF unbroken, tame, Faulted, Lost
  <2> QED
    BY <1>1, <1>4, <2>1, <2>6, <2>10, <2>11
<1> QED
  BY <1>3, <1>4

LEMMA ReleaseIs ==
    ASSUME TypeInv, NEW t \in Threads, releaseDraft(t)
    PROVE  /\ Ends(t) /\ req'[t].pc = "idle" /\ req[t].pc = "release" /\ draft' = "drafting"
           /\ UNCHANGED <<review, turns, proc, own, log>>
<1>1. /\ finish(t) /\ req[t].pc = "release" /\ draft' = "drafting"
      /\ UNCHANGED <<review, turns, proc, own, log>>
  BY DEF releaseDraft, at
<1>2. ~holdsClaim(req[t]) /\ RequestOK(req[t])
  BY <1>1, InFlight DEF holdsClaim
<1>3. Ends(t)
  BY <1>1, Finishes
<1>4. thrown(req[t]) = Idle
  BY <1>1, <1>2 DEF thrown
<1> QED
  BY <1>1, <1>3, <1>4, IdleIs DEF Ends

LEMMA ReopenIs ==
    ASSUME TypeInv, NEW t \in Threads, reopenForRevision(t)
    PROVE  /\ Ends(t) /\ req[t].pc = "reopen" /\ draft' = "drafting"
           /\ UNCHANGED <<review, turns, proc, own, log>>
BY Finishes DEF reopenForRevision, at

LEMMA ArchiveIs ==
    ASSUME TypeInv, NEW t \in Threads, archiveProcessRow(t)
    PROVE  /\ GoesOn(t, "status") /\ req[t].pc = "archive" /\ review # None /\ proc \in Procs
           /\ proc' = [proc EXCEPT !.status = "archived", !.version = @ + 1]
           /\ UNCHANGED <<draft, review, turns, own, log>>
<1>1. /\ goto(t, "status") /\ req[t].pc = "archive"
      /\ proc' = [proc EXCEPT !.status = "archived", !.version = @ + 1]
      /\ UNCHANGED <<draft, review, turns, own, log>>
  BY DEF archiveProcessRow, at
<1>2. req[t].kind \in {"decline", "withdraw"}
  BY <1>1, InFlight DEF Plan
<1>3. review # None /\ proc \in Procs
  BY <1>2, InFlight, KindsAre
<1>4. Plan("status", req[t].kind) /\ "status" \in PCs
  BY <1>2 DEF Plan, PCs
<1> QED
  BY <1>1, <1>3, <1>4, Goes

LEMMA ColumnsAre ==
    ASSUME TypeInv, NEW t \in Threads, updateProcessColumns(t)
    PROVE  /\ GoesOn(t, "snapshot") /\ req[t].pc = "columns" /\ review # None /\ proc \in Procs
           /\ proc' = [proc EXCEPT !.version = @ + 1, !.text = @ + 1,
                                   !.begun = @ /\ req[t].kind # "resubmit"]
           /\ UNCHANGED <<draft, review, turns, own, log>>
<1>1. /\ goto(t, "snapshot") /\ req[t].pc = "columns"
      /\ proc' = [proc EXCEPT !.version = @ + 1, !.text = @ + 1,
                              !.begun = @ /\ req[t].kind # "resubmit"]
      /\ UNCHANGED <<draft, review, turns, own, log>>
  BY DEF updateProcessColumns, at
<1>2. req[t].kind \in {"revise", "resubmit"}
  BY <1>1, InFlight DEF Plan
<1>3. review # None /\ proc \in Procs
  BY <1>2, InFlight, KindsAre
<1>4. Plan("snapshot", req[t].kind) /\ "snapshot" \in PCs
  BY <1>2 DEF Plan, PCs
<1> QED
  BY <1>1, <1>3, <1>4, Goes

LEMMA UpdateReviewIs ==
    ASSUME TypeInv, NEW t \in Threads, updateReview(t)
    PROVE  /\ GoesOn(t, "turn") /\ req[t].pc = "status" /\ review # None
           /\ req[t].kind \in {"decline", "withdraw", "request_changes", "revise", "resubmit"}
           /\ review' \in ReviewStatuses /\ review' = decided(req[t].kind)
           /\ review' = "pending_review" => req[t].kind \in {"revise", "resubmit"}
           /\ UNCHANGED <<draft, turns, proc, own, log>>
<1>1. /\ goto(t, "turn") /\ req[t].pc = "status" /\ review' = decided(req[t].kind)
      /\ UNCHANGED <<draft, turns, proc, own, log>>
  BY DEF updateReview, at
<1>2. req[t].kind \in {"decline", "withdraw", "request_changes", "revise", "resubmit"}
  BY <1>1, InFlight DEF Plan
<1>3. review # None
  BY <1>2, InFlight, KindsAre
<1>4. Plan("turn", req[t].kind) /\ "turn" \in PCs
  BY <1>2, KindsAre DEF Plan, PCs
<1>5. /\ review' \in ReviewStatuses
      /\ review' = "pending_review" => req[t].kind \in {"revise", "resubmit"}
  BY <1>1, <1>2 DEF decided, ReviewStatuses
<1> QED
  BY <1>1, <1>2, <1>3, <1>4, <1>5, Goes

\* A decision's action, in the record and in the log.
LEMMA ActionIs ==
    ASSUME TypeInv, NEW t \in Threads, req[t].pc \in {"insert", "emit"}
    PROVE  /\ actionOf(req[t].kind) \in Actions \ {"submit"}
           /\ approving(req[t]) => actionOf(req[t].kind) = "approve"
<1>1. req[t].kind \notin {"submit", "reopen", None}
  BY InFlight, KindsAre DEF Plan
<1>2. req[t].kind \in {"approve", "auto", "decline", "withdraw", "revise", "resubmit", "request_changes"}
  BY <1>1, InFlight, KindsAre
<1> QED
  BY <1>2 DEF actionOf, Actions, approving

LEMMA InsertIs ==
    ASSUME TypeInv, NEW t \in Threads, insertTurn(t)
    PROVE  /\ \E pc \in {"emit", "act", "live"} :
                  GoesOn(t, pc) /\ (pc # "emit" => approving(req[t]))
           /\ GoesOn(t, IF ~approving(req[t]) THEN "emit" ELSE IF type = "vote" THEN "act" ELSE "live")
           /\ req[t].pc = "insert" /\ review # None
           /\ turns' = Append(turns, [number |-> req[t].turn, action |-> actionOf(req[t].kind), text |-> req[t].text])
           /\ \E n \in Nat, text \in Nat :
                  turns' = Append(turns, [number |-> n, action |-> actionOf(req[t].kind), text |-> text])
           /\ UNCHANGED <<draft, review, proc, own, log>>
<1> DEFINE next == IF ~approving(req[t]) THEN "emit" ELSE IF type = "vote" THEN "act" ELSE "live"
<1>1. /\ goto(t, next) /\ req[t].pc = "insert"
      /\ turns' = Append(turns, [number |-> req[t].turn, action |-> actionOf(req[t].kind), text |-> req[t].text])
      /\ UNCHANGED <<draft, review, proc, own, log>>
  BY DEF insertTurn, at
<1>2. req[t].kind \notin {"submit", "reopen", None} /\ req[t].turn \in Nat /\ req[t].text \in Nat
  BY <1>1, InFlight, KindsAre DEF Plan
<1>3. review # None
  BY <1>2, InFlight
<1>4. Plan(next, req[t].kind) /\ next \in {"emit", "act", "live"} /\ (next # "emit" => approving(req[t]))
  BY <1>2 DEF Plan, approving
<1> HIDE DEF next
<1>5. next \in PCs /\ next # "idle"
  BY <1>4 DEF PCs
<1>6. GoesOn(t, next)
  BY <1>1, <1>4, <1>5, Goes
<1>7. GoesOn(t, IF ~approving(req[t]) THEN "emit" ELSE IF type = "vote" THEN "act" ELSE "live")
  BY <1>6 DEF next
<1> QED
  BY <1>1, <1>2, <1>3, <1>4, <1>6, <1>7

LEMMA EmitIs ==
    ASSUME TypeInv, NEW t \in Threads, emitReviewEvent(t)
    PROVE  /\ IF approving(req[t]) /\ type = "conversation" THEN GoesOn(t, "start") ELSE Ends(t)
           /\ log' = [log EXCEPT ![actionOf(req[t].kind)] = @ + 1]
           /\ req[t].pc = "emit" /\ review # None
           /\ \E e \in Actions \ {"submit"} : log' = [log EXCEPT ![e] = @ + 1]
           /\ UNCHANGED <<draft, review, turns, proc, own>>
<1>1. /\ req[t].pc = "emit" /\ log' = [log EXCEPT ![actionOf(req[t].kind)] = @ + 1]
      /\ UNCHANGED <<draft, review, turns, proc, own>>
  BY DEF emitReviewEvent, at, emit
<1>2. req[t].kind \notin {"submit", "reopen", None}
  BY <1>1, InFlight, KindsAre DEF Plan
<1>4. actionOf(req[t].kind) \in Actions \ {"submit"}
  BY <1>1, ActionIs
<1>5. review # None
  BY <1>2, InFlight
<1>6. CASE approving(req[t]) /\ type = "conversation"
  <2>2. goto(t, "start")
    BY <1>6 DEF emitReviewEvent
  <2>1. Plan("start", req[t].kind) /\ "start" \in PCs
    BY <1>6 DEF Plan, PCs, approving
  <2> QED
    BY <1>1, <1>4, <1>5, <1>6, <2>1, <2>2, Goes
<1>7. CASE ~(approving(req[t]) /\ type = "conversation")
  <2>1. finish(t)
    BY <1>7 DEF emitReviewEvent
  <2> QED
    BY <1>1, <1>4, <1>5, <1>7, <2>1, Finishes
<1> QED
  BY <1>6, <1>7

LEMMA ClaimIs ==
    ASSUME TypeInv, NEW t \in Threads, claimPendingReview(t)
    PROVE  Quiet(t) \/ ( /\ GoesOn(t, "turn") /\ req[t].pc = "claim"
                         /\ review = "pending_review" /\ review' = "approved" /\ review # None
                         /\ UNCHANGED <<draft, turns, proc, own, log>> )
<1>1. req[t].pc = "claim" /\ UNCHANGED <<draft, turns, proc, own, log>>
  BY DEF claimPendingReview, at
<1>2. req[t].kind \in {"approve", "auto"}
  BY <1>1, InFlight DEF Plan
<1>3. review # None
  BY <1>2, InFlight, KindsAre
<1>4. CASE throw(t) /\ review' = review /\ review # "pending_review"
  BY <1>1, <1>4, Throws DEF Quiet, Refused
<1>5. CASE review = "pending_review" /\ review' = "approved" /\ goto(t, "turn")
  <2>1. Plan("turn", req[t].kind) /\ "turn" \in PCs
    BY <1>2, KindsAre DEF Plan, PCs
  <2> QED
    BY <1>1, <1>3, <1>5, <2>1, Goes
<1> QED
  BY <1>4, <1>5 DEF claimPendingReview

LEMMA ActivateIs ==
    ASSUME TypeInv, NEW t \in Threads, activate(t)
    PROVE  Quiet(t) \/ ( /\ GoesOn(t, "emit") /\ req[t].pc = "activate" /\ review # None /\ proc \in Procs
                         /\ type = "vote" /\ approving(req[t]) /\ proc.version = req[t].loaded
                         /\ ~descriptorRefuses(req[t])
                         /\ proc' = [proc EXCEPT !.status = activationOnApproval, !.version = @ + 1, !.begun = TRUE]
                         /\ log' = [log EXCEPT !["created"] = @ + 1]
                         /\ UNCHANGED <<draft, review, turns, own>> )
<1>1. req[t].pc = "activate" /\ UNCHANGED <<draft, review, turns, own>>
  BY DEF activate, at
<1>2. /\ req[t].kind \in {"approve", "auto"} /\ type = "vote" /\ approving(req[t])
      /\ RequestOK(req[t]) /\ req[t].attempt \in 0..MaxAttempts /\ req[t].attempt \in Nat
  BY <1>1, InFlight DEF Plan, approving
<1>3. review # None /\ proc \in Procs
  BY <1>2, InFlight, KindsAre
<1> DEFINE n == req[t].attempt + 1
           q == [req[t] EXCEPT !.pc = "act", !.attempt = n]
           p == [req[t] EXCEPT !.pc = "emit", !.live = TRUE]
<1>4. \/ /\ proc.version = req[t].loaded /\ ~descriptorRefuses(req[t])
         /\ proc' = [proc EXCEPT !.status = activationOnApproval, !.version = @ + 1, !.begun = TRUE]
         /\ log' = [log EXCEPT !["created"] = @ + 1]
         /\ becomes(t, p)
      \/ /\ req[t].attempt < MaxAttempts /\ becomes(t, q) /\ UNCHANGED <<proc, log>>
         /\ ~descriptorRefuses(req[t]) /\ proc.version # req[t].loaded
      \/ /\ throw(t) /\ UNCHANGED <<proc, log>>
         /\ descriptorRefuses(req[t]) \/ proc.version # req[t].loaded
  BY DEF activate, emit
<1>5. /\ p \in RequestRecords /\ p.pc = "emit" /\ p.kind = req[t].kind
      /\ p.live /\ p.loaded = req[t].loaded /\ p.from = req[t].from /\ p.turn = req[t].turn
  BY <1>2 DEF RequestOK, RequestRecords, PCs
<1>6. ASSUME req[t].attempt < MaxAttempts
      PROVE  /\ q \in RequestRecords /\ q.pc = "act" /\ q.kind = req[t].kind
             /\ q.live = req[t].live /\ q.loaded = req[t].loaded /\ q.from = req[t].from /\ q.turn = req[t].turn
  <2>1. n \in 0..MaxAttempts
    BY <1>2, <1>6, ReviewAssumption
  <2> HIDE DEF n
  <2> QED
    BY <1>2, <2>1 DEF RequestOK, RequestRecords, PCs
<1> HIDE DEF q, p
<1>7. CASE /\ proc.version = req[t].loaded /\ ~descriptorRefuses(req[t])
           /\ proc' = [proc EXCEPT !.status = activationOnApproval, !.version = @ + 1, !.begun = TRUE]
           /\ log' = [log EXCEPT !["created"] = @ + 1]
           /\ becomes(t, p)
  <2>1. RequestOK(p)
    BY <1>2, <1>5, KindsAre DEF RequestOK, Plan
  <2>2. Acts(t) /\ RequestOK(req'[t]) /\ (req'[t] = p \/ (req'[t] = thrown(req[t]) /\ Lost))
    BY <1>7, <2>1, Becomes
  <2>3. ASSUME req'[t] = p PROVE GoesOn(t, "emit")
    <3>1. Keeps(t)
      BY <1>1, <1>5, <2>3 DEF Keeps
    <3> QED
      BY <1>5, <2>2, <2>3, <3>1 DEF GoesOn
  <2>4. GoesOn(t, "emit")
    BY <2>2, <2>3 DEF GoesOn
  <2> QED
    BY <1>1, <1>2, <1>3, <1>7, <2>4
<1>8. CASE /\ req[t].attempt < MaxAttempts /\ becomes(t, q) /\ UNCHANGED <<proc, log>>
           /\ ~descriptorRefuses(req[t]) /\ proc.version # req[t].loaded
  <2>1. /\ q \in RequestRecords /\ q.pc = "act" /\ q.kind = req[t].kind
        /\ q.live = req[t].live /\ q.loaded = req[t].loaded /\ q.from = req[t].from /\ q.turn = req[t].turn
    BY <1>6, <1>8
  <2>2. RequestOK(q)
    BY <1>2, <2>1, KindsAre DEF RequestOK, Plan
  <2>3. Acts(t) /\ RequestOK(req'[t]) /\ (req'[t] = q \/ (req'[t] = thrown(req[t]) /\ Lost))
    BY <1>8, <2>2, Becomes
  <2>4. CASE req'[t] = q
    BY <1>1, <1>8, <2>1, <2>3, <2>4 DEF Quiet, QuietSteps, Keeps
  <2> QED
    BY <1>1, <1>8, <2>3, <2>4 DEF Quiet, Lost
<1>9. CASE /\ throw(t) /\ UNCHANGED <<proc, log>>
           /\ descriptorRefuses(req[t]) \/ proc.version # req[t].loaded
  BY <1>1, <1>9, Throws DEF Quiet, Refused
<1> QED
  BY <1>4, <1>7, <1>8, <1>9

LEMMA GoLiveIs ==
    ASSUME TypeInv, NEW t \in Threads, goLive(t)
    PROVE  Quiet(t) \/ ( /\ IF type = "proposal" THEN GoesOn(t, "own") ELSE GoesOn(t, "emit")
                         /\ proc.status = "pending_review" /\ proc.version = req[t].loaded
                         /\ req[t].pc = "live" /\ review # None /\ proc \in Procs
                         /\ type # "vote" /\ approving(req[t])
                         /\ proc' = [proc EXCEPT !.status = activationOnApproval, !.version = @ + 1]
                         /\ IF type = "proposal" THEN log' = log ELSE log' = [log EXCEPT !["created"] = @ + 1]
                         /\ UNCHANGED <<draft, review, turns, own>> )
<1>1. req[t].pc = "live" /\ UNCHANGED <<draft, review, turns, own>>
  BY DEF goLive, at
<1>2. /\ req[t].kind \in {"approve", "auto"} /\ type # "vote" /\ approving(req[t])
      /\ RequestOK(req[t])
  BY <1>1, InFlight DEF Plan, approving
<1>3. review # None /\ proc \in Procs
  BY <1>2, InFlight, KindsAre
<1> DEFINE p == [req[t] EXCEPT !.pc = "own", !.live = TRUE]
           q == [req[t] EXCEPT !.pc = "emit", !.live = TRUE]
<1>4. \/ /\ proc.status = "pending_review" /\ proc.version = req[t].loaded
         /\ proc' = [proc EXCEPT !.status = activationOnApproval, !.version = @ + 1]
         /\ \/ type = "proposal" /\ becomes(t, p) /\ log' = log
            \/ type # "proposal" /\ becomes(t, q) /\ log' = [log EXCEPT !["created"] = @ + 1]
      \/ /\ throw(t) /\ UNCHANGED <<proc, log>>
         /\ proc.status # "pending_review" \/ proc.version # req[t].loaded
  BY DEF goLive, emit
<1>5. /\ p \in RequestRecords /\ p.pc = "own" /\ p.kind = req[t].kind
      /\ p.live /\ p.loaded = req[t].loaded /\ p.from = req[t].from /\ p.turn = req[t].turn
  BY <1>2 DEF RequestOK, RequestRecords, PCs
<1>6. /\ q \in RequestRecords /\ q.pc = "emit" /\ q.kind = req[t].kind
      /\ q.live /\ q.loaded = req[t].loaded /\ q.from = req[t].from /\ q.turn = req[t].turn
  BY <1>2 DEF RequestOK, RequestRecords, PCs
<1> HIDE DEF q, p
<1>7. ASSUME proc' = [proc EXCEPT !.status = activationOnApproval, !.version = @ + 1],
             type = "proposal" /\ becomes(t, p) /\ log' = log
      PROVE  GoesOn(t, "own")
  <2>1. RequestOK(p)
    BY <1>2, <1>5, <1>7, KindsAre DEF RequestOK, Plan
  <2>2. Acts(t) /\ RequestOK(req'[t]) /\ (req'[t] = p \/ (req'[t] = thrown(req[t]) /\ Lost))
    BY <1>7, <2>1, Becomes
  <2>3. CASE req'[t] = p
    <3>1. Keeps(t)
      BY <1>1, <1>5, <2>3 DEF Keeps
    <3> QED
      BY <1>5, <2>2, <2>3, <3>1 DEF GoesOn
  <2> QED
    BY <2>2, <2>3 DEF GoesOn
<1>8. ASSUME becomes(t, q)
      PROVE  GoesOn(t, "emit")
  <2>1. RequestOK(q)
    BY <1>2, <1>6, KindsAre DEF RequestOK, Plan
  <2>2. Acts(t) /\ RequestOK(req'[t]) /\ (req'[t] = q \/ (req'[t] = thrown(req[t]) /\ Lost))
    BY <1>8, <2>1, Becomes
  <2>3. CASE req'[t] = q
    <3>1. Keeps(t)
      BY <1>1, <1>6, <2>3 DEF Keeps
    <3> QED
      BY <1>6, <2>2, <2>3, <3>1 DEF GoesOn
  <2> QED
    BY <2>2, <2>3 DEF GoesOn
<1>9. CASE /\ throw(t) /\ UNCHANGED <<proc, log>>
           /\ proc.status # "pending_review" \/ proc.version # req[t].loaded
  BY <1>1, <1>9, Throws DEF Quiet, Refused
<1> QED
  BY <1>1, <1>2, <1>3, <1>4, <1>7, <1>8, <1>9

LEMMA OnApprovedIs ==
    ASSUME TypeInv, NEW t \in Threads, onApproved(t)
    PROVE  Quiet(t) \/ ( /\ GoesOn(t, "announce") /\ req[t].pc = "own" /\ review # None
                         /\ type = "proposal" /\ approving(req[t])
                         /\ ~own /\ own' = TRUE
                         /\ UNCHANGED <<draft, review, turns, proc, log>> )
<1>1. req[t].pc = "own" /\ own' = TRUE /\ UNCHANGED <<draft, review, turns, proc, log>>
  BY DEF onApproved, at
<1>2. /\ req[t].kind \in {"approve", "auto"} /\ type = "proposal" /\ approving(req[t])
  BY <1>1, InFlight DEF Plan, approving
<1>3. review # None
  BY <1>2, InFlight, KindsAre
<1>4. own \in BOOLEAN
  BY DEF TypeInv, TypeOK
<1>5. CASE own
  <2>1. throw(t) /\ own' = own
    BY <1>1, <1>4, <1>5, Zenon DEF onApproved
  <2> QED
    BY <1>1, <1>5, <2>1, Throws DEF Quiet, Refused
<1>6. CASE ~own
  <2>1. goto(t, "announce")
    BY <1>6 DEF onApproved
  <2>2. Plan("announce", req[t].kind) /\ "announce" \in PCs
    BY <1>2 DEF Plan, PCs
  <2>3. GoesOn(t, "announce")
    BY <1>1, <2>1, <2>2, Goes
  <2> QED
    BY <1>1, <1>2, <1>3, <1>6, <2>3
<1> QED
  BY <1>5, <1>6

LEMMA AnnounceIs ==
    ASSUME TypeInv, NEW t \in Threads, emitProposalSubmitted(t)
    PROVE  /\ GoesOn(t, "emit") /\ req[t].pc = "announce" /\ review # None
           /\ type = "proposal" /\ approving(req[t])
           /\ log' = [log EXCEPT !["announced"] = @ + 1]
           /\ UNCHANGED <<draft, review, turns, proc, own>>
<1>1. /\ req[t].pc = "announce" /\ log' = [log EXCEPT !["announced"] = @ + 1] /\ goto(t, "emit")
      /\ UNCHANGED <<draft, review, turns, proc, own>>
  BY DEF emitProposalSubmitted, at, emit
<1>2. /\ req[t].kind \in {"approve", "auto"} /\ type = "proposal" /\ approving(req[t])
  BY <1>1, InFlight DEF Plan, approving
<1>3. review # None
  BY <1>2, InFlight, KindsAre
<1>4. Plan("emit", req[t].kind) /\ "emit" \in PCs
  BY <1>2, KindsAre DEF Plan, PCs
<1>5. GoesOn(t, "emit")
  BY <1>1, <1>4, Goes
<1> QED
  BY <1>1, <1>2, <1>3, <1>5

LEMMA StartedIs ==
    ASSUME TypeInv, NEW t \in Threads, conversationStarted(t)
    PROVE  /\ Ends(t) /\ req[t].pc = "started" /\ review # None /\ proc \in Procs
           /\ approving(req[t]) /\ type = "conversation"
           /\ \/ proc' = [proc EXCEPT !.status = "active", !.version = @ + 1] /\ proc.version = req[t].loaded
              \/ proc' = proc /\ proc.version # req[t].loaded
           /\ UNCHANGED <<draft, review, turns, own, log>>
<1>1. /\ req[t].pc = "started" /\ finish(t) /\ UNCHANGED <<draft, review, turns, own, log>>
      /\ \/ proc' = [proc EXCEPT !.status = "active", !.version = @ + 1] /\ proc.version = req[t].loaded
         \/ proc' = proc /\ proc.version # req[t].loaded
  BY DEF conversationStarted, at
<1>2. /\ req[t].kind \in {"approve", "auto"} /\ type = "conversation" /\ approving(req[t])
  BY <1>1, InFlight DEF Plan, approving
<1>3. review # None /\ proc \in Procs
  BY <1>2, InFlight, KindsAre
<1> QED
  BY <1>1, <1>2, <1>3, Finishes

LEMMA UndoReviewIs ==
    ASSUME TypeInv, NEW t \in Threads, undoReview(t)
    PROVE  /\ IF req[t].live THEN GoesOn(t, "undoProcess") ELSE Ends(t)
           /\ req[t].pc = "undoReview" /\ review # None /\ review' = "pending_review"
           /\ UNCHANGED <<draft, turns, proc, own, log>>
<1>1. /\ req[t].pc = "undoReview" /\ review' = "pending_review"
      /\ UNCHANGED <<draft, turns, proc, own, log>> 
      /\ IF req[t].live THEN goto(t, "undoProcess") ELSE finish(t)
  BY DEF undoReview, at
<1>2. req[t].kind \in {"approve", "auto"}
  BY <1>1, InFlight DEF Plan
<1>3. review # None
  BY <1>2, InFlight, KindsAre
<1>4. Plan("undoProcess", req[t].kind) /\ "undoProcess" \in PCs
  BY <1>2 DEF Plan, PCs
<1>5. IF req[t].live THEN GoesOn(t, "undoProcess") ELSE Ends(t)
  BY <1>1, <1>4, Goes, Finishes
<1> QED
  BY <1>1, <1>3, <1>5

LEMMA UndoProcessIs ==
    ASSUME TypeInv, NEW t \in Threads, undoProcess(t)
    PROVE  /\ Ends(t) /\ req[t].pc = "undoProcess" /\ review # None /\ proc \in Procs
           /\ proc' = [proc EXCEPT !.status = "pending_review", !.version = @ + 1]
           /\ UNCHANGED <<draft, review, turns, own, log>>
<1>1. /\ req[t].pc = "undoProcess" /\ finish(t)
      /\ proc' = [proc EXCEPT !.status = "pending_review", !.version = @ + 1]
      /\ UNCHANGED <<draft, review, turns, own, log>>
  BY DEF undoProcess, at
<1>2. req[t].kind \in {"approve", "auto"}
  BY <1>1, InFlight DEF Plan
<1>3. review # None /\ proc \in Procs
  BY <1>2, InFlight, KindsAre
<1> QED
  BY <1>1, <1>3, Finishes

\* Every step of the system is a quiet one, or one that writes.
Writes(t) ==
    \/ claimDraftForSubmission(t) \/ submit_for_review(t) \/ releaseDraft(t) \/ reopenForRevision(t)
    \/ archiveProcessRow(t) \/ updateProcessColumns(t) \/ updateReview(t) \/ insertTurn(t)
    \/ emitReviewEvent(t) \/ claimPendingReview(t) \/ activate(t) \/ goLive(t) \/ onApproved(t)
    \/ emitProposalSubmitted(t) \/ conversationStarted(t) \/ undoReview(t) \/ undoProcess(t)

LEMMA NextIs ==
    ASSUME TypeInv, Next
    PROVE  \E t \in Threads : Quiet(t) \/ Writes(t)
<1>1. PICK t \in Threads : Step(t) \/ Fail(t) \/ Crash(t) \/ \E kind \in Kinds : Begin(t, kind)
  BY DEF Next
<1>2. CASE Step(t)
  BY <1>2, OwnDraftIs, CodeOfConductIs, GetReviewIs, SnapshotIs, NextTurnIs, ReadProcessIs, AttemptIs,
     StartIs DEF Step, Writes
<1>3. CASE Fail(t) \/ Crash(t) \/ \E kind \in Kinds : Begin(t, kind)
  BY <1>3, FailIs, CrashIs, BeginIs
<1> QED
  BY <1>1, <1>2, <1>3

-----------------------------------------------------------------------------
(***************************************************************************)
(* The shape of the state.                                                 *)
(***************************************************************************)
\* A request that may go on may still do so once a review is there.
LEMMA RequestsStay ==
    ASSUME TypeInv, NEW t \in Threads, Acts(t), RequestOK(req'[t]), review # None => review' # None
    PROVE  \A s \in Threads : RequestOK(req[s])'
<1>1. ASSUME NEW s \in Threads PROVE RequestOK(req[s])'
  <2>1. RequestOK(req'[s]) /\ type' = type
    BY DEF Acts, TypeInv
  <2> QED
    BY <2>1 DEF RequestOK, Plan
<1> QED
  BY <1>1

LEMMA MadeStays ==
    ASSUME MadeInv, turns' = turns, review = None <=> review' = None, proc = None <=> proc' = None
    PROVE  MadeInv'
BY DEF MadeInv

\* A step leaves a state of the right shape when what it writes has its own.
LEMMA TypesStay ==
    ASSUME TypeInv, NEW t \in Threads, Acts(t), \A s \in Threads : RequestOK(req[s])', MadeInv',
           draft' \in {"drafting", "submitted"}, review' \in ReviewStatuses \cup {None},
           turns' \in Seq(Turn), proc' \in Procs \cup {None}, own' \in BOOLEAN, log' \in [Events -> Nat]
    PROVE  TypeInv'
<1>1. type' \in ProcessTypes /\ production' \in Productions
  BY DEF Acts, TypeInv, TypeOK
<1> QED
  BY <1>1 DEF Acts, TypeInv, TypeOK, Turn

LEMMA LogCounts ==
    ASSUME log \in [Events -> Nat], NEW e \in Events, log' = [log EXCEPT ![e] = @ + 1]
    PROVE  /\ log' \in [Events -> Nat]
           /\ log'[e] = log[e] + 1 /\ \A d \in Events \ {e} : log'[d] = log[d]
           /\ \A d \in Events : log[d] \in Nat
<1> DEFINE n == log[e] + 1
<1>1. log[e] \in Nat /\ n \in Nat
  OBVIOUS
<1>2. log' = [log EXCEPT ![e] = n]
  OBVIOUS
<1> HIDE DEF n
<1>3. log' \in [Events -> Nat] /\ log'[e] = n /\ \A d \in Events \ {e} : log'[d] = log[d]
  BY <1>1, <1>2
<1> QED
  BY <1>3 DEF n

\* What the writes make of the process.
LEMMA ProcHas ==
    ASSUME proc \in Procs
    PROVE  proc.version \in Nat /\ proc.text \in Nat /\ proc.begun \in BOOLEAN /\ proc.status \in ProcStatuses
BY DEF Procs

LEMMA StatusWritten ==
    ASSUME proc \in Procs, NEW st \in ProcStatuses, proc' = [proc EXCEPT !.status = st, !.version = @ + 1]
    PROVE  /\ proc' \in Procs /\ proc'.status = st /\ proc'.version = proc.version + 1
           /\ proc'.text = proc.text /\ proc'.begun = proc.begun
<1> DEFINE v == proc.version + 1
<1>1. v \in Nat
  BY ProcHas
<1>2. proc' = [proc EXCEPT !.status = st, !.version = v]
  OBVIOUS
<1> HIDE DEF v
<1>3. /\ proc' \in Procs /\ proc'.status = st /\ proc'.version = v
      /\ proc'.text = proc.text /\ proc'.begun = proc.begun
  BY <1>1, <1>2 DEF Procs
<1> QED
  BY <1>3 DEF v

LEMMA BegunWritten ==
    ASSUME proc \in Procs, NEW st \in ProcStatuses,
           proc' = [proc EXCEPT !.status = st, !.version = @ + 1, !.begun = TRUE]
    PROVE  /\ proc' \in Procs /\ proc'.status = st /\ proc'.version = proc.version + 1
           /\ proc'.text = proc.text /\ proc'.begun
<1> DEFINE v == proc.version + 1
<1>1. v \in Nat
  BY ProcHas
<1>2. proc' = [proc EXCEPT !.status = st, !.version = v, !.begun = TRUE]
  OBVIOUS
<1> HIDE DEF v
<1>3. /\ proc' \in Procs /\ proc'.status = st /\ proc'.version = v
      /\ proc'.text = proc.text /\ proc'.begun
  BY <1>1, <1>2 DEF Procs
<1> QED
  BY <1>3 DEF v

LEMMA TextWritten ==
    ASSUME proc \in Procs, NEW b,
           proc' = [proc EXCEPT !.version = @ + 1, !.text = @ + 1, !.begun = @ /\ b]
    PROVE  /\ proc' \in Procs /\ proc'.status = proc.status /\ proc'.version = proc.version + 1
           /\ proc'.text = proc.text + 1
<1> DEFINE v == proc.version + 1
           x == proc.text + 1
           begun == proc.begun /\ b
<1>1. v \in Nat /\ x \in Nat
  BY ProcHas
<1>2. proc' = [proc EXCEPT !.version = v, !.text = x, !.begun = begun]
  OBVIOUS
<1>3. begun \in BOOLEAN
  OBVIOUS
<1> HIDE DEF v, x, begun
<1>4. /\ proc' \in Procs /\ proc'.status = proc.status /\ proc'.version = v
      /\ proc'.text = x
  BY <1>1, <1>2, <1>3 DEF Procs
<1> QED
  BY <1>4 DEF v, x

\* A submission's continuation.
LEMMA SubmittedGoesOn ==
    /\ submitAsCreator \in RequestRecords
    /\ submitAsCreator = Idle \/ (submitAsCreator.pc = "read" /\ submitAsCreator.kind = "auto")
<1>1. newRequest("read", "auto") \in RequestRecords /\ newRequest("read", "auto").pc = "read"
      /\ newRequest("read", "auto").kind = "auto"
  BY NewIs DEF PCs
<1> QED
  BY <1>1, IdleIs DEF submitAsCreator

LEMMA InitType == Init => TypeInv
<1> SUFFICES ASSUME Init PROVE TypeInv
  OBVIOUS
<1>1. \A t \in Threads : req[t] = Idle
  BY DEF Init
<1>2. \A t \in Threads : RequestOK(req[t])
  BY <1>1, IdleIs
<1>3. req \in [Threads -> RequestRecords]
  BY IdleIs DEF Init
<1>4. turns \in Seq([number : Nat, action : Actions, text : Nat])
  BY DEF Init
<1>5. TypeOK
  BY <1>3, <1>4 DEF Init, TypeOK
<1>6. MadeInv
  BY DEF Init, MadeInv
<1> QED
  BY <1>2, <1>5, <1>6 DEF TypeInv

LEMMA NextType == TypeInv /\ [Next]_vars => TypeInv'
<1> SUFFICES ASSUME TypeInv, [Next]_vars PROVE TypeInv'
  OBVIOUS
<1>1. CASE UNCHANGED vars
  BY <1>1 DEF vars, setting, TypeInv, TypeOK, MadeInv, RequestOK, Plan
<1>2. CASE Next
  <2>1. PICK t \in Threads : Quiet(t) \/ Writes(t)
    BY <1>2, NextIs
  <2>2. /\ draft \in {"drafting", "submitted"} /\ review \in ReviewStatuses \cup {None}
        /\ proc \in Procs \cup {None} /\ own \in BOOLEAN /\ log \in [Events -> Nat]
    BY DEF TypeInv, TypeOK
  <2>3. turns \in Seq(Turn) /\ MadeInv /\ (review = None <=> proc = None)
    BY TurnsAre DEF TypeInv, MadeInv
  <2>4. None \notin Procs /\ None \notin ReviewStatuses
    BY NoneIsNothing
  <2>5. ASSUME Quiet(t) PROVE TypeInv'
    <3>1. Acts(t) /\ RequestOK(req'[t]) /\ UNCHANGED <<draft, review, turns, proc, own, log>>
      BY <2>5 DEF Quiet
    <3>2. \A s \in Threads : RequestOK(req[s])'
      BY <3>1, RequestsStay
    <3>3. MadeInv'
      BY <2>3, <3>1, MadeStays
    <3> QED
      BY <2>2, <2>3, <3>1, <3>2, <3>3, TypesStay
  \* A step that keeps the review's and the process's being there, and the turns.
  <2>6. ASSUME Acts(t), RequestOK(req'[t]), turns' = turns,
               draft' \in {"drafting", "submitted"}, review' \in ReviewStatuses \cup {None},
               proc' \in Procs \cup {None}, own' \in BOOLEAN, log' \in [Events -> Nat],
               review = None <=> review' = None, proc = None <=> proc' = None
        PROVE  TypeInv'
    <3>2. \A s \in Threads : RequestOK(req[s])'
      BY <2>6, RequestsStay
    <3>3. MadeInv'
      BY <2>3, <2>6, MadeStays
    <3> QED
      BY <2>3, <2>6, <3>2, <3>3, TypesStay
  <2>7. CASE claimDraftForSubmission(t)
    <3>1. CASE Quiet(t)
      BY <2>5, <3>1
    <3>2. CASE ~Quiet(t)
      <4>1. /\ Acts(t) /\ RequestOK(req'[t]) /\ draft' = "submitted"
            /\ UNCHANGED <<review, turns, proc, own, log>>
        BY <2>7, <3>2, ClaimDraftIs DEF GoesOn
      <4> QED
        BY <2>2, <2>6, <4>1
    <3> QED
      BY <3>1, <3>2
  <2>8. CASE submit_for_review(t)
    <3>1. CASE Quiet(t)
      BY <2>5, <3>1
    <3>2. CASE ~Quiet(t)
      <4>1. /\ Acts(t) /\ req[t].pc = "submit" /\ review = None
            /\ req'[t] = submitAsCreator \/ req'[t] = thrown(req[t])
            /\ review' = "pending_review" /\ proc' = submitted
            /\ turns' = <<[number |-> 1, action |-> "submit", text |-> 0]>>
            /\ log' = [log EXCEPT !["submit"] = @ + 1]
            /\ UNCHANGED <<draft, own>>
        BY <2>8, <3>2, SubmitIs
      <4>2. "pending_review" # None /\ "pending_review" \in ReviewStatuses
        BY NoneIsNothing DEF ReviewStatuses
      <4>3. submitted \in Procs /\ submitted # None
        <5>1. submitted \in Procs
          BY DEF submitted, Procs, ProcStatuses
        <5> QED
          BY <2>4, <5>1
      <4>4. RequestOK(submitAsCreator) \/ submitAsCreator.pc = "read"
        BY SubmittedGoesOn, IdleIs
      <4>5. \A s \in Threads : RequestOK(req[s])'
        <5> SUFFICES ASSUME NEW s \in Threads PROVE RequestOK(req[s])'
          OBVIOUS
        <5>1. type' = type /\ review' # None
          BY <4>1, <4>2 DEF Acts
        <5>2. CASE RequestOK(req'[s])
          BY <5>1, <5>2 DEF RequestOK, Plan
        <5>3. CASE s # t
          BY <4>1, <5>2, <5>3 DEF Acts, TypeInv
        <5>4. CASE s = t /\ req'[t] = thrown(req[t])
          BY <5>2, <5>4, InFlight, ThrownIs
        <5>5. CASE s = t /\ req'[t] = submitAsCreator
          BY <5>1, <5>2, <5>5, SubmittedGoesOn, IdleIs, KindsAre DEF RequestOK, Plan
        <5> QED
          BY <4>1, <5>3, <5>4, <5>5
      <4>6. turns' \in Seq(Turn) /\ DOMAIN turns' = {1}
        <5>1. [number |-> 1, action |-> "submit", text |-> 0] \in Turn
          BY DEF Turn, Actions
        <5> QED
          BY <4>1, <5>1
      <4>7. MadeInv'
        <5>1. \A j \in DOMAIN turns' : turns'[j].number <= turns'[1].number
          BY <4>1, <4>6
        <5> QED
          BY <4>1, <4>2, <4>3, <4>6, <5>1 DEF MadeInv
      <4>8. log' \in [Events -> Nat]
        BY <2>2, <4>1, LogCounts DEF Events, Actions
      <4> QED
        BY <2>2, <4>1, <4>2, <4>3, <4>5, <4>6, <4>7, <4>8, TypesStay
    <3> QED
      BY <3>1, <3>2
  <2>9. CASE releaseDraft(t)
    BY <2>2, <2>6, <2>9, ReleaseIs DEF Ends
  <2>10. CASE reopenForRevision(t)
    BY <2>2, <2>6, <2>10, ReopenIs DEF Ends
  <2>11. CASE archiveProcessRow(t)
    <3>1. proc' \in Procs /\ proc \in Procs
      BY <2>11, ArchiveIs, StatusWritten DEF ProcStatuses
    <3> QED
      BY <2>2, <2>4, <2>6, <2>11, <3>1, ArchiveIs DEF GoesOn
  <2>12. CASE updateProcessColumns(t)
    <3>1. proc' \in Procs /\ proc \in Procs
      BY <2>12, ColumnsAre, TextWritten
    <3> QED
      BY <2>2, <2>4, <2>6, <2>12, <3>1, ColumnsAre DEF GoesOn
  <2>13. CASE updateReview(t)
    BY <2>2, <2>4, <2>6, <2>13, UpdateReviewIs DEF GoesOn
  <2>14. CASE insertTurn(t)
    <3>1. PICK n \in Nat, text \in Nat :
              turns' = Append(turns, [number |-> n, action |-> actionOf(req[t].kind), text |-> text])
      BY <2>14, InsertIs
    <3>2. /\ Acts(t) /\ RequestOK(req'[t]) /\ review # None
          /\ UNCHANGED <<draft, review, proc, own, log>>
      BY <2>14, InsertIs DEF GoesOn
    <3>3. actionOf(req[t].kind) \in Actions
      BY <2>14, InsertIs, ActionIs
    <3> DEFINE turn == [number |-> n, action |-> actionOf(req[t].kind), text |-> text]
    <3>4. turn \in Turn /\ turn.number = n
      BY <3>3 DEF Turn
    <3> HIDE DEF turn
    <3>5. turns' = Append(turns, turn)
      BY <3>1 DEF turn
    <3>6. /\ turns' \in Seq(Turn) /\ DOMAIN turns' = 1..(Len(turns) + 1)
          /\ turns'[Len(turns) + 1] = turn /\ \A j \in 1..Len(turns) : turns'[j] = turns[j]
      BY <2>3, <3>4, <3>5, AppendProperties
    <3>7. \E i \in DOMAIN turns' : \A j \in DOMAIN turns' : turns'[j].number <= turns'[i].number
      <4>1. PICK i \in DOMAIN turns : \A j \in DOMAIN turns : turns[j].number <= turns[i].number
        BY <2>3, <3>2 DEF MadeInv
      <4>2. DOMAIN turns = 1..Len(turns) /\ Len(turns) \in Nat /\ \A j \in DOMAIN turns : turns[j].number \in Nat
        BY TurnsAre DEF Turn
      <4>3. \A j \in DOMAIN turns' : j \in DOMAIN turns \/ j = Len(turns) + 1
        BY <3>6, <4>2
      <4>4. CASE n <= turns[i].number
        <5>1. i \in DOMAIN turns' /\ turns'[i] = turns[i]
          BY <3>6, <4>1, <4>2
        <5>2. \A j \in DOMAIN turns' : turns'[j].number <= turns[i].number
          BY <3>4, <3>6, <4>1, <4>2, <4>3, <4>4
        <5> QED
          BY <5>1, <5>2
      <4>5. CASE n > turns[i].number
        <5>1. Len(turns) + 1 \in DOMAIN turns'
          BY <3>6, <4>2
        <5>2. \A j \in DOMAIN turns' : turns'[j].number <= n
          BY <3>4, <3>6, <4>1, <4>2, <4>3, <4>5
        <5> QED
          BY <3>4, <3>6, <5>1, <5>2
      <4> QED
        BY <4>1, <4>2, <4>4, <4>5
    <3>8. MadeInv'
      BY <2>3, <3>2, <3>7 DEF MadeInv
    <3>9. \A s \in Threads : RequestOK(req[s])'
      BY <3>2, RequestsStay
    <3> QED
      BY <2>2, <3>2, <3>6, <3>8, <3>9, TypesStay
  <2>15. CASE emitReviewEvent(t)
    <3>1. log' \in [Events -> Nat]
      BY <2>2, <2>15, EmitIs, LogCounts DEF Events
    <3> QED
      BY <2>2, <2>6, <2>15, <3>1, EmitIs DEF Ends, GoesOn
  <2>16. CASE claimPendingReview(t)
    <3>1. CASE Quiet(t)
      BY <2>5, <3>1
    <3>2. CASE ~Quiet(t)
      <4>1. /\ Acts(t) /\ RequestOK(req'[t]) /\ review' = "approved" /\ review # None
            /\ UNCHANGED <<draft, turns, proc, own, log>>
        BY <2>16, <3>2, ClaimIs DEF GoesOn
      <4>2. "approved" \in ReviewStatuses
        BY DEF ReviewStatuses
      <4> QED
        BY <2>2, <2>4, <2>6, <4>1, <4>2
    <3> QED
      BY <3>1, <3>2
  <2>17. CASE activate(t)
    <3>1. CASE Quiet(t)
      BY <2>5, <3>1
    <3>2. CASE ~Quiet(t)
      <4>1. log' \in [Events -> Nat]
        BY <2>2, <2>17, <3>2, ActivateIs, LogCounts DEF Events
      <4>2. proc' \in Procs /\ proc \in Procs
        BY <2>17, <3>2, ActivateIs, BegunWritten DEF ProcStatuses, activationOnApproval
      <4> QED
        BY <2>2, <2>4, <2>6, <2>17, <3>2, <4>1, <4>2, ActivateIs DEF GoesOn
    <3> QED
      BY <3>1, <3>2
  <2>18. CASE goLive(t)
    <3>1. CASE Quiet(t)
      BY <2>5, <3>1
    <3>2. CASE ~Quiet(t)
      <4>1. log' \in [Events -> Nat]
        BY <2>2, <2>18, <3>2, GoLiveIs, LogCounts DEF Events
      <4>2. type \in {"proposal", "conversation"}
        BY <2>18, <3>2, GoLiveIs, ReviewAssumption DEF TypeInv, TypeOK
      <4>3. proc' \in Procs /\ proc \in Procs
        BY <2>18, <3>2, <4>2, GoLiveIs, StatusWritten DEF ProcStatuses, activationOnApproval
      <4> QED
        BY <2>2, <2>4, <2>6, <2>18, <3>2, <4>1, <4>3, GoLiveIs DEF GoesOn
    <3> QED
      BY <3>1, <3>2
  <2>19. CASE onApproved(t)
    <3>1. CASE Quiet(t)
      BY <2>5, <3>1
    <3>2. CASE ~Quiet(t)
      <4>1. /\ Acts(t) /\ RequestOK(req'[t]) /\ own' = TRUE
            /\ UNCHANGED <<draft, review, turns, proc, log>>
        BY <2>19, <3>2, OnApprovedIs DEF GoesOn
      <4> QED
        BY <2>2, <2>6, <4>1
    <3> QED
      BY <3>1, <3>2
  <2>20. CASE emitProposalSubmitted(t)
    <3>1. log' \in [Events -> Nat]
      BY <2>2, <2>20, AnnounceIs, LogCounts DEF Events
    <3> QED
      BY <2>2, <2>6, <2>20, <3>1, AnnounceIs DEF GoesOn
  <2>21. CASE conversationStarted(t)
    <3>1. proc' \in Procs /\ proc \in Procs
      BY <2>21, StartedIs, StatusWritten DEF ProcStatuses
    <3> QED
      BY <2>2, <2>4, <2>6, <2>21, <3>1, StartedIs DEF Ends
  <2>22. CASE undoReview(t)
    <3>1. "pending_review" \in ReviewStatuses
      BY DEF ReviewStatuses
    <3> QED
      BY <2>2, <2>4, <2>6, <2>22, <3>1, UndoReviewIs DEF Ends, GoesOn
  <2>23. CASE undoProcess(t)
    <3>1. proc' \in Procs /\ proc \in Procs
      BY <2>23, UndoProcessIs, StatusWritten DEF ProcStatuses
    <3> QED
      BY <2>2, <2>4, <2>6, <2>23, <3>1, UndoProcessIs DEF Ends
  <2> QED
    BY <2>1, <2>5, <2>7, <2>8, <2>9, <2>10, <2>11, <2>12, <2>13, <2>14, <2>15, <2>16, <2>17, <2>18,
       <2>19, <2>20, <2>21, <2>22, <2>23 DEF Writes
<1> QED
  BY <1>1, <1>2

LEMMA TypeAlways == Spec => []TypeInv
BY InitType, NextType, PTL DEF Spec

\* Every variable keeps its shape, whatever fails, is lost or dies: a turn always finds
\* the number before its own, and what a request writes finds the row it is written to.
THEOREM ReviewTypeCorrect == Spec => []TypeOK
<1>1. TypeInv => TypeOK
  BY DEF TypeInv
<1> QED
  BY <1>1, TypeAlways, PTL

-----------------------------------------------------------------------------
(***************************************************************************)
(* A draft is queued once, and is not stranded.                            *)
(***************************************************************************)
LEMMA InitQueue == Init => QueueInv
BY DEF Init, QueueInv, Events, Actions

LEMMA NextQueue ==
    ASSUME TypeInv, QueueInv, [Next]_vars
    PROVE  QueueInv'
<1>1. CASE UNCHANGED vars
  BY <1>1 DEF vars, setting, QueueInv, unbroken
<1>2. CASE Next
  <2>1. PICK t \in Threads : Quiet(t) \/ Writes(t)
    BY <1>2, NextIs
  <2>2. log \in [Events -> Nat] /\ "submit" \in Events
    BY DEF TypeInv, TypeOK, Events, Actions
  \* With a review there, only the count is at stake.
  <2>3. ASSUME review # None, review' # None, log'["submit"] = log["submit"]
        PROVE  QueueInv'
    BY <2>3 DEF QueueInv
  \* Without one, the request that queues or releases the draft goes on doing so.
  <2>4. ASSUME Acts(t), UNCHANGED <<draft, review, log>>,
               Queueing(req[t]) /\ review = None => Queueing(req'[t]) \/ ~unbroken'
        PROVE  QueueInv'
    <3>1. unbroken' => unbroken
      BY <2>4 DEF Acts
    <3>2. ASSUME draft' = "submitted", review' = None, unbroken'
          PROVE  \E s \in Threads : Queueing(req'[s])
      <4>1. PICK s \in Threads : Queueing(req[s])
        BY <2>4, <3>1, <3>2 DEF QueueInv
      <4>2. CASE s = t
        BY <2>4, <3>2, <4>1, <4>2
      <4>3. CASE s # t
        BY <2>4, <4>1, <4>3 DEF Acts
      <4> QED
        BY <4>2, <4>3
    <3> QED
      BY <2>4, <3>2 DEF QueueInv, Queueing
  <2>5. ASSUME Quiet(t) PROVE QueueInv'
    <3>1. Acts(t) /\ RequestOK(req'[t]) /\ UNCHANGED <<draft, review, turns, proc, own, log>>
      BY <2>5 DEF Quiet
    <3>2. ASSUME Queueing(req[t]), review = None, unbroken' PROVE Queueing(req'[t])
      <4>1. req'[t] # Idle
        <5>1. CASE req'[t] = thrown(req[t])
          <6>1. req[t].pc \in {"check", "submit"}
            BY <2>5, <3>2, <5>1, IdleIs DEF Quiet, Queueing, QuietSteps, Refused, Faulted, Lost
          <6> QED
            BY <5>1, <6>1, InFlight, ThrownIs, IdleIs
        <5>2. CASE req'[t] # thrown(req[t])
          BY <2>5, <3>2, <5>2, IdleIs DEF Quiet, Queueing, QuietSteps, Faulted, Lost
        <5> QED
          BY <5>1, <5>2
      <4>2. CASE req'[t] = thrown(req[t])
        <5>1. req[t].pc \in {"check", "submit"}
          BY <2>5, <3>2, <4>1, <4>2, IdleIs DEF Quiet, Queueing, QuietSteps, Refused, Faulted
        <5> QED
          BY <4>2, <5>1, InFlight, ThrownIs DEF Queueing
      <4>3. CASE <<req[t].pc, req'[t].pc>> \in QuietSteps
        <5>1. req'[t].pc \in {"submit", "read"}
          BY <3>2, <4>3 DEF QuietSteps, Queueing
        <5>2. CASE req'[t].pc = "read"
          <6>1. req'[t].kind \notin {"submit", None}
            BY <3>1, <5>2, KindsAre DEF RequestOK, Plan
          <6> QED
            BY <3>1, <3>2, <6>1 DEF RequestOK
        <5> QED
          BY <5>1, <5>2 DEF Queueing
      <4> QED
        BY <2>5, <3>2, <4>1, <4>2, <4>3 DEF Quiet, Queueing
    <3> QED
      BY <2>4, <3>1, <3>2
  <2>6. CASE claimDraftForSubmission(t)
    <3>1. CASE Quiet(t)
      BY <2>5, <3>1
    <3>2. CASE ~Quiet(t)
      <4>1. /\ req'[t].pc = "check" \/ ~unbroken'
            /\ UNCHANGED <<review, log>>
        BY <2>6, <3>2, ClaimDraftIs DEF Faulted
      <4>2. unbroken' => Queueing(req'[t])
        BY <4>1 DEF Queueing
      <4> QED
        BY <4>1, <4>2 DEF QueueInv, Queueing
    <3> QED
      BY <3>1, <3>2
  <2>7. CASE submit_for_review(t)
    <3>1. CASE Quiet(t)
      BY <2>5, <3>1
    <3>2. CASE ~Quiet(t)
      <4>1. review = None /\ review' = "pending_review" /\ log' = [log EXCEPT !["submit"] = @ + 1]
        BY <2>7, <3>2, SubmitIs
      <4>2. log'["submit"] = log["submit"] + 1
        BY <2>2, <4>1, LogCounts
      <4>3. log["submit"] = 0
        BY <4>1 DEF QueueInv
      <4>4. "pending_review" # None
        BY NoneIsNothing DEF ReviewStatuses
      <4> QED
        BY <4>1, <4>2, <4>3, <4>4 DEF QueueInv
    <3> QED
      BY <3>1, <3>2
  <2>8. CASE releaseDraft(t) \/ reopenForRevision(t)
    <3>1. draft' = "drafting" /\ UNCHANGED <<review, log>>
      BY <2>8, ReleaseIs, ReopenIs
    <3> QED
      BY <3>1 DEF QueueInv
  <2>9. CASE archiveProcessRow(t) \/ updateProcessColumns(t) \/ insertTurn(t)
             \/ conversationStarted(t) \/ undoProcess(t)
    <3>1. review # None /\ UNCHANGED <<review, log>>
      BY <2>9, ArchiveIs, ColumnsAre, InsertIs, StartedIs, UndoProcessIs
    <3> QED
      BY <2>3, <3>1
  <2>10. CASE updateReview(t) \/ undoReview(t)
    <3>1. review # None /\ review' \in ReviewStatuses /\ UNCHANGED log
      BY <2>10, UpdateReviewIs, UndoReviewIs DEF ReviewStatuses
    <3> QED
      BY <2>3, <3>1, NoneIsNothing
  <2>11. CASE emitReviewEvent(t)
    <3>1. review # None /\ review' = review
      BY <2>11, EmitIs
    <3>2. PICK e \in Actions \ {"submit"} : log' = [log EXCEPT ![e] = @ + 1]
      BY <2>11, EmitIs
    <3>3. log'["submit"] = log["submit"]
      BY <2>2, <3>2, LogCounts DEF Events
    <3> QED
      BY <2>3, <3>1, <3>3
  <2>12. CASE claimPendingReview(t) \/ onApproved(t)
    <3>1. CASE Quiet(t)
      BY <2>5, <3>1
    <3>2. CASE ~Quiet(t)
      <4>1. review # None /\ review' \in {review, "approved"} /\ UNCHANGED log
        BY <2>12, <3>2, ClaimIs, OnApprovedIs
      <4> QED
        BY <2>3, <4>1, NoneIsNothing DEF ReviewStatuses
    <3> QED
      BY <3>1, <3>2
  <2>13. CASE activate(t)
    <3>1. CASE Quiet(t)
      BY <2>5, <3>1
    <3>2. CASE ~Quiet(t)
      <4>1. review # None /\ review' = review /\ log' = [log EXCEPT !["created"] = @ + 1]
        BY <2>13, <3>2, ActivateIs
      <4>2. log'["submit"] = log["submit"]
        BY <2>2, <4>1, LogCounts DEF Events
      <4> QED
        BY <2>3, <4>1, <4>2
    <3> QED
      BY <3>1, <3>2
  <2>14. CASE goLive(t)
    <3>1. CASE Quiet(t)
      BY <2>5, <3>1
    <3>2. CASE ~Quiet(t)
      <4>1. review # None /\ review' = review /\ (log' = log \/ log' = [log EXCEPT !["created"] = @ + 1])
        BY <2>14, <3>2, GoLiveIs
      <4>2. log'["submit"] = log["submit"]
        BY <2>2, <4>1, LogCounts DEF Events
      <4> QED
        BY <2>3, <4>1, <4>2
    <3> QED
      BY <3>1, <3>2
  <2>15. CASE emitProposalSubmitted(t)
    <3>1. review # None /\ review' = review /\ log' = [log EXCEPT !["announced"] = @ + 1]
      BY <2>15, AnnounceIs
    <3>2. log'["submit"] = log["submit"]
      BY <2>2, <3>1, LogCounts DEF Events
    <3> QED
      BY <2>3, <3>1, <3>2
  <2> QED
    BY <2>1, <2>5, <2>6, <2>7, <2>8, <2>9, <2>10, <2>11, <2>12, <2>13, <2>14, <2>15 DEF Writes
<1> QED
  BY <1>1, <1>2

\* However many times a draft is submitted, and whatever fails, it is in the queue once;
\* and unless a call failed or an invocation died, a draft nobody is working on is either
\* queued or back with its creator.
THEOREM QueuesOnce == Spec => []QueuedOnce
<1>1. QueueInv => QueuedOnce
  BY DEF QueueInv, QueuedOnce, Queueing, quiet, at
<1>2. TypeInv /\ QueueInv /\ [Next]_vars => QueueInv'
  BY NextQueue
<1> QED
  BY <1>1, <1>2, InitQueue, TypeAlways, PTL DEF Spec

-----------------------------------------------------------------------------
(***************************************************************************)
(* What a request knows of the process when it writes it.                  *)
(***************************************************************************)
\* An error leads to no step of an approval but its catch block.
LEMMA ThrownPC ==
    ASSUME TypeInv, NEW t \in Threads
    PROVE  /\ thrown(req[t]).pc \in {"idle", "release", "undoReview"}
           /\ thrown(req[t]).pc = "undoReview" => holdsClaim(req[t])
           /\ ~holdsClaim(thrown(req[t])) /\ ~recorded(thrown(req[t]))
<1>1. thrown(req[t]).pc \in {"idle", "release", "undoReview"}
  BY InFlight, ThrownIs, IdleIs
<1>2. thrown(req[t]).pc = "undoReview" => holdsClaim(req[t])
  BY InFlight, ThrownIs
<1> QED
  BY <1>1, <1>2 DEF holdsClaim, recorded

LEMMA InitVersion == Init => VersionInv
<1> SUFFICES ASSUME Init PROVE VersionInv
  OBVIOUS
<1>1. \A t \in Threads : req[t].pc = "idle"
  BY IdleIs DEF Init
<1> QED
  BY <1>1 DEF VersionInv

LEMMA NextVersion ==
    ASSUME TypeInv, VersionInv, [Next]_vars
    PROVE  VersionInv'
<1>1. CASE UNCHANGED vars
  BY <1>1 DEF vars, VersionInv
<1>2. CASE Next
  <2>1. PICK t \in Threads : Quiet(t) \/ Writes(t)
    BY <1>2, NextIs
  <2>2. thrown(req[t]).pc \notin {"activate", "started"}
    BY ThrownPC
  \* A step to another call, which leaves the process or moves its version on.
  <2>3. ASSUME Acts(t), req'[t].pc \notin {"activate", "started"},
               proc' = proc \/ (proc \in Procs /\ proc'.version = proc.version + 1)
        PROVE  VersionInv'
    <3> SUFFICES ASSUME NEW s \in Threads
                 PROVE  /\ req'[s].pc = "activate" =>
                              req'[s].loaded <= proc'.version /\ (req'[s].loaded = proc'.version => ~proc'.begun)
                        /\ req'[s].pc = "started" =>
                              req'[s].loaded <= proc'.version /\ (req'[s].loaded = proc'.version => proc'.status = "draft")
      BY DEF VersionInv
    <3>1. CASE s = t
      BY <2>3, <3>1
    <3>2. CASE s # t
      <4>1. req'[s] = req[s] /\ req[s].loaded \in Nat
        BY <2>3, <3>2, InFlight DEF Acts
      <4>2. CASE proc' = proc
        BY <4>1, <4>2 DEF VersionInv
      <4>3. CASE proc \in Procs /\ proc'.version = proc.version + 1
        BY <4>1, <4>3, ProcHas DEF VersionInv
      <4> QED
        BY <2>3, <4>2, <4>3
    <3> QED
      BY <3>1, <3>2
  <2>4. ASSUME Quiet(t) PROVE VersionInv'
    <3>1. Acts(t) /\ RequestOK(req'[t]) /\ UNCHANGED <<draft, review, turns, proc, own, log>>
      BY <2>4 DEF Quiet
    <3>2. CASE req'[t].pc \notin {"activate", "started"}
      BY <2>3, <3>1, <3>2
    <3>3. CASE req'[t].pc \in {"activate", "started"}
      <4>1. /\ req'[t].pc = "activate" => req'[t].loaded = proc.version /\ ~proc.begun
            /\ req'[t].pc = "started" => req'[t].loaded = proc.version /\ proc.status = "draft"
        BY <2>2, <2>4, <3>3, IdleIs DEF Quiet, Keeps
      <4>2. proc \in Procs
        <5>1. req'[t].kind \in {"approve", "auto"}
          BY <3>1, <3>3 DEF RequestOK, Plan
        <5>2. review # None
          BY <3>1, <5>1, KindsAre DEF RequestOK
        <5> QED
          BY <5>2 DEF TypeInv, TypeOK, MadeInv
      <4> SUFFICES ASSUME NEW s \in Threads
                   PROVE  /\ req'[s].pc = "activate" =>
                                req'[s].loaded <= proc.version /\ (req'[s].loaded = proc.version => ~proc.begun)
                          /\ req'[s].pc = "started" =>
                                req'[s].loaded <= proc.version /\ (req'[s].loaded = proc.version => proc.status = "draft")
        BY <3>1 DEF VersionInv
      <4>3. CASE s = t
        BY <3>3, <4>1, <4>2, <4>3, ProcHas
      <4>4. CASE s # t
        BY <3>1, <4>4 DEF Acts, VersionInv
      <4> QED
        BY <4>3, <4>4
    <3> QED
      BY <3>2, <3>3
  <2>5. CASE claimDraftForSubmission(t) \/ releaseDraft(t) \/ reopenForRevision(t) \/ updateReview(t)
             \/ insertTurn(t) \/ emitReviewEvent(t) \/ claimPendingReview(t) \/ onApproved(t)
             \/ emitProposalSubmitted(t) \/ undoReview(t)
    <3>1. CASE Quiet(t)
      BY <2>4, <3>1
    <3>2. CASE ~Quiet(t)
      <4>1. proc' = proc
        BY <2>5, <3>2, ClaimDraftIs, ReleaseIs, ReopenIs, UpdateReviewIs, InsertIs, EmitIs, ClaimIs,
           OnApprovedIs, AnnounceIs, UndoReviewIs
      <4>2. Ends(t) \/ \E pc \in {"check", "turn", "emit", "act", "live", "start", "announce", "undoProcess"} : GoesOn(t, pc)
        BY <2>5, <3>2, ClaimDraftIs, ReleaseIs, ReopenIs, UpdateReviewIs, InsertIs, EmitIs, ClaimIs,
           OnApprovedIs, AnnounceIs, UndoReviewIs
      <4>3. Acts(t) /\ req'[t].pc \notin {"activate", "started"}
        BY <2>2, <4>2, IdleIs DEF Ends, GoesOn
      <4> QED
        BY <2>3, <4>1, <4>3
    <3> QED
      BY <3>1, <3>2
  <2>6. CASE archiveProcessRow(t) \/ updateProcessColumns(t) \/ activate(t) \/ goLive(t)
             \/ conversationStarted(t) \/ undoProcess(t)
    <3>1. CASE Quiet(t)
      BY <2>4, <3>1
    <3>2. CASE ~Quiet(t)
      <4>1. Ends(t) \/ \E pc \in {"status", "snapshot", "emit", "own"} : GoesOn(t, pc)
        BY <2>6, <3>2, ArchiveIs, ColumnsAre, ActivateIs, GoLiveIs, StartedIs, UndoProcessIs
      <4>2. Acts(t) /\ req'[t].pc \notin {"activate", "started"}
        BY <2>2, <4>1, IdleIs DEF Ends, GoesOn
      <4>3. proc' = proc \/ (proc \in Procs /\ proc'.version = proc.version + 1)
        <5>1. CASE archiveProcessRow(t) \/ conversationStarted(t) \/ undoProcess(t)
          BY <5>1, ArchiveIs, StartedIs, UndoProcessIs, StatusWritten DEF ProcStatuses
        <5>2. CASE updateProcessColumns(t)
          BY <5>2, ColumnsAre, TextWritten
        <5>3. CASE activate(t)
          BY <3>2, <5>3, ActivateIs, BegunWritten DEF ProcStatuses, activationOnApproval
        <5>4. CASE goLive(t)
          <6>1. type \in {"proposal", "conversation"}
            BY <3>2, <5>4, GoLiveIs, ReviewAssumption DEF TypeInv, TypeOK
          <6> QED
            BY <3>2, <5>4, <6>1, GoLiveIs, StatusWritten DEF ProcStatuses, activationOnApproval
        <5> QED
          BY <2>6, <5>1, <5>2, <5>3, <5>4
      <4> QED
        BY <2>3, <4>2, <4>3
    <3> QED
      BY <3>1, <3>2
  <2>7. CASE submit_for_review(t)
    <3>1. CASE Quiet(t)
      BY <2>4, <3>1
    <3>2. CASE ~Quiet(t)
      <4>1. Acts(t) /\ review = None /\ req'[t] \in {submitAsCreator, thrown(req[t])}
        BY <2>7, <3>2, SubmitIs
      <4>2. ASSUME NEW s \in Threads PROVE req'[s].pc \notin {"activate", "started"}
        <5>1. req[s].pc \notin {"activate", "started"}
          <6>1. req[s].kind \notin {"approve", "auto"}
            BY <4>1, InFlight, KindsAre
          <6> QED
            BY <6>1, InFlight DEF Plan
        <5>2. CASE s = t
          BY <2>2, <4>1, <5>2, SubmittedGoesOn, IdleIs
        <5>3. CASE s # t
          BY <4>1, <5>1, <5>3 DEF Acts
        <5> QED
          BY <5>2, <5>3
      <4> QED
        BY <4>2 DEF VersionInv
    <3> QED
      BY <3>1, <3>2
  <2> QED
    BY <2>1, <2>4, <2>5, <2>6, <2>7 DEF Writes
<1> QED
  BY <1>1, <1>2

LEMMA VersionAlways == Spec => []VersionInv
<1>1. TypeInv /\ VersionInv /\ [Next]_vars => VersionInv'
  BY NextVersion
<1> QED
  BY <1>1, InitVersion, TypeAlways, PTL DEF Spec

-----------------------------------------------------------------------------
(***************************************************************************)
(* What is public was approved, on the record.                             *)
(***************************************************************************)
LEMMA InitRecord == Init => RecordInv
<1> SUFFICES ASSUME Init PROVE RecordInv
  OBVIOUS
<1>1. \A t \in Threads : ~recorded(req[t])
  BY IdleIs, KindsAre DEF Init, recorded, approving
<1>2. ~public
  BY DEF Init, public
<1> QED
  BY <1>1, <1>2 DEF RecordInv

LEMMA NextRecord ==
    ASSUME TypeInv, RecordInv, [Next]_vars
    PROVE  RecordInv'
<1>1. CASE UNCHANGED vars
  BY <1>1 DEF vars, RecordInv, Approved, public
<1>2. CASE Next
  <2>1. PICK t \in Threads : Quiet(t) \/ Writes(t)
    BY <1>2, NextIs
  <2>2. ~recorded(thrown(req[t])) /\ ~recorded(Idle) /\ ~recorded(submitAsCreator)
    <3>1. ~recorded(Idle) /\ ~recorded(submitAsCreator)
      BY IdleIs, SubmittedGoesOn DEF recorded
    <3> QED
      BY <3>1, ThrownPC
  \* A step that keeps the record, and makes nothing public that was not approved.
  <2>3. ASSUME Acts(t), turns' = turns, recorded(req'[t]) => Approved, public' => public \/ Approved
        PROVE  RecordInv'
    <3>1. Approved' <=> Approved
      BY <2>3 DEF Approved
    <3>2. ASSUME NEW s \in Threads, recorded(req'[s]) PROVE Approved'
      BY <2>3, <3>1, <3>2 DEF Acts, RecordInv
    <3>3. public' => Approved'
      BY <2>3, <3>1 DEF RecordInv
    <3> QED
      BY <3>2, <3>3 DEF RecordInv, recorded, approving
  <2>4. ASSUME Quiet(t) PROVE RecordInv'
    <3>1. Acts(t) /\ UNCHANGED <<draft, review, turns, proc, own, log>>
      BY <2>4 DEF Quiet
    <3>2. ASSUME recorded(req'[t]) PROVE Approved
      <4>1. /\ <<req[t].pc, req'[t].pc>> \in QuietSteps
            /\ req'[t].kind = req[t].kind
        BY <2>2, <2>4, <3>2 DEF Quiet, recorded
      <4>2. recorded(req[t])
        BY <3>2, <4>1 DEF recorded, QuietSteps, approving
      <4> QED
        BY <4>2 DEF RecordInv
    <3> QED
      BY <2>3, <3>1, <3>2 DEF public
  <2>5. CASE claimDraftForSubmission(t) \/ releaseDraft(t) \/ reopenForRevision(t) \/ updateReview(t)
             \/ claimPendingReview(t) \/ undoReview(t)
    <3>1. CASE Quiet(t)
      BY <2>4, <3>1
    <3>2. CASE ~Quiet(t)
      <4>1. UNCHANGED <<turns, proc>>
        BY <2>5, <3>2, ClaimDraftIs, ReleaseIs, ReopenIs, UpdateReviewIs, ClaimIs, UndoReviewIs
      <4>2. Ends(t) \/ \E pc \in {"check", "turn", "undoProcess"} : GoesOn(t, pc)
        BY <2>5, <3>2, ClaimDraftIs, ReleaseIs, ReopenIs, UpdateReviewIs, ClaimIs, UndoReviewIs
      <4>3. Acts(t) /\ ~recorded(req'[t])
        BY <2>2, <4>2 DEF Ends, GoesOn, recorded
      <4> QED
        BY <2>3, <4>1, <4>3 DEF public
    <3> QED
      BY <3>1, <3>2
  <2>6. CASE emitReviewEvent(t) \/ onApproved(t) \/ emitProposalSubmitted(t)
    <3>1. CASE Quiet(t)
      BY <2>4, <3>1
    <3>2. CASE ~Quiet(t)
      <4>1. UNCHANGED <<turns, proc>>
        BY <2>6, <3>2, EmitIs, OnApprovedIs, AnnounceIs
      <4>2. /\ Ends(t) \/ \E pc \in {"start", "announce", "emit"} : GoesOn(t, pc)
            /\ req[t].pc \in {"emit", "own", "announce"}
        BY <2>6, <3>2, EmitIs, OnApprovedIs, AnnounceIs
      <4>3. ASSUME recorded(req'[t]) PROVE Approved
        <5>1. req'[t].kind = req[t].kind
          BY <2>2, <4>2, <4>3 DEF Ends, GoesOn
        <5>2. recorded(req[t])
          BY <4>2, <4>3, <5>1 DEF recorded, approving
        <5> QED
          BY <5>2 DEF RecordInv
      <4>4. Acts(t)
        BY <4>2 DEF Ends, GoesOn
      <4> QED
        BY <2>3, <4>1, <4>3, <4>4 DEF public
    <3> QED
      BY <3>1, <3>2
  <2>7. CASE activate(t) \/ goLive(t)
    <3>1. CASE Quiet(t)
      BY <2>4, <3>1
    <3>2. CASE ~Quiet(t)
      <4>1. /\ turns' = turns /\ approving(req[t]) /\ req[t].pc \in {"activate", "live"}
            /\ \E pc \in {"own", "emit"} : GoesOn(t, pc)
        BY <2>7, <3>2, ActivateIs, GoLiveIs
      <4>2. Approved
        BY <4>1 DEF RecordInv, recorded
      <4>3. Acts(t)
        BY <4>1 DEF GoesOn
      <4> QED
        BY <2>3, <4>1, <4>2, <4>3
    <3> QED
      BY <3>1, <3>2
  <2>8. CASE conversationStarted(t)
    <3>1. turns' = turns /\ approving(req[t]) /\ req[t].pc = "started" /\ Ends(t)
      BY <2>8, StartedIs
    <3>2. Approved /\ Acts(t)
      BY <3>1 DEF RecordInv, recorded, Ends
    <3> QED
      BY <2>3, <3>1, <3>2
  <2>9. CASE archiveProcessRow(t) \/ updateProcessColumns(t) \/ undoProcess(t)
    <3>1. turns' = turns /\ (Ends(t) \/ \E pc \in {"status", "snapshot"} : GoesOn(t, pc))
      BY <2>9, ArchiveIs, ColumnsAre, UndoProcessIs
    <3>2. Acts(t) /\ ~recorded(req'[t])
      BY <2>2, <3>1 DEF Ends, GoesOn, recorded
    <3>3. public' => public
      <4>1. CASE archiveProcessRow(t)
        <5>1. proc'.status = "archived"
          BY <4>1, ArchiveIs, StatusWritten DEF ProcStatuses
        <5> QED
          BY <5>1 DEF public
      <4>2. CASE undoProcess(t)
        <5>1. proc'.status = "pending_review"
          BY <4>2, UndoProcessIs, StatusWritten DEF ProcStatuses
        <5> QED
          BY <5>1 DEF public
      <4>3. CASE updateProcessColumns(t)
        <5>1. proc \in Procs /\ proc'.status = proc.status
          BY <4>3, ColumnsAre, TextWritten
        <5>2. proc # None
          BY <5>1, NoneIsNothing
        <5> QED
          BY <5>1, <5>2 DEF public
      <4> QED
        BY <2>9, <4>1, <4>2, <4>3
    <3> QED
      BY <2>3, <3>1, <3>2, <3>3
  <2>10. CASE submit_for_review(t)
    <3>1. CASE Quiet(t)
      BY <2>4, <3>1
    <3>2. CASE ~Quiet(t)
      <4>1. /\ Acts(t) /\ review = None /\ req'[t] \in {submitAsCreator, thrown(req[t])}
            /\ proc' = submitted
        BY <2>10, <3>2, SubmitIs
      <4>2. ASSUME NEW s \in Threads PROVE ~recorded(req'[s])
        <5>1. ~recorded(req[s])
          BY <4>1, InFlight, KindsAre DEF recorded, approving
        <5>2. CASE s = t
          BY <2>2, <4>1, <5>2
        <5>3. CASE s # t
          BY <4>1, <5>1, <5>3 DEF Acts
        <5> QED
          BY <5>2, <5>3
      <4>3. ~public'
        BY <4>1 DEF public, submitted
      <4> QED
        BY <4>2, <4>3 DEF RecordInv, recorded, approving
    <3> QED
      BY <3>1, <3>2
  <2>11. CASE insertTurn(t)
    <3>1. PICK n \in Nat, text \in Nat :
              turns' = Append(turns, [number |-> n, action |-> actionOf(req[t].kind), text |-> text])
      BY <2>11, InsertIs
    <3>2. /\ Acts(t) /\ proc' = proc /\ req[t].pc = "insert"
          /\ req'[t].kind = req[t].kind \/ req'[t] = thrown(req[t])
      BY <2>11, InsertIs DEF GoesOn
    <3>3. actionOf(req[t].kind) \in Actions /\ (approving(req[t]) => actionOf(req[t].kind) = "approve")
      BY <3>2, ActionIs
    <3> DEFINE turn == [number |-> n, action |-> actionOf(req[t].kind), text |-> text]
    <3>4. turn \in Turn /\ turn.action = actionOf(req[t].kind)
      BY <3>3 DEF Turn
    <3> HIDE DEF turn
    <3>5. turns' = Append(turns, turn)
      BY <3>1 DEF turn
    <3>6. turns \in Seq(Turn) /\ DOMAIN turns = 1..Len(turns) /\ Len(turns) \in Nat
      BY TurnsAre
    <3>7. /\ DOMAIN turns' = 1..(Len(turns) + 1)
          /\ turns'[Len(turns) + 1] = turn /\ \A j \in 1..Len(turns) : turns'[j] = turns[j]
      BY <3>4, <3>5, <3>6, AppendProperties
    <3>8. Approved => Approved'
      BY <3>6, <3>7 DEF Approved
    <3>9. approving(req[t]) => Approved'
      <4>1. Len(turns) + 1 \in DOMAIN turns'
        BY <3>6, <3>7
      <4> QED
        BY <3>3, <3>4, <3>7, <4>1 DEF Approved
    <3>10. ASSUME NEW s \in Threads, recorded(req'[s]) PROVE Approved'
      <4>1. CASE s = t
        <5>1. approving(req[t])
          BY <2>2, <3>2, <3>10, <4>1 DEF recorded, approving
        <5> QED
          BY <3>9, <5>1
      <4>2. CASE s # t
        BY <3>2, <3>8, <3>10, <4>2 DEF Acts, RecordInv
      <4> QED
        BY <4>1, <4>2
    <3>11. public' => Approved'
      BY <3>2, <3>8 DEF RecordInv, public
    <3> QED
      BY <3>10, <3>11 DEF RecordInv, recorded, approving
  <2> QED
    BY <2>1, <2>4, <2>5, <2>6, <2>7, <2>8, <2>9, <2>10, <2>11 DEF Writes
<1> QED
  BY <1>1, <1>2

\* Whatever is public was approved, and its approval is among the turns, in whatever order
\* the writes of several requests land and whichever of them fail.
THEOREM PublicWasApproved == Spec => []ApprovalOnRecord
<1>1. RecordInv => ApprovalOnRecord
  BY DEF RecordInv, ApprovalOnRecord, Approved
<1>2. TypeInv /\ RecordInv /\ [Next]_vars => RecordInv'
  BY NextRecord
<1> QED
  BY <1>1, <1>2, InitRecord, TypeAlways, PTL DEF Spec

-----------------------------------------------------------------------------
(***************************************************************************)
(* What is approved is announced once.                                     *)
(***************************************************************************)
LEMMA ThreadsAreFinite == IsFiniteSet(Threads)
BY ReviewAssumption, FS_Union DEF Threads

\* How a step changes the number of proposals about to be announced.
LEMMA Announcers ==
    ASSUME TypeInv, NEW t \in Threads, Acts(t)
    PROVE  /\ Cardinality(Announcing) \in Nat /\ Cardinality(Announcing') \in Nat
           /\ req'[t].pc # "announce" => Cardinality(Announcing') <= Cardinality(Announcing)
           /\ req'[t].pc # "announce" /\ req[t].pc = "announce" =>
                  Cardinality(Announcing') + 1 = Cardinality(Announcing)
           /\ Cardinality(Announcing') <= Cardinality(Announcing) + 1
<1>1. Announcing \subseteq Threads /\ Announcing' \subseteq Threads
  BY DEF Announcing
<1>2. /\ IsFiniteSet(Announcing) /\ IsFiniteSet(Announcing')
      /\ Cardinality(Announcing) \in Nat /\ Cardinality(Announcing') \in Nat
  BY <1>1, ThreadsAreFinite, FS_Subset, FS_CardinalityType
<1>3. CASE req'[t].pc # "announce"
  <2>1. Announcing' = Announcing \ {t}
    BY <1>3 DEF Announcing, Acts
  <2>2. Cardinality(Announcing') = IF t \in Announcing THEN Cardinality(Announcing) - 1 ELSE Cardinality(Announcing)
    BY <1>2, <2>1, FS_RemoveElement
  <2>3. t \in Announcing <=> req[t].pc = "announce"
    BY DEF Announcing
  <2> QED
    BY <1>2, <1>3, <2>2, <2>3
<1>4. CASE req'[t].pc = "announce"
  <2>1. Announcing' = Announcing \cup {t}
    BY <1>4 DEF Announcing, Acts
  <2>2. Cardinality(Announcing') = IF t \in Announcing THEN Cardinality(Announcing) ELSE Cardinality(Announcing) + 1
    BY <1>2, <2>1, FS_AddElement
  <2> QED
    BY <1>2, <1>4, <2>2
<1> QED
  BY <1>3, <1>4

LEMMA InitAnnounce == Init => AnnounceInv
<1> SUFFICES ASSUME Init PROVE AnnounceInv
  OBVIOUS
<1>1. Announcing = {}
  BY IdleIs DEF Init, Announcing
<1>2. Cardinality(Announcing) = 0
  BY <1>1, FS_EmptySet
<1>3. log["created"] = 0 /\ log["announced"] = 0 /\ proc = None /\ own = FALSE
  BY DEF Init, Events, Actions
<1> QED
  BY <1>2, <1>3 DEF AnnounceInv

LEMMA NextAnnounce ==
    ASSUME TypeInv, VersionInv, AnnounceInv, [Next]_vars
    PROVE  AnnounceInv'
<1>1. CASE UNCHANGED vars
  BY <1>1 DEF vars, setting, AnnounceInv, Announcing
<1>2. CASE Next
  <2>1. PICK t \in Threads : Quiet(t) \/ Writes(t)
    BY <1>2, NextIs
  <2>2. log \in [Events -> Nat] /\ {"created", "announced"} \subseteq Events /\ Events = Actions \cup {"created", "announced"}
    BY DEF TypeInv, TypeOK, Events
  <2>3. "created" \notin Actions /\ "announced" \notin Actions
    BY DEF Actions
  <2>4. thrown(req[t]).pc # "announce" /\ Idle.pc # "announce" /\ submitAsCreator.pc # "announce"
    BY ThrownPC, IdleIs, SubmittedGoesOn
  <2>5. log["created"] \in Nat /\ log["announced"] \in Nat
    BY <2>2
  \* The proposal's part, when none more is about to be announced.
  <2>7. ASSUME Acts(t), req'[t].pc # "announce", own' = own, type = "proposal",
               log'["created"] = log["created"], log'["announced"] = log["announced"]
        PROVE  AnnounceInv'
    <3>1. /\ Cardinality(Announcing) \in Nat /\ Cardinality(Announcing') \in Nat
          /\ Cardinality(Announcing') <= Cardinality(Announcing)
      BY <2>7, Announcers
    <3>2. log["created"] = 0 /\ log["announced"] + Cardinality(Announcing) <= IF own THEN 1 ELSE 0
      BY <2>7 DEF AnnounceInv
    <3>3. log["announced"] + Cardinality(Announcing') <= IF own THEN 1 ELSE 0
      BY <2>5, <3>1, <3>2
    <3>4. type' = "proposal"
      BY <2>7 DEF Acts
    <3> QED
      BY <2>7, <3>2, <3>3, <3>4 DEF AnnounceInv
  \* The vote's part, when nothing is announced.
  <2>8. ASSUME Acts(t), type = "vote",
               log'["created"] = log["created"], log'["announced"] = log["announced"],
               \/ proc' = proc
               \/ /\ proc \in Procs /\ proc' \in Procs
                  /\ \/ proc'.text = proc.text /\ proc'.begun = proc.begun
                     \/ proc'.text = proc.text + 1
        PROVE  AnnounceInv'
    <3>1. /\ log["announced"] = 0 /\ (proc = None => log["created"] = 0)
          /\ proc # None => log["created"] <= proc.text + IF proc.begun THEN 1 ELSE 0
      BY <2>8 DEF AnnounceInv
    <3>2. type' = "vote"
      BY <2>8 DEF Acts
    <3>3. CASE proc' = proc
      BY <2>8, <3>1, <3>2, <3>3 DEF AnnounceInv
    <3>4. CASE /\ proc \in Procs /\ proc' \in Procs
               /\ \/ proc'.text = proc.text /\ proc'.begun = proc.begun
                  \/ proc'.text = proc.text + 1
      <4>1. proc # None /\ proc' # None
        BY <3>4, NoneIsNothing
      <4>2. proc.text \in Nat /\ proc'.text \in Nat
        BY <3>4 DEF Procs
      <4>3. log["created"] <= proc'.text + IF proc'.begun THEN 1 ELSE 0
        BY <2>5, <3>1, <3>4, <4>1, <4>2
      <4> QED
        BY <2>8, <3>1, <3>2, <4>1, <4>3 DEF AnnounceInv
    <3> QED
      BY <2>8, <3>3, <3>4
  \* Both, and nothing is said of a conversation.
  <2>9. ASSUME Acts(t), req'[t].pc # "announce", own' = own,
               log'["created"] = log["created"], log'["announced"] = log["announced"],
               \/ proc' = proc
               \/ /\ proc \in Procs /\ proc' \in Procs
                  /\ \/ proc'.text = proc.text /\ proc'.begun = proc.begun
                     \/ proc'.text = proc.text + 1
        PROVE  AnnounceInv'
    <3>1. type' = type
      BY <2>9 DEF Acts
    <3>2. CASE type \notin {"proposal", "vote"}
      BY <3>1, <3>2 DEF AnnounceInv
    <3> QED
      BY <2>7, <2>8, <2>9, <3>2
  <2>10. ASSUME Quiet(t) PROVE AnnounceInv'
    <3>1. Acts(t) /\ UNCHANGED <<draft, review, turns, proc, own, log>>
      BY <2>10 DEF Quiet
    <3>2. req'[t].pc # "announce"
      BY <2>4, <2>10 DEF Quiet, QuietSteps
    <3> QED
      BY <2>9, <3>1, <3>2
  <2>11. CASE claimDraftForSubmission(t) \/ releaseDraft(t) \/ reopenForRevision(t) \/ updateReview(t)
              \/ insertTurn(t) \/ claimPendingReview(t) \/ undoReview(t)
    <3>1. CASE Quiet(t)
      BY <2>10, <3>1
    <3>2. CASE ~Quiet(t)
      <4>1. UNCHANGED <<proc, own, log>>
        BY <2>11, <3>2, ClaimDraftIs, ReleaseIs, ReopenIs, UpdateReviewIs, InsertIs, ClaimIs, UndoReviewIs
      <4>2. Ends(t) \/ \E pc \in {"check", "turn", "emit", "act", "live", "undoProcess"} : GoesOn(t, pc)
        BY <2>11, <3>2, ClaimDraftIs, ReleaseIs, ReopenIs, UpdateReviewIs, InsertIs, ClaimIs, UndoReviewIs
      <4>3. Acts(t) /\ req'[t].pc # "announce"
        BY <2>4, <4>2 DEF Ends, GoesOn
      <4> QED
        BY <2>9, <4>1, <4>3
    <3> QED
      BY <3>1, <3>2
  <2>12. CASE archiveProcessRow(t) \/ updateProcessColumns(t) \/ conversationStarted(t) \/ undoProcess(t)
    <3>1. UNCHANGED <<own, log>> /\ (Ends(t) \/ \E pc \in {"status", "snapshot"} : GoesOn(t, pc))
      BY <2>12, ArchiveIs, ColumnsAre, StartedIs, UndoProcessIs
    <3>2. Acts(t) /\ req'[t].pc # "announce"
      BY <2>4, <3>1 DEF Ends, GoesOn
    <3>3. \/ proc' = proc
          \/ /\ proc \in Procs /\ proc' \in Procs
             /\ \/ proc'.text = proc.text /\ proc'.begun = proc.begun
                \/ proc'.text = proc.text + 1
      <4>1. CASE archiveProcessRow(t) \/ conversationStarted(t) \/ undoProcess(t)
        BY <4>1, ArchiveIs, StartedIs, UndoProcessIs, StatusWritten DEF ProcStatuses
      <4>2. CASE updateProcessColumns(t)
        BY <4>2, ColumnsAre, TextWritten
      <4> QED
        BY <2>12, <4>1, <4>2
    <3> QED
      BY <2>9, <3>1, <3>2, <3>3
  <2>13. CASE emitReviewEvent(t)
    <3>1. PICK e \in Actions \ {"submit"} : log' = [log EXCEPT ![e] = @ + 1]
      BY <2>13, EmitIs
    <3>2. log'["created"] = log["created"] /\ log'["announced"] = log["announced"]
      BY <2>2, <2>3, <3>1, LogCounts
    <3>3. (Ends(t) \/ GoesOn(t, "start")) /\ UNCHANGED <<proc, own>>
      BY <2>13, EmitIs
    <3>4. Acts(t) /\ req'[t].pc # "announce"
      BY <2>4, <3>3 DEF Ends, GoesOn
    <3> QED
      BY <2>9, <3>2, <3>3, <3>4
  <2>14. CASE activate(t)
    <3>1. CASE Quiet(t)
      BY <2>10, <3>1
    <3>2. CASE ~Quiet(t)
      <4>1. /\ GoesOn(t, "emit") /\ req[t].pc = "activate" /\ proc \in Procs
            /\ type = "vote" /\ proc.version = req[t].loaded
            /\ proc' = [proc EXCEPT !.status = activationOnApproval, !.version = @ + 1, !.begun = TRUE]
            /\ log' = [log EXCEPT !["created"] = @ + 1]
        BY <2>14, <3>2, ActivateIs
      <4>2. ~proc.begun
        BY <4>1 DEF VersionInv
      <4>3. proc' \in Procs /\ proc'.text = proc.text /\ proc'.begun
        BY <4>1, BegunWritten DEF ProcStatuses, activationOnApproval
      <4>4. proc # None /\ proc' # None /\ proc.text \in Nat
        BY <4>1, <4>3, NoneIsNothing, ProcHas
      <4>5. log'["created"] = log["created"] + 1 /\ log'["announced"] = log["announced"]
        BY <2>2, <4>1, LogCounts
      <4>6. log["announced"] = 0 /\ log["created"] <= proc.text
        BY <4>1, <4>2, <4>4 DEF AnnounceInv
      <4>7. log'["created"] <= proc'.text + IF proc'.begun THEN 1 ELSE 0
        BY <2>5, <4>3, <4>4, <4>5, <4>6
      <4>8. type' = "vote"
        BY <4>1 DEF GoesOn, Acts
      <4> QED
        BY <4>4, <4>5, <4>6, <4>7, <4>8 DEF AnnounceInv
    <3> QED
      BY <3>1, <3>2
  <2>15. CASE goLive(t)
    <3>1. CASE Quiet(t)
      BY <2>10, <3>1
    <3>2. CASE ~Quiet(t)
      <4>1. /\ GoesOn(t, "own") \/ GoesOn(t, "emit")
            /\ type # "vote" /\ own' = own /\ (type = "proposal" => log' = log)
        BY <2>15, <3>2, GoLiveIs
      <4>2. Acts(t) /\ req'[t].pc # "announce" /\ type' = type
        BY <2>4, <4>1 DEF GoesOn, Acts
      <4>3. CASE type = "proposal"
        BY <2>7, <4>1, <4>2, <4>3
      <4>4. CASE type # "proposal"
        BY <4>1, <4>2, <4>4 DEF AnnounceInv
      <4> QED
        BY <4>3, <4>4
    <3> QED
      BY <3>1, <3>2
  <2>16. CASE onApproved(t)
    <3>1. CASE Quiet(t)
      BY <2>10, <3>1
    <3>2. CASE ~Quiet(t)
      <4>1. GoesOn(t, "announce") /\ type = "proposal" /\ ~own /\ own' = TRUE /\ log' = log
        BY <2>16, <3>2, OnApprovedIs
      <4>2. Acts(t) /\ type' = "proposal"
        BY <4>1 DEF GoesOn, Acts
      <4>3. log["created"] = 0 /\ log["announced"] + Cardinality(Announcing) <= 0
        BY <4>1 DEF AnnounceInv
      <4>4. /\ Cardinality(Announcing) \in Nat /\ Cardinality(Announcing') \in Nat
            /\ Cardinality(Announcing') <= Cardinality(Announcing) + 1
        BY <4>2, Announcers
      <4>5. log["announced"] + Cardinality(Announcing') <= 1
        BY <2>5, <4>3, <4>4
      <4> QED
        BY <4>1, <4>2, <4>3, <4>5 DEF AnnounceInv
    <3> QED
      BY <3>1, <3>2
  <2>17. CASE emitProposalSubmitted(t)
    <3>1. /\ GoesOn(t, "emit") /\ req[t].pc = "announce" /\ type = "proposal"
          /\ log' = [log EXCEPT !["announced"] = @ + 1] /\ own' = own
      BY <2>17, AnnounceIs
    <3>2. Acts(t) /\ type' = "proposal" /\ req'[t].pc # "announce"
      BY <2>4, <3>1 DEF GoesOn, Acts
    <3>3. log["created"] = 0 /\ log["announced"] + Cardinality(Announcing) <= IF own THEN 1 ELSE 0
      BY <3>1 DEF AnnounceInv
    <3>4. log'["announced"] = log["announced"] + 1 /\ log'["created"] = log["created"]
      BY <2>2, <3>1, LogCounts
    <3>5. /\ Cardinality(Announcing) \in Nat /\ Cardinality(Announcing') \in Nat
          /\ Cardinality(Announcing') + 1 = Cardinality(Announcing)
      BY <3>1, <3>2, Announcers
    <3>6. log'["announced"] + Cardinality(Announcing') <= IF own THEN 1 ELSE 0
      BY <2>5, <3>3, <3>4, <3>5
    <3> QED
      BY <3>1, <3>2, <3>3, <3>4, <3>6 DEF AnnounceInv
  <2>18. CASE submit_for_review(t)
    <3>1. CASE Quiet(t)
      BY <2>10, <3>1
    <3>2. CASE ~Quiet(t)
      <4>1. /\ Acts(t) /\ review = None /\ req'[t] \in {submitAsCreator, thrown(req[t])}
            /\ proc' = submitted /\ own' = own
            /\ log' = [log EXCEPT !["submit"] = @ + 1]
        BY <2>18, <3>2, SubmitIs
      <4>2. log'["created"] = log["created"] /\ log'["announced"] = log["announced"]
        BY <2>2, <4>1, LogCounts DEF Actions
      <4>3. type' = type /\ req'[t].pc # "announce"
        BY <2>4, <4>1 DEF Acts
      <4>4. CASE type = "proposal"
        BY <2>7, <4>1, <4>2, <4>3, <4>4
      <4>5. CASE type = "vote"
        <5>1. proc = None
          BY <4>1 DEF TypeInv, MadeInv
        <5>2. log["created"] = 0 /\ log["announced"] = 0
          BY <4>5, <5>1 DEF AnnounceInv
        <5>3. proc'.text = 0 /\ proc'.begun = FALSE
          BY <4>1 DEF submitted
        <5>4. proc' # None
          <6>1. submitted \in Procs
            BY DEF submitted, Procs, ProcStatuses
          <6> QED
            BY <4>1, <6>1, NoneIsNothing
        <5> QED
          BY <4>2, <4>3, <4>5, <5>2, <5>3, <5>4 DEF AnnounceInv
      <4>6. CASE type \notin {"proposal", "vote"}
        BY <4>3, <4>6 DEF AnnounceInv
      <4> QED
        BY <4>4, <4>5, <4>6
    <3> QED
      BY <3>1, <3>2
  <2> QED
    BY <2>1, <2>10, <2>11, <2>12, <2>13, <2>14, <2>15, <2>16, <2>17, <2>18 DEF Writes
<1> QED
  BY <1>1, <1>2

\* However many approvals are made, at once or again after one that failed, a proposal is
\* announced to the public once, and a vote once for each of its texts.
THEOREM AnnouncedOnlyOnce == Spec => []AnnouncedOnce
<1>1. ASSUME TypeInv, AnnounceInv PROVE AnnouncedOnce
  <2>1. log["created"] \in Nat /\ log["announced"] \in Nat
    BY <1>1 DEF TypeInv, TypeOK, Events
  <2>2. CASE type = "proposal"
    <3>1. log["created"] = 0 /\ log["announced"] + Cardinality(Announcing) <= IF own THEN 1 ELSE 0
      BY <1>1, <2>2 DEF AnnounceInv
    <3>2. Cardinality(Announcing) \in Nat
      BY ThreadsAreFinite, FS_Subset, FS_CardinalityType DEF Announcing
    <3> QED
      BY <2>1, <2>2, <3>1, <3>2 DEF AnnouncedOnce
  <2>3. CASE type = "vote" /\ proc # None
    <3>1. log["announced"] = 0 /\ log["created"] <= proc.text + IF proc.begun THEN 1 ELSE 0
      BY <1>1, <2>3 DEF AnnounceInv
    <3>2. proc.text \in Nat
      BY <1>1, <2>3, ProcHas DEF TypeInv, TypeOK
    <3> QED
      BY <2>1, <2>3, <3>1, <3>2 DEF AnnouncedOnce
  <2> QED
    BY <2>2, <2>3 DEF AnnouncedOnce
<1>2. TypeInv /\ VersionInv /\ AnnounceInv /\ [Next]_vars => AnnounceInv'
  BY NextAnnounce
<1>3. TypeInv /\ AnnounceInv => AnnouncedOnce
  BY <1>1
<1> QED
  BY <1>2, <1>3, InitAnnounce, TypeAlways, VersionAlways, PTL DEF Spec

-----------------------------------------------------------------------------
(***************************************************************************)
(* One approval at a time, while nobody revises: a revision on its way     *)
(* puts the review back in the queue whatever it has become.               *)
(***************************************************************************)
LEMMA InitClaim == Init => ClaimInv
<1> SUFFICES ASSUME Init PROVE ClaimInv
  OBVIOUS
<1>1. Claiming = {}
  BY IdleIs DEF Init, Claiming, claims, holdsClaim
<1> QED
  BY <1>1 DEF ClaimInv

LEMMA NextClaim ==
    ASSUME TypeInv, ClaimInv, [Next]_vars, Kinds \cap {"revise", "resubmit"} = {}
    PROVE  ClaimInv'
<1>1. CASE UNCHANGED vars
  BY <1>1 DEF vars, ClaimInv, Claiming, claims, holdsClaim, approving
<1>2. CASE Next
  <2>1. PICK t \in Threads : Quiet(t) \/ Writes(t)
    BY <1>2, NextIs
  <2>2. ~claims(Idle) /\ ~claims(submitAsCreator)
    BY IdleIs, SubmittedGoesOn DEF claims, holdsClaim
  <2>3. claims(thrown(req[t])) => claims(req[t])
    BY ThrownPC DEF claims
  <2>4. Claiming' = {s \in Threads : claims(req'[s])}
    BY DEF Claiming, claims, holdsClaim, approving
  \* A step that takes no claim, and puts no review back in the queue.
  <2>5. ASSUME Acts(t), claims(req'[t]) => claims(req[t]), review' = review \/ review' # "pending_review"
        PROVE  ClaimInv'
    <3>1. Claiming' \subseteq Claiming
      BY <2>4, <2>5 DEF Acts, Claiming
    <3> QED
      BY <2>5, <3>1 DEF ClaimInv
  \* An approval that holds its claim goes on holding it, or gives it back.
  <2>6. ASSUME NEW pc, GoesOn(t, pc), req[t].pc \in {"turn", "insert", "act", "activate", "live", "own", "announce", "emit"},
               pc # "undoReview"
        PROVE  Acts(t) /\ (claims(req'[t]) => claims(req[t]))
    <3>1. Acts(t) /\ ((req'[t].pc = pc /\ req'[t].kind = req[t].kind) \/ req'[t] = thrown(req[t]))
      BY <2>6 DEF GoesOn
    <3>2. CASE req'[t].pc = pc /\ req'[t].kind = req[t].kind
      BY <2>6, <3>1, <3>2 DEF claims, holdsClaim, approving
    <3> QED
      BY <2>3, <3>1, <3>2
  <2>7. ASSUME Quiet(t) PROVE ClaimInv'
    <3>1. Acts(t) /\ UNCHANGED <<draft, review, turns, proc, own, log>>
      BY <2>7 DEF Quiet
    <3>2. ASSUME claims(req'[t]) PROVE claims(req[t])
      <4>1. CASE req'[t] = thrown(req[t])
        BY <2>3, <3>2, <4>1
      <4>2. CASE req'[t] # thrown(req[t])
        <5>1. <<req[t].pc, req'[t].pc>> \in QuietSteps /\ req'[t].kind = req[t].kind
          BY <2>2, <2>7, <3>2, <4>2 DEF Quiet, claims, holdsClaim
        <5>2. holdsClaim(req'[t])
          BY <3>2, <5>1 DEF claims, QuietSteps
        <5> QED
          BY <5>1, <5>2 DEF QuietSteps, claims, holdsClaim, approving
      <4> QED
        BY <4>1, <4>2
    <3> QED
      BY <2>5, <3>1, <3>2
  <2>8. CASE claimDraftForSubmission(t) \/ releaseDraft(t) \/ reopenForRevision(t) \/ archiveProcessRow(t)
             \/ updateProcessColumns(t) \/ conversationStarted(t) \/ undoProcess(t)
    <3>1. CASE Quiet(t)
      BY <2>7, <3>1
    <3>2. CASE ~Quiet(t)
      <4>1. review' = review
        BY <2>8, <3>2, ClaimDraftIs, ReleaseIs, ReopenIs, ArchiveIs, ColumnsAre, StartedIs, UndoProcessIs
      <4>2. Ends(t) \/ \E pc \in {"check", "status", "snapshot"} : GoesOn(t, pc)
        BY <2>8, <3>2, ClaimDraftIs, ReleaseIs, ReopenIs, ArchiveIs, ColumnsAre, StartedIs, UndoProcessIs
      <4>3. Acts(t) /\ (claims(req'[t]) => claims(req[t]))
        BY <2>2, <2>3, <4>2 DEF Ends, GoesOn, claims, holdsClaim
      <4> QED
        BY <2>5, <4>1, <4>3
    <3> QED
      BY <3>1, <3>2
  <2>9. CASE insertTurn(t) \/ emitReviewEvent(t) \/ activate(t) \/ goLive(t) \/ onApproved(t)
             \/ emitProposalSubmitted(t)
    <3>1. CASE Quiet(t)
      BY <2>7, <3>1
    <3>2. CASE ~Quiet(t)
      <4>1. review' = review /\ req[t].pc \in {"insert", "act", "activate", "live", "own", "announce", "emit"}
        BY <2>9, <3>2, InsertIs, EmitIs, ActivateIs, GoLiveIs, OnApprovedIs, AnnounceIs
      <4>2. Ends(t) \/ \E pc \in {"emit", "act", "live", "start", "own", "announce"} : GoesOn(t, pc)
        BY <2>9, <3>2, InsertIs, EmitIs, ActivateIs, GoLiveIs, OnApprovedIs, AnnounceIs
      <4>3. CASE Ends(t)
        <5>1. Acts(t) /\ (claims(req'[t]) => claims(req[t]))
          BY <2>2, <2>3, <4>3 DEF Ends
        <5> QED
          BY <2>5, <4>1, <5>1
      <4>4. CASE \E pc \in {"emit", "act", "live", "start", "own", "announce"} : GoesOn(t, pc)
        <5>1. PICK pc \in {"emit", "act", "live", "start", "own", "announce"} : GoesOn(t, pc)
          BY <4>4
        <5>2. Acts(t) /\ (claims(req'[t]) => claims(req[t]))
          BY <2>6, <4>1, <5>1
        <5> QED
          BY <2>5, <4>1, <5>2
      <4> QED
        BY <4>2, <4>3, <4>4
    <3> QED
      BY <3>1, <3>2
  <2>10. CASE updateReview(t)
    <3>1. /\ GoesOn(t, "turn") /\ req[t].pc = "status"
          /\ req[t].kind \in {"decline", "withdraw", "request_changes", "revise", "resubmit"}
          /\ review' = "pending_review" => req[t].kind \in {"revise", "resubmit"}
      BY <2>10, UpdateReviewIs
    <3>2. req[t].kind \notin {"revise", "resubmit"}
      <4>1. req[t].kind \in Kinds \cup {"auto", None}
        BY InFlight
      <4> QED
        BY <4>1, KindsAre, ReviewAssumption, NoneIsNothing DEF CreatorKinds
    <3>3. ~claims(thrown(req[t]))
      BY <3>1, ThrownPC DEF claims, holdsClaim
    <3>4. Acts(t) /\ (claims(req'[t]) => claims(req[t]))
      BY <3>1, <3>3 DEF GoesOn, claims, holdsClaim, approving
    <3> QED
      BY <2>5, <3>1, <3>2, <3>4
  <2>11. CASE claimPendingReview(t)
    <3>1. CASE Quiet(t)
      BY <2>7, <3>1
    <3>2. CASE ~Quiet(t)
      <4>1. GoesOn(t, "turn") /\ review = "pending_review" /\ review' = "approved"
        BY <2>11, <3>2, ClaimIs
      <4>2. Claiming = {}
        BY <4>1 DEF ClaimInv
      <4>3. Claiming' \subseteq {t}
        BY <2>4, <4>1, <4>2 DEF GoesOn, Acts, Claiming
      <4> QED
        BY <4>1, <4>3 DEF ClaimInv
    <3> QED
      BY <3>1, <3>2
  <2>12. CASE undoReview(t)
    <3>1. (GoesOn(t, "undoProcess") \/ Ends(t)) /\ req[t].pc = "undoReview"
      BY <2>12, UndoReviewIs
    <3>2. Claiming = {t}
      BY <3>1 DEF ClaimInv, Claiming, claims
    <3>3. ~claims(thrown(req[t]))
      BY <3>1, ThrownPC DEF claims, holdsClaim
    <3>4. Acts(t) /\ ~claims(req'[t])
      BY <2>2, <3>1, <3>3 DEF GoesOn, Ends, claims, holdsClaim
    <3>5. Claiming' = {}
      BY <2>4, <3>2, <3>4 DEF Acts, Claiming
    <3> QED
      BY <3>5 DEF ClaimInv
  <2>13. CASE submit_for_review(t)
    <3>1. CASE Quiet(t)
      BY <2>7, <3>1
    <3>2. CASE ~Quiet(t)
      <4>1. /\ Acts(t) /\ review = None /\ req'[t] \in {submitAsCreator, thrown(req[t])}
            /\ req[t].pc = "submit"
        BY <2>13, <3>2, SubmitIs
      <4>2. ASSUME NEW s \in Threads PROVE ~claims(req'[s])
        <5>1. ~claims(req[s])
          <6>1. req[s].kind \notin {"approve", "auto"}
            BY <4>1, InFlight, KindsAre
          <6> QED
            BY <6>1, InFlight DEF Plan, claims, holdsClaim, approving
        <5>2. CASE s = t
          BY <2>2, <2>3, <4>1, <5>1, <5>2
        <5>3. CASE s # t
          BY <4>1, <5>1, <5>3 DEF Acts
        <5> QED
          BY <5>2, <5>3
      <4>3. Claiming' = {}
        BY <2>4, <4>2
      <4> QED
        BY <4>3 DEF ClaimInv
    <3> QED
      BY <3>1, <3>2
  <2> QED
    BY <2>1, <2>7, <2>8, <2>9, <2>10, <2>11, <2>12, <2>13 DEF Writes
<1> QED
  BY <1>1, <1>2

\* However many admins approve at once, with their own submissions among them, and
\* whichever of them fail and give their claim back, one of them at most is past it; while
\* they decline, ask for changes, withdraw and reopen too, and nobody revises.
THEOREM OneApprovalAtATime ==
    ASSUME Kinds \cap {"revise", "resubmit"} = {}
    PROVE  Spec => []ClaimExclusive
<1>1. ASSUME ClaimInv PROVE ClaimExclusive
  <2> DEFINE holders == {t \in Threads : holdsClaim(req[t])}
  <2>1. \A s, t \in holders : s = t
    BY <1>1 DEF ClaimInv, Claiming, claims
  <2>2. CASE holders = {}
    BY <2>2, FS_EmptySet DEF ClaimExclusive
  <2>3. CASE holders # {}
    <3>1. PICK t \in holders : TRUE
      BY <2>3
    <3>2. holders = {t}
      BY <2>1, <3>1
    <3>3. Cardinality(holders) = 1
      BY <3>2, FS_Singleton
    <3> QED
      BY <3>3 DEF ClaimExclusive
  <2> QED
    BY <2>2, <2>3
<1>2. TypeInv /\ ClaimInv /\ [Next]_vars => ClaimInv'
  BY NextClaim
<1>3. ClaimInv => ClaimExclusive
  BY <1>1
<1> QED
  BY <1>2, <1>3, InitClaim, TypeAlways, PTL DEF Spec

-----------------------------------------------------------------------------
(***************************************************************************)
(* How a request moves, and whether it has made the process live.          *)
(***************************************************************************)
\* From one call to the next.
MovePairs ==
    QuietSteps \cup
    { <<"claimDraft", "check">>, <<"archive", "status">>, <<"columns", "snapshot">>, <<"status", "turn">>,
      <<"insert", "emit">>, <<"insert", "act">>, <<"insert", "live">>, <<"claim", "turn">>,
      <<"activate", "emit">>, <<"live", "own">>, <<"live", "emit">>, <<"own", "announce">>,
      <<"announce", "emit">>, <<"emit", "start">>, <<"undoReview", "undoProcess">> }

GoesFrom(t) ==
    /\ <<req[t].pc, req'[t].pc>> \in MovePairs /\ req'[t].kind = req[t].kind /\ Keeps(t)
    /\ req[t].pc = "insert" => (req'[t].pc = "emit" <=> ~approving(req[t]))
    /\ req[t].pc = "undoReview" => req[t].live

Moves(t) ==
    /\ Acts(t)
    /\ \/ req'[t] = thrown(req[t])
       \/ req'[t] = Idle
       \/ req[t].pc = "submit" /\ req'[t] = submitAsCreator
       \/ req[t].pc = "idle" /\ Begins(t)
       \/ GoesFrom(t)

LEMMA MovesIs ==
    ASSUME TypeInv, NEW t \in Threads, Quiet(t) \/ Writes(t)
    PROVE  Moves(t)
<1>1. CASE Quiet(t)
  <2>1. QuietSteps \subseteq MovePairs /\ ~(<<req[t].pc, req'[t].pc>> \in QuietSteps /\ req[t].pc \in {"insert", "undoReview"})
    BY DEF MovePairs, QuietSteps
  <2> QED
    BY <1>1, <2>1 DEF Quiet, Moves, GoesFrom
<1>2. ASSUME NEW pc, GoesOn(t, pc), <<req[t].pc, pc>> \in MovePairs,
             req[t].pc = "insert" => (pc = "emit" <=> ~approving(req[t])),
             req[t].pc = "undoReview" => req[t].live
      PROVE  Moves(t)
  BY <1>2 DEF GoesOn, Moves, GoesFrom
<1>3. ASSUME Ends(t) PROVE Moves(t)
  BY <1>3 DEF Ends, Moves
<1>4. CASE Writes(t) /\ ~Quiet(t)
  <2>1. CASE claimDraftForSubmission(t)
    BY <1>2, <1>4, <2>1, ClaimDraftIs DEF MovePairs
  <2>2. CASE submit_for_review(t)
    BY <1>4, <2>2, SubmitIs DEF Moves
  <2>3. CASE releaseDraft(t) \/ reopenForRevision(t) \/ conversationStarted(t) \/ undoProcess(t)
    BY <1>3, <2>3, ReleaseIs, ReopenIs, StartedIs, UndoProcessIs
  <2>4. CASE archiveProcessRow(t) \/ updateProcessColumns(t) \/ updateReview(t)
    BY <1>2, <2>4, ArchiveIs, ColumnsAre, UpdateReviewIs DEF MovePairs
  <2>5. CASE insertTurn(t)
    <3> DEFINE pc == IF ~approving(req[t]) THEN "emit" ELSE IF type = "vote" THEN "act" ELSE "live"
    <3>1. GoesOn(t, pc) /\ req[t].pc = "insert"
      BY <2>5, InsertIs
    <3>2. pc \in {"emit", "act", "live"} /\ (pc = "emit" <=> ~approving(req[t]))
      OBVIOUS
    <3> HIDE DEF pc
    <3> QED
      BY <1>2, <3>1, <3>2 DEF MovePairs
  <2>6. CASE emitReviewEvent(t)
    BY <1>2, <1>3, <2>6, EmitIs DEF MovePairs
  <2>7. CASE claimPendingReview(t)
    BY <1>2, <1>4, <2>7, ClaimIs DEF MovePairs
  <2>8. CASE activate(t)
    BY <1>2, <1>4, <2>8, ActivateIs DEF MovePairs
  <2>9. CASE goLive(t)
    BY <1>2, <1>4, <2>9, GoLiveIs DEF MovePairs
  <2>10. CASE onApproved(t)
    BY <1>2, <1>4, <2>10, OnApprovedIs DEF MovePairs
  <2>11. CASE emitProposalSubmitted(t)
    BY <1>2, <2>11, AnnounceIs DEF MovePairs
  <2>12. CASE undoReview(t)
    BY <1>2, <1>3, <2>12, UndoReviewIs DEF MovePairs
  <2> QED
    BY <1>4, <2>1, <2>2, <2>3, <2>4, <2>5, <2>6, <2>7, <2>8, <2>9, <2>10, <2>11, <2>12 DEF Writes
<1> QED
  BY <1>1, <1>4

\* An approval is live from the step that publishes to the end of its catch block, and
\* no other request is.
LiveOK(q) ==
    /\ q.live => approving(q) /\ q.pc \in {"own", "announce", "emit", "start", "started", "undoReview", "undoProcess"}
    /\ (approving(q) /\ q.pc \in {"own", "announce", "emit"}) \/ q.pc = "undoProcess" => q.live

LiveInv == \A t \in Threads : LiveOK(req[t])

LEMMA NewLive ==
    ASSUME NEW pc \in {"idle", "draft", "read"}, NEW kind
    PROVE  LiveOK(newRequest(pc, kind))
BY DEF newRequest, LiveOK

LEMMA ThrownLive ==
    ASSUME TypeInv, NEW t \in Threads, LiveOK(req[t])
    PROVE  LiveOK(thrown(req[t])) /\ thrown(req[t]).live \in {FALSE, req[t].live}
<1> DEFINE q == req[t]
<1>1. RequestOK(q) /\ q \in RequestRecords
  BY InFlight DEF RequestOK
<1>2. LiveOK(Idle) /\ Idle.live = FALSE
  BY NewLive DEF Idle, newRequest
<1>3. CASE q.kind \in {"submit", "resubmit"} /\ q.pc \notin {"draft", "claimDraft", "release"}
  <2> DEFINE p == [q EXCEPT !.pc = "release"]
  <2>1. thrown(q) = p
    BY <1>3 DEF thrown, holdsClaim, approving
  <2>2. p.pc = "release" /\ p.kind = q.kind /\ p.live = q.live
    BY <1>1 DEF RequestRecords
  <2>3. ~q.live
    BY <1>3 DEF LiveOK, approving
  <2>4. q.live \in BOOLEAN
    BY <1>1 DEF RequestRecords
  <2> HIDE DEF p
  <2>5. LiveOK(p)
    BY <2>2, <2>3 DEF LiveOK
  <2> QED
    BY <2>1, <2>2, <2>5
<1>4. CASE ~(q.kind \in {"submit", "resubmit"} /\ q.pc \notin {"draft", "claimDraft", "release"}) /\ holdsClaim(q)
  <2> DEFINE p == [q EXCEPT !.pc = "undoReview"]
  <2>1. thrown(q) = p
    BY <1>4 DEF thrown
  <2>2. p.pc = "undoReview" /\ p.kind = q.kind /\ p.live = q.live
    BY <1>1 DEF RequestRecords
  <2> HIDE DEF p
  <2>3. LiveOK(p)
    BY <1>4, <2>2 DEF LiveOK, holdsClaim, approving
  <2> QED
    BY <2>1, <2>2, <2>3
<1>5. CASE ~(q.kind \in {"submit", "resubmit"} /\ q.pc \notin {"draft", "claimDraft", "release"}) /\ ~holdsClaim(q)
  <2>1. thrown(q) = Idle
    BY <1>5 DEF thrown
  <2> QED
    BY <1>2, <2>1
<1> QED
  BY <1>3, <1>4, <1>5

LEMMA NextLive ==
    ASSUME TypeInv, LiveInv, [Next]_vars
    PROVE  LiveInv'
<1>1. CASE UNCHANGED vars
  BY <1>1 DEF vars, LiveInv, LiveOK, approving
<1>2. CASE Next
  <2>1. PICK t \in Threads : Moves(t)
    BY <1>2, NextIs, MovesIs
  <2>2. LiveOK(req[t]) /\ Plan(req[t].pc, req[t].kind) /\ req[t].kind \in Kinds \cup {"auto", None}
    BY InFlight DEF LiveInv
  <2>3. LiveOK(req'[t])
    <3>1. CASE req'[t] = thrown(req[t])
      BY <2>2, <3>1, ThrownLive
    <3>2. CASE req'[t] \in {Idle, submitAsCreator}
      BY <3>2, NewLive DEF submitAsCreator, Idle
    <3>3. CASE Begins(t)
      BY <3>3, NewLive DEF Begins, firstStep
    <3>4. CASE GoesFrom(t)
      <4>1. /\ <<req[t].pc, req'[t].pc>> \in MovePairs /\ req'[t].kind = req[t].kind
            /\ req'[t].live <=> req[t].live \/ (req[t].pc \in {"activate", "live"} /\ req'[t].pc \in {"own", "emit"})
            /\ req[t].pc = "insert" => (req'[t].pc = "emit" <=> ~approving(req[t]))
            /\ req[t].pc = "undoReview" => req[t].live
        BY <3>4 DEF GoesFrom, Keeps
      <4>2. approving(req'[t]) <=> approving(req[t])
        BY <4>1 DEF approving
      <4>3. req[t].pc \in {"activate", "live", "emit", "undoReview"} => approving(req[t]) \/ req[t].pc = "emit"
        BY <2>2 DEF Plan, approving
      <4>4. CASE <<req[t].pc, req'[t].pc>> \in QuietSteps
        <5>1. req[t].pc \notin {"own", "announce", "emit", "undoProcess", "undoReview", "started", "live"}
              /\ req'[t].pc \notin {"own", "announce", "emit", "undoProcess"}
              /\ (req[t].pc = "start" => req'[t].pc = "started")
          BY <4>4 DEF QuietSteps
        <5> QED
          BY <2>2, <4>1, <4>2, <5>1 DEF LiveOK
      <4>5. CASE <<req[t].pc, req'[t].pc>> \notin QuietSteps
        <5>1. CASE req'[t].pc = "start"
          <6>1. req[t].pc = "emit"
            BY <4>1, <4>5, <5>1 DEF MovePairs
          <6> QED
            BY <2>2, <4>1, <4>2, <5>1, <6>1 DEF LiveOK
        <5>2. CASE req'[t].pc # "start"
          BY <2>2, <4>1, <4>2, <4>3, <4>5, <5>2 DEF LiveOK, MovePairs
        <5> QED
          BY <5>1, <5>2
      <4> QED
        BY <4>4, <4>5
    <3> QED
      BY <2>1, <3>1, <3>2, <3>3, <3>4 DEF Moves
  <2>4. ASSUME NEW s \in Threads PROVE LiveOK(req'[s])
    BY <2>1, <2>3 DEF Moves, Acts, LiveInv
  <2> QED
    BY <2>4 DEF LiveInv, LiveOK, approving
<1> QED
  BY <1>1, <1>2

LEMMA LiveAlways == Spec => []LiveInv
<1>1. Init => LiveInv
  BY NewLive DEF Init, LiveInv, Idle
<1>2. TypeInv /\ LiveInv /\ [Next]_vars => LiveInv'
  BY NextLive
<1> QED
  BY <1>1, <1>2, TypeAlways, PTL DEF Spec

-----------------------------------------------------------------------------
(***************************************************************************)
(* One request of the creator and one of an admin at a time: the public    *)
(* sees the text that was approved.                                        *)
(***************************************************************************)
\* Something of the process is out: it is public, or has a row of its type's own.
out == public \/ own

\* A revision that has yet to write the process or the review.
Revising(q) == q.kind \in {"revise", "resubmit"} /\ q.pc \in {"columns", "snapshot", "status"}

\* A decision that found the review pending, and that nothing has come of yet.
Unposted(q) ==
    \/ approving(q) /\ q.pc \in {"load", "claim", "turn", "insert", "act", "activate", "live"}
    \/ q.pc \in {"archive", "status", "undoReview"}

\* What creator and admin may each be doing, as the review stands.
CreatorInv(q) ==
    /\ q.kind \in CreatorKinds \cup {None}
    /\ Revising(q) => review = "changes_requested"

AdminInv(q) ==
    /\ q.kind \in AdminKinds \cup {None}
    /\ review = "changes_requested" =>
          q.pc \in {"idle", "read"} \/ (~approving(q) /\ q.pc \in {"turn", "insert", "emit"})
    /\ claims(q) => review \in {"approved", "withdrawn"}
    /\ unbroken => /\ Unposted(q) => ~out
                   /\ q.pc = "own" => ~own
                   /\ q.pc = "undoReview" => ~q.live
                   /\ q.pc # "undoProcess"

PairInv(c, a) ==
    /\ CreatorInv(req[c]) /\ AdminInv(req[a])
    /\ unbroken => (out => review \in {"approved", "withdrawn"})

Pair(c, a) == CreatorRequests = {c} /\ AdminRequests = {a} /\ c # a /\ ~AutoApprove

LEMMA PairKinds ==
    ASSUME NEW c, NEW a, Pair(c, a)
    PROVE  /\ Threads = {c, a} /\ submitAsCreator = Idle
           /\ CreatorKinds \cap AdminKinds = {} /\ Kinds \subseteq CreatorKinds \cup AdminKinds
           /\ None \notin CreatorKinds \cup AdminKinds
BY ReviewAssumption, NoneIsNothing DEF Pair, Threads, submitAsCreator, CreatorKinds, AdminKinds

\* An error leaves a request of the same kind, or none.
LEMMA ThrownKind ==
    ASSUME TypeInv, NEW t \in Threads
    PROVE  thrown(req[t]).kind \in {req[t].kind, None}
<1> DEFINE q == req[t]
<1>1. q \in RequestRecords
  BY InFlight DEF RequestOK
<1>2. [q EXCEPT !.pc = "release"].kind = q.kind /\ [q EXCEPT !.pc = "undoReview"].kind = q.kind
  BY <1>1 DEF RequestRecords
<1>3. thrown(q) \in {[q EXCEPT !.pc = "release"], [q EXCEPT !.pc = "undoReview"], Idle}
  BY DEF thrown
<1> QED
  BY <1>2, <1>3, IdleIs

\* Creator and admin keep to their kinds of request.
LEMMA MovesKind ==
    ASSUME TypeInv, NEW t \in Threads, Moves(t), NEW c, NEW a, Pair(c, a), PairInv(c, a)
    PROVE  /\ t = c => req'[t].kind \in CreatorKinds \cup {None}
           /\ t = a => req'[t].kind \in AdminKinds \cup {None}
<1>1. /\ Threads = {c, a} /\ submitAsCreator = Idle
      /\ CreatorKinds \cap AdminKinds = {} /\ Kinds \subseteq CreatorKinds \cup AdminKinds
  BY PairKinds
<1>2. req[c].kind \in CreatorKinds \cup {None} /\ req[a].kind \in AdminKinds \cup {None}
  BY DEF PairInv, CreatorInv, AdminInv
<1>3. CASE req'[t].kind \in {req[t].kind, None}
  BY <1>2, <1>3
<1>4. CASE Begins(t)
  <2>1. PICK kind \in Kinds :
            /\ req'[t] = newRequest(firstStep(kind), kind)
            /\ kind \in CreatorKinds => t \in CreatorRequests
            /\ kind \in AdminKinds => t \in AdminRequests
    BY <1>4 DEF Begins
  <2>2. req'[t].kind = kind
    BY <2>1 DEF newRequest
  <2>3. t = c => kind \notin AdminKinds
    BY <2>1 DEF Pair
  <2>4. t = a => kind \notin CreatorKinds
    BY <2>1 DEF Pair
  <2> QED
    BY <1>1, <2>2, <2>3, <2>4
<1>5. \/ req'[t].kind \in {req[t].kind, None}
      \/ Begins(t)
  BY <1>1, ThrownKind, IdleIs DEF Moves, GoesFrom
<1> QED
  BY <1>3, <1>4, <1>5

\* A step of the creator that makes nothing public and leaves the review.
LEMMA CreatorMoves ==
    ASSUME TypeInv, NEW c, NEW a, Pair(c, a), PairInv(c, a), Moves(c), review' = review,
           out' => out, own' => own, Revising(req'[c]) => review = "changes_requested"
    PROVE  PairInv(c, a)'
<1>1. c \in Threads /\ a \in Threads /\ a # c
  BY PairKinds DEF Pair
<1>2. req'[c].kind \in CreatorKinds \cup {None}
  BY <1>1, MovesKind
<1>3. req'[a] = req[a] /\ (unbroken' => unbroken)
  BY <1>1 DEF Moves, Acts
<1>4. CreatorInv(req[c])'
  BY <1>2 DEF CreatorInv, Revising
<1>5. AdminInv(req[a])'
  BY <1>3 DEF PairInv, AdminInv, Unposted, claims, holdsClaim, approving
<1>6. unbroken' => (out' => review' \in {"approved", "withdrawn"})
  BY <1>3 DEF PairInv
<1> QED
  BY <1>4, <1>5, <1>6 DEF PairInv

\* A step of the admin that leaves what the creator relies on.
LEMMA AdminMoves ==
    ASSUME TypeInv, NEW c, NEW a, Pair(c, a), PairInv(c, a), Moves(a),
           Revising(req[c]) => review' = "changes_requested", AdminInv(req[a])',
           unbroken' => (out' => review' \in {"approved", "withdrawn"})
    PROVE  PairInv(c, a)'
<1>1. c \in Threads /\ a \in Threads /\ a # c
  BY PairKinds DEF Pair
<1>2. req'[c] = req[c]
  BY <1>1 DEF Moves, Acts
<1>3. CreatorInv(req[c])'
  BY <1>2 DEF PairInv, CreatorInv, Revising
<1> QED
  BY <1>3 DEF PairInv

LEMMA QuietCreator ==
    ASSUME TypeInv, NEW c, NEW a, Pair(c, a), PairInv(c, a), Quiet(c)
    PROVE  PairInv(c, a)'
<1>1. c \in Threads
  BY PairKinds
<1>2. Moves(c)
  BY <1>1, MovesIs
<1>3. UNCHANGED <<draft, review, turns, proc, own, log>>
  BY DEF Quiet
<1>4. (out' => out) /\ (own' => own)
  BY <1>3 DEF out, public
<1>5. ASSUME Revising(req'[c]) PROVE review = "changes_requested"
  <2>1. req'[c].pc \in {"columns", "snapshot", "status"} /\ req'[c].kind \in {"revise", "resubmit"}
    BY <1>5 DEF Revising
  <2>2. thrown(req[c]).pc \in {"idle", "release", "undoReview"}
    BY <1>1, ThrownPC
  <2>3. /\ <<req[c].pc, req'[c].pc>> \in QuietSteps /\ req'[c].kind = req[c].kind
        /\ req[c].pc = "read" => mayDecide(req[c].kind)
    BY <2>1, <2>2, IdleIs DEF Quiet
  <2>4. CASE req[c].pc = "read"
    BY <2>1, <2>3, <2>4 DEF mayDecide
  <2>5. CASE req[c].pc # "read"
    <3>1. req[c].pc = "snapshot"
      BY <2>1, <2>3, <2>5 DEF QuietSteps
    <3> QED
      BY <2>1, <2>3, <3>1 DEF PairInv, CreatorInv, Revising
  <2> QED
    BY <2>4, <2>5
<1> QED
  BY <1>2, <1>3, <1>4, <1>5, CreatorMoves

LEMMA QuietAdmin ==
    ASSUME TypeInv, LiveInv, NEW c, NEW a, Pair(c, a), PairInv(c, a), Quiet(a)
    PROVE  PairInv(c, a)'
<1>1. a \in Threads
  BY PairKinds
<1>2. Moves(a) /\ Acts(a)
  BY <1>1, MovesIs DEF Moves
<1>3. UNCHANGED <<draft, review, turns, proc, own, log>>
  BY DEF Quiet
<1>4. (out' <=> out) /\ (own' <=> own) /\ (unbroken' => unbroken)
  BY <1>2, <1>3 DEF out, public, Acts
<1>5. req'[a].kind \in AdminKinds \cup {None} /\ req[a].kind \in AdminKinds \cup {None}
  BY <1>1, <1>2, MovesKind DEF PairInv, AdminInv
<1>6. /\ thrown(req[a]).pc \in {"idle", "release", "undoReview"}
      /\ thrown(req[a]).pc = "undoReview" => holdsClaim(req[a])
  BY <1>1, ThrownPC
<1>7. req'[a].pc # "release"
  <2>1. Plan(req'[a].pc, req'[a].kind)
    BY DEF Quiet, RequestOK
  <2> QED
    BY <1>5, <2>1, PairKinds DEF Plan, AdminKinds, CreatorKinds
\* Its moves, but for a throw and its beginning.
<1> DEFINE Steps == /\ <<req[a].pc, req'[a].pc>> \in QuietSteps /\ req'[a].kind = req[a].kind
                    /\ req[a].pc = "read" => mayDecide(req[a].kind) /\ req'[a].pc = afterRead(req[a].kind)
<1>8. CASE req'[a] = thrown(req[a])
  <2>1. req'[a].pc \in {"idle", "undoReview"} /\ (req'[a].pc = "undoReview" => holdsClaim(req[a]))
    BY <1>6, <1>7, <1>8
  <2>2. CASE req'[a].pc = "idle"
    <3>1. AdminInv(req[a])'
      BY <1>5, <2>2 DEF AdminInv, claims, holdsClaim, Unposted
    <3>2. PairInv(c, a)'
      BY <1>2, <1>3, <1>4, <3>1, AdminMoves DEF PairInv, CreatorInv
    <3> QED
      BY <3>2
  <2>3. CASE req'[a].pc = "undoReview"
    <3>1. holdsClaim(req[a]) /\ review \in {"approved", "withdrawn"}
      BY <2>1, <2>3 DEF PairInv, AdminInv, claims
    <3>2. ASSUME unbroken' PROVE ~out /\ ~req'[a].live
      <4>1. unbroken /\ Refused(req[a])
        BY <1>4, <1>8, <2>3, <3>2, IdleIs DEF Quiet, Faulted, QuietSteps
      <4>2. req[a].pc \in {"act", "activate", "live"}
        BY <3>1, <4>1 DEF Refused, holdsClaim, PairInv, AdminInv
      <4>3. Unposted(req[a])
        BY <3>1, <4>2 DEF Unposted, holdsClaim
      <4>4. ~out
        BY <4>1, <4>3 DEF PairInv, AdminInv
      <4>5. ~req[a].live
        BY <1>1, <4>2 DEF LiveInv, LiveOK
      <4>6. req'[a].live \in {FALSE, req[a].live}
        BY <1>1, <1>8, ThrownLive DEF LiveInv
      <4> QED
        BY <4>4, <4>5, <4>6
    <3>3. AdminInv(req[a])'
      BY <1>3, <1>4, <1>5, <2>3, <3>1, <3>2 DEF AdminInv, claims, holdsClaim
    <3> QED
      BY <1>2, <1>3, <1>4, <3>3, AdminMoves DEF PairInv, CreatorInv
  <2> QED
    BY <2>1, <2>2, <2>3
<1>9. CASE req'[a].pc \in {"idle", "read"}
  <2>1. AdminInv(req[a])'
    BY <1>5, <1>9 DEF AdminInv, claims, holdsClaim, Unposted
  <2> QED
    BY <1>2, <1>3, <1>4, <2>1, AdminMoves DEF PairInv, CreatorInv
<1>10. CASE Steps /\ req[a].pc = "read"
  <2>1. req[a].kind \in AdminKinds
    BY <1>1, <1>5, <1>10, InFlight
  <2>2. /\ review = "pending_review" /\ req'[a].pc \in {"load", "archive", "status"}
        /\ req'[a].pc = "load" \/ ~approving(req'[a])
    BY <1>10, <2>1 DEF mayDecide, afterRead, AdminKinds, approving
  <2>3. unbroken' => ~out
    BY <1>4, <2>2 DEF PairInv
  <2>4. AdminInv(req[a])'
    BY <1>3, <1>4, <1>5, <2>2, <2>3 DEF AdminInv, claims, holdsClaim
  <2> QED
    BY <1>2, <1>3, <1>4, <2>4, AdminMoves DEF PairInv, CreatorInv
<1>11. CASE Steps /\ req[a].pc # "read" /\ req'[a].pc \notin {"idle", "read"}
  <2>1. Plan(req[a].pc, req[a].kind)
    BY <1>1, InFlight
  <2>2. <<req[a].pc, req'[a].pc>> \in {<<"turn", "insert">>, <<"load", "claim">>, <<"act", "activate">>,
                                        <<"activate", "act">>, <<"start", "started">>}
    BY <1>5, <1>11, <2>1, PairKinds DEF QuietSteps, Plan, AdminKinds, CreatorKinds
  <2>3. approving(req'[a]) <=> approving(req[a])
    BY <1>11 DEF approving
  <2>4. (Unposted(req'[a]) => Unposted(req[a])) /\ (claims(req'[a]) => claims(req[a]))
    BY <2>2, <2>3 DEF Unposted, claims, holdsClaim
  <2>5. /\ AdminInv(req[a])
        /\ review = "changes_requested" => ~approving(req[a]) /\ req[a].pc = "turn"
    BY <2>2 DEF PairInv, AdminInv
  <2>6. AdminInv(req[a])'
    BY <1>3, <1>4, <1>5, <2>2, <2>3, <2>4, <2>5 DEF AdminInv, Unposted, claims, holdsClaim, approving
  <2> QED
    BY <1>2, <1>3, <1>4, <2>6, AdminMoves DEF PairInv, CreatorInv
<1>12. \/ req'[a] = thrown(req[a]) \/ Steps \/ req'[a].pc \in {"idle", "read"}
  <2>1. req'[a].pc # "draft"
    <3>1. Plan(req'[a].pc, req'[a].kind)
      BY DEF Quiet, RequestOK
    <3> QED
      BY <1>5, <3>1, PairKinds DEF Plan, AdminKinds, CreatorKinds
  <2> QED
    BY <2>1, IdleIs DEF Quiet
<1> QED
  BY <1>8, <1>9, <1>10, <1>11, <1>12

\* The steps of an approval are at their places.
LEMMA ApprovalsAt ==
    ASSUME NEW t \in Threads,
           \/ claimPendingReview(t) \/ activate(t) \/ goLive(t) \/ onApproved(t) \/ emitProposalSubmitted(t)
           \/ conversationStarted(t) \/ undoReview(t) \/ undoProcess(t)
    PROVE  req[t].pc \in {"claim", "activate", "live", "own", "announce", "started", "undoReview", "undoProcess"}
BY DEF claimPendingReview, activate, goLive, onApproved, emitProposalSubmitted, conversationStarted,
       undoReview, undoProcess, at

LEMMA CreatorWrites ==
    ASSUME TypeInv, NEW c, NEW a, Pair(c, a), PairInv(c, a), Writes(c)
    PROVE  PairInv(c, a)'
<1>1. c \in Threads /\ a \in Threads /\ a # c
  BY PairKinds DEF Pair
<1>2. Moves(c)
  BY <1>1, MovesIs
<1>3. req[c].kind \in CreatorKinds \cup {None} /\ Plan(req[c].pc, req[c].kind) /\ ~approving(req[c])
  BY <1>1, InFlight, KindsAre DEF PairInv, CreatorInv, CreatorKinds, approving
<1>4. thrown(req[c]).pc \in {"idle", "release", "undoReview"}
  BY <1>1, ThrownPC
<1>5. req[c].pc \notin {"claim", "activate", "live", "own", "announce", "started", "undoReview", "undoProcess"}
  BY <1>3, KindsAre DEF Plan, CreatorKinds
<1>6. CASE Quiet(c)
  BY <1>6, QuietCreator
\* A step that leaves the process, and the request past a revision's first calls.
<1>7. ASSUME Ends(c) \/ GoesOn(c, "check") \/ GoesOn(c, "emit"), review' = review, proc' = proc, own' = own
      PROVE  PairInv(c, a)'
  <2>1. ~Revising(req'[c])
    BY <1>4, <1>7, IdleIs DEF GoesOn, Ends, Revising
  <2>2. out' => out
    BY <1>7 DEF out, public
  <2> QED
    BY <1>2, <1>7, <2>1, <2>2, CreatorMoves
<1>8. CASE claimDraftForSubmission(c) /\ ~Quiet(c)
  BY <1>1, <1>7, <1>8, ClaimDraftIs
<1>9. CASE releaseDraft(c) \/ reopenForRevision(c)
  <2>1. Ends(c) /\ review' = review /\ proc' = proc /\ own' = own
    BY <1>1, <1>9, ReleaseIs, ReopenIs
  <2> QED
    BY <1>7, <2>1
<1>10. CASE insertTurn(c)
  BY <1>1, <1>3, <1>7, <1>10, InsertIs
<1>11. CASE emitReviewEvent(c)
  BY <1>1, <1>3, <1>7, <1>11, EmitIs
<1>12. CASE archiveProcessRow(c)
  <2>1. /\ GoesOn(c, "status") /\ req[c].pc = "archive" /\ proc \in Procs
        /\ proc' = [proc EXCEPT !.status = "archived", !.version = @ + 1]
        /\ review' = review /\ own' = own
    BY <1>1, <1>12, ArchiveIs
  <2>2. req[c].kind \in {"decline", "withdraw"}
    BY <1>3, <2>1 DEF Plan
  <2>3. ~Revising(req'[c])
    BY <1>4, <2>1, <2>2 DEF GoesOn, Revising
  <2>4. proc'.status = "archived"
    BY <2>1, StatusWritten DEF ProcStatuses
  <2>5. out' => out
    BY <2>1, <2>4 DEF out, public
  <2> QED
    BY <1>2, <2>1, <2>3, <2>5, CreatorMoves
<1>13. CASE updateProcessColumns(c)
  <2>1. /\ GoesOn(c, "snapshot") /\ req[c].pc = "columns" /\ proc \in Procs
        /\ proc' = [proc EXCEPT !.version = @ + 1, !.text = @ + 1,
                                !.begun = @ /\ req[c].kind # "resubmit"]
        /\ review' = review /\ own' = own
    BY <1>1, <1>13, ColumnsAre
  <2>2. Revising(req[c])
    BY <1>3, <2>1 DEF Plan, Revising
  <2>3. proc'.status = proc.status /\ proc # None
    BY <2>1, TextWritten, NoneIsNothing
  <2>4. out' => out
    BY <2>1, <2>3 DEF out, public
  <2> QED
    BY <1>2, <2>1, <2>2, <2>4, CreatorMoves DEF PairInv, CreatorInv
<1>14. CASE updateReview(c)
  <2>1. /\ GoesOn(c, "turn") /\ req[c].pc = "status" /\ review' = decided(req[c].kind)
        /\ proc' = proc /\ own' = own
    BY <1>1, <1>14, UpdateReviewIs
  <2>2. req[c].kind \in {"withdraw", "revise", "resubmit"}
    BY <1>3, <2>1, KindsAre DEF Plan, CreatorKinds
  <2>3. review' = IF req[c].kind = "withdraw" THEN "withdrawn" ELSE "pending_review"
    BY <2>1, <2>2 DEF decided
  <2>4. ~Revising(req'[c])
    BY <1>4, <2>1 DEF GoesOn, Revising
  <2>5. req[c].kind # "withdraw" => review = "changes_requested"
    BY <2>1, <2>2 DEF PairInv, CreatorInv, Revising
  <2>6. req'[a] = req[a] /\ (unbroken' => unbroken) /\ (out' <=> out) /\ (own' <=> own)
    BY <1>1, <1>2, <2>1 DEF Moves, Acts, out, public
  <2>7. CreatorInv(req[c])'
    BY <1>1, <1>2, <2>4, MovesKind DEF CreatorInv, Revising
  <2>8. claims(req[a]) => review' = "withdrawn"
    BY <2>2, <2>3, <2>5 DEF PairInv, AdminInv
  <2>9. AdminInv(req[a])'
    <3>1. review' # "changes_requested"
      BY <2>3
    <3>2. (claims(req[a]) <=> claims(req[a])') /\ (Unposted(req[a]) <=> Unposted(req[a])')
      BY <2>6 DEF claims, holdsClaim, approving, Unposted
    <3> QED
      BY <2>6, <2>8, <3>1, <3>2 DEF PairInv, AdminInv
  <2>10. unbroken' => (out' => review' \in {"approved", "withdrawn"})
    BY <2>3, <2>5, <2>6 DEF PairInv
  <2> QED
    BY <2>7, <2>9, <2>10 DEF PairInv
<1>15. CASE submit_for_review(c) /\ ~Quiet(c)
  <2>1. /\ Acts(c) /\ req[c].pc = "submit" /\ review = None
        /\ req'[c] = submitAsCreator \/ req'[c] = thrown(req[c])
        /\ review' = "pending_review" /\ proc' = submitted /\ own' = own
    BY <1>1, <1>15, SubmitIs
  <2>2. ~Revising(req'[c])
    BY <1>4, <2>1, PairKinds, IdleIs DEF Revising
  <2>3. req'[a] = req[a] /\ (unbroken' => unbroken)
    BY <1>1, <2>1 DEF Acts
  <2>4. req[a].kind = None /\ req[a].pc = "idle"
    <3>1. RequestOK(req[a]) /\ req[a].kind \in AdminKinds \cup {None}
      BY <1>1, InFlight DEF PairInv, AdminInv
    <3> QED
      BY <2>1, <3>1, NoneIsNothing DEF RequestOK, AdminKinds
  <2>5. CreatorInv(req[c])'
    BY <1>1, <1>2, <2>2, MovesKind DEF CreatorInv, Revising
  <2>6. AdminInv(req[a])'
    BY <2>3, <2>4 DEF AdminInv, claims, holdsClaim, Unposted
  <2>7. proc'.status = "pending_review"
    BY <2>1 DEF submitted
  <2>8. unbroken => ~own
    BY <2>1, NoneIsNothing DEF PairInv, out, ReviewStatuses
  <2>9. unbroken' => ~out'
    BY <2>1, <2>3, <2>7, <2>8 DEF out, public
  <2> QED
    BY <2>5, <2>6, <2>9 DEF PairInv
<1> QED
  BY <1>1, <1>5, <1>6, <1>8, <1>9, <1>10, <1>11, <1>12, <1>13, <1>14, <1>15, ApprovalsAt DEF Writes

\* So are those of a submission and of a revision.
LEMMA SubmissionsAt ==
    ASSUME NEW t \in Threads,
           \/ claimDraftForSubmission(t) \/ submit_for_review(t) \/ releaseDraft(t) \/ reopenForRevision(t)
           \/ updateProcessColumns(t)
    PROVE  req[t].pc \in {"claimDraft", "submit", "release", "reopen", "columns"}
BY DEF claimDraftForSubmission, submit_for_review, releaseDraft, reopenForRevision, updateProcessColumns, at

LEMMA AdminWrites ==
    ASSUME TypeInv, LiveInv, VersionInv, NEW c, NEW a, Pair(c, a), PairInv(c, a), Writes(a)
    PROVE  PairInv(c, a)'
<1>1. c \in Threads /\ a \in Threads /\ a # c
  BY PairKinds DEF Pair
<1>2. Moves(a) /\ (unbroken' => unbroken)
  BY <1>1, MovesIs DEF Moves, Acts
<1>3. /\ req[a].kind \in AdminKinds \cup {None} /\ req'[a].kind \in AdminKinds \cup {None}
      /\ Plan(req[a].pc, req[a].kind)
  BY <1>1, <1>2, MovesKind, InFlight DEF PairInv, AdminInv
<1>4. req[a].pc \notin {"claimDraft", "submit", "release", "reopen", "columns"}
  BY <1>3, PairKinds DEF Plan, AdminKinds, CreatorKinds
<1>5. CASE Quiet(a)
  BY <1>5, QuietAdmin
\* What an error makes of the request.
<1>6. ASSUME req'[a] = thrown(req[a]), Faulted
      PROVE  /\ ~unbroken' /\ req'[a].pc \in {"idle", "undoReview"}
             /\ req'[a].pc = "undoReview" => holdsClaim(req[a])
  <2>1. thrown(req[a]).pc \in {"idle", "release", "undoReview"}
        /\ (thrown(req[a]).pc = "undoReview" => holdsClaim(req[a]))
    BY <1>1, ThrownPC
  <2>2. RequestOK(thrown(req[a]))
    BY <1>1, InFlight, ThrownIs
  <2>3. thrown(req[a]).pc # "release"
    BY <1>3, <1>6, <2>2, PairKinds DEF RequestOK, Plan, AdminKinds, CreatorKinds
  <2> QED
    BY <1>6, <2>1, <2>3 DEF Faulted
\* A step that leaves the review as it is.
<1>7. ASSUME review' = review, AdminInv(req[a])', unbroken' => (out' => review \in {"approved", "withdrawn"})
      PROVE  PairInv(c, a)'
  BY <1>2, <1>7, AdminMoves DEF PairInv, CreatorInv
<1>8. ASSUME Ends(a) PROVE req'[a].pc \in {"idle", "undoReview"} /\ (req'[a].pc = "undoReview" => ~unbroken' /\ holdsClaim(req[a]))
  BY <1>6, <1>8, IdleIs DEF Ends, Lost
<1>9. ASSUME NEW pc, GoesOn(a, pc)
      PROVE  \/ req'[a].pc = pc /\ req'[a].kind = req[a].kind
             \/ req'[a].pc \in {"idle", "undoReview"} /\ (req'[a].pc = "undoReview" => ~unbroken' /\ holdsClaim(req[a]))
  BY <1>6, <1>9, IdleIs DEF GoesOn, Lost
\* A request that ends, or is about to give its claim back.
<1>10. ASSUME req'[a].pc \in {"idle", "undoReview"}, req'[a].pc = "undoReview" => ~unbroken' /\ claims(req[a]),
              review' = review \/ review' \in {"approved", "withdrawn"}
       PROVE  AdminInv(req[a])'
  BY <1>3, <1>10 DEF PairInv, AdminInv, claims, holdsClaim, Unposted
<1>11. CASE archiveProcessRow(a)
  <2>1. /\ GoesOn(a, "status") /\ req[a].pc = "archive" /\ proc \in Procs
        /\ proc' = [proc EXCEPT !.status = "archived", !.version = @ + 1]
        /\ review' = review /\ own' = own
    BY <1>1, <1>11, ArchiveIs
  <2>2. ~holdsClaim(req[a]) /\ Unposted(req[a]) /\ ~approving(req[a])
    BY <1>3, <2>1 DEF Plan, holdsClaim, Unposted, approving
  <2>3. proc'.status = "archived"
    BY <2>1, StatusWritten DEF ProcStatuses
  <2>4. unbroken' => ~out'
    BY <1>2, <2>1, <2>2, <2>3 DEF out, public, PairInv, AdminInv
  <2>5. review # "changes_requested"
    BY <2>1 DEF PairInv, AdminInv
  <2>6. AdminInv(req[a])'
    <3>1. CASE req'[a].pc = "status"
      BY <1>3, <2>1, <2>4, <2>5, <3>1 DEF AdminInv, claims, holdsClaim
    <3>2. CASE req'[a].pc = "idle"
      BY <1>3, <3>2 DEF AdminInv, claims, holdsClaim, Unposted
    <3> QED
      BY <1>9, <2>1, <2>2, <3>1, <3>2
  <2> QED
    BY <1>7, <2>1, <2>4, <2>6
<1>12. CASE updateReview(a)
  <2>1. /\ GoesOn(a, "turn") /\ req[a].pc = "status" /\ review' = decided(req[a].kind)
        /\ proc' = proc /\ own' = own
    BY <1>1, <1>12, UpdateReviewIs
  <2>2. req[a].kind \in {"decline", "request_changes"} /\ ~approving(req[a])
    BY <1>3, <2>1, KindsAre DEF Plan, AdminKinds, approving
  <2>3. ~holdsClaim(req[a]) /\ Unposted(req[a])
    BY <2>1, <2>2 DEF holdsClaim, Unposted
  <2>4. unbroken' => ~out'
    BY <1>2, <2>1, <2>3 DEF out, public, PairInv, AdminInv
  <2>5. review # "changes_requested"
    BY <2>1 DEF PairInv, AdminInv
  <2>6. ~Revising(req[c])
    BY <2>5 DEF PairInv, CreatorInv
  <2>7. AdminInv(req[a])'
    <3>1. CASE req'[a].pc = "turn" /\ req'[a].kind = req[a].kind
      BY <1>3, <2>2, <3>1 DEF AdminInv, claims, holdsClaim, Unposted, approving
    <3>2. CASE req'[a].pc = "idle"
      BY <1>3, <3>2 DEF AdminInv, claims, holdsClaim, Unposted
    <3> QED
      BY <1>9, <2>1, <2>3, <3>1, <3>2
  <2> QED
    BY <1>2, <2>4, <2>6, <2>7, AdminMoves
<1>13. CASE insertTurn(a)
  <2> DEFINE pc == IF ~approving(req[a]) THEN "emit" ELSE IF type = "vote" THEN "act" ELSE "live"
  <2>1. /\ GoesOn(a, pc) /\ req[a].pc = "insert"
        /\ review' = review /\ proc' = proc /\ own' = own
    BY <1>1, <1>13, InsertIs
  <2>2. pc \in {"emit", "act", "live"} /\ (pc = "emit" <=> ~approving(req[a]))
    OBVIOUS
  <2> HIDE DEF pc
  <2>3. (out' <=> out) /\ AdminInv(req[a])
    BY <2>1 DEF out, public, PairInv
  <2>4. AdminInv(req[a])'
    <3>1. CASE req'[a].pc = pc /\ req'[a].kind = req[a].kind
      <4>1. approving(req'[a]) <=> approving(req[a])
        BY <3>1 DEF approving
      <4>2. (Unposted(req'[a]) => Unposted(req[a])) /\ (claims(req'[a]) => claims(req[a]))
        BY <2>1, <2>2, <3>1, <4>1 DEF Unposted, claims, holdsClaim
      <4>3. review = "changes_requested" => pc = "emit" /\ ~approving(req'[a])
        BY <2>1, <2>2, <2>3, <4>1 DEF AdminInv
      <4> QED
        BY <1>2, <1>3, <2>1, <2>2, <2>3, <3>1, <4>2, <4>3 DEF AdminInv, Unposted, claims, holdsClaim, approving
    <3>2. CASE req'[a].pc \in {"idle", "undoReview"} /\ (req'[a].pc = "undoReview" => ~unbroken' /\ holdsClaim(req[a]))
      BY <1>10, <2>1, <3>2 DEF claims
    <3> QED
      BY <1>9, <2>1, <3>1, <3>2
  <2> QED
    BY <1>2, <1>7, <2>1, <2>3, <2>4 DEF PairInv
<1>14. CASE emitReviewEvent(a)
  <2>1. /\ IF approving(req[a]) /\ type = "conversation" THEN GoesOn(a, "start") ELSE Ends(a)
        /\ req[a].pc = "emit" /\ review' = review /\ proc' = proc /\ own' = own
    BY <1>1, <1>14, EmitIs
  <2>2. (out' <=> out) /\ AdminInv(req[a])
    BY <2>1 DEF out, public, PairInv
  <2>3. CASE req'[a].pc = "start" /\ approving(req[a])
    <3>1. review # "changes_requested"
      BY <2>1, <2>2, <2>3 DEF AdminInv
    <3>2. AdminInv(req[a])'
      BY <1>3, <2>1, <2>3, <3>1 DEF AdminInv, Unposted, claims, holdsClaim
    <3> QED
      BY <1>2, <1>7, <2>1, <2>2, <3>2 DEF PairInv
  <2>4. CASE req'[a].pc \in {"idle", "undoReview"} /\ (req'[a].pc = "undoReview" => ~unbroken' /\ holdsClaim(req[a]))
    <3>1. AdminInv(req[a])'
      BY <1>10, <2>1, <2>4 DEF claims
    <3> QED
      BY <1>2, <1>7, <2>1, <2>2, <3>1 DEF PairInv
  <2> QED
    BY <1>8, <1>9, <2>1, <2>3, <2>4
<1>15. CASE claimPendingReview(a) /\ ~Quiet(a)
  <2>1. /\ GoesOn(a, "turn") /\ req[a].pc = "claim" /\ review = "pending_review" /\ review' = "approved"
        /\ proc' = proc /\ own' = own
    BY <1>1, <1>15, ClaimIs
  <2>2. Unposted(req[a]) /\ approving(req[a]) /\ ~holdsClaim(req[a])
    BY <1>3, <2>1 DEF Plan, Unposted, approving, holdsClaim
  <2>3. ~Revising(req[c])
    BY <2>1 DEF PairInv, CreatorInv
  <2>4. unbroken' => ~out'
    BY <1>2, <2>1, <2>2 DEF out, public, PairInv, AdminInv
  <2>5. AdminInv(req[a])'
    <3>1. CASE req'[a].pc = "turn" /\ req'[a].kind = req[a].kind
      BY <1>3, <2>1, <2>4, <3>1 DEF AdminInv, claims, holdsClaim
    <3>2. CASE req'[a].pc = "idle"
      BY <1>3, <3>2 DEF AdminInv, claims, holdsClaim, Unposted
    <3> QED
      BY <1>9, <2>1, <2>2, <3>1, <3>2
  <2> QED
    BY <1>2, <2>3, <2>4, <2>5, AdminMoves
\* What an approval that holds its claim makes public is approved, or withdrawn meanwhile.
<1>16. ASSUME NEW pc \in {"own", "announce", "emit"}, GoesOn(a, pc), holdsClaim(req[a]), review' = review,
              unbroken' => (pc = "own" => ~own')
       PROVE  PairInv(c, a)'
  <2>1. review \in {"approved", "withdrawn"}
    BY <1>16 DEF PairInv, AdminInv, claims
  <2>2. CASE req'[a].pc = pc /\ req'[a].kind = req[a].kind
    <3>1. AdminInv(req[a])'
      BY <1>3, <1>16, <2>1, <2>2 DEF AdminInv, Unposted
    <3> QED
      BY <1>7, <1>16, <2>1, <3>1
  <2>3. CASE req'[a].pc \in {"idle", "undoReview"} /\ (req'[a].pc = "undoReview" => ~unbroken' /\ holdsClaim(req[a]))
    <3>1. AdminInv(req[a])'
      BY <1>10, <1>16, <2>3 DEF claims
    <3> QED
      BY <1>7, <1>16, <2>1, <3>1
  <2> QED
    BY <1>9, <1>16, <2>2, <2>3
<1>17. CASE activate(a) /\ ~Quiet(a)
  <2>1. GoesOn(a, "emit") /\ req[a].pc = "activate" /\ approving(req[a]) /\ review' = review
    BY <1>1, <1>17, ActivateIs
  <2> QED
    BY <1>16, <2>1 DEF holdsClaim
<1>18. CASE goLive(a) /\ ~Quiet(a)
  <2>1. /\ GoesOn(a, "own") \/ GoesOn(a, "emit")
        /\ req[a].pc = "live" /\ approving(req[a]) /\ review' = review /\ own' = own
    BY <1>1, <1>18, GoLiveIs
  <2>2. unbroken' => ~own'
    BY <1>2, <2>1 DEF PairInv, AdminInv, Unposted, out
  <2> QED
    BY <1>16, <2>1, <2>2 DEF holdsClaim
<1>19. CASE onApproved(a) /\ ~Quiet(a)
  <2>1. GoesOn(a, "announce") /\ req[a].pc = "own" /\ approving(req[a]) /\ review' = review
    BY <1>1, <1>19, OnApprovedIs
  <2> QED
    BY <1>16, <2>1 DEF holdsClaim
<1>20. CASE emitProposalSubmitted(a)
  <2>1. GoesOn(a, "emit") /\ req[a].pc = "announce" /\ approving(req[a]) /\ review' = review
    BY <1>1, <1>20, AnnounceIs
  <2> QED
    BY <1>16, <2>1 DEF holdsClaim
<1>21. CASE conversationStarted(a)
  <2>1. /\ Ends(a) /\ req[a].pc = "started" /\ proc \in Procs /\ review' = review /\ own' = own
        /\ \/ proc' = [proc EXCEPT !.status = "active", !.version = @ + 1] /\ proc.version = req[a].loaded
           \/ proc' = proc
    BY <1>1, <1>21, StartedIs
  <2>2. out' => out
    <3>1. CASE proc.version = req[a].loaded
      <4>1. proc.status = "draft" /\ proc # None
        BY <1>1, <2>1, <3>1, NoneIsNothing DEF VersionInv
      <4> QED
        BY <4>1 DEF out, public
    <3> QED
      BY <2>1, <3>1 DEF out, public
  <2>3. AdminInv(req[a])'
    BY <1>8, <1>10, <2>1 DEF claims
  <2> QED
    BY <1>2, <1>7, <2>1, <2>2, <2>3 DEF PairInv
<1>22. CASE undoReview(a)
  <2>1. /\ IF req[a].live THEN GoesOn(a, "undoProcess") ELSE Ends(a)
        /\ req[a].pc = "undoReview" /\ review' = "pending_review" /\ proc' = proc /\ own' = own
    BY <1>1, <1>22, UndoReviewIs
  <2>2. AdminInv(req[a]) /\ Unposted(req[a]) /\ claims(req[a]) /\ ~holdsClaim(req[a])
    BY <2>1 DEF PairInv, Unposted, claims, holdsClaim
  <2>3. ~Revising(req[c])
    BY <2>2 DEF PairInv, CreatorInv, AdminInv
  <2>4. unbroken' => ~out' /\ ~req[a].live
    BY <1>2, <2>1, <2>2 DEF AdminInv, out, public
  <2>5. req'[a].pc = "idle" \/ (req'[a].pc = "undoProcess" /\ req[a].live)
    BY <1>8, <1>9, <2>1, <2>2
  <2>6. AdminInv(req[a])'
    BY <1>3, <2>1, <2>4, <2>5 DEF AdminInv, claims, holdsClaim, Unposted
  <2> QED
    BY <1>2, <2>3, <2>4, <2>6, AdminMoves
<1>23. CASE undoProcess(a)
  <2>1. Ends(a) /\ req[a].pc = "undoProcess" /\ review' = review
    BY <1>1, <1>23, UndoProcessIs
  <2>2. ~unbroken
    BY <2>1 DEF PairInv, AdminInv
  <2>3. AdminInv(req[a])'
    BY <1>8, <1>10, <2>1 DEF claims
  <2> QED
    BY <1>2, <1>7, <2>1, <2>2, <2>3
<1> QED
  BY <1>1, <1>4, <1>5, <1>11, <1>12, <1>13, <1>14, <1>15, <1>17, <1>18, <1>19, <1>20, <1>21, <1>22, <1>23,
     SubmissionsAt DEF Writes

LEMMA InitPair ==
    ASSUME Init, NEW c, NEW a, Pair(c, a)
    PROVE  PairInv(c, a)
<1>1. req[c] = Idle /\ req[a] = Idle
  BY PairKinds DEF Init
<1>2. review = None /\ proc = None /\ own = FALSE
  BY DEF Init
<1>3. review # "changes_requested" /\ ~out
  BY <1>2, NoneIsNothing DEF out, public, ReviewStatuses
<1>4. CreatorInv(req[c])
  BY <1>1, IdleIs DEF CreatorInv, Revising
<1>5. AdminInv(req[a])
  BY <1>1, <1>3, IdleIs DEF AdminInv, claims, holdsClaim, Unposted
<1> QED
  BY <1>3, <1>4, <1>5 DEF PairInv

LEMMA NextPair ==
    ASSUME TypeInv, LiveInv, VersionInv, NEW c, NEW a, Pair(c, a), PairInv(c, a), [Next]_vars
    PROVE  PairInv(c, a)'
<1>1. CASE UNCHANGED vars
  BY <1>1 DEF vars, faults, PairInv, CreatorInv, AdminInv, Revising, Unposted, approving, claims, holdsClaim,
              out, public, unbroken
<1>2. CASE Next
  <2>1. PICK t \in Threads : Quiet(t) \/ Writes(t)
    BY <1>2, NextIs
  <2>2. t = c \/ t = a
    BY PairKinds
  <2> QED
    BY <2>1, <2>2, QuietCreator, CreatorWrites, QuietAdmin, AdminWrites
<1> QED
  BY <1>1, <1>2

\* What the steps that write a status make of the text.
LEMMA StatusesKeepText ==
    ASSUME TypeInv, NEW t \in Threads,
           archiveProcessRow(t) \/ (goLive(t) /\ ~Quiet(t)) \/ conversationStarted(t) \/ undoProcess(t)
    PROVE  proc'.text = proc.text /\ proc'.begun = proc.begun
<1>1. activationOnApproval \in ProcStatuses
  <2>1. type \in {"vote", "conversation", "proposal"}
    BY ReviewAssumption DEF TypeInv, TypeOK
  <2> QED
    BY <2>1 DEF activationOnApproval, ProcStatuses
<1>2. "archived" \in ProcStatuses /\ "active" \in ProcStatuses /\ "pending_review" \in ProcStatuses
  BY DEF ProcStatuses
<1>3. proc \in Procs /\ (proc' = proc \/ \E st \in ProcStatuses : proc' = [proc EXCEPT !.status = st, !.version = @ + 1])
  BY <1>1, <1>2, ArchiveIs, GoLiveIs, StartedIs, UndoProcessIs
<1> QED
  BY <1>3, StatusWritten

\* While no call fails and no invocation dies, and the creator and an admin have each one
\* request under way at most, no step changes the text or the state of what the public
\* sees: a revision finds the review closed to it, an approval begins what was not out.
THEOREM PublicTextStays ==
    ASSUME NEW c, NEW a, CreatorRequests = {c}, AdminRequests = {a}, c # a, ~AutoApprove
    PROVE  Spec => PublicTextKept
<1>1. Pair(c, a)
  BY DEF Pair
<1>2. Init => PairInv(c, a)
  BY <1>1, InitPair
<1>3. TypeInv /\ LiveInv /\ VersionInv /\ PairInv(c, a) /\ [Next]_vars => PairInv(c, a)'
  BY <1>1, NextPair
<1>4. ASSUME TypeInv, PairInv(c, a), Next, public, unbroken
      PROVE  proc'.text = proc.text /\ proc'.begun = proc.begun
  <2>1. PICK t \in Threads : Quiet(t) \/ Writes(t)
    BY <1>4, NextIs
  <2>2. t = c \/ t = a
    BY <1>1, PairKinds
  <2>3. out /\ review \in {"approved", "withdrawn"} /\ review # None
    BY <1>4, NoneIsNothing DEF out, PairInv, ReviewStatuses
  <2>4. ASSUME updateProcessColumns(t) PROVE FALSE
    <3>1. req[t].pc = "columns"
      BY <2>4 DEF updateProcessColumns, at
    <3>2. req[t].kind \in {"revise", "resubmit"}
      BY <1>4, <3>1, InFlight DEF Plan
    <3>3. CASE t = c
      BY <1>4, <2>3, <3>1, <3>2, <3>3 DEF PairInv, CreatorInv, Revising
    <3>4. CASE t = a
      BY <1>1, <1>4, <3>2, <3>4, PairKinds DEF PairInv, AdminInv, AdminKinds, CreatorKinds
    <3> QED
      BY <2>2, <3>3, <3>4
  <2>5. ASSUME activate(t) PROVE FALSE
    <3>1. req[t].pc = "activate"
      BY <2>5 DEF activate, at
    <3>2. req[t].kind \in {"approve", "auto"}
      BY <1>4, <3>1, InFlight DEF Plan
    <3>3. CASE t = c
      BY <1>4, <3>2, <3>3, KindsAre DEF PairInv, CreatorInv, CreatorKinds
    <3>4. CASE t = a
      BY <1>4, <2>3, <3>1, <3>2, <3>4 DEF PairInv, AdminInv, Unposted, approving
    <3> QED
      BY <2>2, <3>3, <3>4
  <2>6. CASE Quiet(t)
    BY <2>6 DEF Quiet
  <2>7. CASE archiveProcessRow(t) \/ (goLive(t) /\ ~Quiet(t)) \/ conversationStarted(t) \/ undoProcess(t)
    BY <1>4, <2>7, StatusesKeepText
  <2>8. CASE submit_for_review(t) /\ ~Quiet(t)
    BY <1>4, <2>3, <2>8, SubmitIs
  <2>9. CASE /\ \/ claimDraftForSubmission(t) \/ releaseDraft(t) \/ reopenForRevision(t) \/ updateReview(t)
                \/ insertTurn(t) \/ emitReviewEvent(t) \/ claimPendingReview(t) \/ onApproved(t)
                \/ emitProposalSubmitted(t) \/ undoReview(t)
             /\ ~Quiet(t)
    <3>1. proc' = proc
      BY <1>4, <2>9, ClaimDraftIs, ReleaseIs, ReopenIs, UpdateReviewIs, InsertIs, EmitIs, ClaimIs,
         OnApprovedIs, AnnounceIs, UndoReviewIs
    <3> QED
      BY <3>1
  <2> QED
    BY <2>1, <2>4, <2>5, <2>6, <2>7, <2>8, <2>9 DEF Writes
<1>5. TypeInv /\ PairInv(c, a) /\ [Next]_vars =>
        [public /\ unbroken => proc'.text = proc.text /\ proc'.begun = proc.begun]_vars
  BY <1>4
<1> QED
  BY <1>2, <1>3, <1>5, TypeAlways, LiveAlways, VersionAlways, PTL DEF Spec, PublicTextKept

-----------------------------------------------------------------------------
(***************************************************************************)
(* One request after another: the process, the review, the turns and the   *)
(* log agree.                                                              *)
(***************************************************************************)
\* The process still waits for its approval.
Fresh == proc # None /\ proc.status = "pending_review" /\ ~proc.begun /\ ~own

\* An approval between its claim and the step that publishes.
Before(q) == approving(q) /\ q.pc \in {"turn", "insert", "act", "activate", "live"}

\* A decision that has archived the process, and has yet to write the review.
Closing(q) == q.pc = "status" /\ q.kind \in {"decline", "withdraw"}

Agreed ==
    /\ review = None => ~own /\ turns = <<>>
    /\ review \in {"pending_review", "changes_requested"} => Fresh
    /\ review = "approved" => public
    /\ review \in {"declined", "withdrawn"} => proc.status = "archived"

\* What holds at each place of the one request there is.
Place(q) ==
    /\ q.pc \notin {"undoReview", "undoProcess"}
    /\ q.pc \in {"load", "claim"} \/ (q.pc = "status" /\ q.kind = "request_changes") => review = "pending_review"
    /\ q.pc = "claim" => q.loaded = proc.version
    /\ Revising(q) => review = "changes_requested"
    /\ Before(q) => review = "approved" /\ Fresh /\ (q.pc # "act" => q.loaded = proc.version)
    /\ q.pc = "activate" => q.from = "pending_review"
    /\ approving(q) /\ q.pc \in {"own", "announce", "emit"} => review = "approved" /\ public
    /\ q.pc = "own" => ~own
    /\ IF Closing(q) THEN proc.status = "archived" ELSE Before(q) \/ Agreed

\* The turns are numbered one by one, and each has its event but the one about to get it.
Written(a) == {i \in DOMAIN turns : turns[i].action = a}

Past(q) == q.pc \in {"act", "activate", "live", "own", "announce", "emit"}

Numbered(q) ==
    /\ \A i \in DOMAIN turns : turns[i].number = i
    /\ q.pc = "insert" => q.turn = Len(turns) + 1

Counted(q) ==
    \A a \in Actions : Cardinality(Written(a)) = log[a] + IF Past(q) /\ actionOf(q.kind) = a THEN 1 ELSE 0

InOrder(q) == Place(q) /\ Numbered(q) /\ Counted(q)

Alone(t) == \A s \in Threads \ {t} : req[s].pc = "idle"

SeqInv ==
    unbroken /\ ~overlapped =>
        /\ quiet => InOrder(Idle)
        /\ \A t \in Threads : req[t].pc # "idle" => Alone(t) /\ InOrder(req[t])

\* Between two requests it does not matter whose the last was.
LEMMA IdleInOrder ==
    ASSUME NEW q, q.pc = "idle"
    PROVE  InOrder(q) <=> InOrder(Idle)
<1>1. Idle.pc = "idle"
  BY IdleIs
<1>2. Place(q) <=> Place(Idle)
  BY <1>1 DEF Place, Closing, Before, Revising
<1>3. ~Past(q) /\ ~Past(Idle)
  BY <1>1 DEF Past
<1>4. (Numbered(q) <=> Numbered(Idle)) /\ (Counted(q) <=> Counted(Idle))
  BY <1>1, <1>3 DEF Numbered, Counted
<1> QED
  BY <1>2, <1>4 DEF InOrder

\* The step of the one request there is, that starts or goes on.
LEMMA SoleStep ==
    ASSUME TypeInv, SeqInv, NEW t \in Threads, Quiet(t) \/ Writes(t), unbroken', ~overlapped'
    PROVE  Alone(t) /\ InOrder(req[t]) /\ Acts(t) /\ ~Faulted
<1>1. Acts(t) /\ unbroken /\ ~overlapped /\ ~Faulted
  BY MovesIs DEF Moves, Acts, Faulted
<1>2. CASE req[t].pc # "idle"
  BY <1>1, <1>2 DEF SeqInv
<1>3. CASE req[t].pc = "idle"
  <2>1. ~Writes(t)
    BY <1>3 DEF Writes, claimDraftForSubmission, submit_for_review, releaseDraft, reopenForRevision,
       archiveProcessRow, updateProcessColumns, updateReview, insertTurn, emitReviewEvent, claimPendingReview,
       activate, goLive, onApproved, emitProposalSubmitted, conversationStarted, undoReview, undoProcess, at
  <2>2. ~Refused(req[t])
    BY <1>3 DEF Refused
  <2>3. Begins(t)
    BY <1>1, <1>3, <2>1, <2>2 DEF Quiet, QuietSteps, Lost
  <2>4. Alone(t)
    BY <1>1, <2>3 DEF Begins, Alone
  <2>5. quiet
    BY <1>3, <2>4 DEF Alone, quiet, at
  <2>6. InOrder(Idle)
    BY <1>1, <2>5 DEF SeqInv
  <2> QED
    BY <1>1, <1>3, <2>4, <2>6, IdleInOrder
<1> QED
  BY <1>2, <1>3

LEMMA SoleRemains ==
    ASSUME TypeInv, NEW t \in Threads, Acts(t), Alone(t), InOrder(req[t])'
    PROVE  SeqInv'
<1>1. Alone(t)'
  BY DEF Alone, Acts
<1>2. ASSUME quiet' PROVE InOrder(Idle)'
  <2>1. req'[t].pc = "idle" /\ Idle.pc = "idle"
    BY <1>2, IdleIs DEF quiet, at
  <2>2. Place(req[t])' /\ Numbered(req[t])' /\ Counted(req[t])'
    BY DEF InOrder
  <2>3. Place(Idle)'
    BY <2>1, <2>2 DEF Place, Closing, Before, Revising, Idle, newRequest
  <2>4. Numbered(Idle)' /\ Counted(Idle)'
    BY <2>1, <2>2 DEF Numbered, Counted, Past, Idle, newRequest
  <2> QED
    BY <2>3, <2>4 DEF InOrder
<1>3. ASSUME NEW s \in Threads, req'[s].pc # "idle" PROVE Alone(s)' /\ InOrder(req[s])'
  <2>1. s = t
    BY <1>1, <1>3 DEF Alone
  <2> QED
    BY <1>1, <2>1
<1> QED
  BY <1>2, <1>3 DEF SeqInv

\* Where the request is when it neither waits to publish nor closes.
LEMMA PlaceAgreed ==
    ASSUME NEW q, Place(q), q.pc \notin {"turn", "insert", "act", "activate", "live", "status"}
    PROVE  Agreed
BY DEF Place, Closing, Before

\* What refuses the one request there is.
LEMMA RefusedAt ==
    ASSUME TypeInv, NEW t \in Threads, Place(req[t]), Refused(req[t])
    PROVE  /\ req[t].pc \in {"draft", "claimDraft", "check", "read", "start"}
           /\ thrown(req[t]).pc \in {"idle", "release"}
<1> DEFINE q == req[t]
<1>1. Plan(q.pc, q.kind) /\ (q.pc # "idle" => q.kind # None)
  BY InFlight
<1>2. q.pc \notin {"claim", "act", "activate", "live", "own"}
  BY <1>1 DEF Refused, Place, Before, Fresh, Plan, approving, descriptorRefuses
<1>3. q.pc \in {"draft", "claimDraft", "check", "read", "start"}
  BY <1>2 DEF Refused
<1> QED
  BY <1>3, ThrownPC DEF holdsClaim

LEMMA PlaceQuiet ==
    ASSUME TypeInv, NEW t \in Threads, Quiet(t), Place(req[t]), ~Faulted
    PROVE  Place(req[t])'
<1> DEFINE q == req[t]
           p == req'[t]
<1>1. UNCHANGED <<draft, review, turns, proc, own, log>>
  BY DEF Quiet
<1>2. (Agreed' <=> Agreed) /\ (Fresh' <=> Fresh) /\ (public' <=> public)
  BY <1>1 DEF Agreed, Fresh, public
\* At these places it is enough that the tables agree.
<1>3. ASSUME Agreed, p.pc \in {"idle", "draft", "claimDraft", "check", "submit", "release", "read",
                               "archive", "reopen", "start", "started"}
      PROVE  Place(req[t])'
  BY <1>2, <1>3 DEF Place, Closing, Before, Revising
<1>4. Plan(q.pc, q.kind) /\ (q.pc # "idle" => q.kind # None) /\ q.kind \in Kinds \cup {"auto", None}
  BY InFlight
<1>5. CASE p = thrown(q) /\ Refused(q)
  BY <1>3, <1>5, RefusedAt, PlaceAgreed
<1>6. CASE p = Idle /\ q.pc = "submit"
  BY <1>3, <1>6, IdleIs, PlaceAgreed
<1>7. CASE q.pc = "idle" /\ p.pc \in {"draft", "read"}
  BY <1>3, <1>7, PlaceAgreed
<1>8. CASE /\ <<q.pc, p.pc>> \in QuietSteps /\ p.kind = q.kind /\ Keeps(t)
           /\ q.pc = "read" => mayDecide(q.kind) /\ p.pc = afterRead(q.kind)
           /\ q.pc = "activate" => descriptorRefuses(q) \/ proc.version # q.loaded
  <2>1. CASE q.pc \in {"draft", "check", "start"}
    BY <1>3, <1>8, <2>1, PlaceAgreed DEF QuietSteps
  <2>2. CASE q.pc = "read"
    <3>1. Agreed /\ mayDecide(q.kind) /\ p.pc = afterRead(q.kind)
      BY <1>8, <2>2, PlaceAgreed
    <3>2. q.kind \in {"approve", "auto", "request_changes", "decline", "withdraw", "revise", "resubmit", "reopen"}
      BY <1>4, <2>2, KindsAre DEF Plan
    <3>3. CASE q.kind \in {"approve", "auto"}
      BY <1>1, <1>2, <1>8, <3>1, <3>3 DEF Place, Closing, Before, Revising, mayDecide, afterRead
    <3>4. CASE q.kind \in {"decline", "withdraw", "reopen"}
      BY <1>3, <3>1, <3>4 DEF afterRead
    <3>5. CASE q.kind \in {"revise", "resubmit"}
      BY <1>1, <1>2, <1>8, <3>1, <3>5 DEF Place, Closing, Before, Revising, mayDecide, afterRead, approving
    <3>6. CASE q.kind = "request_changes"
      BY <1>1, <1>2, <1>8, <3>1, <3>6 DEF Place, Closing, Before, Revising, mayDecide, afterRead, approving
    <3> QED
      BY <3>2, <3>3, <3>4, <3>5, <3>6
  <2>3. CASE q.pc = "snapshot"
    <3>1. p.pc = "status" /\ q.kind \in {"revise", "resubmit"} /\ Agreed
      BY <1>4, <1>8, <2>3, PlaceAgreed DEF QuietSteps, Plan
    <3> QED
      BY <1>1, <1>2, <1>8, <2>3, <3>1 DEF Place, Closing, Before, Revising, approving
  <2>4. CASE q.pc = "turn"
    <3>1. p.pc = "insert" /\ p.loaded = q.loaded
      BY <1>8, <2>4 DEF QuietSteps, Keeps
    <3> QED
      BY <1>1, <1>2, <1>8, <2>4, <3>1 DEF Place, Closing, Before, Revising, approving
  <2>5. CASE q.pc = "load"
    <3>1. p.pc = "claim" /\ p.loaded = proc.version
      BY <1>8, <2>5 DEF QuietSteps, Keeps
    <3> QED
      BY <1>1, <1>2, <1>8, <2>5, <3>1 DEF Place, Closing, Before, Revising, approving
  <2>6. CASE q.pc = "act"
    <3>1. p.pc = "activate" /\ p.loaded = proc.version /\ p.from = proc.status /\ approving(q)
      BY <1>4, <1>8, <2>6 DEF QuietSteps, Keeps, Plan, approving
    <3>2. Before(q) /\ Fresh
      BY <2>6, <3>1 DEF Before, Place
    <3> QED
      BY <1>1, <1>2, <1>8, <2>6, <3>1, <3>2 DEF Place, Closing, Before, Revising, approving, Fresh
  <2>7. CASE q.pc = "activate"
    BY <1>4, <1>8, <2>7 DEF Place, Before, Plan, approving, descriptorRefuses
  <2> QED
    BY <1>8, <2>1, <2>2, <2>3, <2>4, <2>5, <2>6, <2>7 DEF QuietSteps
<1> QED
  BY <1>5, <1>6, <1>7, <1>8 DEF Quiet, Lost

\* Without faults a request goes on as its code does.
LEMMA GoesOnCalmly ==
    ASSUME NEW t \in Threads, ~Faulted
    PROVE  /\ \A pc : GoesOn(t, pc) => req'[t].pc = pc /\ req'[t].kind = req[t].kind /\ Keeps(t)
           /\ Ends(t) => req'[t] = Idle
BY DEF GoesOn, Ends, Lost

LEMMA PlaceWrites ==
    ASSUME TypeInv, VersionInv, NEW t \in Threads, Writes(t), ~Quiet(t), Place(req[t]), ~Faulted
    PROVE  Place(req[t])'
<1> DEFINE q == req[t]
           p == req'[t]
<1>1. Plan(q.pc, q.kind) /\ (q.pc # "idle" => q.kind # None) /\ q.kind \in Kinds \cup {"auto", None}
  BY InFlight
<1>2. Idle.pc = "idle"
  BY IdleIs
\* At these places it is enough that the tables agree.
<1>3. ASSUME Agreed', p.pc \in {"idle", "draft", "claimDraft", "check", "submit", "release", "read",
                                "archive", "reopen", "start", "started"}
      PROVE  Place(req[t])'
  BY <1>3 DEF Place, Closing, Before, Revising
<1>4. ASSUME UNCHANGED <<review, turns, proc, own>>
      PROVE  (Agreed' <=> Agreed) /\ (Fresh' <=> Fresh) /\ (public' <=> public)
  BY <1>4 DEF Agreed, Fresh, public
<1>5. activationOnApproval \in ProcStatuses \ {"pending_review", "archived"}
  <2>1. type \in {"vote", "conversation", "proposal"}
    BY ReviewAssumption DEF TypeInv, TypeOK
  <2> QED
    BY <2>1 DEF activationOnApproval, ProcStatuses
<1>6. CASE claimDraftForSubmission(t)
  <2>1. p.pc = "check" /\ q.pc = "claimDraft" /\ UNCHANGED <<review, turns, proc, own, log>>
    BY <1>6, ClaimDraftIs, GoesOnCalmly
  <2> QED
    BY <1>3, <1>4, <2>1, PlaceAgreed
<1>7. CASE releaseDraft(t) \/ reopenForRevision(t)
  <2>1. p.pc = "idle" /\ q.pc \in {"release", "reopen"} /\ UNCHANGED <<review, turns, proc, own, log>>
    BY <1>2, <1>7, ReleaseIs, ReopenIs, GoesOnCalmly
  <2> QED
    BY <1>3, <1>4, <2>1, PlaceAgreed
<1>8. CASE submit_for_review(t)
  <2>1. /\ q.pc = "submit" /\ review = None /\ p = submitAsCreator
        /\ review' = "pending_review" /\ proc' = submitted /\ own' = own
    BY <1>8, SubmitIs DEF Lost
  <2>2. ~own
    BY <2>1, PlaceAgreed DEF Agreed
  <2>3. proc' # None
    <3>1. submitted \in Procs
      BY DEF submitted, Procs, ProcStatuses
    <3> QED
      BY <2>1, <3>1, NoneIsNothing
  <2>4. Agreed'
    BY <2>1, <2>2, <2>3, NoneIsNothing DEF Agreed, Fresh, submitted, ReviewStatuses
  <2>5. p.pc \in {"idle", "read"}
    BY <1>2, <2>1, SubmittedGoesOn
  <2> QED
    BY <1>3, <2>4, <2>5
<1>9. CASE archiveProcessRow(t)
  <2>1. /\ p.pc = "status" /\ p.kind = q.kind /\ q.pc = "archive" /\ proc \in Procs
        /\ proc' = [proc EXCEPT !.status = "archived", !.version = @ + 1]
    BY <1>9, ArchiveIs, GoesOnCalmly
  <2>2. proc'.status = "archived"
    BY <2>1, StatusWritten DEF ProcStatuses
  <2>3. p.kind \in {"decline", "withdraw"}
    BY <1>1, <2>1 DEF Plan
  <2> QED
    BY <2>1, <2>2, <2>3 DEF Place, Closing, Before, Revising
<1>10. CASE updateProcessColumns(t)
  <2>1. /\ p.pc = "snapshot" /\ p.kind = q.kind /\ q.pc = "columns" /\ proc \in Procs
        /\ proc' = [proc EXCEPT !.version = @ + 1, !.text = @ + 1,
                                !.begun = @ /\ q.kind # "resubmit"]
        /\ UNCHANGED <<review, turns, own>>
    BY <1>10, ColumnsAre, GoesOnCalmly
  <2>2. q.kind \in {"revise", "resubmit"}
    BY <1>1, <2>1 DEF Plan
  <2>3. review = "changes_requested" /\ Fresh
    BY <2>1, <2>2, PlaceAgreed DEF Place, Revising, Agreed
  <2>4. proc' \in Procs /\ proc'.status = proc.status
    BY <2>1, TextWritten
  <2>5. ~proc'.begun
    <3> DEFINE v == proc.version + 1
               x == proc.text + 1
               b == proc.begun /\ q.kind # "resubmit"
    <3>1. proc' = [proc EXCEPT !.version = v, !.text = x, !.begun = b] /\ ~b
      BY <2>1, <2>3 DEF Fresh
    <3> HIDE DEF v, x, b
    <3> QED
      BY <2>1, <3>1 DEF Procs
  <2>6. Fresh'
    BY <2>1, <2>3, <2>4, <2>5, NoneIsNothing DEF Fresh
  <2>7. Agreed'
    BY <2>1, <2>3, <2>6, NoneIsNothing DEF Agreed, ReviewStatuses
  <2> QED
    BY <2>1, <2>2, <2>3, <2>7 DEF Place, Closing, Before, Revising
<1>11. CASE updateReview(t)
  <2>1. /\ p.pc = "turn" /\ p.kind = q.kind /\ q.pc = "status"
        /\ q.kind \in {"decline", "withdraw", "request_changes", "revise", "resubmit"}
        /\ review' = decided(q.kind) /\ UNCHANGED <<turns, proc, own>>
    BY <1>11, UpdateReviewIs, GoesOnCalmly
  <2>2. CASE q.kind \in {"decline", "withdraw"}
    <3>1. proc.status = "archived"
      BY <2>1, <2>2 DEF Place, Closing
    <3>2. review' = IF q.kind = "decline" THEN "declined" ELSE "withdrawn"
      BY <2>1, <2>2 DEF decided
    <3>3. Agreed'
      BY <2>1, <3>1, <3>2, NoneIsNothing DEF Agreed, ReviewStatuses
    <3> QED
      BY <2>1, <2>2, <3>3 DEF Place, Closing, Before, Revising, approving
  <2>3. CASE q.kind \in {"request_changes", "revise", "resubmit"}
    <3>1. review \in {"pending_review", "changes_requested"} /\ Agreed
      BY <2>1, <2>3 DEF Place, Closing, Before, Revising, approving
    <3>2. Fresh
      BY <3>1 DEF Agreed
    <3>3. review' \in {"pending_review", "changes_requested"}
      BY <2>1, <2>3 DEF decided
    <3>4. Agreed'
      BY <2>1, <3>2, <3>3, NoneIsNothing DEF Agreed, Fresh, ReviewStatuses
    <3> QED
      BY <2>1, <2>3, <3>4 DEF Place, Closing, Before, Revising, approving
  <2> QED
    BY <2>1, <2>2, <2>3
<1>12. CASE insertTurn(t)
  <2> DEFINE pc == IF ~approving(q) THEN "emit" ELSE IF type = "vote" THEN "act" ELSE "live"
  <2>1. /\ p.pc = pc /\ p.kind = q.kind /\ Keeps(t) /\ q.pc = "insert" /\ review # None
        /\ UNCHANGED <<review, proc, own>>
    BY <1>12, InsertIs, GoesOnCalmly
  <2>2. pc \in {"emit", "act", "live"} /\ (pc = "emit" <=> ~approving(q))
    OBVIOUS
  <2> HIDE DEF pc
  <2>3. p.loaded = q.loaded
    BY <2>1, <2>2 DEF Keeps
  <2>4. (Fresh' <=> Fresh) /\ (public' <=> public) /\ (Agreed => Agreed')
    BY <2>1 DEF Fresh, public, Agreed
  <2>5. CASE approving(q)
    BY <2>1, <2>2, <2>3, <2>4, <2>5 DEF Place, Closing, Before, Revising, approving
  <2>6. CASE ~approving(q)
    BY <2>1, <2>2, <2>4, <2>6 DEF Place, Closing, Before, Revising, approving
  <2> QED
    BY <2>5, <2>6
<1>13. CASE emitReviewEvent(t)
  <2>1. q.pc = "emit" /\ p.pc \in {"idle", "start"} /\ UNCHANGED <<review, turns, proc, own>>
    BY <1>2, <1>13, EmitIs, GoesOnCalmly
  <2> QED
    BY <1>3, <1>4, <2>1, PlaceAgreed
<1>14. CASE claimPendingReview(t)
  <2>1. /\ p.pc = "turn" /\ p.kind = q.kind /\ Keeps(t) /\ q.pc = "claim"
        /\ review = "pending_review" /\ review' = "approved" /\ UNCHANGED <<turns, proc, own>>
    BY <1>14, ClaimIs, GoesOnCalmly
  <2>2. approving(q) /\ p.loaded = q.loaded
    BY <1>1, <2>1 DEF Plan, approving, Keeps
  <2>3. Fresh /\ q.loaded = proc.version
    BY <2>1, PlaceAgreed DEF Place, Agreed
  <2>4. Fresh'
    BY <2>1, <2>3 DEF Fresh
  <2> QED
    BY <2>1, <2>2, <2>3, <2>4 DEF Place, Closing, Before, Revising, approving
<1>15. ASSUME q.pc \in {"activate", "live"}, approving(q), p.kind = q.kind, p.pc \in {"emit", "own"},
              proc' \in Procs, proc'.status = activationOnApproval, UNCHANGED <<review, turns, own>>
       PROVE  Place(req[t])'
  <2>1. review = "approved" /\ ~own
    BY <1>15 DEF Place, Before, Fresh
  <2>2. public'
    BY <1>5, <1>15, NoneIsNothing DEF public
  <2>3. Agreed'
    BY <1>15, <2>1, <2>2, NoneIsNothing DEF Agreed, ReviewStatuses
  <2> QED
    BY <1>15, <2>1, <2>2, <2>3 DEF Place, Closing, Before, Revising, approving
<1>16. CASE activate(t)
  <2>1. /\ p.pc = "emit" /\ p.kind = q.kind /\ q.pc = "activate" /\ approving(q) /\ proc \in Procs
        /\ proc' = [proc EXCEPT !.status = activationOnApproval, !.version = @ + 1, !.begun = TRUE]
        /\ UNCHANGED <<review, turns, own>>
    BY <1>16, ActivateIs, GoesOnCalmly
  <2>2. proc' \in Procs /\ proc'.status = activationOnApproval
    BY <1>5, <2>1, BegunWritten
  <2> QED
    BY <1>15, <2>1, <2>2
<1>17. CASE goLive(t)
  <2>1. /\ p.pc \in {"emit", "own"} /\ p.kind = q.kind /\ q.pc = "live" /\ approving(q) /\ proc \in Procs
        /\ proc' = [proc EXCEPT !.status = activationOnApproval, !.version = @ + 1]
        /\ UNCHANGED <<review, turns, own>>
    BY <1>17, GoLiveIs, GoesOnCalmly
  <2>2. proc' \in Procs /\ proc'.status = activationOnApproval
    BY <1>5, <2>1, StatusWritten
  <2> QED
    BY <1>15, <2>1, <2>2
<1>18. CASE onApproved(t) \/ emitProposalSubmitted(t)
  <2>1. /\ p.pc \in {"announce", "emit"} /\ p.kind = q.kind /\ q.pc \in {"own", "announce"} /\ approving(q)
        /\ UNCHANGED <<review, turns, proc>>
    BY <1>18, OnApprovedIs, AnnounceIs, GoesOnCalmly
  <2>2. review = "approved" /\ public
    BY <2>1 DEF Place
  <2>3. Agreed' /\ public'
    BY <2>1, <2>2, NoneIsNothing DEF Agreed, public, ReviewStatuses
  <2> QED
    BY <2>1, <2>2, <2>3 DEF Place, Closing, Before, Revising, approving
<1>19. CASE conversationStarted(t)
  <2>1. /\ p.pc = "idle" /\ q.pc = "started" /\ proc \in Procs /\ review # None
        /\ UNCHANGED <<review, turns, own>>
        /\ \/ proc' = [proc EXCEPT !.status = "active", !.version = @ + 1] /\ proc.version = q.loaded
           \/ proc' = proc
    BY <1>2, <1>19, StartedIs, GoesOnCalmly
  <2>2. Agreed
    BY <2>1, PlaceAgreed
  <2>3. CASE proc' = proc
    BY <1>3, <1>4, <2>1, <2>2, <2>3
  <2>4. CASE proc' # proc
    <3>1. proc.status = "draft"
      BY <2>1, <2>4 DEF VersionInv
    <3>2. proc' \in Procs /\ proc'.status = "active"
      BY <2>1, <2>4, StatusWritten DEF ProcStatuses
    <3>3. public'
      BY <3>2, NoneIsNothing DEF public
    <3>4. review \notin {"pending_review", "changes_requested", "declined", "withdrawn"}
      BY <2>2, <3>1 DEF Agreed, Fresh
    <3>5. Agreed'
      BY <2>1, <3>3, <3>4 DEF Agreed
    <3> QED
      BY <1>3, <2>1, <3>5
  <2> QED
    BY <2>3, <2>4
<1>20. CASE undoReview(t) \/ undoProcess(t)
  BY <1>20, UndoReviewIs, UndoProcessIs DEF Place
<1> QED
  BY <1>6, <1>7, <1>8, <1>9, <1>10, <1>11, <1>12, <1>13, <1>14, <1>16, <1>17, <1>18, <1>19, <1>20 DEF Writes

\* Numbered one by one, the latest turn's number is how many there are.
LEMMA LatestIsLast ==
    ASSUME turns \in Seq(Turn), turns # <<>>, \A i \in DOMAIN turns : turns[i].number = i
    PROVE  latestTurnNumber = Len(turns)
<1> DEFINE numbers == {turns[i].number : i \in DOMAIN turns}
           Highest(n) == \A i \in DOMAIN turns : turns[i].number <= n
<1>1. Len(turns) \in Nat \ {0} /\ DOMAIN turns = 1..Len(turns)
  OBVIOUS
<1>2. numbers = 1..Len(turns)
  BY <1>1
<1>3. Len(turns) \in numbers /\ Highest(Len(turns))
  BY <1>1, <1>2
<1>4. \A n \in numbers : Highest(n) => n = Len(turns)
  <2> SUFFICES ASSUME NEW n \in numbers, Highest(n) PROVE n = Len(turns)
    OBVIOUS
  <2> DEFINE last == Len(turns)
  <2>1. n \in 1..last /\ last <= n /\ last \in Nat
    BY <1>1, <1>2
  <2> HIDE DEF last, numbers, Highest
  <2>2. n = last
    BY <2>1
  <2> QED
    BY <2>2 DEF last
<1>5. latestTurnNumber = CHOOSE n \in numbers : Highest(n)
  BY DEF latestTurnNumber
<1> HIDE DEF numbers, Highest
<1> QED
  BY <1>3, <1>4, <1>5

LEMMA WrittenFinite ==
    ASSUME turns \in Seq(Turn), NEW a
    PROVE  IsFiniteSet(Written(a)) /\ Cardinality(Written(a)) \in Nat
<1>1. IsFiniteSet(DOMAIN turns)
  BY FS_Interval
<1>2. Written(a) \subseteq DOMAIN turns
  BY DEF Written
<1> QED
  BY <1>1, <1>2, FS_Subset, FS_CardinalityType

LEMMA WrittenAppended ==
    ASSUME turns \in Seq(Turn), NEW turn \in Turn, turns' = Append(turns, turn), NEW a
    PROVE  Cardinality(Written(a))' = Cardinality(Written(a)) + IF turn.action = a THEN 1 ELSE 0
<1> DEFINE n == Len(turns) + 1
<1>1. DOMAIN turns = 1..Len(turns) /\ Len(turns) \in Nat
  OBVIOUS
<1>2. DOMAIN turns' = DOMAIN turns \cup {n} /\ n \notin DOMAIN turns
  BY <1>1
<1>3. turns'[n] = turn /\ \A i \in DOMAIN turns : turns'[i] = turns[i]
  BY <1>1
<1> HIDE DEF n
<1>4. n \notin Written(a)
  BY <1>2 DEF Written
<1>5. CASE turn.action = a
  <2>1. Written(a)' = Written(a) \cup {n}
    BY <1>2, <1>3, <1>5 DEF Written
  <2> QED
    BY <1>4, <1>5, <2>1, WrittenFinite, FS_AddElement
<1>6. CASE turn.action # a
  <2>1. Written(a)' = Written(a)
    BY <1>2, <1>3, <1>6 DEF Written
  <2> QED
    BY <1>6, <2>1, WrittenFinite
<1> QED
  BY <1>5, <1>6

LEMMA ActionsOf ==
    ASSUME NEW kind \in Kinds \cup {"auto"}, kind # "reopen"
    PROVE  actionOf(kind) \in Actions
BY KindsAre DEF actionOf, Actions

LEMMA NumberedNext ==
    ASSUME TypeInv, NEW t \in Threads, Quiet(t) \/ Writes(t), InOrder(req[t]), ~Faulted
    PROVE  Numbered(req[t])'
<1> DEFINE q == req[t]
           p == req'[t]
<1>1. turns \in Seq(Turn) /\ \A i \in DOMAIN turns : turns[i].number = i
  BY TurnsAre DEF InOrder, Numbered
\* The number read is the next one.
<1>2. CASE Quiet(t)
  <2>1. turns' = turns
    BY <1>2 DEF Quiet
  <2>2. ASSUME p.pc = "insert" PROVE p.turn = Len(turns) + 1
    <3>1. thrown(q).pc # "insert" /\ Idle.pc # "insert"
      BY ThrownPC, IdleIs
    <3>2. <<q.pc, p.pc>> \in QuietSteps /\ Keeps(t)
      BY <1>2, <2>2, <3>1 DEF Quiet
    <3>3. q.pc = "turn" /\ p.turn = latestTurnNumber + 1
      BY <2>2, <3>2 DEF QuietSteps, Keeps
    <3>4. review # None
      BY <3>3, InFlight, KindsAre DEF Plan
    <3>5. turns # <<>>
      BY <3>4 DEF TypeInv, MadeInv
    <3> QED
      BY <1>1, <3>3, <3>5, LatestIsLast
  <2> QED
    BY <1>1, <2>1, <2>2 DEF Numbered
\* The turn inserted has it.
<1>3. CASE insertTurn(t)
  <2>1. /\ q.pc = "insert" /\ p.pc # "insert"
        /\ turns' = Append(turns, [number |-> q.turn, action |-> actionOf(q.kind), text |-> q.text])
    BY <1>3, InsertIs, GoesOnCalmly
  <2>2. q.turn = Len(turns) + 1
    BY <2>1 DEF InOrder, Numbered
  <2> DEFINE turn == [number |-> q.turn, action |-> actionOf(q.kind), text |-> q.text]
             n == Len(turns) + 1
  <2>3. DOMAIN turns = 1..Len(turns) /\ Len(turns) \in Nat
    BY <1>1
  <2>4. turn.number = n
    BY <2>2
  <2>5. turns' = Append(turns, turn)
    BY <2>1
  <2> HIDE DEF turn
  <2>6. DOMAIN turns' = DOMAIN turns \cup {n} /\ n \notin DOMAIN turns
    BY <1>1, <2>3, <2>5
  <2>7. turns'[n] = turn /\ \A i \in DOMAIN turns : turns'[i] = turns[i]
    BY <1>1, <2>3, <2>5
  <2> HIDE DEF n
  <2>8. \A i \in DOMAIN turns' : turns'[i].number = i
    BY <1>1, <2>4, <2>6, <2>7
  <2> QED
    BY <2>1, <2>8 DEF Numbered
<1>4. CASE submit_for_review(t) /\ ~Quiet(t)
  <2>1. /\ p = submitAsCreator
        /\ turns' = <<[number |-> 1, action |-> "submit", text |-> 0]>>
    BY <1>4, SubmitIs DEF Lost
  <2>2. p.pc # "insert"
    BY <2>1, IdleIs, SubmittedGoesOn
  <2>3. DOMAIN turns' = {1} /\ turns'[1].number = 1
    BY <2>1
  <2> QED
    BY <2>2, <2>3 DEF Numbered
<1>5. CASE Writes(t) /\ ~Quiet(t) /\ ~insertTurn(t) /\ ~submit_for_review(t)
  <2>1. turns' = turns
    BY <1>5, ClaimDraftIs, ReleaseIs, ReopenIs, ArchiveIs, ColumnsAre, UpdateReviewIs, EmitIs, ClaimIs,
       ActivateIs, GoLiveIs, OnApprovedIs, AnnounceIs, StartedIs, UndoReviewIs, UndoProcessIs DEF Writes
  <2>2. q.pc # "turn"
    BY <1>5 DEF Writes, claimDraftForSubmission, releaseDraft, reopenForRevision, archiveProcessRow,
       updateProcessColumns, updateReview, emitReviewEvent, claimPendingReview, activate, goLive, onApproved,
       emitProposalSubmitted, conversationStarted, undoReview, undoProcess, at
  <2>3. p.pc # "insert"
    <3>1. thrown(q).pc # "insert" /\ Idle.pc # "insert" /\ submitAsCreator.pc # "insert"
      BY ThrownPC, IdleIs, SubmittedGoesOn
    <3>2. ASSUME Begins(t) PROVE p.pc # "insert"
      <4>1. PICK kind \in Kinds : p = newRequest(firstStep(kind), kind)
        BY <3>2 DEF Begins
      <4>2. p.pc = firstStep(kind)
        BY <4>1 DEF newRequest
      <4> QED
        BY <4>2 DEF firstStep
    <3>3. <<q.pc, p.pc>> \in MovePairs => p.pc # "insert"
      BY <2>2 DEF MovePairs, QuietSteps
    <3> QED
      BY <1>5, <3>1, <3>2, <3>3, MovesIs DEF Moves, GoesFrom
  <2> QED
    BY <1>1, <2>1, <2>3 DEF Numbered
<1> QED
  BY <1>2, <1>3, <1>4, <1>5

LEMMA CountedNext ==
    ASSUME TypeInv, NEW t \in Threads, Quiet(t) \/ Writes(t), InOrder(req[t]), ~Faulted
    PROVE  Counted(req[t])'
<1> DEFINE q == req[t]
           p == req'[t]
<1>1. turns \in Seq(Turn) /\ log \in [Events -> Nat] /\ Actions \subseteq Events
  BY TurnsAre DEF TypeInv, TypeOK, Events
<1>2. /\ Place(q)
      /\ \A a \in Actions : Cardinality(Written(a)) = log[a] + IF Past(q) /\ actionOf(q.kind) = a THEN 1 ELSE 0
  BY DEF InOrder, Counted
<1>3. Plan(q.pc, q.kind) /\ (q.pc # "idle" => q.kind # None) /\ q.kind \in Kinds \cup {"auto", None}
  BY InFlight
\* A step that inserts no turn and writes no event of one.
<1>4. ASSUME turns' = turns, \A a \in Actions : log'[a] = log[a],
             Past(p) <=> Past(q), Past(p) => p.kind = q.kind
      PROVE  Counted(req[t])'
  <2>1. \A a : Written(a)' = Written(a)
    BY <1>4 DEF Written
  <2> QED
    BY <1>2, <1>4, <2>1 DEF Counted, Past
<1>5. CASE Quiet(t)
  <2>1. turns' = turns /\ log' = log
    BY <1>5 DEF Quiet
  <2>2. CASE p = thrown(q) /\ Refused(q)
    <3>1. ~Past(q) /\ ~Past(p)
      BY <1>2, <2>2, RefusedAt DEF Past
    <3> QED
      BY <1>4, <2>1, <3>1
  <2>3. CASE (p = Idle /\ q.pc = "submit") \/ (q.pc = "idle" /\ p.pc \in {"draft", "read"})
    <3>1. ~Past(q) /\ ~Past(p)
      BY <2>3, IdleIs DEF Past
    <3> QED
      BY <1>4, <2>1, <3>1
  <2>4. CASE <<q.pc, p.pc>> \in QuietSteps /\ p.kind = q.kind
    <3>1. Past(p) <=> Past(q)
      BY <2>4 DEF Past, QuietSteps
    <3> QED
      BY <1>4, <2>1, <2>4, <3>1
  <2> QED
    BY <1>5, <2>2, <2>3, <2>4 DEF Quiet, Lost
\* A turn is inserted: its event is to come.
<1>6. CASE insertTurn(t)
  <2> DEFINE pc == IF ~approving(q) THEN "emit" ELSE IF type = "vote" THEN "act" ELSE "live"
             turn == [number |-> q.turn, action |-> actionOf(q.kind), text |-> q.text]
  <2>1. /\ p.pc = pc /\ p.kind = q.kind /\ q.pc = "insert" /\ turns' = Append(turns, turn) /\ log' = log
    BY <1>6, InsertIs, GoesOnCalmly
  <2>2. pc \in {"emit", "act", "live"}
    OBVIOUS
  <2>3. turn \in Turn /\ turn.action = actionOf(q.kind)
    <3>1. actionOf(q.kind) \in Actions
      BY <1>3, <2>1, ActionsOf DEF Plan
    <3> QED
      BY <3>1, InFlight DEF Turn
  <2> HIDE DEF pc, turn
  <2>4. ~Past(q) /\ Past(p)
    BY <2>1, <2>2 DEF Past
  <2>5. \A a : Cardinality(Written(a))' = Cardinality(Written(a)) + IF turn.action = a THEN 1 ELSE 0
    BY <1>1, <2>1, <2>3, WrittenAppended
  <2>6. ASSUME NEW a \in Actions
        PROVE  Cardinality(Written(a))' = log'[a] + IF Past(p) /\ actionOf(p.kind) = a THEN 1 ELSE 0
    <3>1. Cardinality(Written(a)) = log[a] /\ log[a] \in Nat
      BY <1>1, <1>2, <2>4
    <3> QED
      BY <2>1, <2>3, <2>4, <2>5, <3>1
  <2> QED
    BY <2>6 DEF Counted, Past
\* Its event is written.
<1>7. CASE emitReviewEvent(t)
  <2>1. /\ q.pc = "emit" /\ p.pc \in {"idle", "start"} /\ turns' = turns
        /\ log' = [log EXCEPT ![actionOf(q.kind)] = @ + 1]
    BY <1>7, EmitIs, GoesOnCalmly, IdleIs
  <2>2. actionOf(q.kind) \in Actions
    BY <1>3, <2>1, ActionsOf DEF Plan
  <2>3. Past(q) /\ ~Past(p)
    BY <2>1 DEF Past
  <2>4. \A a : Written(a)' = Written(a)
    BY <2>1 DEF Written
  <2>5. ASSUME NEW a \in Actions
        PROVE  Cardinality(Written(a))' = log'[a] + IF Past(p) /\ actionOf(p.kind) = a THEN 1 ELSE 0
    <3> DEFINE e == actionOf(q.kind)
    <3>1. e \in Events /\ a \in Events
      BY <1>1, <2>2
    <3>2. log'[e] = log[e] + 1 /\ (a # e => log'[a] = log[a]) /\ log[a] \in Nat
      BY <1>1, <2>1, <3>1, LogCounts
    <3>3. Cardinality(Written(a)) = log[a] + IF e = a THEN 1 ELSE 0
      BY <1>2, <2>3
    <3> HIDE DEF e
    <3>4. Cardinality(Written(a)) = log'[a]
      BY <3>2, <3>3
    <3> QED
      BY <2>3, <2>4, <3>2, <3>4
  <2> QED
    BY <2>5 DEF Counted, Past
\* The submission writes the first turn and its event.
<1>8. CASE submit_for_review(t) /\ ~Quiet(t)
  <2> DEFINE turn == [number |-> 1, action |-> "submit", text |-> 0]
  <2>1. /\ p = submitAsCreator /\ q.pc = "submit" /\ review = None
        /\ turns' = <<turn>> /\ log' = [log EXCEPT !["submit"] = @ + 1]
    BY <1>8, SubmitIs DEF Lost
  <2>2. turns = <<>>
    BY <1>2, <2>1, PlaceAgreed DEF Agreed
  <2>3. turn \in Turn /\ turn.action = "submit" /\ "submit" \in Actions
    BY DEF Turn, Actions
  <2>4. turns' = Append(turns, turn)
    BY <2>1, <2>2
  <2> HIDE DEF turn
  <2>5. ~Past(q) /\ ~Past(p)
    BY <2>1, IdleIs, SubmittedGoesOn DEF Past
  <2>6. \A a : Cardinality(Written(a))' = Cardinality(Written(a)) + IF turn.action = a THEN 1 ELSE 0
    BY <1>1, <2>3, <2>4, WrittenAppended
  <2>7. ASSUME NEW a \in Actions
        PROVE  Cardinality(Written(a))' = log'[a] + IF Past(p) /\ actionOf(p.kind) = a THEN 1 ELSE 0
    <3>1. Cardinality(Written(a)) = log[a] /\ log[a] \in Nat
      BY <1>1, <1>2, <2>5
    <3>2. log'["submit"] = log["submit"] + 1 /\ (a # "submit" => log'[a] = log[a])
      BY <1>1, <2>1, <2>3, LogCounts
    <3> QED
      BY <2>3, <2>5, <2>6, <3>1, <3>2
  <2> QED
    BY <2>7 DEF Counted, Past
<1>9. CASE activate(t) /\ ~Quiet(t)
  <2>1. /\ q.pc = "activate" /\ p.pc = "emit" /\ p.kind = q.kind /\ turns' = turns
        /\ log' = [log EXCEPT !["created"] = @ + 1]
    BY <1>9, ActivateIs, GoesOnCalmly
  <2>2. \A a \in Actions : log'[a] = log[a]
    BY <1>1, <2>1, LogCounts DEF Events, Actions
  <2> QED
    BY <1>4, <2>1, <2>2 DEF Past
<1>10. CASE goLive(t) /\ ~Quiet(t)
  <2>1. /\ q.pc = "live" /\ p.pc \in {"own", "emit"} /\ p.kind = q.kind /\ turns' = turns
        /\ log' = log \/ log' = [log EXCEPT !["created"] = @ + 1]
    BY <1>10, GoLiveIs, GoesOnCalmly
  <2>2. \A a \in Actions : log'[a] = log[a]
    BY <1>1, <2>1, LogCounts DEF Events, Actions
  <2> QED
    BY <1>4, <2>1, <2>2 DEF Past
<1>11. CASE emitProposalSubmitted(t)
  <2>1. /\ q.pc = "announce" /\ p.pc = "emit" /\ p.kind = q.kind /\ turns' = turns
        /\ log' = [log EXCEPT !["announced"] = @ + 1]
    BY <1>11, AnnounceIs, GoesOnCalmly
  <2>2. \A a \in Actions : log'[a] = log[a]
    BY <1>1, <2>1, LogCounts DEF Events, Actions
  <2> QED
    BY <1>4, <2>1, <2>2 DEF Past
<1>12. CASE onApproved(t) /\ ~Quiet(t)
  <2>1. /\ q.pc = "own" /\ p.pc = "announce" /\ p.kind = q.kind /\ turns' = turns /\ log' = log
    BY <1>12, OnApprovedIs, GoesOnCalmly
  <2> QED
    BY <1>4, <2>1 DEF Past
<1>13. CASE /\ \/ claimDraftForSubmission(t) \/ releaseDraft(t) \/ reopenForRevision(t)
               \/ archiveProcessRow(t) \/ updateProcessColumns(t) \/ updateReview(t)
               \/ claimPendingReview(t) \/ conversationStarted(t)
            /\ ~Quiet(t)
  <2>1. /\ turns' = turns /\ log' = log
        /\ q.pc \in {"claimDraft", "release", "reopen", "archive", "columns", "status", "claim", "started"}
    BY <1>13, ClaimDraftIs, ReleaseIs, ReopenIs, ArchiveIs, ColumnsAre, UpdateReviewIs, ClaimIs, StartedIs
  <2>2. p.pc \in {"check", "idle", "status", "snapshot", "turn"}
    BY <1>13, ClaimDraftIs, ReleaseIs, ReopenIs, ArchiveIs, ColumnsAre, UpdateReviewIs, ClaimIs, StartedIs,
       GoesOnCalmly, IdleIs
  <2> QED
    BY <1>4, <2>1, <2>2 DEF Past
<1>14. CASE undoReview(t) \/ undoProcess(t)
  BY <1>2, <1>14, UndoReviewIs, UndoProcessIs DEF Place
<1> QED
  BY <1>5, <1>6, <1>7, <1>8, <1>9, <1>10, <1>11, <1>12, <1>13, <1>14 DEF Writes

LEMMA InitSeq == Init => SeqInv
<1> SUFFICES ASSUME Init PROVE SeqInv
  OBVIOUS
<1>1. \A t \in Threads : req[t].pc = "idle"
  BY IdleIs DEF Init
<1>2. /\ review = None /\ turns = <<>> /\ proc = None /\ own = FALSE
      /\ \A a \in Actions : log[a] = 0
  BY DEF Init, Events
<1>3. Agreed
  BY <1>2, NoneIsNothing DEF Agreed, ReviewStatuses
<1>4. Place(Idle)
  BY <1>3, IdleIs DEF Place, Closing, Before, Revising
<1>5. Numbered(Idle)
  BY <1>2, IdleIs DEF Numbered
<1>6. Counted(Idle)
  <2>1. ~Past(Idle)
    BY IdleIs DEF Past
  <2>2. \A a : Cardinality(Written(a)) = 0
    <3>1. \A a : Written(a) = {}
      BY <1>2 DEF Written
    <3> QED
      BY <3>1, FS_EmptySet
  <2>3. \A a \in Actions : Cardinality(Written(a)) = log[a] + 0
    BY <1>2, <2>2
  <2> QED
    BY <2>1, <2>3 DEF Counted
<1> QED
  BY <1>1, <1>4, <1>5, <1>6 DEF SeqInv, InOrder

LEMMA NextSeq ==
    ASSUME TypeInv, VersionInv, SeqInv, [Next]_vars
    PROVE  SeqInv'
<1>1. CASE UNCHANGED vars
  <2>1. UNCHANGED <<draft, review, turns, proc, own, log, req, type, production, overlapped, failures, lost, crashes>>
    BY <1>1 DEF vars, setting
  <2>2. \A q : (Place(q)' <=> Place(q)) /\ (Numbered(q)' <=> Numbered(q)) /\ (Counted(q)' <=> Counted(q))
    <3>1. (Agreed' <=> Agreed) /\ (Fresh' <=> Fresh) /\ (public' <=> public) /\ \A a : Written(a)' = Written(a)
      BY <2>1 DEF Agreed, Fresh, public, Written
    <3> QED
      BY <2>1, <3>1 DEF Place, Numbered, Counted
  <2>3. \A t : Alone(t)' <=> Alone(t)
    BY <2>1 DEF Alone
  <2> QED
    BY <2>1, <2>2, <2>3 DEF SeqInv, InOrder, quiet, at, unbroken
<1>2. CASE Next
  <2>1. PICK t \in Threads : Quiet(t) \/ Writes(t)
    BY <1>2, NextIs
  <2>2. CASE unbroken' /\ ~overlapped'
    <3>1. Alone(t) /\ InOrder(req[t]) /\ Acts(t) /\ ~Faulted
      BY <2>1, <2>2, SoleStep
    <3>2. Place(req[t])'
      BY <2>1, <3>1, PlaceQuiet, PlaceWrites DEF InOrder
    <3>3. Numbered(req[t])' /\ Counted(req[t])'
      BY <2>1, <3>1, NumberedNext, CountedNext
    <3> QED
      BY <3>1, <3>2, <3>3, SoleRemains DEF InOrder
  <2>3. CASE ~(unbroken' /\ ~overlapped')
    BY <2>3 DEF SeqInv
  <2> QED
    BY <2>2, <2>3
<1> QED
  BY <1>1, <1>2

\* While requests follow one another and nothing fails, whatever was asked, the process is
\* public when the review is approved and archived when it was declined or withdrawn, the
\* turns are numbered without gaps, and each has one event.
THEOREM DecisionsAgreeInTurn == Spec => []DecisionsAgree
<1>1. ASSUME TypeInv, SeqInv PROVE DecisionsAgree
  <2>1. SUFFICES ASSUME quiet, unbroken, ~overlapped, review # None
                 PROVE  /\ public <=> review = "approved"
                        /\ proc.status = "archived" <=> review \in {"declined", "withdrawn"}
                        /\ \A i \in DOMAIN turns : turns[i].number = i
                        /\ \A a \in Actions : log[a] = Cardinality({i \in DOMAIN turns : turns[i].action = a})
    BY DEF DecisionsAgree
  <2>2. Place(Idle) /\ Numbered(Idle) /\ Counted(Idle)
    BY <1>1, <2>1 DEF SeqInv, InOrder
  <2>3. Agreed
    BY <2>2, IdleIs, PlaceAgreed
  <2>4. review \in {"pending_review", "changes_requested", "approved", "declined", "withdrawn"}
    BY <1>1, <2>1 DEF TypeInv, TypeOK, ReviewStatuses
  <2>5. public <=> review = "approved"
    BY <2>3, <2>4 DEF Agreed, Fresh, public
  <2>6. proc.status = "archived" <=> review \in {"declined", "withdrawn"}
    BY <2>3, <2>4, <2>5 DEF Agreed, Fresh, public
  <2>7. \A i \in DOMAIN turns : turns[i].number = i
    BY <2>2 DEF Numbered
  <2>8. ASSUME NEW a \in Actions
        PROVE  log[a] = Cardinality({i \in DOMAIN turns : turns[i].action = a})
    <3>1. Cardinality(Written(a)) = log[a] + 0
      BY <2>2, IdleIs DEF Counted, Past
    <3>2. log[a] \in Nat
      BY <1>1 DEF TypeInv, TypeOK, Events
    <3>3. log[a] = Cardinality(Written(a))
      BY <3>1, <3>2
    <3> QED
      BY <3>3 DEF Written
  <2> QED
    BY <2>5, <2>6, <2>7, <2>8
<1>2. TypeInv /\ VersionInv /\ SeqInv /\ [Next]_vars => SeqInv'
  BY NextSeq
<1>3. TypeInv /\ SeqInv => DecisionsAgree
  BY <1>1
<1> QED
  BY <1>2, <1>3, InitSeq, TypeAlways, VersionAlways, PTL DEF Spec

-----------------------------------------------------------------------------
(***************************************************************************)
(* While nobody declines, withdraws or revises: what is approved is out,   *)
(* though one call fails.  Until it does no claim is given back.           *)
(***************************************************************************)
OnlyApproved == Kinds \cap {"resubmit", "revise", "withdraw", "decline"} = {}

Undoing(q) == q.pc \in {"undoReview", "undoProcess"}

\* An approval meets the process as it was submitted.
FreshOK(q) ==
    /\ ~Undoing(q)
    /\ Before(q) => Fresh
    /\ q.pc = "own" => ~own
    /\ (Before(q) /\ q.pc # "act") \/ (q.pc = "claim" /\ review = "pending_review") => q.loaded = proc.version
    /\ q.pc = "activate" => q.from = "pending_review"

FreshInv ==
    unbroken =>
        /\ review = None => ~own
        /\ review = "pending_review" => Fresh
        /\ \A t \in Threads : FreshOK(req[t])

LEMMA OnlyKinds ==
    ASSUME OnlyApproved, TypeInv, NEW t \in Threads
    PROVE  /\ req[t].kind \in {"submit", "reopen", "approve", "request_changes", "auto", None}
           /\ req[t].pc \notin {"archive", "columns", "snapshot"}
           /\ req[t].pc = "status" => req[t].kind = "request_changes"
<1>1. req[t].kind \in {"submit", "reopen", "approve", "request_changes", "auto", None}
  BY InFlight, KindsAre DEF OnlyApproved
<1> QED
  BY <1>1, InFlight, KindsAre DEF Plan

\* A request of which the step leaves the process, and puts no review in the queue.
LEMMA FreshStays ==
    ASSUME NEW s, req'[s] = req[s], FreshOK(req[s]), proc' = proc, own' = own,
           review' = "pending_review" => review = "pending_review"
    PROVE  FreshOK(req[s])'
BY DEF FreshOK, Undoing, Before, Fresh, approving

\* At most one of the approvals has its claim.
LEMMA OneClaims ==
    ASSUME ClaimInv, NEW t \in Threads, NEW s \in Threads \ {t}, claims(req[t])
    PROVE  /\ ~Before(req[s]) /\ ~(approving(req[s]) /\ req[s].pc \in {"own", "announce", "emit"})
           /\ req[s].pc # "undoReview" /\ review # "pending_review"
BY DEF ClaimInv, Claiming, claims, holdsClaim, Before, approving

\* The step's own request, when nothing fails.
LEMMA FreshMoves ==
    ASSUME TypeInv, NEW t \in Threads, Quiet(t) \/ Writes(t), FreshOK(req[t]), ~Faulted,
           review = "pending_review" => Fresh
    PROVE  /\ req'[t].pc \notin {"undoReview", "undoProcess"}
           /\ Quiet(t) => FreshOK(req[t])'
<1> DEFINE q == req[t]
           p == req'[t]
<1>1. Plan(q.pc, q.kind) /\ (q.pc # "idle" => q.kind # None)
  BY InFlight
<1>2. CASE Quiet(t)
  <2>1. UNCHANGED <<draft, review, turns, proc, own, log>>
    BY <1>2 DEF Quiet
  <2>2. ASSUME p.pc \in {"idle", "draft", "release", "read", "load", "archive", "columns", "reopen", "status",
                         "claimDraft", "submit", "started"}
        PROVE  FreshOK(req[t])'
    BY <2>2 DEF FreshOK, Undoing, Before
  <2>3. CASE p = thrown(q) /\ Refused(q)
    <3>1. q.pc \notin {"act", "activate", "live", "own"}
      BY <1>1, <2>3 DEF Refused, FreshOK, Before, Fresh, Plan, approving, descriptorRefuses
    <3>2. ~holdsClaim(q)
      BY <2>3, <3>1 DEF Refused, holdsClaim
    <3>3. p.pc \in {"idle", "release"}
      BY <2>3, <3>2, ThrownPC
    <3> QED
      BY <2>2, <3>3
  <2>4. CASE p = Idle \/ (q.pc = "idle" /\ p.pc \in {"draft", "read"})
    BY <2>2, <2>4, IdleIs
  <2>5. CASE <<q.pc, p.pc>> \in QuietSteps /\ p.kind = q.kind /\ Keeps(t)
             /\ (q.pc = "activate" => descriptorRefuses(q) \/ proc.version # q.loaded)
    <3>1. CASE p.pc \in {"claimDraft", "submit", "read", "load", "archive", "columns", "reopen", "status", "started"}
      BY <2>2, <3>1
    <3>2. CASE q.pc = "turn"
      <4>1. p.pc = "insert" /\ p.loaded = q.loaded
        BY <2>5, <3>2 DEF QuietSteps, Keeps
      <4> QED
        BY <2>1, <2>5, <3>2, <4>1 DEF FreshOK, Undoing, Before, Fresh, approving
    <3>3. CASE q.pc = "load"
      <4>1. p.pc = "claim" /\ p.loaded = proc.version
        BY <2>5, <3>3 DEF QuietSteps, Keeps
      <4> QED
        BY <2>1, <2>5, <3>3, <4>1 DEF FreshOK, Undoing, Before, Fresh, approving
    <3>4. CASE q.pc = "act"
      <4>1. p.pc = "activate" /\ p.loaded = proc.version /\ p.from = proc.status /\ approving(q)
        BY <1>1, <2>5, <3>4 DEF QuietSteps, Keeps, Plan, approving
      <4>2. Fresh
        BY <3>4, <4>1 DEF FreshOK, Before
      <4> QED
        BY <2>1, <2>5, <4>1, <4>2 DEF FreshOK, Undoing, Before, Fresh, approving
    <3>5. CASE q.pc = "activate"
      BY <1>1, <2>5, <3>5 DEF FreshOK, Before, Plan, approving, descriptorRefuses
    <3> QED
      BY <2>5, <3>1, <3>2, <3>3, <3>4, <3>5 DEF QuietSteps
  <2>6. FreshOK(req[t])'
    BY <1>2, <2>3, <2>4, <2>5 DEF Quiet, Lost
  <2> QED
    BY <2>6 DEF FreshOK, Undoing
<1>3. CASE Writes(t) /\ ~Quiet(t)
  <2>1. q.pc \notin {"undoReview", "undoProcess"}
    BY DEF FreshOK, Undoing
  <2>2. ~undoReview(t) /\ ~undoProcess(t)
    BY <2>1 DEF undoReview, undoProcess, at
  <2>3. CASE submit_for_review(t)
    BY <1>3, <2>3, SubmitIs, IdleIs, SubmittedGoesOn DEF Lost
  <2>4. CASE ~submit_for_review(t)
    <3>0. ASSUME NEW pc \in {"check", "status", "snapshot", "turn", "emit", "own", "announce"}, GoesOn(t, pc)
          PROVE  p.pc \notin {"undoReview", "undoProcess"}
      BY <3>0, GoesOnCalmly
    <3>1. CASE \/ claimDraftForSubmission(t) \/ archiveProcessRow(t) \/ updateProcessColumns(t)
               \/ updateReview(t) \/ claimPendingReview(t)
      <4>1. \E pc \in {"check", "status", "snapshot", "turn"} : GoesOn(t, pc)
        BY <1>3, <3>1, ClaimDraftIs, ArchiveIs, ColumnsAre, UpdateReviewIs, ClaimIs
      <4> QED
        BY <1>3, <3>0, <4>1
    <3>2. CASE releaseDraft(t) \/ reopenForRevision(t) \/ conversationStarted(t)
      BY <1>3, <3>2, ReleaseIs, ReopenIs, StartedIs, GoesOnCalmly, IdleIs
    <3>3. CASE insertTurn(t)
      <4> DEFINE pc == IF ~approving(q) THEN "emit" ELSE IF type = "vote" THEN "act" ELSE "live"
      <4>1. p.pc = pc
        BY <3>3, InsertIs, GoesOnCalmly
      <4> QED
        BY <1>3, <4>1
    <3>4. CASE emitReviewEvent(t)
      BY <1>3, <3>4, EmitIs, GoesOnCalmly, IdleIs
    <3>5. CASE activate(t) \/ goLive(t) \/ onApproved(t) \/ emitProposalSubmitted(t)
      <4>1. \E pc \in {"emit", "own", "announce"} : GoesOn(t, pc)
        BY <1>3, <3>5, ActivateIs, GoLiveIs, OnApprovedIs, AnnounceIs
      <4> QED
        BY <1>3, <3>0, <4>1
    <3> QED
      BY <1>3, <2>2, <2>4, <3>1, <3>2, <3>3, <3>4, <3>5 DEF Writes
  <2> QED
    BY <1>3, <2>3, <2>4
<1> QED
  BY <1>2, <1>3

LEMMA NextFresh ==
    ASSUME OnlyApproved, TypeInv, VersionInv, ClaimInv, FreshInv, [Next]_vars
    PROVE  FreshInv'
<1>1. CASE UNCHANGED vars
  BY <1>1 DEF vars, FreshInv, FreshOK, Undoing, Before, Fresh, approving, unbroken
<1>2. CASE Next /\ ~unbroken'
  BY <1>2 DEF FreshInv
<1>3. CASE Next /\ unbroken'
  <2>1. PICK t \in Threads : Quiet(t) \/ Writes(t)
    BY <1>3, NextIs
  <2> DEFINE q == req[t]
             p == req'[t]
  <2>2. Acts(t) /\ unbroken /\ ~Faulted
    BY <1>3, <2>1, MovesIs DEF Moves, Acts, Faulted
  <2>3. /\ review = None => ~own
        /\ review = "pending_review" => Fresh
        /\ \A s \in Threads : FreshOK(req[s])
    BY <2>2 DEF FreshInv
  <2>4. p.pc \notin {"undoReview", "undoProcess"} /\ (Quiet(t) => FreshOK(req[t])')
    BY <2>1, <2>2, <2>3, FreshMoves
  <2>5. Plan(q.pc, q.kind) /\ (q.pc # "idle" => q.kind # None)
    BY InFlight
  <2>6. /\ q.kind \in {"submit", "reopen", "approve", "request_changes", "auto", None}
        /\ q.pc \notin {"archive", "columns", "snapshot"}
        /\ q.pc = "status" => q.kind = "request_changes"
    BY OnlyKinds
  \* A step that leaves the process.
  <2>7. ASSUME proc' = proc, own' = own, review' = "pending_review" => review = "pending_review",
               review' = None => review = None, FreshOK(req[t])'
        PROVE  FreshInv'
    <3>1. ASSUME NEW s \in Threads \ {t} PROVE FreshOK(req[s])'
      BY <2>2, <2>3, <2>7, FreshStays DEF Acts
    <3>2. \A s \in Threads : FreshOK(req[s])'
      BY <2>7, <3>1
    <3>3. Fresh' <=> Fresh
      BY <2>7 DEF Fresh
    <3> QED
      BY <2>3, <2>7, <3>2, <3>3 DEF FreshInv
  \* A step of the approval that has its claim.
  <2>8. ASSUME claims(q), FreshOK(req[t])', review' = review
        PROVE  FreshInv'
    <3>1. ASSUME NEW s \in Threads \ {t} PROVE FreshOK(req[s])'
      <4>1. req'[s] = req[s]
        BY <2>2 DEF Acts
      <4>2. ~Before(req[s]) /\ ~(approving(req[s]) /\ req[s].pc \in {"own", "announce", "emit"}) /\ review # "pending_review"
        BY <2>8, OneClaims
      <4>3. req[s].pc \in {"own", "activate"} => req[s].kind \in {"approve", "auto"}
        BY InFlight DEF Plan
      <4>4. req[s].pc \notin {"own", "activate"}
        BY <4>2, <4>3 DEF Before, approving
      <4> QED
        BY <2>3, <2>8, <4>1, <4>2, <4>4 DEF FreshOK, Undoing, Before, approving
    <3>2. \A s \in Threads : FreshOK(req[s])'
      BY <2>8, <3>1
    <3>3. review # "pending_review" /\ review # None
      <4>1. review # "pending_review"
        BY <2>8 DEF ClaimInv, Claiming
      <4>2. q.kind \in {"approve", "auto"}
        BY <2>5, <2>8 DEF claims, holdsClaim, approving, Plan
      <4> QED
        BY <4>1, <4>2, InFlight, KindsAre
    <3> QED
      BY <2>8, <3>2, <3>3 DEF FreshInv
  \* Places at which nothing is asked of the request.
  <2>9. ASSUME p.pc \in {"idle", "check", "emit", "start", "read", "announce"} \/ (p.pc = "turn" /\ ~approving(p))
        PROVE  FreshOK(req[t])'
    BY <2>9 DEF FreshOK, Undoing, Before, approving
  <2>10. CASE Quiet(t)
    <3>1. UNCHANGED <<draft, review, turns, proc, own, log>>
      BY <2>10 DEF Quiet
    <3> QED
      BY <2>4, <2>7, <2>10, <3>1
  <2>11. CASE (claimDraftForSubmission(t) /\ ~Quiet(t)) \/ releaseDraft(t) \/ reopenForRevision(t)
    <3>1. p.pc \in {"idle", "check"} /\ UNCHANGED <<review, proc, own>>
      BY <2>2, <2>11, ClaimDraftIs, ReleaseIs, ReopenIs, GoesOnCalmly, IdleIs
    <3> QED
      BY <2>7, <2>9, <3>1
  <2>12. CASE updateReview(t)
    <3>1. /\ q.pc = "status" /\ p.pc = "turn" /\ p.kind = q.kind /\ review' = decided(q.kind)
          /\ UNCHANGED <<proc, own>>
      BY <2>2, <2>12, UpdateReviewIs, GoesOnCalmly
    <3>2. q.kind = "request_changes" /\ review' = "changes_requested" /\ ~approving(p)
      BY <2>6, <3>1 DEF decided, approving
    <3>3. review' # None
      BY <3>2, NoneIsNothing DEF ReviewStatuses
    <3> QED
      BY <2>7, <2>9, <3>1, <3>2, <3>3
  <2>13. CASE insertTurn(t)
    <3> DEFINE pc == IF ~approving(q) THEN "emit" ELSE IF type = "vote" THEN "act" ELSE "live"
    <3>1. q.pc = "insert" /\ p.pc = pc /\ p.kind = q.kind /\ Keeps(t) /\ UNCHANGED <<review, proc, own>>
      BY <2>2, <2>13, InsertIs, GoesOnCalmly
    <3>2. pc \in {"emit", "act", "live"} /\ (pc = "emit" <=> ~approving(q))
      OBVIOUS
    <3> HIDE DEF pc
    <3>3. p.loaded = q.loaded
      BY <3>1, <3>2 DEF Keeps
    <3>4. CASE approving(q)
      <4>1. Before(q)
        BY <3>1, <3>4 DEF Before
      <4>2. Fresh /\ q.loaded = proc.version
        BY <2>3, <3>1, <4>1 DEF FreshOK
      <4>3. FreshOK(req[t])'
        BY <3>1, <3>2, <3>3, <3>4, <4>2 DEF FreshOK, Undoing, Before, Fresh, approving
      <4> QED
        BY <2>7, <3>1, <4>3
    <3>5. CASE ~approving(q)
      BY <2>7, <2>9, <3>1, <3>2, <3>5
    <3> QED
      BY <3>4, <3>5
  <2>14. CASE emitReviewEvent(t) \/ emitProposalSubmitted(t)
    <3>1. p.pc \in {"idle", "start", "emit"} /\ UNCHANGED <<review, proc, own>>
      BY <2>2, <2>14, EmitIs, AnnounceIs, GoesOnCalmly, IdleIs
    <3> QED
      BY <2>7, <2>9, <3>1
  <2>15. CASE claimPendingReview(t) /\ ~Quiet(t)
    <3>1. /\ q.pc = "claim" /\ p.pc = "turn" /\ p.kind = q.kind /\ Keeps(t)
          /\ review = "pending_review" /\ review' = "approved" /\ UNCHANGED <<proc, own>>
      BY <2>2, <2>15, ClaimIs, GoesOnCalmly
    <3>2. p.loaded = q.loaded /\ q.loaded = proc.version /\ Fresh
      BY <2>3, <3>1 DEF Keeps, FreshOK
    <3>3. FreshOK(req[t])'
      BY <3>1, <3>2 DEF FreshOK, Undoing, Before, Fresh, approving
    <3>4. review' # None
      BY <3>1, NoneIsNothing DEF ReviewStatuses
    <3> QED
      BY <2>7, <3>1, <3>3, <3>4
  <2>16. CASE activate(t) /\ ~Quiet(t)
    <3>1. p.pc = "emit" /\ q.pc = "activate" /\ approving(q) /\ review' = review
      BY <2>2, <2>16, ActivateIs, GoesOnCalmly
    <3> QED
      BY <2>8, <2>9, <3>1 DEF claims, holdsClaim
  <2>17. CASE goLive(t) /\ ~Quiet(t)
    <3>1. /\ p.pc \in {"own", "emit"} /\ q.pc = "live" /\ approving(q) /\ review' = review /\ own' = own
      BY <2>2, <2>17, GoLiveIs, GoesOnCalmly
    <3>2. ~own'
      BY <2>3, <3>1 DEF FreshOK, Before, Fresh
    <3>3. FreshOK(req[t])'
      BY <3>1, <3>2 DEF FreshOK, Undoing, Before
    <3> QED
      BY <2>8, <3>1, <3>3 DEF claims, holdsClaim
  <2>18. CASE onApproved(t) /\ ~Quiet(t)
    <3>1. p.pc = "announce" /\ q.pc = "own" /\ approving(q) /\ review' = review
      BY <2>2, <2>18, OnApprovedIs, GoesOnCalmly
    <3> QED
      BY <2>8, <2>9, <3>1 DEF claims, holdsClaim
  <2>19. CASE conversationStarted(t)
    <3>1. /\ p.pc = "idle" /\ q.pc = "started" /\ proc \in Procs /\ review # None /\ UNCHANGED <<review, own>>
          /\ \/ proc' = [proc EXCEPT !.status = "active", !.version = @ + 1] /\ proc.version = q.loaded
             \/ proc' = proc
      BY <2>2, <2>19, StartedIs, GoesOnCalmly, IdleIs
    <3>2. CASE proc' = proc
      BY <2>7, <2>9, <3>1, <3>2
    <3>3. CASE proc' # proc
      <4>1. proc.status = "draft"
        BY <3>1, <3>3 DEF VersionInv
      <4>2. ~Fresh /\ review # "pending_review"
        BY <2>3, <4>1 DEF Fresh
      <4>3. ASSUME NEW s \in Threads \ {t} PROVE FreshOK(req[s])'
        <5>1. req'[s] = req[s] /\ FreshOK(req[s])
          BY <2>2, <2>3 DEF Acts
        <5>2. ~Before(req[s])
          BY <4>2, <5>1 DEF FreshOK
        <5> QED
          BY <3>1, <4>2, <5>1, <5>2 DEF FreshOK, Undoing, Before, approving
      <4>4. \A s \in Threads : FreshOK(req[s])'
        BY <2>9, <3>1, <4>3
      <4> QED
        BY <3>1, <4>2, <4>4 DEF FreshInv
    <3> QED
      BY <3>2, <3>3
  <2>20. CASE submit_for_review(t) /\ ~Quiet(t)
    <3>1. /\ q.pc = "submit" /\ review = None /\ p = submitAsCreator
          /\ review' = "pending_review" /\ proc' = submitted /\ own' = own
      BY <2>2, <2>20, SubmitIs DEF Lost
    <3>2. submitted \in Procs
      BY DEF submitted, Procs, ProcStatuses
    <3>3. Fresh'
      BY <2>3, <3>1, <3>2, NoneIsNothing DEF Fresh, submitted
    <3>4. ASSUME NEW s \in Threads \ {t} PROVE FreshOK(req[s])'
      <4>1. req'[s] = req[s]
        BY <2>2 DEF Acts
      <4>2. req[s].kind \notin {"approve", "auto"}
        BY <3>1, InFlight, KindsAre
      <4>3. req[s].pc \notin {"undoReview", "undoProcess", "own", "claim", "activate"}
        BY <4>2, InFlight DEF Plan
      <4> QED
        BY <4>1, <4>2, <4>3 DEF FreshOK, Undoing, Before, approving
    <3>5. p.pc \in {"idle", "read"}
      BY <3>1, IdleIs, SubmittedGoesOn
    <3>6. \A s \in Threads : FreshOK(req[s])'
      BY <2>9, <3>4, <3>5
    <3>7. review' # None
      BY <3>1, NoneIsNothing DEF ReviewStatuses
    <3> QED
      BY <3>3, <3>6, <3>7 DEF FreshInv
  <2>21. CASE archiveProcessRow(t) \/ updateProcessColumns(t)
    BY <2>6, <2>21 DEF archiveProcessRow, updateProcessColumns, at
  <2>22. CASE undoReview(t) \/ undoProcess(t)
    BY <2>3, <2>22 DEF undoReview, undoProcess, at, FreshOK, Undoing
  <2> QED
    BY <2>1, <2>10, <2>11, <2>12, <2>13, <2>14, <2>15, <2>16, <2>17, <2>18, <2>19, <2>20, <2>21, <2>22 DEF Writes
<1> QED
  BY <1>1, <1>2, <1>3

Posted == public /\ (type = "proposal" => own)

\* A request that has published, until it ends or has taken that back.
Publicly(q) ==
    \/ approving(q) /\ q.pc \in {"own", "announce", "emit"}
    \/ q.pc = "undoReview" /\ q.live
    \/ q.pc = "undoProcess"

PostOK(q) ==
    /\ Publicly(q) => public /\ (type = "vote" => proc.begun)
    /\ approving(q) /\ q.pc \in {"announce", "emit"} /\ type = "proposal" => own

\* Nobody but t is about to take the process back.
NoneUndoes(t) == \A s \in Threads \ {t} : req[s].pc # "undoProcess"

PostInv ==
    tame =>
        /\ review = "approved" /\ (\A t \in Threads : ~claims(req[t])) =>
              Posted /\ \A t \in Threads : req[t].pc # "undoProcess"
        /\ \A t \in Threads : PostOK(req[t]) /\ (Publicly(req[t]) => NoneUndoes(t))

LEMMA GoesOnTamely ==
    ASSUME NEW t \in Threads, tame'
    PROVE  /\ \A pc : GoesOn(t, pc) => req'[t].pc = pc /\ req'[t].kind = req[t].kind /\ Keeps(t)
           /\ Ends(t) => req'[t] = Idle
BY DEF GoesOn, Ends, Lost

\* An approval that holds its claim gives it back when its call fails.
LEMMA ThrownClaim ==
    ASSUME TypeInv, NEW t \in Threads, holdsClaim(req[t])
    PROVE  thrown(req[t]).pc = "undoReview"
<1>1. req[t] \in RequestRecords /\ req[t].kind \notin {"submit", "resubmit"}
  BY InFlight DEF RequestOK, holdsClaim, approving
<1>2. thrown(req[t]) = [req[t] EXCEPT !.pc = "undoReview"]
  BY <1>1 DEF thrown
<1> QED
  BY <1>1, <1>2 DEF RequestRecords

LEMMA NextPost ==
    ASSUME OnlyApproved, TypeInv, LiveInv, VersionInv, ClaimInv, FreshInv, PostInv, [Next]_vars
    PROVE  PostInv'
<1>1. CASE UNCHANGED vars
  BY <1>1 DEF vars, setting, PostInv, PostOK, Publicly, Posted, NoneUndoes, public, approving, claims, holdsClaim, tame
<1>2. CASE Next /\ ~tame'
  BY <1>2 DEF PostInv
<1>3. CASE Next /\ tame'
  <2>1. PICK t \in Threads : Quiet(t) \/ Writes(t)
    BY <1>3, NextIs
  <2> DEFINE q == req[t]
             p == req'[t]
  <2>2. Acts(t) /\ tame /\ ~Lost /\ type' = type
    BY <1>3, <2>1, MovesIs DEF Moves, Acts, Lost
  <2>3. /\ review = "approved" /\ (\A s \in Threads : ~claims(req[s])) =>
              Posted /\ \A s \in Threads : req[s].pc # "undoProcess"
        /\ \A s \in Threads : PostOK(req[s]) /\ (Publicly(req[s]) => NoneUndoes(s))
    BY <2>2 DEF PostInv
  <2>4. Plan(q.pc, q.kind) /\ (q.pc # "idle" => q.kind # None) /\ LiveOK(q)
    BY InFlight DEF LiveInv
  <2>5. /\ q.pc \notin {"archive", "columns", "snapshot"}
        /\ q.pc = "status" => q.kind = "request_changes"
    BY OnlyKinds
  \* What is left to show of a step that does not set out to take the process back.
  <2>6. ASSUME \A s \in Threads \ {t} : PostOK(req[s])', PostOK(req[t])', p.pc # "undoProcess",
               Publicly(p) => NoneUndoes(t),
               review' = "approved" /\ ~claims(p) /\ (\A s \in Threads \ {t} : ~claims(req[s])) => Posted' /\ NoneUndoes(t)
        PROVE  PostInv'
    <3>1. \A s \in Threads \ {t} : req'[s] = req[s]
      BY <2>2 DEF Acts
    <3>2. ASSUME NEW s \in Threads, Publicly(req'[s]) PROVE NoneUndoes(s)'
      <4>1. NoneUndoes(s) \/ s = t
        BY <2>3, <3>1, <3>2
      <4> QED
        BY <2>6, <3>1, <3>2, <4>1 DEF NoneUndoes
    <3>3. \A s \in Threads : Publicly(req[s])' <=> Publicly(req'[s])
      BY DEF Publicly, approving
    <3>4. \A s \in Threads : claims(req[s])' <=> claims(req'[s])
      BY DEF claims, holdsClaim, approving
    <3>5. ASSUME review' = "approved", \A s \in Threads : ~claims(req'[s])
          PROVE  Posted' /\ \A s \in Threads : req'[s].pc # "undoProcess"
      <4>1. Posted' /\ NoneUndoes(t)
        BY <2>6, <3>1, <3>5
      <4> QED
        BY <2>6, <3>1, <4>1 DEF NoneUndoes
    <3> QED
      BY <2>6, <3>2, <3>3, <3>4, <3>5 DEF PostInv
  \* What is out stays so.
  <2>7. ASSUME public => public', public /\ proc.begun => proc'.begun, own => own'
        PROVE  (\A s \in Threads \ {t} : PostOK(req[s])') /\ (Posted => Posted')
    <3>1. \A s \in Threads \ {t} : req'[s] = req[s]
      BY <2>2 DEF Acts
    <3>2. ASSUME NEW s \in Threads \ {t} PROVE PostOK(req[s])'
      <4>1. PostOK(req[s]) /\ req'[s] = req[s]
        BY <2>3, <3>1
      <4> QED
        BY <2>2, <2>7, <4>1 DEF PostOK, Publicly, approving
    <3> QED
      BY <2>2, <2>7, <3>2 DEF Posted
  \* A step of a request that goes on claiming, and publishes nothing.
  <2>8. ASSUME public => public', public /\ proc.begun => proc'.begun, own => own', PostOK(req[t])',
               p.pc # "undoProcess", Publicly(p) => Publicly(q), claims(q) => claims(p),
               review' = "approved" => review = "approved"
        PROVE  PostInv'
    <3>1. Publicly(p) => NoneUndoes(t)
      BY <2>3, <2>8
    <3>2. ASSUME review' = "approved", ~claims(p), \A s \in Threads \ {t} : ~claims(req[s])
          PROVE  Posted' /\ NoneUndoes(t)
      <4>1. review = "approved" /\ \A s \in Threads : ~claims(req[s])
        BY <2>8, <3>2
      <4> QED
        BY <2>3, <2>7, <2>8, <4>1 DEF NoneUndoes
    <3> QED
      BY <2>6, <2>7, <2>8, <3>1, <3>2
  <2>9. ASSUME UNCHANGED <<proc, own>>
        PROVE  (public => public') /\ (public /\ proc.begun => proc'.begun) /\ (own => own')
    BY <2>9 DEF public
  \* Where a request has published nothing.
  <2>10. ASSUME ~Publicly(p) PROVE PostOK(req[t])'
    BY <2>10 DEF PostOK, Publicly, approving
  <2>11. CASE Quiet(t)
    <3>1. UNCHANGED <<draft, review, turns, proc, own, log>>
      BY <2>11 DEF Quiet
    <3>2. ASSUME p.pc # "undoProcess", Publicly(p) => Publicly(q) /\ p.pc = "undoReview", claims(q) => claims(p)
          PROVE  PostInv'
      <4>1. PostOK(req[t])'
        <5>1. CASE Publicly(p)
          <6>1. public /\ (type = "vote" => proc.begun)
            BY <2>3, <3>2, <5>1 DEF PostOK
          <6> QED
            BY <2>2, <3>1, <3>2, <5>1, <6>1 DEF PostOK, public
        <5> QED
          BY <2>10, <5>1
      <4> QED
        BY <2>8, <2>9, <3>1, <3>2, <4>1
    <3>3. CASE p = thrown(q) /\ (Faulted \/ Refused(q))
      <4>1. /\ p.pc \in {"idle", "release", "undoReview"}
            /\ p.pc = "undoReview" => holdsClaim(q)
            /\ holdsClaim(q) => p.pc = "undoReview"
            /\ p.live \in {FALSE, q.live}
        BY <3>3, ThrownPC, ThrownClaim, ThrownLive DEF LiveInv
      <4>2. q.pc # "undoReview"
        <5>1. CASE Refused(q)
          BY <5>1 DEF Refused
        <5>2. CASE Faulted
          <6>1. unbroken
            BY <1>3, <5>2 DEF Faulted
          <6> QED
            BY <6>1 DEF FreshInv, FreshOK, Undoing
        <5> QED
          BY <3>3, <5>1, <5>2
      <4>3. claims(q) => claims(p)
        BY <4>1, <4>2 DEF claims
      <4>4. ASSUME Publicly(p) PROVE Publicly(q) /\ p.pc = "undoReview"
        <5>1. p.pc = "undoReview" /\ p.live /\ holdsClaim(q)
          BY <4>1, <4>4 DEF Publicly
        <5>2. q.live
          BY <4>1, <5>1
        <5> QED
          BY <2>4, <5>1, <5>2 DEF LiveOK, holdsClaim, Publicly
      <4> QED
        BY <3>2, <4>1, <4>3, <4>4
    <3>4. CASE (p = Idle /\ q.pc = "submit") \/ (q.pc = "idle" /\ p.pc \in {"draft", "read"})
      <4>1. p.pc \in {"idle", "draft", "read"} /\ ~claims(q)
        BY <3>4, IdleIs DEF claims, holdsClaim
      <4> QED
        BY <3>2, <4>1 DEF Publicly
    <3>5. CASE <<q.pc, p.pc>> \in QuietSteps /\ p.kind = q.kind
      <4>1. p.pc \notin {"undoReview", "undoProcess", "own", "announce", "emit"}
        BY <3>5 DEF QuietSteps
      <4>2. claims(q) => claims(p)
        BY <3>5 DEF QuietSteps, claims, holdsClaim, approving
      <4> QED
        BY <3>2, <4>1, <4>2 DEF Publicly
    <3> QED
      BY <2>2, <2>11, <3>3, <3>4, <3>5 DEF Quiet
  <2>12. CASE (claimDraftForSubmission(t) /\ ~Quiet(t)) \/ releaseDraft(t) \/ reopenForRevision(t)
    <3>1. /\ p.pc \in {"idle", "check"} /\ q.pc \in {"claimDraft", "release", "reopen"}
          /\ UNCHANGED <<review, proc, own>>
      BY <1>3, <2>12, ClaimDraftIs, ReleaseIs, ReopenIs, GoesOnTamely, IdleIs
    <3> QED
      BY <2>8, <2>9, <2>10, <3>1 DEF Publicly, claims, holdsClaim
  <2>13. CASE updateReview(t)
    <3>1. /\ q.pc = "status" /\ p.pc = "turn" /\ p.kind = q.kind /\ review' = decided(q.kind)
          /\ UNCHANGED <<proc, own>>
      BY <1>3, <2>13, UpdateReviewIs, GoesOnTamely
    <3>2. review' = "changes_requested"
      BY <2>5, <3>1 DEF decided
    <3> QED
      BY <2>8, <2>9, <2>10, <3>1, <3>2 DEF Publicly, claims, holdsClaim
  <2>14. CASE insertTurn(t)
    <3> DEFINE pc == IF ~approving(q) THEN "emit" ELSE IF type = "vote" THEN "act" ELSE "live"
    <3>1. q.pc = "insert" /\ p.pc = pc /\ p.kind = q.kind /\ UNCHANGED <<review, proc, own>>
      BY <1>3, <2>14, InsertIs, GoesOnTamely
    <3>2. pc \in {"emit", "act", "live"} /\ (pc = "emit" <=> ~approving(q))
      OBVIOUS
    <3> HIDE DEF pc
    <3>3. approving(p) <=> approving(q)
      BY <3>1 DEF approving
    <3>4. ~Publicly(p) /\ (claims(q) => claims(p))
      BY <3>1, <3>2, <3>3 DEF Publicly, claims, holdsClaim
    <3> QED
      BY <2>8, <2>9, <2>10, <3>1, <3>2, <3>4
  <2>15. CASE claimPendingReview(t) /\ ~Quiet(t)
    <3>1. q.pc = "claim" /\ p.pc = "turn" /\ p.kind = q.kind /\ UNCHANGED <<proc, own>>
      BY <1>3, <2>15, ClaimIs, GoesOnTamely
    <3>2. claims(p) /\ ~Publicly(p)
      BY <2>4, <3>1 DEF Plan, claims, holdsClaim, approving, Publicly
    <3> QED
      BY <2>6, <2>7, <2>9, <2>10, <3>1, <3>2
  <2>16. CASE emitReviewEvent(t)
    <3>1. q.pc = "emit" /\ p.pc \in {"idle", "start"} /\ UNCHANGED <<review, proc, own>>
      BY <1>3, <2>16, EmitIs, GoesOnTamely, IdleIs
    <3>2. ~Publicly(p)
      BY <3>1 DEF Publicly
    <3>3. CASE approving(q)
      <4>1. public /\ (type = "proposal" => own) /\ NoneUndoes(t)
        BY <2>3, <3>1, <3>3 DEF PostOK, Publicly
      <4>2. Posted
        BY <4>1 DEF Posted
      <4> QED
        BY <2>6, <2>7, <2>9, <2>10, <3>1, <3>2, <4>1, <4>2
    <3>4. CASE ~approving(q)
      BY <2>8, <2>9, <2>10, <3>1, <3>2, <3>4 DEF claims, holdsClaim
    <3> QED
      BY <3>3, <3>4
  <2>17. CASE onApproved(t) /\ ~Quiet(t)
    <3>1. /\ q.pc = "own" /\ p.pc = "announce" /\ p.kind = q.kind /\ approving(q) /\ own' = TRUE
          /\ UNCHANGED <<review, proc>>
      BY <1>3, <2>17, OnApprovedIs, GoesOnTamely
    <3>2. Publicly(q) /\ claims(p)
      BY <3>1 DEF Publicly, claims, holdsClaim, approving
    <3>3. (public => public') /\ public /\ (type = "vote" => proc.begun)
      BY <2>3, <3>1, <3>2 DEF PostOK, public
    <3>4. PostOK(req[t])'
      BY <2>2, <3>1, <3>3 DEF PostOK
    <3> QED
      BY <2>8, <3>1, <3>2, <3>3, <3>4
  <2>18. CASE emitProposalSubmitted(t)
    <3>1. /\ q.pc = "announce" /\ p.pc = "emit" /\ p.kind = q.kind /\ approving(q)
          /\ UNCHANGED <<review, proc, own>>
      BY <1>3, <2>18, AnnounceIs, GoesOnTamely
    <3>2. Publicly(q) /\ claims(p)
      BY <3>1 DEF Publicly, claims, holdsClaim, approving
    <3>3. public /\ (type = "vote" => proc.begun) /\ (type = "proposal" => own)
      BY <2>3, <3>1, <3>2 DEF PostOK
    <3>4. PostOK(req[t])'
      BY <2>2, <2>9, <3>1, <3>3 DEF PostOK
    <3> QED
      BY <2>8, <2>9, <3>1, <3>2, <3>4
  \* An approval publishes: nobody is taking the process back.
  <2>19. ASSUME public', type = "vote" => proc'.begun, public /\ proc.begun => proc'.begun, own' = own,
                approving(q), q.pc \in {"activate", "live"}, p.kind = q.kind, p.pc \in {"emit", "own"},
                type = "proposal" => p.pc = "own", ~public \/ (type = "vote" /\ ~proc.begun)
         PROVE  PostInv'
    <3>1. claims(p)
      BY <2>19 DEF claims, holdsClaim, approving
    <3>2. NoneUndoes(t)
      <4> SUFFICES ASSUME NEW s \in Threads \ {t}, req[s].pc = "undoProcess" PROVE FALSE
        BY DEF NoneUndoes
      <4>1. public /\ (type = "vote" => proc.begun)
        BY <2>3 DEF PostOK, Publicly
      <4> QED
        BY <2>19, <4>1
    <3>3. PostOK(req[t])'
      BY <2>2, <2>19 DEF PostOK
    <3> QED
      BY <2>6, <2>7, <2>19, <3>1, <3>2, <3>3
  <2>20. activationOnApproval \in ProcStatuses \ {"pending_review", "archived"}
    <3>1. type \in {"vote", "conversation", "proposal"}
      BY ReviewAssumption DEF TypeInv, TypeOK
    <3> QED
      BY <3>1 DEF activationOnApproval, ProcStatuses
  <2>21. CASE activate(t) /\ ~Quiet(t)
    <3>1. /\ q.pc = "activate" /\ p.pc = "emit" /\ p.kind = q.kind /\ approving(q) /\ type = "vote"
          /\ proc.version = q.loaded /\ proc \in Procs /\ own' = own
          /\ proc' = [proc EXCEPT !.status = activationOnApproval, !.version = @ + 1, !.begun = TRUE]
      BY <1>3, <2>21, ActivateIs, GoesOnTamely
    <3>2. proc' \in Procs /\ proc'.status = activationOnApproval /\ proc'.begun
      BY <2>20, <3>1, BegunWritten
    <3>3. public'
      BY <2>20, <3>2, NoneIsNothing DEF public
    <3>4. ~proc.begun
      BY <3>1 DEF VersionInv
    <3> QED
      BY <2>19, <3>1, <3>2, <3>3, <3>4
  <2>22. CASE goLive(t) /\ ~Quiet(t)
    <3>1. /\ q.pc = "live" /\ p.kind = q.kind /\ approving(q) /\ type # "vote"
          /\ p.pc = IF type = "proposal" THEN "own" ELSE "emit"
          /\ proc.status = "pending_review" /\ proc \in Procs /\ own' = own
          /\ proc' = [proc EXCEPT !.status = activationOnApproval, !.version = @ + 1]
      BY <1>3, <2>22, GoLiveIs, GoesOnTamely
    <3>2. proc' \in Procs /\ proc'.status = activationOnApproval /\ proc'.begun = proc.begun
      BY <2>20, <3>1, StatusWritten
    <3>3. public' /\ ~public
      BY <2>20, <3>1, <3>2, NoneIsNothing DEF public
    <3> QED
      BY <2>19, <3>1, <3>2, <3>3
  <2>23. CASE conversationStarted(t)
    <3>1. /\ q.pc = "started" /\ p.pc = "idle" /\ proc \in Procs /\ UNCHANGED <<review, own>>
          /\ \/ proc' = [proc EXCEPT !.status = "active", !.version = @ + 1]
             \/ proc' = proc
      BY <1>3, <2>23, StartedIs, GoesOnTamely, IdleIs
    <3>2. (public => public') /\ (proc.begun => proc'.begun)
      <4>1. CASE proc' = proc
        BY <4>1 DEF public
      <4>2. CASE proc' # proc
        <5>1. proc' \in Procs /\ proc'.status = "active" /\ proc'.begun = proc.begun
          BY <3>1, <4>2, StatusWritten DEF ProcStatuses
        <5> QED
          BY <5>1, NoneIsNothing DEF public
      <4> QED
        BY <4>1, <4>2
    <3> QED
      BY <2>8, <2>10, <3>1, <3>2 DEF Publicly, claims, holdsClaim
  <2>24. CASE submit_for_review(t) /\ ~Quiet(t)
    <3>1. /\ q.pc = "submit" /\ review = None /\ p = submitAsCreator
          /\ review' = "pending_review"
      BY <2>2, <2>24, SubmitIs
    <3>2. p.pc \in {"idle", "read"}
      BY <3>1, IdleIs, SubmittedGoesOn
    <3>3. ASSUME NEW s \in Threads \ {t} PROVE PostOK(req[s])'
      <4>1. req'[s] = req[s]
        BY <2>2 DEF Acts
      <4>2. req[s].kind \notin {"approve", "auto"}
        BY <3>1, InFlight, KindsAre
      <4>3. req[s].pc \notin {"undoReview", "undoProcess"}
        BY <4>2, InFlight DEF Plan
      <4> QED
        BY <4>1, <4>2, <4>3 DEF PostOK, Publicly, approving
    <3> QED
      BY <2>6, <2>10, <3>1, <3>2, <3>3 DEF Publicly
  <2>25. CASE archiveProcessRow(t) \/ updateProcessColumns(t)
    BY <2>5, <2>25 DEF archiveProcessRow, updateProcessColumns, at
  \* A claim is given back: the review waits again.
  <2>26. CASE undoReview(t)
    <3>1. /\ q.pc = "undoReview" /\ review' = "pending_review" /\ UNCHANGED <<proc, own>>
          /\ IF q.live THEN GoesOn(t, "undoProcess") ELSE Ends(t)
      BY <2>26, UndoReviewIs
    <3>2. CASE ~q.live
      <4>1. p.pc = "idle"
        BY <1>3, <3>1, <3>2, GoesOnTamely, IdleIs
      <4> QED
        BY <2>6, <2>7, <2>9, <2>10, <3>1, <4>1 DEF Publicly
    <3>3. CASE q.live
      <4>1. p.pc = "undoProcess" /\ p.kind = q.kind
        BY <1>3, <3>1, <3>3, GoesOnTamely
      <4>2. NoneUndoes(t) /\ public /\ (type = "vote" => proc.begun)
        BY <2>3, <3>1, <3>3 DEF PostOK, Publicly
      <4>3. PostOK(req[t])'
        BY <2>2, <2>9, <3>1, <4>1, <4>2 DEF PostOK
      <4>4. \A s \in Threads \ {t} : req'[s] = req[s] /\ PostOK(req[s])'
        BY <2>2, <2>7, <2>9, <3>1 DEF Acts
      <4>5. ASSUME NEW s \in Threads \ {t} PROVE ~Publicly(req[s])
        <5>1. claims(q)
          BY <3>1 DEF claims
        <5>2. ~(approving(req[s]) /\ req[s].pc \in {"own", "announce", "emit"}) /\ req[s].pc # "undoReview"
          BY <5>1, OneClaims
        <5> QED
          BY <4>2, <5>2 DEF NoneUndoes, Publicly
      <4>6. ASSUME NEW s \in Threads, Publicly(req[s])' PROVE NoneUndoes(s)'
        <5>1. s = t
          BY <4>4, <4>5, <4>6 DEF Publicly, approving
        <5> QED
          BY <4>2, <4>4, <5>1 DEF NoneUndoes
      <4> QED
        BY <3>1, <4>3, <4>4, <4>6 DEF PostInv
    <3> QED
      BY <3>2, <3>3
  \* The process is taken back: nobody has published it since.
  <2>27. CASE undoProcess(t)
    <3>1. q.pc = "undoProcess" /\ p.pc = "idle" /\ UNCHANGED <<review, own>>
      BY <1>3, <2>27, UndoProcessIs, GoesOnTamely, IdleIs
    <3>2. ASSUME NEW s \in Threads \ {t} PROVE ~Publicly(req[s])
      BY <2>3, <3>1 DEF NoneUndoes
    <3>3. ASSUME NEW s \in Threads \ {t} PROVE PostOK(req[s])'
      <4>1. req'[s] = req[s] /\ ~Publicly(req[s])
        BY <2>2, <3>2 DEF Acts
      <4> QED
        BY <4>1 DEF PostOK, Publicly, approving
    <3>4. ~(review = "approved" /\ \A s \in Threads \ {t} : ~claims(req[s]))
      <4>1. ~claims(q)
        BY <3>1 DEF claims, holdsClaim
      <4> QED
        BY <2>3, <3>1, <4>1
    <3> QED
      BY <2>6, <2>10, <3>1, <3>3, <3>4 DEF Publicly
  <2> QED
    BY <2>1, <2>11, <2>12, <2>13, <2>14, <2>15, <2>16, <2>17, <2>18, <2>21, <2>22, <2>23, <2>24, <2>25,
       <2>26, <2>27 DEF Writes
<1> QED
  BY <1>1, <1>2, <1>3

LEMMA InitPost == Init => FreshInv /\ PostInv
<1> SUFFICES ASSUME Init PROVE FreshInv /\ PostInv
  OBVIOUS
<1>1. \A t \in Threads : req[t].pc = "idle"
  BY IdleIs DEF Init
<1>2. review = None /\ own = FALSE
  BY DEF Init
<1>3. review \notin {"pending_review", "approved"}
  BY <1>2, NoneIsNothing DEF ReviewStatuses
<1>4. FreshInv
  BY <1>1, <1>2, <1>3 DEF FreshInv, FreshOK, Undoing, Before
<1>5. PostInv
  BY <1>1, <1>3 DEF PostInv, PostOK, Publicly
<1> QED
  BY <1>4, <1>5

\* While nobody declines, withdraws or revises, what is approved when nothing is under way
\* is public and has its type's own row, though one call of all that were made failed:
\* an approval that fails gives its claim back, and the process with it.
THEOREM ApprovedIsOut ==
    ASSUME Kinds \cap {"resubmit", "revise", "withdraw", "decline"} = {}
    PROVE  Spec => []ApprovedIsPosted
<1>1. OnlyApproved /\ Kinds \cap {"revise", "resubmit"} = {}
  BY DEF OnlyApproved
<1>2. ASSUME PostInv PROVE ApprovedIsPosted
  <2>1. SUFFICES ASSUME quiet, review = "approved", failures <= 1, lost = 0, crashes = 0
                 PROVE  public /\ (type = "proposal" => own)
    BY DEF ApprovedIsPosted
  <2>2. \A t \in Threads : ~claims(req[t])
    BY <2>1 DEF quiet, at, claims, holdsClaim
  <2> QED
    BY <1>2, <2>1, <2>2 DEF PostInv, tame, Posted
<1> DEFINE IInv == ClaimInv /\ FreshInv /\ PostInv
<1>3. Init => IInv
  BY InitClaim, InitPost
<1>4. TypeInv /\ LiveInv /\ VersionInv /\ IInv /\ [Next]_vars => IInv'
  BY <1>1, NextClaim, NextFresh, NextPost
<1>5. IInv => ApprovedIsPosted
  BY <1>2
<1> HIDE DEF IInv
<1> QED
  BY <1>3, <1>4, <1>5, TypeAlways, LiveAlways, VersionAlways, PTL DEF Spec

=============================================================================
