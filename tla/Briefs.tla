------------------------------- MODULE Briefs -------------------------------
(***************************************************************************)
(* One brief, from review to its revisions and the officials' responses,   *)
(* and the closed process it is about (packages/civic.brief,               *)
(* src/services/briefRegenerate.ts, briefFinalize.ts, mailer.ts).          *)
(*                                                                         *)
(* Every request reads the row, works on its copy, mails and emits on the  *)
(* way, and saves last.  A save is refused if the row changed since it was *)
(* read; the mails and events are out by then.  No handler has a catch     *)
(* block: an error anywhere ends the request.                              *)
(***************************************************************************)
EXTENDS Naturals, FiniteSets

CONSTANTS
    Officials,      \* the brief's recipients
    Requests,       \* requests that can be in flight
    MaxRequests,    \* bound: requests made
    MaxTexts,       \* bound: texts written
    MaxTouches      \* bound: writes to the source by others, and days passing

ASSUME BriefsAssumption ==
    /\ IsFiniteSet(Requests)
    /\ MaxRequests \in Nat /\ MaxTexts \in Nat \ {0} /\ MaxTouches \in Nat

Kinds == {"edit", "regenerate", "approve", "publish", "discard", "respond"}

VARIABLES
    brief,      \* the brief's row
    source,     \* the source's row: status, the summary it shows, the ones it keeps
    req,        \* the requests in flight
    texts,      \* how many texts were written: each one's number
    anchors,    \* the responses of the last day that have a card
    mailed,     \* history: how often each official was mailed, and which texts
    log,        \* history: the events emitted, and the writes of the brief they announce
    shown,      \* history: every text the row had while published, the first one by itself
    saved,      \* history: every text the row had
    superseded, \* history: texts edited by someone who had read them
    spoiled,    \* history: approvals that ended without publishing
    overlapped, \* history: two requests were in flight at once
    broken,     \* history: a request ended before its last step, or a save was refused
    requests, touches

vars == <<brief, source, req, texts, anchors, mailed, log, shown, saved, superseded, spoiled,
          overlapped, broken, requests, touches>>

-----------------------------------------------------------------------------
\* A text, and the summary it brings for the source (0: none).
NoText == [n |-> 0, src |-> 0]
firstText == [n |-> 1, src |-> 1]

\* createBriefState: the brief of a process that closed.
createBriefState ==
    [pub |-> "pending", text |-> firstText, history |-> {}, revision |-> NoText, owed |-> 0,
     deliveredTo |-> {}, version |-> 1]

Idle == [pc |-> "idle", kind |-> "edit", brief |-> createBriefState, fresh |-> NoText, source |-> 0,
         anchor |-> FALSE]

Init ==
    /\ brief = createBriefState
    /\ source = [status |-> "closed", summary |-> 1, kept |-> {}, version |-> 1]
    /\ req = [t \in Requests |-> Idle]
    /\ texts = 1 /\ anchors = 0
    /\ mailed = [o \in Officials |-> [times |-> 0, texts |-> {}]]
    /\ log = [updated |-> 0, published |-> 0, writes |-> 0]
    /\ shown = [first |-> {}, all |-> {}] /\ saved = {firstText} /\ superseded = {}
    /\ spoiled = 0 /\ overlapped = FALSE /\ broken = FALSE
    /\ requests = 0 /\ touches = 0

at(t, pc) == req[t].pc = pc
becomes(t, q) == req' = [req EXCEPT ![t] = q]
goto(t, pc) == becomes(t, [req[t] EXCEPT !.pc = pc])

\* The request ends with an error.
ends(t) ==
    /\ becomes(t, Idle)
    /\ broken' = TRUE
    /\ spoiled' = IF req[t].kind = "approve" /\ req[t].brief.pub = "pending" THEN spoiled + 1 ELSE spoiled

rowsKept == UNCHANGED <<brief, source, texts, anchors, mailed, shown, saved, superseded, touches>>
fine == UNCHANGED <<spoiled, broken>>

-----------------------------------------------------------------------------
(***************************************************************************)
(* Each request's first step: the row is read and its state looked at.     *)
(***************************************************************************)
\* Mutant: a published brief can be approved again.
accepts_again(kind, b) ==
    CASE kind \in {"publish", "discard"} -> b.revision # NoText
      [] kind = "respond" -> b.pub = "published"
      [] OTHER -> TRUE

\* canEdit, canApprove, no_pending_revision, respondGate.
accepts(kind, b) ==
    CASE kind \in {"edit", "approve"} -> b.pub = "pending"
      [] kind \in {"publish", "discard"} -> b.revision # NoText
      [] kind = "respond" -> b.pub = "published"
      [] OTHER -> TRUE

firstStep(kind) ==
    CASE kind = "approve" -> "mail" [] kind = "publish" -> "take" [] kind = "regenerate" -> "generate"
      [] kind = "respond" -> "anchor" [] OTHER -> "emit"

Open(t, kind) ==
    /\ at(t, "idle")
    /\ requests < MaxRequests
    /\ accepts(kind, brief)
    /\ kind = "edit" => texts < MaxTexts
    /\ requests' = requests + 1
    /\ overlapped' = (overlapped \/ \E other \in Requests \ {t} : ~at(other, "idle"))
    /\ texts' = IF kind = "edit" THEN texts + 1 ELSE texts
    /\ becomes(t, [Idle EXCEPT !.pc = firstStep(kind), !.kind = kind, !.brief = brief,
                               !.fresh = IF kind = "edit" THEN [n |-> texts', src |-> brief.text.src] ELSE NoText])
    /\ UNCHANGED <<brief, source, anchors, mailed, log, shown, saved, superseded, spoiled, broken, touches>>

\* freshContent: the source's handler and the model write a new text, which may
\* bring the source a new summary; or none can be made now.
freshContent(t) ==
    /\ at(t, "generate")
    /\ \/ /\ texts < MaxTexts
          /\ texts' = texts + 1
          /\ \E src \in {0, texts'} :
                becomes(t, [req[t] EXCEPT !.pc = "emit", !.fresh = [n |-> texts', src |-> src]])
       \/ becomes(t, Idle) /\ UNCHANGED texts
    /\ fine
    /\ UNCHANGED <<brief, source, anchors, mailed, log, shown, saved, superseded, overlapped, requests, touches>>

-----------------------------------------------------------------------------
(***************************************************************************)
(* Approving (approveBrief): mail, events, the source's status, the row.   *)
(***************************************************************************)
\* Mutant: an approval goes on although a recipient was not reached.
delivered_anyway(sent) == TRUE

delivered(sent) == sent = Officials

\* One send per recipient; if any fails the approval halts after the others.
deliver(t) ==
    /\ at(t, "mail")
    /\ \E sent \in SUBSET Officials :
         /\ mailed' = [o \in Officials |->
                          IF o \in sent THEN [times |-> mailed[o].times + 1, texts |-> mailed[o].texts \cup {req[t].brief.text}]
                          ELSE mailed[o]]
         /\ IF delivered(sent) THEN goto(t, "announce") /\ fine ELSE ends(t)
    /\ UNCHANGED <<brief, source, texts, anchors, log, shown, saved, superseded, overlapped, requests, touches>>

\* outcome_recorded and result_published.
emitBriefResultPublished(t) ==
    /\ at(t, "announce")
    /\ log' = [log EXCEPT !.published = @ + 1]
    /\ goto(t, "finalize")
    /\ rowsKept /\ fine /\ UNCHANGED <<overlapped, requests>>

finalizeBriefSource(t) ==
    /\ at(t, "finalize")
    /\ becomes(t, IF source.status = "finalized" THEN [req[t] EXCEPT !.pc = "save"]
                  ELSE [req[t] EXCEPT !.pc = "finalizeSave", !.source = source.version])
    /\ rowsKept /\ fine /\ UNCHANGED <<log, overlapped, requests>>

finalizeSave(t) ==
    /\ at(t, "finalizeSave")
    /\ IF source.version = req[t].source
       THEN /\ source' = [source EXCEPT !.status = "finalized", !.version = @ + 1]
            /\ goto(t, "save") /\ fine
       ELSE ends(t) /\ UNCHANGED source
    /\ UNCHANGED <<brief, texts, anchors, mailed, log, shown, saved, superseded, overlapped, requests, touches>>

-----------------------------------------------------------------------------
(***************************************************************************)
(* applySourceState: the source takes a published version's summary, and   *)
(* keeps the one it replaces.  Publishing a revision does this before the  *)
(* brief's own write, approving after it.                                  *)
(***************************************************************************)
\* Mutant: an approval brings the source nothing.
brings_revisions(q) == IF q.kind = "publish" THEN q.brief.revision.src ELSE 0

brings(q) == IF q.kind = "publish" THEN q.brief.revision.src ELSE q.brief.owed

afterTake(q) == IF q.kind = "publish" THEN "emit" ELSE "settle"

\* Nothing to take, or already in place.
applySourceState(t) ==
    /\ at(t, "take")
    /\ LET q == req[t] IN
       becomes(t, IF brings(q) \in {0, source.summary} THEN [q EXCEPT !.pc = afterTake(q)]
                  ELSE [q EXCEPT !.pc = "takeSave", !.source = source.version])
    /\ rowsKept /\ fine /\ UNCHANGED <<log, overlapped, requests>>

taken(src) == [source EXCEPT !.summary = src, !.kept = @ \cup {source.summary}, !.version = @ + 1]

takeSave(t) ==
    /\ at(t, "takeSave")
    /\ IF source.version = req[t].source
       THEN /\ source' = taken(brings(req[t]))
            /\ goto(t, afterTake(req[t])) /\ fine
       ELSE ends(t) /\ UNCHANGED source
    /\ UNCHANGED <<brief, texts, anchors, mailed, log, shown, saved, superseded, overlapped, requests, touches>>

-----------------------------------------------------------------------------
(***************************************************************************)
(* The brief's own write.                                                  *)
(***************************************************************************)
emitBriefUpdated(t) ==
    /\ at(t, "emit")
    /\ log' = [log EXCEPT !.updated = @ + 1]
    /\ goto(t, "save")
    /\ rowsKept /\ fine /\ UNCHANGED <<overlapped, requests>>

\* Staged once published; before that it replaces the text, which is kept.
regenerated(b, text) ==
    IF b.pub = "published" THEN [b EXCEPT !.revision = text]
    ELSE [b EXCEPT !.history = @ \cup {b.text}, !.text = text, !.owed = text.src]

\* Mutant: the version a revision replaces is not kept.
published_forgotten(b) == [b EXCEPT !.text = b.revision, !.revision = NoText]

published(b) == [b EXCEPT !.history = @ \cup {b.text}, !.text = b.revision, !.revision = NoText]

\* The row as each request leaves it.
changed(q) ==
    LET b == q.brief IN
    CASE q.kind = "edit" -> [b EXCEPT !.text = q.fresh]
      [] q.kind = "regenerate" -> regenerated(b, q.fresh)
      [] q.kind = "approve" -> [b EXCEPT !.pub = "published", !.deliveredTo = Officials]
      [] q.kind = "publish" -> published(b)
      [] q.kind = "discard" -> [b EXCEPT !.revision = NoText]

\* Mutant: the row is written whatever happened to it since.
unchanged_unchecked(b) == TRUE

unchanged(b) == brief.version = b.version

saveProcessState(t) ==
    /\ at(t, "save")
    /\ LET q == req[t]
           new == [changed(q) EXCEPT !.version = brief.version + 1] IN
       IF unchanged(q.brief)
       THEN /\ brief' = new
            /\ saved' = saved \cup {new.text}
            /\ superseded' = IF q.kind = "edit" THEN superseded \cup {q.brief.text} ELSE superseded
            /\ shown' = IF new.pub = "pending" THEN shown
                        ELSE [first |-> IF q.kind = "approve" THEN {new.text} ELSE shown.first,
                              all |-> shown.all \cup {new.text}]
            /\ log' = [log EXCEPT !.writes = @ + 1]
            /\ becomes(t, IF q.kind = "approve" /\ new.owed # 0 THEN [q EXCEPT !.pc = "take", !.brief = new]
                          ELSE Idle)
            /\ fine
       ELSE ends(t) /\ UNCHANGED <<brief, saved, superseded, shown, log>>
    /\ UNCHANGED <<source, texts, anchors, mailed, overlapped, requests, touches>>

\* applyOnApproval's last write: nothing is owed any more.
settle(t) ==
    /\ at(t, "settle")
    /\ IF unchanged(req[t].brief)
       THEN /\ brief' = [req[t].brief EXCEPT !.owed = 0, !.version = brief.version + 1]
            /\ becomes(t, Idle) /\ fine
       ELSE ends(t) /\ UNCHANGED brief
    /\ UNCHANGED <<source, texts, anchors, mailed, log, shown, saved, superseded, overlapped, requests, touches>>

-----------------------------------------------------------------------------
(***************************************************************************)
(* An official's response.                                                 *)
(***************************************************************************)
\* No card in the last day.
isFeedAnchor == anchors = 0

\* A lookup that fails is taken for no card.
latestAnchorAt(t) ==
    /\ at(t, "anchor")
    /\ \/ becomes(t, [req[t] EXCEPT !.pc = "insert", !.anchor = isFeedAnchor]) /\ fine
       \/ becomes(t, [req[t] EXCEPT !.pc = "insert", !.anchor = TRUE]) /\ broken' = TRUE /\ UNCHANGED spoiled
    /\ rowsKept /\ UNCHANGED <<log, overlapped, requests>>

insertResponse(t) ==
    /\ at(t, "insert")
    /\ anchors' = IF req[t].anchor THEN anchors + 1 ELSE anchors
    /\ becomes(t, Idle)
    /\ fine
    /\ UNCHANGED <<brief, source, texts, mailed, log, shown, saved, superseded, overlapped, requests, touches>>

-----------------------------------------------------------------------------
\* A call fails, or the invocation dies.
Stops(t) ==
    /\ ~at(t, "idle")
    /\ ends(t)
    /\ rowsKept /\ UNCHANGED <<log, overlapped, requests>>

\* Another request writes the source (an edit of it).
TouchSource ==
    /\ touches < MaxTouches
    /\ touches' = touches + 1
    /\ source' = [source EXCEPT !.version = @ + 1]
    /\ UNCHANGED <<brief, req, texts, anchors, mailed, log, shown, saved, superseded, spoiled, overlapped, broken, requests>>

DayPasses ==
    /\ touches < MaxTouches
    /\ touches' = touches + 1
    /\ anchors' = 0
    /\ UNCHANGED <<brief, source, req, texts, mailed, log, shown, saved, superseded, spoiled, overlapped, broken, requests>>

Step(t) ==
    \/ freshContent(t) \/ deliver(t) \/ emitBriefResultPublished(t) \/ finalizeBriefSource(t)
    \/ finalizeSave(t) \/ applySourceState(t) \/ takeSave(t) \/ emitBriefUpdated(t)
    \/ saveProcessState(t) \/ settle(t) \/ latestAnchorAt(t) \/ insertResponse(t)

Next ==
    \/ \E t \in Requests : Step(t) \/ Stops(t) \/ \E kind \in Kinds : Open(t, kind)
    \/ TouchSource
    \/ DayPasses

Spec == Init /\ [][Next]_vars

-----------------------------------------------------------------------------
(***************************************************************************)
(* What must hold.                                                         *)
(***************************************************************************)
Texts == [n : Nat, src : Nat]
BriefRows == [pub : {"pending", "published"}, text : Texts, history : SUBSET Texts, revision : Texts,
              owed : Nat, deliveredTo : SUBSET Officials, version : Nat]
PCs == {"idle", "generate", "mail", "announce", "finalize", "finalizeSave", "take", "takeSave",
        "emit", "save", "settle", "anchor", "insert"}

\* Type correctness; a row always holds a text that was written, and a version
\* waits only behind a published one.
TypeOK ==
    /\ brief \in BriefRows
    /\ brief.text.n \in 1..texts /\ (brief.revision # NoText => brief.pub = "published")
    /\ source.status \in {"closed", "finalized"} /\ source.summary \in 1..texts
    /\ \A t \in Requests : req[t].pc \in PCs /\ req[t].kind \in Kinds

\* Every version is kept: a text the row ever had is its text, is in the
\* history, or was edited by someone who had read it, whatever requests were
\* in flight together.
NothingLost == saved \subseteq brief.history \cup {brief.text} \cup superseded

\* Approvals that have not saved yet.
approving == {t \in Requests : ~at(t, "idle") /\ req[t].kind = "approve" /\ req[t].brief.pub = "pending"}

\* The officials are mailed, and the result announced, once for the approval
\* that publishes and at most once for each one that is refused or cut off;
\* never by a revision ("nobody is emailed again").
MailedPerApproval ==
    LET approvals == spoiled + Cardinality(shown.first) + Cardinality(approving) IN
    /\ \A o \in Officials : mailed[o].times <= approvals
    /\ log.published <= approvals

\* What was published was sent to every official first: no edit and no new
\* version slips in between an approval's mail and its save.
PublishedAsMailed == \A o \in Officials : shown.first \subseteq mailed[o].texts

\* "Each step emits the brief's civic.process.updated": the row never changes
\* without an event, wherever a request is cut off.
NothingSilent == log.writes <= log.updated + log.published

quiet == \A t \in Requests : at(t, "idle")

\* "The process and its brief show one summary" once the brief is published,
\* the process is final, and "the values it replaces are kept on the process":
\* it has, or keeps, the summary of every version that was published, if
\* requests came one at a time and none broke off.
OneSummary ==
    quiet /\ ~overlapped /\ ~broken =>
        /\ \A text \in shown.all : text.src \in {0, source.summary} \cup source.kept
        /\ brief.pub = "published" => /\ brief.text.src \in {0, source.summary}
                                      /\ brief.owed = 0 /\ source.status = "finalized"

\* One card a day for the responses to a brief, if no two requests overlap
\* and no call fails.
OneCardADay == overlapped \/ broken \/ anchors <= 1

=============================================================================
