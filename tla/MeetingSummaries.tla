-------------------------- MODULE MeetingSummaries --------------------------
(***************************************************************************)
(* The meeting-summary job and the admins who review what it writes.       *)
(*                                                                         *)
(* The meetings of one date that share one title (the hard case of the     *)
(* job's matching) get documents over time.  A run reads the source, then  *)
(* the summaries, then the archived ones, and works from what it read: it  *)
(* creates a summary for a meeting that has none and writes a better one   *)
(* when more documents appear.  Admins edit, approve, archive and restore  *)
(* the same rows meanwhile.  Every write of a row that was read is refused *)
(* if the row changed since (saveProcessState, transition_process).        *)
(***************************************************************************)
EXTENDS Naturals, Sequences, FiniteSets

CONSTANTS
    MeetingCount,   \* meetings of the date and title, in the order the source lists them
    Runs,           \* runs of the job that can be under way
    Requests,       \* admin requests that can be in flight
    Kinds,          \* the kinds of admin request made
    Cap,            \* maxPerRun: summaries written in a run
    Legacy,         \* a summary of the first meeting from before the readiness rules may exist
    MaxRows,        \* bound: summaries created
    MaxTexts,       \* bound: texts written
    MaxRequests     \* bound: admin requests made

Meetings == 1..MeetingCount

AdminKinds == {"edit", "approve", "confirm", "accept", "acceptConfirmed", "discard", "archive", "restore"}

ASSUME SummariesAssumption ==
    /\ MeetingCount \in Nat \ {0} /\ Cap \in Nat \ {0} /\ Legacy \in BOOLEAN
    /\ Kinds \subseteq AdminKinds
    /\ MaxRows \in Nat \ {0} /\ MaxTexts \in Nat /\ MaxRequests \in Nat

DocKinds == {"agenda", "video", "minutes"}

VARIABLES
    docs,       \* the documents the source lists for each meeting
    scheme,     \* the connector in use: it makes the source ids
    happened,   \* the date is past
    graceOver,  \* the grace period for a transcript is over
    autoPublish,\* the hub's setting
    rows,       \* the summaries, in the order they were created
    job,        \* the runs under way
    req,        \* the admin requests in flight
    texts,      \* how many texts were written: each one's number
    confirmed,  \* history: the texts an admin published although flagged
    cards,      \* history: the summaries whose publication was announced
    raced,      \* history: two runs overlapped, or a summary came back from the archive during one
    requests     \* how many admin requests were made

world == <<docs, scheme, happened, graceOver, autoPublish>>
vars == <<world, rows, job, req, texts, confirmed, cards, raced, requests>>

-----------------------------------------------------------------------------
(***************************************************************************)
(* A summary.  Its documents are pairs of a meeting and a kind, which is   *)
(* what its fingerprints tell (identity.ts).                               *)
(***************************************************************************)
NoText == 0

\* A text: its number, the documents it was written from and the kind that
\* counts, whether it has timestamps, is flagged, and predates its meeting.
Text(n, from, type, stamps, flag, early) ==
    [n |-> n, docs |-> from, type |-> type, stamps |-> stamps, flag |-> flag, early |-> early]

NoRevision == Text(NoText, {}, "minutes", FALSE, FALSE, FALSE)

\* createMeetingSummaryState, through initializeState, which passes no flag on.
newSummary(m, src, text) ==
    [made |-> m, src |-> src, now |-> [text EXCEPT !.flag = FALSE], approval |-> "pending",
     archived |-> FALSE, edited |-> FALSE, revision |-> NoRevision, version |-> 0]

has(text, kind) == \E m \in Meetings : <<m, kind>> \in text.docs

UPGRADEABLE_SOURCE_TYPES == {"agenda", "recording"}

isProvisional(row) == row.now.type \in UPGRADEABLE_SOURCE_TYPES

\* Mutant: the stored flag only.
effectiveQualityFlag_stored(text) == text.flag

\* The stored flag, or what a video and no timestamp say.
effectiveQualityFlag(text) == text.flag \/ (has(text, "video") /\ ~text.stamps)

\* A summary written from the agenda before its meeting, and published.
legacySummary ==
    [newSummary(1, <<1, 1>>, Text(1, {<<1, "agenda">>, <<1, "video">>}, "agenda", FALSE, FALSE, TRUE))
        EXCEPT !.approval = "published"]

IdleRun == [pc |-> "idle", entries |-> [m \in Meetings |-> {}], scheme |-> 1, happened |-> FALSE,
            graceOver |-> FALSE, seen |-> <<>>, asRead |-> <<>>, listed |-> {}, gone |-> {}, slots |-> 0,
            at |-> 1, written |-> 0, row |-> 0]

IdleRequest == [pc |-> "idle", kind |-> "edit", row |-> 0, read |-> legacySummary]

Init ==
    /\ scheme = 1 /\ happened \in BOOLEAN /\ graceOver = FALSE
    /\ autoPublish \in BOOLEAN
    /\ \/ docs = [m \in Meetings |-> {}] /\ rows = <<>> /\ texts = 0
       \/ /\ Legacy
          /\ docs = [m \in Meetings |-> IF m = 1 THEN {"agenda", "video"} ELSE {}]
          /\ \E archived \in BOOLEAN : rows = <<[legacySummary EXCEPT !.archived = archived]>>
          /\ texts = 1
    /\ job = [r \in Runs |-> IdleRun]
    /\ req = [t \in Requests |-> IdleRequest]
    /\ confirmed = {} /\ cards = {} /\ raced = FALSE
    /\ requests = 0

-----------------------------------------------------------------------------
(***************************************************************************)
(* Writes.                                                                 *)
(***************************************************************************)
\* Mutant: the row is written whatever happened to it since.
unchanged_unchecked(id, read) == TRUE

\* The version a writer read is still the row's.
unchanged(id, read) == rows[id].version = read.version

\* The write takes effect.
written(id, new) == rows' = [rows EXCEPT ![id] = [new EXCEPT !.version = rows[id].version + 1]]

-----------------------------------------------------------------------------
(***************************************************************************)
(* The job: reading.                                                       *)
(***************************************************************************)
in(r, pc) == job[r].pc = pc

\* Documents, mode and clock as the run finds them.
Discover(r) ==
    /\ in(r, "idle")
    /\ job' = [job EXCEPT ![r] = [IdleRun EXCEPT !.pc = "all", !.entries = docs, !.scheme = scheme,
                                                 !.happened = happened, !.graceOver = graceOver]]
    /\ raced' = (raced \/ \E other \in Runs \ {r} : ~in(other, "idle"))
    /\ UNCHANGED <<world, rows, req, texts, confirmed, cards, requests>>

live == {id \in DOMAIN rows : ~rows[id].archived}

\* Mutant: the archive is not read.
removed_unread == {}

removed == {id \in DOMAIN rows : rows[id].archived}

getAllProcesses(r) ==
    /\ in(r, "all")
    /\ job' = [job EXCEPT ![r].pc = "archived",
                          ![r].seen = [id \in live |-> rows[id]]]
    /\ UNCHANGED <<world, rows, req, texts, confirmed, cards, raced, requests>>

\* A row archived between the two reads is read, and counted, twice.  The maps
\* that match entries to rows are built here, once: the run changes the rows it
\* holds (seen), but goes on matching by what they were (asRead).
getArchivedProcesses(r) ==
    /\ in(r, "archived")
    /\ LET first == job[r].seen
           gone == removed
           all == [id \in DOMAIN first \cup gone |-> IF id \in DOMAIN first THEN first[id] ELSE rows[id]] IN
       job' = [job EXCEPT ![r].pc = "create",
                          ![r].listed = DOMAIN first,
                          ![r].gone = gone,
                          ![r].seen = all,
                          ![r].asRead = all,
                          ![r].slots = Cardinality(DOMAIN first) + Cardinality(gone)]
    /\ UNCHANGED <<world, rows, req, texts, confirmed, cards, raced, requests>>

-----------------------------------------------------------------------------
(***************************************************************************)
(* The job: which summary an entry belongs to.                             *)
(***************************************************************************)
sourceId(q) == <<q.at, q.scheme>>

entry(q) == q.entries[q.at]

newestOf(ids) == CHOOSE id \in ids : \A other \in ids : other <= id
oldestOf(ids) == CHOOSE id \in ids : \A other \in ids : id <= other

\* The summaries built from this document: the newest listed one counts, then
\* the archived ones.
builtFrom(q, kind) ==
    LET hits == {id \in DOMAIN q.seen : <<q.at, kind>> \in q.asRead[id].now.docs} IN
    CASE kind \notin entry(q) \/ hits = {} -> {}
      [] kind \in entry(q) /\ hits \cap q.listed # {} -> {newestOf(hits \cap q.listed)}
      [] OTHER -> {newestOf(hits)}

\* Minutes, agenda and recording are looked up in this order.
existingByDocuments(q) ==
    CASE builtFrom(q, "minutes") # {} -> builtFrom(q, "minutes")
      [] builtFrom(q, "minutes") = {} /\ builtFrom(q, "agenda") # {} -> builtFrom(q, "agenda")
      [] OTHER -> builtFrom(q, "video")

provisional(q) == {id \in DOMAIN q.seen \ q.gone : isProvisional(q.asRead[id])}

\* The one with this source id, or the only one of the date and title.
provisionalFor(q) ==
    LET exact == {id \in provisional(q) : q.asRead[id].src = sourceId(q)} IN
    CASE exact # {} -> {oldestOf(exact)}
      [] exact = {} /\ Cardinality(provisional(q)) = 1 -> provisional(q)
      [] OTHER -> {}

\* Some summary has this id, these documents, or this date and title.
isCovered(q) ==
    \/ \E id \in DOMAIN q.seen : q.asRead[id].src = sourceId(q)
    \/ provisionalFor(q) # {}
    \/ existingByDocuments(q) # {}

-----------------------------------------------------------------------------
(***************************************************************************)
(* The job: writing a text (summarizeMeeting).                             *)
(***************************************************************************)
sourceType(kinds) ==
    CASE "minutes" \in kinds -> "minutes"
      [] "minutes" \notin kinds /\ "agenda" \in kinds -> "agenda"
      [] OTHER -> "recording"

\* What the transcript and the model may give: <<timestamps, flag>>.  Nothing:
\* the meeting is not ready, and waits.
outcomes(q) ==
    LET kinds == entry(q) IN
    CASE "video" \notin kinds -> IF sourceType(kinds) = "minutes" THEN {<<FALSE, FALSE>>} ELSE {}
      [] "video" \in kinds -> {<<TRUE, FALSE>>, <<FALSE, TRUE>>}

\* With a recording, the transcript may be unusable: only minutes past the
\* grace period go ahead without it, flagged (an outcome listed above).
mayWait(q) ==
    \/ outcomes(q) = {}
    \/ "video" \in entry(q) /\ ~(sourceType(entry(q)) = "minutes" /\ q.graceOver)

textOf(q, o) ==
    Text(texts + 1, {<<q.at, kind>> : kind \in entry(q)}, sourceType(entry(q)), o[1], o[2], ~q.happened)

-----------------------------------------------------------------------------
(***************************************************************************)
(* The job: the create pass.                                               *)
(***************************************************************************)
advanced(q) == [q EXCEPT !.at = @ + 1]

onEntry(r, pc) ==
    /\ in(r, pc)
    /\ job[r].at <= MeetingCount /\ job[r].written < Cap

\* No entry left, or the cap reached: on to the upgrade pass, or done.
PassEnds(r) ==
    /\ \/ /\ in(r, "create") /\ ~onEntry(r, "create")
          /\ job' = [job EXCEPT ![r].pc = "upgrade", ![r].at = 1]
       \/ /\ in(r, "upgrade") /\ ~onEntry(r, "upgrade")
          /\ job' = [job EXCEPT ![r] = IdleRun]
    /\ UNCHANGED <<world, rows, req, texts, confirmed, cards, raced, requests>>

\* Not listed, not held yet, or covered; a summary that nothing else claims
\* covers one entry of its date and title.
needsSummary(q) == q.happened /\ entry(q) # {} /\ ~isCovered(q) /\ q.slots = 0

SkipEntry(r) ==
    /\ onEntry(r, "create")
    /\ ~needsSummary(job[r])
    /\ LET q == job[r]
           claims == q.happened /\ entry(q) # {} /\ q.slots > 0 IN
       job' = [job EXCEPT ![r] = [advanced(q) EXCEPT !.slots = IF claims THEN @ - 1 ELSE @]]
    /\ UNCHANGED <<world, rows, req, texts, confirmed, cards, raced, requests>>

WaitForRecord(r) ==
    /\ onEntry(r, "create")
    /\ needsSummary(job[r]) /\ mayWait(job[r])
    /\ job' = [job EXCEPT ![r] = advanced(@)]
    /\ UNCHANGED <<world, rows, req, texts, confirmed, cards, raced, requests>>

\* createProcess.  With auto-publish the approval follows, which refuses a
\* flagged summary: the row stays, and does not count against the cap.
CreateSummary(r) ==
    /\ onEntry(r, "create")
    /\ needsSummary(job[r])
    /\ Len(rows) < MaxRows
    /\ \E o \in outcomes(job[r]) :
         LET q == job[r]
             row == newSummary(q.at, sourceId(q), textOf(q, o)) IN
         /\ rows' = Append(rows, row)
         /\ texts' = texts + 1
         /\ job' = [job EXCEPT ![r] =
              CASE ~autoPublish -> [advanced(q) EXCEPT !.written = @ + 1]
                [] autoPublish /\ effectiveQualityFlag(row.now) -> advanced(q)
                [] OTHER -> [q EXCEPT !.pc = "announce", !.row = Len(rows')]]
    /\ UNCHANGED <<world, req, confirmed, cards, raced, requests>>

\* result_published is emitted before the row is saved.
AnnounceNew(r) ==
    /\ in(r, "announce")
    /\ cards' = cards \cup {job[r].row}
    /\ job' = [job EXCEPT ![r].pc = "publish"]
    /\ UNCHANGED <<world, rows, req, texts, confirmed, raced, requests>>

PublishNew(r) ==
    /\ in(r, "publish")
    /\ LET q == job[r]
           next == [advanced(q) EXCEPT !.pc = "create"] IN
       IF unchanged(q.row, [version |-> 0])
       THEN /\ written(q.row, [rows[q.row] EXCEPT !.approval = "published"])
            /\ job' = [job EXCEPT ![r] = [next EXCEPT !.written = @ + 1]]
       ELSE /\ job' = [job EXCEPT ![r] = next]
            /\ UNCHANGED rows
    /\ UNCHANGED <<world, req, texts, confirmed, cards, raced, requests>>

-----------------------------------------------------------------------------
(***************************************************************************)
(* The job: the upgrade pass.                                              *)
(***************************************************************************)
\* Mutant: the minutes are not looked for.
offersNewSources_videoOnly(q, row) == "video" \in entry(q) /\ ~has(row.now, "video")

offersNewSources(q, row) == \E kind \in entry(q) : ~has(row.now, kind)

\* The summary of the documents if it still is provisional, or else provisionalFor.
toUpgrade(q) ==
    LET byDocs == {id \in existingByDocuments(q) : isProvisional(q.seen[id])} IN
    IF byDocs # {} THEN byDocs ELSE provisionalFor(q)

retryFlagged(q, row) == effectiveQualityFlag(row.now) /\ "video" \in entry(q) /\ ~q.graceOver

\* Bound: once MaxTexts were written, none is written again from the same documents.
retries == texts < MaxTexts

\* New documents, a text that predates its meeting, or a flagged one to try again.
isDue(q, row) ==
    /\ row.revision = NoRevision
    /\ offersNewSources(q, row) \/ (retries /\ (row.now.early \/ retryFlagged(q, row)))

due(q) ==
    IF entry(q) \cap {"minutes", "video"} = {} THEN {}
    ELSE {id \in toUpgrade(q) : isDue(q, q.seen[id])}

\* Mutant: an edit protects nothing.
editedAndUnpublished_never(row) == FALSE

editedAndUnpublished(row) == row.edited /\ row.approval # "published"

NothingDue(r) ==
    /\ onEntry(r, "upgrade")
    /\ due(job[r]) = {}
    /\ job' = [job EXCEPT ![r] = advanced(@)]
    /\ UNCHANGED <<world, rows, req, texts, confirmed, cards, raced, requests>>

\* An edited summary gets the minutes' link and keeps its text.  A refused
\* save here ends the whole run.
AttachMinutes(r) ==
    /\ onEntry(r, "upgrade")
    /\ \E id \in due(job[r]) :
         LET q == job[r]
             row == q.seen[id]
             link == <<q.at, "minutes">>
             new == [row EXCEPT !.now.docs = {d \in @ : d[2] # "minutes"} \cup {link}] IN
         /\ editedAndUnpublished(row)
         /\ CASE "minutes" \notin entry(q) \/ link \in row.now.docs ->
                   job' = [job EXCEPT ![r] = advanced(q)] /\ UNCHANGED rows
              [] "minutes" \in entry(q) /\ link \notin row.now.docs /\ unchanged(id, row) ->
                   /\ written(id, new)
                   /\ job' = [job EXCEPT ![r] = [advanced(q) EXCEPT !.seen[id] = rows'[id]]]
              [] OTHER -> job' = [job EXCEPT ![r] = IdleRun] /\ UNCHANGED rows
    /\ UNCHANGED <<world, req, texts, confirmed, cards, raced, requests>>

UpgradeWaits(r) ==
    /\ onEntry(r, "upgrade")
    /\ \E id \in due(job[r]) : ~editedAndUnpublished(job[r].seen[id])
    /\ mayWait(job[r])
    /\ job' = [job EXCEPT ![r] = advanced(@)]
    /\ UNCHANGED <<world, rows, req, texts, confirmed, cards, raced, requests>>

\* A published summary gets a revision to review; another is replaced and
\* stays in review.
upgraded(row, src, text) ==
    IF row.approval = "published"
    THEN [row EXCEPT !.revision = text]
    ELSE [row EXCEPT !.src = src, !.now = text, !.approval = "pending"]

\* The row as read is changed in memory, then saved; a refused save leaves the
\* changed copy for the entries that follow.
UpgradeSummary(r) ==
    /\ onEntry(r, "upgrade")
    /\ \E id \in due(job[r]), o \in outcomes(job[r]) :
         LET q == job[r]
             row == q.seen[id]
             new == upgraded(row, sourceId(q), textOf(q, o)) IN
         /\ ~editedAndUnpublished(row)
         /\ texts' = texts + 1
         /\ IF unchanged(id, row)
            THEN /\ written(id, new)
                 /\ job' = [job EXCEPT ![r] = [advanced(q) EXCEPT !.seen[id] = rows'[id],
                                                                  !.written = @ + 1]]
            ELSE /\ job' = [job EXCEPT ![r] = [advanced(q) EXCEPT !.seen[id] = new]]
                 /\ UNCHANGED rows
    /\ UNCHANGED <<world, req, confirmed, cards, raced, requests>>

\* A fetch, the model or a write fails: the meeting is left for the next run.
EntryFails(r) ==
    /\ job[r].pc \in {"create", "upgrade", "announce", "publish"}
    /\ job[r].at <= MeetingCount
    /\ job' = [job EXCEPT ![r] = [advanced(job[r]) EXCEPT !.pc = IF @ = "upgrade" THEN @ ELSE "create"]]
    /\ UNCHANGED <<world, rows, req, texts, confirmed, cards, raced, requests>>

RunDies(r) ==
    /\ ~in(r, "idle")
    /\ job' = [job EXCEPT ![r] = IdleRun]
    /\ UNCHANGED <<world, rows, req, texts, confirmed, cards, raced, requests>>

-----------------------------------------------------------------------------
(***************************************************************************)
(* The admins' requests.  Each reads the row, decides, and saves.          *)
(***************************************************************************)
\* What each kind of request refuses.
mayStart(kind, row) ==
    CASE kind = "edit" -> row.approval = "pending"
      [] kind = "approve" -> row.approval = "pending" /\ ~effectiveQualityFlag(row.now)
      [] kind = "confirm" -> row.approval = "pending"
      [] kind = "accept" -> row.revision # NoRevision /\ ~row.revision.flag
      [] kind \in {"acceptConfirmed", "discard"} -> row.revision # NoRevision
      [] kind = "archive" -> ~row.archived
      [] kind = "restore" -> row.archived

Open(t, kind, id) ==
    /\ req[t].pc = "idle"
    /\ kind \in Kinds
    /\ requests < MaxRequests
    /\ requests' = requests + 1
    /\ mayStart(kind, rows[id])
    /\ req' = [req EXCEPT ![t] = [pc |-> IF kind \in {"approve", "confirm"} THEN "announce" ELSE "save",
                                  kind |-> kind, row |-> id, read |-> rows[id]]]
    /\ UNCHANGED <<world, rows, job, texts, confirmed, cards, raced>>

\* approveMeetingSummary emits result_published; the caller saves after it.
Announce(t) ==
    /\ req[t].pc = "announce"
    /\ cards' = cards \cup {req[t].row}
    /\ req' = [req EXCEPT ![t].pc = "save"]
    /\ UNCHANGED <<world, rows, job, texts, confirmed, raced, requests>>

\* editMeetingSummary: a text of the admin's, with or without timestamps.
edited(row, stamps) ==
    [row EXCEPT !.edited = TRUE, !.now.n = texts + 1, !.now.stamps = stamps,
                !.now.flag = @ /\ ~stamps]

\* The row as each request would leave it.  An approval sets the row's status,
\* an archived row's too.
outcome(q, stamps) ==
    LET row == q.read IN
    CASE q.kind = "edit" -> edited(row, stamps)
      [] q.kind \in {"approve", "confirm"} -> [row EXCEPT !.approval = "published", !.archived = FALSE]
      [] q.kind \in {"accept", "acceptConfirmed"} ->
           [row EXCEPT !.now = row.revision, !.revision = NoRevision]
      [] q.kind = "discard" -> [row EXCEPT !.revision = NoRevision]
      [] q.kind = "archive" -> [row EXCEPT !.archived = TRUE]
      [] q.kind = "restore" -> [row EXCEPT !.archived = FALSE]

midRun == \E r \in Runs : ~in(r, "idle")

Save(t) ==
    /\ req[t].pc = "save"
    /\ LET q == req[t] IN
       IF unchanged(q.row, q.read)
       THEN \E stamps \in IF q.kind = "edit" THEN BOOLEAN ELSE {FALSE} :
              /\ written(q.row, outcome(q, stamps))
              /\ texts' = IF q.kind = "edit" THEN texts + 1 ELSE texts
              /\ confirmed' = IF q.kind \in {"confirm", "acceptConfirmed"}
                              THEN confirmed \cup {rows'[q.row].now.n} ELSE confirmed
              /\ raced' = (raced \/ (midRun /\ rows[q.row].archived /\ ~rows'[q.row].archived))
       ELSE UNCHANGED <<rows, texts, confirmed, raced>>
    /\ req' = [req EXCEPT ![t] = IdleRequest]
    /\ UNCHANGED <<world, job, cards, requests>>

RequestDies(t) ==
    /\ req[t].pc # "idle"
    /\ req' = [req EXCEPT ![t] = IdleRequest]
    /\ UNCHANGED <<world, rows, job, texts, confirmed, cards, raced, requests>>

-----------------------------------------------------------------------------
(***************************************************************************)
(* The world.                                                              *)
(***************************************************************************)
Post(m, kind) ==
    /\ kind \notin docs[m]
    /\ docs' = [docs EXCEPT ![m] = @ \cup {kind}]
    /\ UNCHANGED <<scheme, happened, graceOver, autoPublish, rows, job, req, texts, confirmed, cards, raced, requests>>

ChangeConnector ==
    /\ scheme = 1
    /\ scheme' = 2
    /\ UNCHANGED <<docs, happened, graceOver, autoPublish, rows, job, req, texts, confirmed, cards, raced, requests>>

DaysPass ==
    /\ ~graceOver
    /\ happened' = TRUE
    /\ graceOver' = happened
    /\ UNCHANGED <<docs, scheme, autoPublish, rows, job, req, texts, confirmed, cards, raced, requests>>

RunStep(r) ==
    \/ getAllProcesses(r) \/ getArchivedProcesses(r) \/ PassEnds(r)
    \/ SkipEntry(r) \/ WaitForRecord(r) \/ CreateSummary(r) \/ AnnounceNew(r) \/ PublishNew(r)
    \/ NothingDue(r) \/ AttachMinutes(r) \/ UpgradeWaits(r) \/ UpgradeSummary(r)

Next ==
    \/ \E r \in Runs : Discover(r) \/ RunStep(r) \/ EntryFails(r) \/ RunDies(r)
    \/ \E t \in Requests :
         \/ \E kind \in AdminKinds, id \in DOMAIN rows : Open(t, kind, id)
         \/ Announce(t) \/ Save(t) \/ RequestDies(t)
    \/ \E m \in Meetings, kind \in DocKinds : Post(m, kind)
    \/ ChangeConnector
    \/ DaysPass

Spec == Init /\ [][Next]_vars

\* A failure that leaves the run elsewhere than its own code would.
Cut(r) == (EntryFails(r) \/ RunDies(r)) /\ ~RunStep(r)

\* The scheduler calls the job every day, a run that is not cut off ends, and
\* not every run is cut off.
LiveSpec ==
    /\ Spec
    /\ \A r \in Runs : WF_vars(Discover(r)) /\ WF_vars(RunStep(r))
    /\ <>[][\A r \in Runs : ~Cut(r)]_vars

-----------------------------------------------------------------------------
(***************************************************************************)
(* What must hold.                                                         *)
(***************************************************************************)
Texts == [n : Nat, docs : SUBSET (Meetings \X DocKinds), type : UPGRADEABLE_SOURCE_TYPES \cup {"minutes"},
          stamps : BOOLEAN, flag : BOOLEAN, early : BOOLEAN]

SummaryRows == [made : Meetings, src : Meetings \X {1, 2}, now : Texts, approval : {"pending", "published"},
                archived : BOOLEAN, edited : BOOLEAN, revision : Texts, version : Nat]

\* Type correctness: the rows, and what runs and requests hold of them.  A
\* text that is the row's, in review or not, has a number that was given out.
TypeOK ==
    /\ docs \in [Meetings -> SUBSET DocKinds] /\ scheme \in {1, 2}
    /\ rows \in Seq(SummaryRows)
    /\ \A id \in DOMAIN rows : rows[id].now.n \in 1..texts /\ rows[id].revision.n \in 0..texts
    /\ \A r \in Runs : \A id \in DOMAIN job[r].seen : job[r].seen[id] \in SummaryRows
    /\ \A r \in Runs : \A id \in DOMAIN job[r].asRead : job[r].asRead[id] \in SummaryRows
    /\ \A r \in Runs : job[r].slots \in 0..2 * MaxRows /\ job[r].written \in 0..Cap
    /\ \A t \in Requests : req[t].read \in SummaryRows
    /\ cards \subseteq DOMAIN rows /\ confirmed \subseteq 1..texts

\* "An admin who edited a summary owns its wording": while it is in review,
\* only an admin's own request changes an edited text, although a run may have
\* read the row before the edit.  And a page that residents have links to never
\* goes dark: once published, a summary is never sent back to review.
EditsKept ==
    [][\A id \in DOMAIN rows :
          /\ rows[id].edited /\ rows[id].approval = "pending" /\ rows'[id].now.n # rows[id].now.n => req' # req
          /\ rows[id].approval = "published" => rows'[id].approval = "published"]_vars

\* "A flagged summary is published only by someone who has seen the flag": a
\* public text with a video and no timestamp was confirmed by an admin, though
\* the flag is not stored with a new summary.  (A summary from before the
\* rules is as it was.)
FlaggedNeedsConfirm ==
    \A id \in DOMAIN rows :
        LET text == rows[id].now IN
        rows[id].approval = "published" /\ has(text, "video") /\ ~text.stamps =>
            text.n \in confirmed \/ (text.early /\ ~text.flag)

\* "The delete must stick": a meeting is summarized once, an archived summary
\* included, through connector changes and new documents, unless two runs
\* overlap or a summary comes back from the archive while one reads.
OneSummary == raced \/ \A m \in Meetings : Cardinality({id \in DOMAIN rows : rows[id].made = m}) <= 1

\* The same without exception, as getArchivedProcesses's caller says of an
\* archived summary: "the meeting is not summarized again".  One restored
\* between the run's two reads is in neither.
NotSummarizedAgain ==
    \A m \in Meetings : Cardinality({id \in DOMAIN rows : rows[id].made = m}) <= 1

reachedBy(m, link) ==
    \E id \in DOMAIN rows :
        /\ rows[id].made = m
        /\ rows[id].archived \/ rows[id].revision # NoRevision \/ link \in rows[id].now.docs

\* Minutes that are posted reach the meeting's summary, as its text, as the
\* link on an edited one or as a revision to review, although runs are cut
\* off and their saves refused, unless an admin archived the summary or left
\* an earlier revision unreviewed.
MinutesArrive ==
    \A m \in Meetings : [](happened /\ graceOver /\ "minutes" \in docs[m] => <>reachedBy(m, <<m, "minutes">>))

\* What the matching in job.ts is for ("picking either arbitrarily would
\* overwrite a real summary with another meeting's content"): a summary's text
\* is about the meeting it was made for.
AboutItsMeeting ==
    \A id \in DOMAIN rows : \A d \in rows[id].now.docs \cup rows[id].revision.docs : d[1] = rows[id].made

\* What job.ts says of an archived summary ("it is never upgraded").
ArchivedNotUpgraded ==
    [][\A id \in DOMAIN rows : rows[id].archived /\ req' = req => rows'[id] = rows[id]]_vars

\* What the run's last check verifies ("every published card still resolves"),
\* once nobody is in the middle of publishing.
EveryCardResolves ==
    \A id \in cards :
        \/ rows[id].approval = "published" \/ rows[id].archived
        \/ \E t \in Requests : req[t].pc # "idle" /\ req[t].row = id
        \/ \E r \in Runs : in(r, "publish") /\ job[r].row = id

=============================================================================
