----------------------- MODULE MeetingSummaries_proofs -----------------------
(***************************************************************************)
(* Proofs about MeetingSummaries: for any documents, runs of the job and   *)
(* requests of admins, however they overlap, are refused or are cut off.   *)
(***************************************************************************)
EXTENDS MeetingSummaries, SequenceTheorems, FiniteSetTheorems, WellFoundedInduction, TLAPS

SeenMaps == UNION {[D -> SummaryRows] : D \in SUBSET (1..MaxRows)}

RunRecs ==
    [pc : {"idle", "all", "archived", "create", "announce", "publish", "upgrade"},
     entries : [Meetings -> SUBSET DocKinds], scheme : {1, 2}, happened : BOOLEAN, graceOver : BOOLEAN,
     seen : SeenMaps, asRead : SeenMaps, listed : SUBSET (1..MaxRows), gone : SUBSET (1..MaxRows),
     slots : 0..2 * MaxRows, at : Nat \ {0}, written : 0..Cap, row : 0..MaxRows]

ReqRecs == [pc : {"idle", "announce", "save"}, kind : AdminKinds, row : 0..MaxRows, read : SummaryRows]

\* A row's texts have numbers that were given out.
RowOK(row, n) ==
    /\ row \in SummaryRows
    /\ row.now.n \in 1..n /\ row.revision.n \in 0..n
    /\ row.revision # NoRevision => row.revision.n # NoText

WorldOK ==
    /\ docs \in [Meetings -> SUBSET DocKinds] /\ scheme \in {1, 2}
    /\ happened \in BOOLEAN /\ graceOver \in BOOLEAN /\ autoPublish \in BOOLEAN
    /\ texts \in Nat

RowsOK ==
    /\ rows \in Seq(SummaryRows) /\ Len(rows) <= MaxRows
    /\ \A id \in DOMAIN rows : RowOK(rows[id], texts)
    /\ cards \subseteq DOMAIN rows /\ confirmed \subseteq 1..texts

\* A run that publishes is below the cap; a request is one its row, as read, allows.
RunsOK ==
    /\ job \in [Runs -> RunRecs]
    /\ \A r \in Runs : job[r].pc \in {"announce", "publish"} => job[r].row \in DOMAIN rows /\ job[r].written < Cap

RequestsOK ==
    /\ req \in [Requests -> ReqRecs]
    /\ \A t \in Requests :
          req[t].pc # "idle" => req[t].row \in DOMAIN rows /\ mayStart(req[t].kind, req[t].read)

TypeInv == WorldOK /\ RowsOK /\ RunsOK /\ RequestsOK

\* A copy of a row is of an earlier version, or is the row.
Follows(copy, row) == copy.version <= row.version /\ (copy.version = row.version => copy = row)

\* What runs and requests hold of the rows are such copies, also those a run changed
\* and could not save.
VersionInv ==
    /\ \A r \in Runs : \A id \in DOMAIN job[r].seen : id \in DOMAIN rows /\ Follows(job[r].seen[id], rows[id])
    /\ \A t \in Requests : req[t].pc # "idle" => Follows(req[t].read, rows[req[t].row])

\* A revision's own flag says what a video and no timestamps say, and what the job is
\* about to publish, if nothing happened to it, is not flagged.
FlagInv ==
    /\ FlaggedNeedsConfirm
    /\ \A id \in DOMAIN rows :
          LET text == rows[id].revision IN has(text, "video") /\ ~text.stamps => text.flag
    /\ \A r \in Runs : job[r].pc \in {"announce", "publish"} /\ rows[job[r].row].version = 0 =>
          ~effectiveQualityFlag(rows[job[r].row].now)

\* One meeting: a run that is alone has read every row, and counts one against the
\* first entry before it creates any.
OneInv ==
    ~raced =>
        /\ \A r, s \in Runs : in(r, "idle") \/ in(s, "idle") \/ r = s
        /\ \A r \in Runs : in(r, "archived") =>
              \A id \in DOMAIN rows : id \in DOMAIN job[r].seen \/ rows[id].archived
        /\ \A r \in Runs : in(r, "create") /\ job[r].at = 1 /\ rows # <<>> => job[r].slots > 0
        /\ Len(rows) <= 1

-----------------------------------------------------------------------------
(***************************************************************************)
(* The newest and the oldest of some rows.                                 *)
(***************************************************************************)
LEMMA HasLeast ==
    ASSUME NEW S \in SUBSET Nat, S # {}
    PROVE  \E x \in S : \A y \in S : x <= y
<1> DEFINE R == {ss \in Nat \X Nat : ss[1] < ss[2]}
<1>1. IsWellFoundedOn(R, Nat)
  BY NatLessThanWellFounded DEF OpToRel
<1>2. PICK x \in S : \A y \in S : ~(<<y, x>> \in R)
  BY <1>1, WFMin
<1>3. \A y \in S : ~(y < x)
  BY <1>2
<1> QED
  BY <1>3

LEMMA HasGreatest ==
    ASSUME NEW n \in Nat, NEW S \in SUBSET (1..n), S # {}
    PROVE  \E x \in S : \A y \in S : y <= x
<1> DEFINE T == {n - i : i \in S}
<1>1. T \in SUBSET Nat
  OBVIOUS
<1>2. T # {}
  <2>1. PICK i \in S : TRUE
    OBVIOUS
  <2>2. n - i \in T
    BY <2>1
  <2> QED
    BY <2>2
<1>3. \A y \in S : n - y \in T
  OBVIOUS
<1>4. \A t \in T : \E x \in S : t = n - x
  OBVIOUS
<1> HIDE DEF T
<1>5. PICK t \in T : \A u \in T : t <= u
  BY <1>1, <1>2, HasLeast
<1>6. PICK x \in S : t = n - x
  BY <1>4, <1>5
<1>7. \A y \in S : n - x <= n - y
  BY <1>3, <1>5, <1>6
<1> QED
  BY <1>7

LEMMA NewestIs ==
    ASSUME NEW S \in SUBSET (1..MaxRows), S # {}
    PROVE  newestOf(S) \in S
<1>1. \E x \in S : \A y \in S : y <= x
  BY HasGreatest, SummariesAssumption
<1> QED
  BY <1>1 DEF newestOf

LEMMA OldestIs ==
    ASSUME NEW S \in SUBSET (1..MaxRows), S # {}
    PROVE  oldestOf(S) \in S
<1>1. S \in SUBSET Nat
  BY SummariesAssumption
<1>2. \E x \in S : \A y \in S : x <= y
  BY <1>1, HasLeast
<1> QED
  BY <1>2 DEF oldestOf

-----------------------------------------------------------------------------
(***************************************************************************)
(* Texts, rows and the records of runs and requests.                       *)
(***************************************************************************)
LEMMA MeetingsAre == MeetingCount \in Nat \ {0} /\ 1 \in Meetings /\ \A m \in Meetings : m \in Nat
BY SummariesAssumption DEF Meetings

LEMMA TextIs ==
    ASSUME NEW n \in Nat, NEW from \in SUBSET (Meetings \X DocKinds),
           NEW type \in UPGRADEABLE_SOURCE_TYPES \cup {"minutes"},
           NEW stamps \in BOOLEAN, NEW flag \in BOOLEAN, NEW early \in BOOLEAN
    PROVE  /\ Text(n, from, type, stamps, flag, early) \in Texts
           /\ Text(n, from, type, stamps, flag, early).n = n
           /\ Text(n, from, type, stamps, flag, early).docs = from
           /\ Text(n, from, type, stamps, flag, early).stamps = stamps
           /\ Text(n, from, type, stamps, flag, early).flag = flag
           /\ Text(n, from, type, stamps, flag, early).early = early
BY DEF Text, Texts

LEMMA NoRevisionIs == NoRevision \in Texts /\ NoRevision.n = 0 /\ NoRevision.docs = {}
BY DEF NoRevision, NoText, Text, Texts, UPGRADEABLE_SOURCE_TYPES

LEMMA NewSummaryIs ==
    ASSUME NEW m \in Meetings, NEW src \in Meetings \X {1, 2}, NEW text \in Texts
    PROVE  /\ newSummary(m, src, text) \in SummaryRows
           /\ newSummary(m, src, text).made = m
           /\ newSummary(m, src, text).now.n = text.n
           /\ newSummary(m, src, text).now.docs = text.docs
           /\ newSummary(m, src, text).now.stamps = text.stamps
           /\ newSummary(m, src, text).now.early = text.early
           /\ newSummary(m, src, text).now.flag = FALSE
           /\ newSummary(m, src, text).approval = "pending"
           /\ newSummary(m, src, text).revision = NoRevision
           /\ newSummary(m, src, text).version = 0
           /\ ~newSummary(m, src, text).archived
           /\ ~newSummary(m, src, text).edited
<1> DEFINE now == [text EXCEPT !.flag = FALSE]
<1>1. /\ now \in Texts /\ now.n = text.n /\ now.docs = text.docs /\ now.stamps = text.stamps
      /\ now.early = text.early /\ now.flag = FALSE
  BY DEF Texts
<1> HIDE DEF now
<1>2. newSummary(m, src, text) =
        [made |-> m, src |-> src, now |-> now, approval |-> "pending", archived |-> FALSE, edited |-> FALSE,
         revision |-> NoRevision, version |-> 0]
  BY DEF newSummary, now
<1> QED
  BY <1>1, <1>2, NoRevisionIs DEF SummaryRows

LEMMA LegacyIs ==
    /\ legacySummary \in SummaryRows /\ legacySummary.now.n = 1 /\ legacySummary.revision = NoRevision
    /\ legacySummary.now.early /\ ~legacySummary.now.flag /\ legacySummary.version = 0
    /\ legacySummary.approval = "published"
<1> DEFINE from == {<<1, "agenda">>, <<1, "video">>}
           text == Text(1, from, "agenda", FALSE, FALSE, TRUE)
           row == newSummary(1, <<1, 1>>, text)
<1>1. from \in SUBSET (Meetings \X DocKinds) /\ <<1, 1>> \in Meetings \X {1, 2}
  BY MeetingsAre DEF DocKinds
<1> HIDE DEF from
<1>2. text \in Texts /\ text.n = 1 /\ text.early
  BY <1>1 DEF Text, Texts, UPGRADEABLE_SOURCE_TYPES
<1> HIDE DEF text
<1>3. /\ row \in SummaryRows /\ row.now.n = 1 /\ row.now.early /\ ~row.now.flag
      /\ row.revision = NoRevision /\ row.version = 0
  <2>1. 1 \in Meetings
    BY MeetingsAre
  <2> DEFINE src == <<1, 1>>
  <2>2. src \in Meetings \X {1, 2}
    BY <1>1
  <2>3. row = newSummary(1, src, text)
    OBVIOUS
  <2> HIDE DEF src, text, row
  <2>4. newSummary(1, src, text) \in SummaryRows
    BY <1>2, <2>1, <2>2, NewSummaryIs
  <2>5. /\ newSummary(1, src, text).now.n = text.n
        /\ newSummary(1, src, text).now.early = text.early
        /\ newSummary(1, src, text).now.flag = FALSE
        /\ newSummary(1, src, text).revision = NoRevision
        /\ newSummary(1, src, text).version = 0
    <3>1. text \in Texts
      BY <1>2
    <3>2. newSummary(1, src, text).now.n = text.n
      BY <3>1, <2>1, <2>2, NewSummaryIs
    <3>3. newSummary(1, src, text).now.early = text.early
      BY <3>1, <2>1, <2>2, NewSummaryIs
    <3>4. newSummary(1, src, text).now.flag = FALSE
      BY <3>1, <2>1, <2>2, NewSummaryIs
    <3>5. newSummary(1, src, text).revision = NoRevision /\ newSummary(1, src, text).version = 0
      BY <3>1, <2>1, <2>2, NewSummaryIs
    <3> QED
      BY <3>2, <3>3, <3>4, <3>5
  <2> QED
    BY <1>2, <2>3, <2>4, <2>5
<1> HIDE DEF row
<1>4. legacySummary = [row EXCEPT !.approval = "published"]
  BY DEF legacySummary, row, text, from
<1> QED
  BY <1>3, <1>4 DEF SummaryRows

LEMMA IdleRunIs ==
    /\ IdleRun \in RunRecs /\ IdleRun.pc = "idle" /\ DOMAIN IdleRun.seen = {}
    /\ IdleRun.at = 1 /\ IdleRun.slots = 0 /\ IdleRun.written = 0
<1> DEFINE entries == [m \in Meetings |-> {}]
           seen == <<>>
<1>1. entries \in [Meetings -> SUBSET DocKinds]
  OBVIOUS
<1>2. seen \in [{} -> SummaryRows] /\ DOMAIN seen = {}
  OBVIOUS
<1>3. seen \in SeenMaps
  BY <1>2 DEF SeenMaps
<1> HIDE DEF entries, seen
<1>4. IdleRun = [pc |-> "idle", entries |-> entries, scheme |-> 1, happened |-> FALSE, graceOver |-> FALSE,
                 seen |-> seen, asRead |-> seen, listed |-> {}, gone |-> {}, slots |-> 0, at |-> 1,
                 written |-> 0, row |-> 0]
  BY DEF IdleRun, entries, seen
<1> QED
  BY <1>1, <1>2, <1>3, <1>4, SummariesAssumption DEF RunRecs

LEMMA IdleRequestIs == IdleRequest \in ReqRecs /\ IdleRequest.pc = "idle"
BY LegacyIs, SummariesAssumption DEF IdleRequest, ReqRecs, AdminKinds

LEMMA RowsAre ==
    ASSUME RowsOK
    PROVE  /\ rows \in Seq(SummaryRows) /\ Len(rows) \in 0..MaxRows /\ DOMAIN rows = 1..Len(rows)
           /\ DOMAIN rows \subseteq 1..MaxRows
           /\ \A id \in DOMAIN rows : rows[id] \in SummaryRows /\ RowOK(rows[id], texts)
<1>1. rows \in Seq(SummaryRows) /\ Len(rows) <= MaxRows /\ \A id \in DOMAIN rows : RowOK(rows[id], texts)
  BY DEF RowsOK
<1>2. Len(rows) \in Nat /\ DOMAIN rows = 1..Len(rows) /\ \A id \in 1..Len(rows) : rows[id] \in SummaryRows
  BY <1>1, LenProperties, ElementOfSeq
<1>3. Len(rows) \in 0..MaxRows /\ DOMAIN rows \subseteq 1..MaxRows
  BY <1>1, <1>2, SummariesAssumption
<1> QED
  BY <1>1, <1>2, <1>3

LEMMA RecIs ==
    ASSUME NEW q \in RunRecs
    PROVE  /\ q.entries \in [Meetings -> SUBSET DocKinds] /\ q.scheme \in {1, 2}
           /\ q.happened \in BOOLEAN /\ q.graceOver \in BOOLEAN
           /\ q.seen \in SeenMaps /\ q.listed \subseteq 1..MaxRows /\ q.gone \subseteq 1..MaxRows
           /\ DOMAIN q.seen \subseteq 1..MaxRows
           /\ \A id \in DOMAIN q.seen : q.seen[id] \in SummaryRows
           /\ \A id \in DOMAIN q.asRead : q.asRead[id] \in SummaryRows
           /\ q.slots \in 0..2 * MaxRows /\ q.at \in Nat \ {0} /\ q.written \in 0..Cap /\ q.row \in 0..MaxRows
<1>1. /\ q.entries \in [Meetings -> SUBSET DocKinds] /\ q.scheme \in {1, 2}
      /\ q.happened \in BOOLEAN /\ q.graceOver \in BOOLEAN
      /\ q.seen \in SeenMaps /\ q.asRead \in SeenMaps
      /\ q.listed \subseteq 1..MaxRows /\ q.gone \subseteq 1..MaxRows
      /\ q.slots \in 0..2 * MaxRows /\ q.at \in Nat \ {0} /\ q.written \in 0..Cap /\ q.row \in 0..MaxRows
  BY DEF RunRecs
<1>2. PICK D \in SUBSET (1..MaxRows) : q.seen \in [D -> SummaryRows]
  BY <1>1 DEF SeenMaps
<1>3. DOMAIN q.seen \subseteq 1..MaxRows /\ \A id \in DOMAIN q.seen : q.seen[id] \in SummaryRows
  BY <1>2
<1>4. PICK E \in SUBSET (1..MaxRows) : q.asRead \in [E -> SummaryRows]
  BY <1>1 DEF SeenMaps
<1>5. \A id \in DOMAIN q.asRead : q.asRead[id] \in SummaryRows
  BY <1>4
<1> QED
  BY <1>1, <1>3, <1>5

-----------------------------------------------------------------------------
(***************************************************************************)
(* What a run works from.                                                  *)
(***************************************************************************)
\* The text a run writes is of the entry's documents, and is flagged when it has a
\* video and no timestamps.
LEMMA TextOfIs ==
    ASSUME WorldOK, NEW q \in RunRecs, q.at <= MeetingCount, NEW o \in outcomes(q)
    PROVE  /\ textOf(q, o) \in Texts /\ textOf(q, o).n = texts + 1
           /\ has(textOf(q, o), "video") /\ ~textOf(q, o).stamps => textOf(q, o).flag
           /\ q.at \in Meetings /\ sourceId(q) \in Meetings \X {1, 2}
<1> DEFINE kinds == entry(q)
           from == {<<q.at, kind>> : kind \in kinds}
           type == sourceType(kinds)
           stamps == o[1]
           flag == o[2]
           early == ~q.happened
<1>1. q.at \in Meetings /\ q.scheme \in {1, 2}
  BY RecIs, SummariesAssumption DEF Meetings
<1>2. kinds \in SUBSET DocKinds
  BY <1>1, RecIs DEF entry
<1>3. sourceId(q) \in Meetings \X {1, 2}
  BY <1>1 DEF sourceId
<1>4. type \in UPGRADEABLE_SOURCE_TYPES \cup {"minutes"}
  BY DEF sourceType, UPGRADEABLE_SOURCE_TYPES
<1>5. /\ stamps \in BOOLEAN /\ flag \in BOOLEAN
      /\ "video" \in kinds /\ stamps = FALSE => flag = TRUE
  <2>1. CASE "video" \in kinds
    <3>1. o \in {<<TRUE, FALSE>>, <<FALSE, TRUE>>}
      BY <2>1 DEF outcomes
    <3>2. CASE o = <<TRUE, FALSE>>
      <4>1. stamps = TRUE /\ flag = FALSE
        BY <3>2
      <4> QED
        BY <4>1
    <3>3. CASE o = <<FALSE, TRUE>>
      <4>1. stamps = FALSE /\ flag = TRUE
        BY <3>3
      <4> QED
        BY <4>1
    <3> QED
      BY <3>1, <3>2, <3>3
  <2>2. CASE "video" \notin kinds
    <3>1. o \in IF sourceType(entry(q)) = "minutes" THEN {<<FALSE, FALSE>>} ELSE {}
      BY <2>2 DEF outcomes
    <3>2. o = <<FALSE, FALSE>>
      BY <3>1
    <3> QED
      BY <2>2, <3>2
  <2> QED
    BY <2>1, <2>2
<1>6. early \in BOOLEAN
  BY RecIs
<1>7. from \in SUBSET (Meetings \X DocKinds)
  BY <1>1, <1>2
<1>8. \A m \in Meetings : <<m, "video">> \in from => "video" \in kinds
  OBVIOUS
<1>9. textOf(q, o) = Text(texts + 1, from, type, stamps, flag, early)
  BY DEF textOf
<1>10. texts + 1 \in Nat
  BY DEF WorldOK
<1> HIDE DEF kinds, from, type, stamps, flag, early
<1>11. /\ textOf(q, o) = [n |-> texts + 1, docs |-> from, type |-> type, stamps |-> stamps, flag |-> flag, early |-> early]
  BY <1>9 DEF Text
<1>12. textOf(q, o) \in Texts
  BY <1>4, <1>5, <1>6, <1>7, <1>10, <1>11 DEF Texts
<1>13. /\ textOf(q, o).n = texts + 1 /\ textOf(q, o).docs = from
       /\ textOf(q, o).stamps = stamps /\ textOf(q, o).flag = flag
  BY <1>11
<1>14. has(textOf(q, o), "video") /\ ~textOf(q, o).stamps => textOf(q, o).flag
  BY <1>5, <1>8, <1>13 DEF has
<1> QED
  BY <1>1, <1>3, <1>12, <1>13, <1>14

LEMMA BuiltFromIs ==
    ASSUME NEW q \in RunRecs, NEW kind
    PROVE  builtFrom(q, kind) \subseteq DOMAIN q.seen
<1> DEFINE hits == {id \in DOMAIN q.seen : <<q.at, kind>> \in q.asRead[id].now.docs}
           first == hits \cap q.listed
<1>1. hits \subseteq DOMAIN q.seen /\ hits \in SUBSET (1..MaxRows) /\ first \in SUBSET (1..MaxRows)
  BY RecIs
<1>2. builtFrom(q, kind) =
        CASE kind \notin entry(q) \/ hits = {} -> {}
          [] kind \in entry(q) /\ first # {} -> {newestOf(first)}
          [] OTHER -> {newestOf(hits)}
  BY DEF builtFrom
<1>3. first \subseteq hits
  OBVIOUS
<1> HIDE DEF hits, first
<1>4. hits # {} => newestOf(hits) \in hits
  BY <1>1, NewestIs
<1>5. first # {} => newestOf(first) \in first
  BY <1>1, NewestIs
<1>6. CASE kind \notin entry(q) \/ hits = {}
  <2>1. ~(kind \in entry(q) /\ first # {})
    BY <1>3, <1>6
  <2>2. builtFrom(q, kind) = {}
    BY <1>2, <1>6, <2>1
  <2> QED
    BY <2>2
<1>7. CASE kind \in entry(q) /\ hits # {} /\ first # {}
  <2>1. builtFrom(q, kind) = {newestOf(first)}
    BY <1>2, <1>7
  <2> QED
    BY <1>1, <1>3, <1>5, <1>7, <2>1
<1>8. CASE kind \in entry(q) /\ hits # {} /\ first = {}
  <2>1. builtFrom(q, kind) = {newestOf(hits)}
    BY <1>2, <1>8
  <2> QED
    BY <1>1, <1>4, <1>8, <2>1
<1> QED
  BY <1>6, <1>7, <1>8

LEMMA ProvisionalForIs ==
    ASSUME NEW q \in RunRecs
    PROVE  provisionalFor(q) \subseteq DOMAIN q.seen
<1> DEFINE exact == {id \in provisional(q) : q.asRead[id].src = sourceId(q)}
<1>1. provisional(q) \subseteq DOMAIN q.seen
  BY DEF provisional
<1>2. exact \subseteq DOMAIN q.seen /\ exact \in SUBSET (1..MaxRows)
  BY <1>1, RecIs
<1>3. provisionalFor(q) =
        CASE exact # {} -> {oldestOf(exact)}
          [] exact = {} /\ Cardinality(provisional(q)) = 1 -> provisional(q)
          [] OTHER -> {}
  BY DEF provisionalFor
<1> HIDE DEF exact
<1>4. CASE exact # {}
  <2>1. provisionalFor(q) = {oldestOf(exact)}
    BY <1>3, <1>4
  <2> QED
    BY <1>2, <1>4, <2>1, OldestIs
<1>5. CASE exact = {} /\ Cardinality(provisional(q)) = 1
  <2>1. provisionalFor(q) = provisional(q)
    BY <1>3, <1>5
  <2> QED
    BY <1>1, <2>1
<1>6. CASE exact = {} /\ Cardinality(provisional(q)) # 1
  <2>1. provisionalFor(q) = {}
    BY <1>3, <1>6
  <2> QED
    BY <2>1
<1> QED
  BY <1>4, <1>5, <1>6

\* What is due is among what the run read.
LEMMA DueIs ==
    ASSUME NEW q \in RunRecs, NEW id \in due(q)
    PROVE  id \in DOMAIN q.seen
<1>1. existingByDocuments(q) \subseteq DOMAIN q.seen
  <2>1. existingByDocuments(q) \in {builtFrom(q, "minutes"), builtFrom(q, "agenda"), builtFrom(q, "video")}
    BY DEF existingByDocuments
  <2> QED
    BY <2>1, BuiltFromIs
<1>2. toUpgrade(q) \subseteq DOMAIN q.seen
  BY <1>1, ProvisionalForIs DEF toUpgrade
<1> QED
  BY <1>2 DEF due

\* Two copies of a row that differ at most in the version.
Alike(a, b) ==
    /\ a.made = b.made /\ a.src = b.src /\ a.now = b.now /\ a.approval = b.approval
    /\ a.archived = b.archived /\ a.edited = b.edited /\ a.revision = b.revision

\* A row is written.
LEMMA WrittenIs ==
    ASSUME RowsOK, NEW id \in DOMAIN rows, NEW new \in SummaryRows, written(id, new)
    PROVE  /\ rows' \in Seq(SummaryRows) /\ Len(rows') = Len(rows) /\ DOMAIN rows' = DOMAIN rows
           /\ rows'[id] \in SummaryRows /\ Alike(rows'[id], new) /\ rows'[id].version = rows[id].version + 1
           /\ \A other \in DOMAIN rows \ {id} : rows'[other] = rows[other]
<1> DEFINE v == rows[id].version + 1
           put == [new EXCEPT !.version = v]
<1>1. rows[id] \in SummaryRows /\ v \in Nat
  BY RowsAre DEF SummaryRows
<1>2. rows' = [rows EXCEPT ![id] = put]
  BY DEF written
<1>3. v = rows[id].version + 1
  OBVIOUS
<1> HIDE DEF v
<1>4. put \in SummaryRows /\ Alike(put, new) /\ put.version = v
  BY <1>1 DEF SummaryRows, Alike
<1> HIDE DEF put
<1>5. rows \in Seq(SummaryRows) /\ Len(rows) \in Nat /\ DOMAIN rows = 1..Len(rows)
  BY RowsAre
<1>6. rows' \in Seq(SummaryRows) /\ Len(rows') = Len(rows)
  BY <1>2, <1>4, <1>5, ExceptSeq
<1>7. DOMAIN rows' = DOMAIN rows /\ rows'[id] = put /\ \A other \in DOMAIN rows \ {id} : rows'[other] = rows[other]
  BY <1>2, <1>5
<1> QED
  BY <1>3, <1>4, <1>6, <1>7

\* A row is created.
LEMMA AppendedIs ==
    ASSUME RowsOK, NEW row \in SummaryRows, rows' = Append(rows, row)
    PROVE  /\ rows' \in Seq(SummaryRows) /\ Len(rows') = Len(rows) + 1
           /\ DOMAIN rows' = DOMAIN rows \cup {Len(rows')}
           /\ \A id \in DOMAIN rows : id # Len(rows') /\ rows'[id] = rows[id]
           /\ rows'[Len(rows')] = row
<1>1. rows \in Seq(SummaryRows) /\ Len(rows) \in Nat /\ DOMAIN rows = 1..Len(rows)
  BY RowsAre
<1>2. /\ rows' \in Seq(SummaryRows) /\ Len(rows') = Len(rows) + 1
      /\ \A i \in 1..Len(rows) : rows'[i] = rows[i]
      /\ rows'[Len(rows) + 1] = row
  BY <1>1, AppendProperties
<1>3. DOMAIN rows' = 1..Len(rows')
  BY <1>2, LenProperties
<1> QED
  BY <1>1, <1>2, <1>3

-----------------------------------------------------------------------------
(***************************************************************************)
(* What the steps of a run do.                                             *)
(***************************************************************************)
\* One run's record is replaced.
Others(r) == job' \in [Runs -> RunRecs] /\ \A s \in Runs \ {r} : job'[s] = job[s]

LEMMA JobIs ==
    ASSUME RunsOK, NEW r \in Runs, NEW q \in RunRecs, job' = [job EXCEPT ![r] = q]
    PROVE  Others(r) /\ job'[r] = q
BY DEF RunsOK, Others

LEMMA RunIs ==
    ASSUME RunsOK, NEW r \in Runs
    PROVE  job[r] \in RunRecs
BY DEF RunsOK

still == <<world, rows, req, texts, confirmed, cards, raced>>

LEMMA DiscoverIs ==
    ASSUME TypeInv, NEW r \in Runs, Discover(r)
    PROVE  /\ in(r, "idle") /\ Others(r) /\ job'[r].pc = "all" /\ DOMAIN job'[r].seen = {}
           /\ raced' = (raced \/ \E other \in Runs \ {r} : ~in(other, "idle"))
           /\ UNCHANGED <<world, rows, req, texts, confirmed, cards>>
<1> DEFINE q == [IdleRun EXCEPT !.pc = "all", !.entries = docs, !.scheme = scheme,
                                !.happened = happened, !.graceOver = graceOver]
<1>1. /\ in(r, "idle") /\ job' = [job EXCEPT ![r] = q]
      /\ raced' = (raced \/ \E other \in Runs \ {r} : ~in(other, "idle"))
      /\ UNCHANGED <<world, rows, req, texts, confirmed, cards>>
  BY DEF Discover
<1>2. q \in RunRecs /\ q.pc = "all" /\ DOMAIN q.seen = {}
  BY IdleRunIs DEF RunRecs, TypeInv, WorldOK
<1> HIDE DEF q
<1>3. Others(r) /\ job'[r] = q
  BY <1>1, <1>2, JobIs DEF TypeInv
<1> QED
  BY <1>1, <1>2, <1>3

LEMMA LiveAre == ASSUME RowsOK PROVE live \subseteq DOMAIN rows /\ removed \subseteq DOMAIN rows
BY DEF live, removed

LEMMA ReadAllIs ==
    ASSUME TypeInv, NEW r \in Runs, getAllProcesses(r)
    PROVE  /\ in(r, "all") /\ Others(r) /\ job'[r].pc = "archived"
           /\ DOMAIN job'[r].seen = live /\ \A id \in live : job'[r].seen[id] = rows[id]
           /\ UNCHANGED still
<1> DEFINE seen == [id \in live |-> rows[id]]
           q == [job[r] EXCEPT !.pc = "archived", !.seen = seen]
<1>1. /\ in(r, "all")
      /\ job' = [job EXCEPT ![r].pc = "archived", ![r].seen = seen]
      /\ UNCHANGED still
  BY DEF getAllProcesses, still
<1>2. seen \in SeenMaps /\ DOMAIN seen = live /\ \A id \in live : seen[id] = rows[id]
  <2>1. live \in SUBSET (1..MaxRows) /\ \A id \in live : rows[id] \in SummaryRows
    BY RowsAre, LiveAre DEF TypeInv
  <2>2. seen \in [live -> SummaryRows]
    BY <2>1
  <2> QED
    BY <2>1, <2>2 DEF SeenMaps
<1> HIDE DEF seen
<1>3. job[r] \in RunRecs /\ job \in [Runs -> RunRecs]
  BY DEF TypeInv, RunsOK
<1>4. job' = [job EXCEPT ![r] = q]
  BY <1>1, <1>3
<1>5. q \in RunRecs /\ q.pc = "archived" /\ q.seen = seen
  BY <1>2, <1>3 DEF RunRecs
<1> HIDE DEF q
<1>6. Others(r) /\ job'[r] = q
  BY <1>4, <1>5, JobIs DEF TypeInv
<1> QED
  BY <1>1, <1>2, <1>5, <1>6

\* What was read is counted.
LEMMA CountIs ==
    ASSUME NEW S \in SUBSET (1..MaxRows)
    PROVE  Cardinality(S) \in 0..MaxRows /\ (S # {} => Cardinality(S) > 0)
<1>1. MaxRows \in Nat
  BY SummariesAssumption
<1>2. IsFiniteSet(1..MaxRows) /\ Cardinality(1..MaxRows) = MaxRows
  BY <1>1, FS_Interval
<1>3. IsFiniteSet(S) /\ Cardinality(S) \in Nat /\ Cardinality(S) <= Cardinality(1..MaxRows)
  BY <1>2, FS_Subset, FS_CardinalityType
<1>4. S # {} => Cardinality(S) # 0
  BY <1>3, FS_EmptySet
<1> QED
  BY <1>1, <1>2, <1>3, <1>4

LEMMA ReadArchivedIs ==
    ASSUME TypeInv, NEW r \in Runs, getArchivedProcesses(r)
    PROVE  /\ in(r, "archived") /\ Others(r) /\ job'[r].pc = "create"
           /\ DOMAIN job'[r].seen = DOMAIN job[r].seen \cup removed
           /\ \A id \in DOMAIN job[r].seen : job'[r].seen[id] = job[r].seen[id]
           /\ \A id \in removed \ DOMAIN job[r].seen : job'[r].seen[id] = rows[id]
           /\ DOMAIN job[r].seen # {} \/ removed # {} => job'[r].slots > 0
           /\ UNCHANGED still
<1> DEFINE first == job[r].seen
           gone == removed
           listed == DOMAIN first
           seen == [id \in listed \cup gone |-> IF id \in listed THEN first[id] ELSE rows[id]]
           slots == Cardinality(listed) + Cardinality(gone)
           q == [job[r] EXCEPT !.pc = "create", !.listed = listed, !.gone = gone, !.seen = seen,
                          !.asRead = seen, !.slots = slots]
<1>1. /\ in(r, "archived")
      /\ job' = [job EXCEPT ![r].pc = "create", ![r].listed = listed, ![r].gone = gone,
                            ![r].seen = seen, ![r].asRead = seen, ![r].slots = slots]
      /\ UNCHANGED still
  BY DEF getArchivedProcesses, still
<1>2. job[r] \in RunRecs /\ job \in [Runs -> RunRecs]
  BY DEF TypeInv, RunsOK
<1>3. /\ listed \in SUBSET (1..MaxRows) /\ gone \in SUBSET (1..MaxRows)
      /\ \A id \in listed : first[id] \in SummaryRows
      /\ \A id \in gone : rows[id] \in SummaryRows
  BY <1>2, RecIs, RowsAre, LiveAre DEF TypeInv
<1>4. seen \in SeenMaps
  <2>1. seen \in [listed \cup gone -> SummaryRows] /\ listed \cup gone \in SUBSET (1..MaxRows)
    BY <1>3
  <2> QED
    BY <2>1 DEF SeenMaps
<1>5. /\ DOMAIN seen = DOMAIN job[r].seen \cup removed
      /\ \A id \in DOMAIN job[r].seen : seen[id] = job[r].seen[id]
      /\ \A id \in removed \ DOMAIN job[r].seen : seen[id] = rows[id]
  OBVIOUS
<1>6. slots \in 0..2 * MaxRows /\ (listed # {} \/ gone # {} => slots > 0)
  <2>1. /\ Cardinality(listed) \in 0..MaxRows /\ (listed # {} => Cardinality(listed) > 0)
        /\ Cardinality(gone) \in 0..MaxRows /\ (gone # {} => Cardinality(gone) > 0)
    BY <1>3, CountIs
  <2> DEFINE a == Cardinality(listed)
             b == Cardinality(gone)
  <2> HIDE DEF a, b
  <2>2. a \in 0..MaxRows /\ b \in 0..MaxRows /\ MaxRows \in Nat
    BY <2>1, SummariesAssumption DEF a, b
  <2>3. a + b \in 0..2 * MaxRows /\ (a > 0 \/ b > 0 => a + b > 0)
    BY <2>2
  <2> QED
    BY <2>1, <2>3 DEF a, b
<1>7. listed = DOMAIN job[r].seen /\ gone = removed
  OBVIOUS
<1> HIDE DEF first, gone, listed, seen, slots
<1>8. job' = [job EXCEPT ![r] = q]
  BY <1>1, <1>2
<1>9. q \in RunRecs /\ q.pc = "create" /\ q.seen = seen /\ q.slots = slots
  BY <1>2, <1>3, <1>4, <1>6 DEF RunRecs
<1> HIDE DEF q
<1>10. Others(r) /\ job'[r] = q
  BY <1>8, <1>9, JobIs DEF TypeInv
<1> QED
  BY <1>1, <1>5, <1>6, <1>7, <1>9, <1>10

\* On to another entry or to the second pass.
Moves(r) ==
    /\ Others(r) /\ job'[r].pc \in {"create", "upgrade"} /\ job'[r].seen = job[r].seen
    /\ job'[r].pc = "create" => job'[r].at # 1

\* The run is over.
Quits(r) == Others(r) /\ job'[r] = IdleRun

LEMMA AdvancedIs ==
    ASSUME NEW q \in RunRecs
    PROVE  /\ advanced(q) \in RunRecs /\ advanced(q).pc = q.pc /\ advanced(q).seen = q.seen
           /\ advanced(q).at # 1 /\ advanced(q).slots = q.slots /\ advanced(q).written = q.written
           /\ advanced(q).row = q.row
<1> DEFINE next == q.at + 1
<1>1. q.at \in Nat \ {0} /\ next \in Nat \ {0} /\ next # 1
  BY RecIs
<1>2. advanced(q) = [q EXCEPT !.at = next]
  BY DEF advanced
<1> HIDE DEF next
<1> QED
  BY <1>1, <1>2 DEF RunRecs

LEMMA PassEndsIs ==
    ASSUME TypeInv, NEW r \in Runs, PassEnds(r)
    PROVE  ~in(r, "idle") /\ (Moves(r) \/ Quits(r)) /\ UNCHANGED still
<1>1. UNCHANGED still /\ job[r] \in RunRecs /\ job \in [Runs -> RunRecs]
  BY DEF PassEnds, still, TypeInv, RunsOK
<1>2. CASE in(r, "create") /\ job' = [job EXCEPT ![r].pc = "upgrade", ![r].at = 1]
  <2> DEFINE first == 1
             q == [job[r] EXCEPT !.pc = "upgrade", !.at = first]
  <2>0. first \in Nat \ {0}
    OBVIOUS
  <2>2. job' = [job EXCEPT ![r] = q]
    BY <1>1, <1>2
  <2> HIDE DEF first
  <2>1. q \in RunRecs /\ q.pc = "upgrade" /\ q.seen = job[r].seen
    BY <1>1, <2>0 DEF RunRecs
  <2> HIDE DEF q
  <2>3. Others(r) /\ job'[r] = q
    BY <2>1, <2>2, JobIs DEF TypeInv
  <2> QED
    BY <1>1, <1>2, <2>1, <2>3 DEF Moves, in
<1>3. CASE in(r, "upgrade") /\ job' = [job EXCEPT ![r] = IdleRun]
  BY <1>1, <1>3, IdleRunIs, JobIs DEF Quits, TypeInv, in
<1> QED
  BY <1>1, <1>2, <1>3 DEF PassEnds

LEMMA PassesIs ==
    ASSUME TypeInv, NEW r \in Runs, WaitForRecord(r) \/ NothingDue(r) \/ UpgradeWaits(r)
    PROVE  ~in(r, "idle") /\ Moves(r) /\ UNCHANGED still
<1>1. /\ job' = [job EXCEPT ![r] = advanced(@)] /\ job[r].pc \in {"create", "upgrade"} /\ UNCHANGED still
      /\ job[r] \in RunRecs /\ job \in [Runs -> RunRecs]
  BY DEF WaitForRecord, NothingDue, UpgradeWaits, onEntry, in, still, TypeInv, RunsOK
<1> DEFINE q == advanced(job[r])
<1>2. /\ q \in RunRecs /\ q.pc = job[r].pc /\ q.seen = job[r].seen /\ q.at # 1
      /\ job' = [job EXCEPT ![r] = q]
  BY <1>1, AdvancedIs
<1> HIDE DEF q
<1>3. Others(r) /\ job'[r] = q
  BY <1>2, JobIs DEF TypeInv
<1> QED
  BY <1>1, <1>2, <1>3 DEF Moves, in

LEMMA SkipEntryIs ==
    ASSUME TypeInv, NEW r \in Runs, SkipEntry(r)
    PROVE  ~in(r, "idle") /\ Moves(r) /\ UNCHANGED still
<1> DEFINE q == job[r]
           claims == q.happened /\ entry(q) # {} /\ q.slots > 0
           slots == IF claims THEN q.slots - 1 ELSE q.slots
           a == advanced(q)
           n == [a EXCEPT !.slots = slots]
<1>1. q \in RunRecs /\ q.pc = "create" /\ UNCHANGED still
  BY DEF SkipEntry, onEntry, in, still, TypeInv, RunsOK
<1>2. a \in RunRecs /\ a.pc = q.pc /\ a.seen = q.seen /\ a.at # 1 /\ a.slots = q.slots
  BY <1>1, AdvancedIs
<1>3. job' = [job EXCEPT ![r] = n]
  BY <1>2 DEF SkipEntry
<1>4. slots \in 0..2 * MaxRows
  <2>1. q.slots \in 0..2 * MaxRows /\ MaxRows \in Nat
    BY <1>1, RecIs, SummariesAssumption
  <2> QED
    BY <2>1
<1> HIDE DEF a, slots
<1>5. n \in RunRecs /\ n.pc = "create" /\ n.seen = q.seen /\ n.at # 1
  BY <1>1, <1>2, <1>4 DEF RunRecs
<1> HIDE DEF n
<1>6. Others(r) /\ job'[r] = n
  BY <1>3, <1>5, JobIs DEF TypeInv
<1> QED
  BY <1>1, <1>5, <1>6 DEF Moves, in

LEMMA EntryFailsIs ==
    ASSUME TypeInv, NEW r \in Runs, EntryFails(r)
    PROVE  ~in(r, "idle") /\ Moves(r) /\ UNCHANGED still
<1> DEFINE a == advanced(job[r])
           pc == IF a.pc = "upgrade" THEN a.pc ELSE "create"
           n == [a EXCEPT !.pc = pc]
<1>1. job[r] \in RunRecs /\ job[r].pc # "idle" /\ UNCHANGED still
  BY DEF EntryFails, in, still, TypeInv, RunsOK
<1>2. a \in RunRecs /\ a.seen = job[r].seen /\ a.at # 1
  BY <1>1, AdvancedIs
<1>3. job' = [job EXCEPT ![r] = n] /\ pc \in {"create", "upgrade"}
  <2>1. job' = [job EXCEPT ![r] = n]
    BY DEF EntryFails
  <2>2. pc \in {"create", "upgrade"}
    OBVIOUS
  <2> QED
    BY <2>1, <2>2
<1> HIDE DEF a, pc
<1>4. n \in RunRecs /\ n.pc = pc /\ n.seen = job[r].seen /\ n.at # 1
  BY <1>2, <1>3 DEF RunRecs
<1> HIDE DEF n
<1>5. Others(r) /\ job'[r] = n
  BY <1>3, <1>4, JobIs DEF TypeInv
<1> QED
  BY <1>1, <1>3, <1>4, <1>5 DEF Moves, in

LEMMA RunDiesIs ==
    ASSUME TypeInv, NEW r \in Runs, RunDies(r)
    PROVE  ~in(r, "idle") /\ Quits(r) /\ UNCHANGED still
BY IdleRunIs, JobIs DEF RunDies, Quits, TypeInv, still

\* A summary is created, and perhaps goes on to be published.
LEMMA CreateIs ==
    ASSUME TypeInv, NEW r \in Runs, CreateSummary(r)
    PROVE  /\ in(r, "create") /\ job[r].at <= MeetingCount /\ job[r].slots = 0
           /\ Len(rows) < MaxRows /\ texts' = texts + 1
           /\ Others(r) /\ job'[r].seen = job[r].seen
           /\ \/ job'[r].pc = "create" /\ job'[r].at # 1
              \/ job'[r].pc = "announce" /\ job'[r].row = Len(rows') /\ job'[r].written < Cap
           /\ \E row \in SummaryRows :
                 /\ rows' = Append(rows, row)
                 /\ row.now.n = texts + 1 /\ row.revision = NoRevision /\ row.version = 0
                 /\ row.approval = "pending"
                 /\ job'[r].pc = "announce" => ~effectiveQualityFlag(row.now)
           /\ UNCHANGED <<world, req, confirmed, cards, raced>>
<1> DEFINE q == job[r]
<1>1. /\ q.pc = "create" /\ q.at <= MeetingCount /\ q.written < Cap /\ q.slots = 0 /\ Len(rows) < MaxRows
      /\ texts' = texts + 1 /\ UNCHANGED <<world, req, confirmed, cards, raced>>
      /\ q \in RunRecs
  BY DEF CreateSummary, onEntry, needsSummary, in, TypeInv, RunsOK
<1>2. PICK o \in outcomes(q) :
         LET row == newSummary(q.at, sourceId(q), textOf(q, o)) IN
         /\ rows' = Append(rows, row)
         /\ job' = [job EXCEPT ![r] =
              CASE ~autoPublish -> [advanced(q) EXCEPT !.written = @ + 1]
                [] autoPublish /\ effectiveQualityFlag(row.now) -> advanced(q)
                [] OTHER -> [q EXCEPT !.pc = "announce", !.row = Len(rows')]]
  BY DEF CreateSummary
<1> DEFINE text == textOf(q, o)
           src == sourceId(q)
           m == q.at
           row == newSummary(m, src, text)
           w == q.written + 1
           at == Len(rows')
           a == advanced(q)
           n1 == [a EXCEPT !.written = w]
           n3 == [q EXCEPT !.pc = "announce", !.row = at]
<1>3. text \in Texts /\ text.n = texts + 1 /\ m \in Meetings /\ src \in Meetings \X {1, 2}
  BY <1>1, TextOfIs DEF TypeInv
<1> HIDE DEF text, src, m
<1>4. row \in SummaryRows /\ row.now.n = text.n /\ row.revision = NoRevision /\ row.version = 0 /\ row.approval = "pending"
  BY <1>3, NewSummaryIs
<1>5. a \in RunRecs /\ a.pc = q.pc /\ a.seen = q.seen /\ a.at # 1 /\ a.written = q.written
  BY <1>1, AdvancedIs
<1>6. rows' = Append(rows, row)
  BY <1>2 DEF text, src, m
<1>7. job' = [job EXCEPT ![r] =
              CASE ~autoPublish -> n1
                [] autoPublish /\ effectiveQualityFlag(row.now) -> a
                [] OTHER -> n3]
  BY <1>2, <1>5 DEF text, src, m
<1>8. at \in 0..MaxRows
  <2>1. at = Len(rows) + 1 /\ Len(rows) \in 0..MaxRows /\ MaxRows \in Nat
    BY <1>4, <1>6, AppendedIs, RowsAre, SummariesAssumption DEF TypeInv
  <2> QED
    BY <1>1, <2>1
<1>9. w \in 0..Cap
  <2>1. q.written \in 0..Cap /\ Cap \in Nat
    BY <1>1, RecIs, SummariesAssumption
  <2> QED
    BY <1>1, <2>1
<1>10. at = Len(rows')
  OBVIOUS
<1> HIDE DEF row, w, at, a
<1>11. n1 \in RunRecs /\ n1.pc = "create" /\ n1.seen = q.seen /\ n1.at # 1
  BY <1>1, <1>5, <1>9 DEF RunRecs
<1>12. n3 \in RunRecs /\ n3.pc = "announce" /\ n3.seen = q.seen /\ n3.row = at /\ n3.written = q.written
  BY <1>1, <1>8 DEF RunRecs
<1> HIDE DEF n1, n3
<1>13. /\ Others(r) /\ job'[r].seen = q.seen
       /\ \/ job'[r].pc = "create" /\ job'[r].at # 1
          \/ /\ job'[r].pc = "announce" /\ job'[r].row = at /\ job'[r].written = q.written
             /\ ~effectiveQualityFlag(row.now)
  <2>1. CASE ~autoPublish
    <3>1. job' = [job EXCEPT ![r] = n1]
      BY <1>7, <2>1
    <3> QED
      BY <1>11, <3>1, JobIs DEF TypeInv
  <2>2. CASE autoPublish /\ effectiveQualityFlag(row.now)
    <3>1. job' = [job EXCEPT ![r] = a]
      BY <1>7, <2>2
    <3> QED
      BY <1>1, <1>5, <3>1, JobIs DEF TypeInv
  <2>3. CASE autoPublish /\ ~effectiveQualityFlag(row.now)
    <3>1. job' = [job EXCEPT ![r] = n3]
      BY <1>7, <2>3
    <3> QED
      BY <1>12, <2>3, <3>1, JobIs DEF TypeInv
  <2> QED
    BY <2>1, <2>2, <2>3
<1>14. \E new \in SummaryRows :
                 /\ rows' = Append(rows, new)
                 /\ new.now.n = texts + 1 /\ new.revision = NoRevision /\ new.version = 0
                 /\ new.approval = "pending"
                 /\ job'[r].pc = "announce" => ~effectiveQualityFlag(new.now)
  BY <1>3, <1>4, <1>6, <1>13
<1> QED
  BY <1>1, <1>10, <1>13, <1>14 DEF in

LEMMA AnnounceNewIs ==
    ASSUME TypeInv, NEW r \in Runs, AnnounceNew(r)
    PROVE  /\ in(r, "announce") /\ Others(r) /\ job'[r].pc = "publish"
           /\ job'[r].row = job[r].row /\ job'[r].seen = job[r].seen /\ job'[r].written = job[r].written
           /\ cards' = cards \cup {job[r].row}
           /\ UNCHANGED <<world, rows, req, texts, confirmed, raced>>
<1> DEFINE q == [job[r] EXCEPT !.pc = "publish"]
<1>1. /\ in(r, "announce") /\ job' = [job EXCEPT ![r].pc = "publish"] /\ cards' = cards \cup {job[r].row}
      /\ UNCHANGED <<world, rows, req, texts, confirmed, raced>>
      /\ job[r] \in RunRecs /\ job \in [Runs -> RunRecs]
  BY DEF AnnounceNew, TypeInv, RunsOK
<1>2. q \in RunRecs /\ q.pc = "publish" /\ q.row = job[r].row /\ q.seen = job[r].seen /\ q.written = job[r].written
  BY <1>1 DEF RunRecs
<1>3. job' = [job EXCEPT ![r] = q]
  BY <1>1
<1> HIDE DEF q
<1> QED
  BY <1>1, <1>2, <1>3, JobIs DEF TypeInv

LEMMA PublishNewIs ==
    ASSUME TypeInv, NEW r \in Runs, PublishNew(r)
    PROVE  /\ in(r, "publish") /\ Others(r) /\ job'[r].pc = "create" /\ job'[r].at # 1
           /\ job'[r].seen = job[r].seen /\ job[r].row \in DOMAIN rows
           /\ \/ /\ rows[job[r].row].version = 0
                 /\ written(job[r].row, [rows[job[r].row] EXCEPT !.approval = "published"])
              \/ rows' = rows
           /\ UNCHANGED <<world, req, texts, confirmed, cards, raced>>
<1> DEFINE q == job[r]
           a == advanced(q)
           next == [a EXCEPT !.pc = "create"]
           w == next.written + 1
           n == [next EXCEPT !.written = w]
<1>1. /\ q \in RunRecs /\ q.pc = "publish" /\ q.row \in DOMAIN rows /\ q.written < Cap
      /\ UNCHANGED <<world, req, texts, confirmed, cards, raced>>
  BY DEF PublishNew, TypeInv, RunsOK, in
<1>2. \/ /\ rows[q.row].version = 0 /\ written(q.row, [rows[q.row] EXCEPT !.approval = "published"])
         /\ job' = [job EXCEPT ![r] = n]
      \/ rows' = rows /\ job' = [job EXCEPT ![r] = next]
  BY DEF PublishNew, unchanged
<1>3. a \in RunRecs /\ a.seen = q.seen /\ a.at # 1 /\ a.written = q.written
  BY <1>1, AdvancedIs
<1> HIDE DEF a
<1>4. /\ next \in RunRecs /\ next.pc = "create" /\ next.seen = q.seen /\ next.at # 1
      /\ next.written = q.written
  BY <1>3 DEF RunRecs
<1>5. w \in 0..Cap
  <2>1. q.written \in 0..Cap /\ Cap \in Nat
    BY <1>1, RecIs, SummariesAssumption
  <2> QED
    BY <1>1, <1>4, <2>1
<1> HIDE DEF next, w
<1>6. n \in RunRecs /\ n.pc = "create" /\ n.seen = q.seen /\ n.at # 1
  BY <1>4, <1>5 DEF RunRecs
<1> HIDE DEF n
<1>7. CASE job' = [job EXCEPT ![r] = n]
  BY <1>1, <1>2, <1>6, <1>7, JobIs DEF TypeInv, in
<1>8. CASE job' = [job EXCEPT ![r] = next]
  BY <1>1, <1>2, <1>4, <1>8, JobIs DEF TypeInv, in
<1> QED
  BY <1>2, <1>7, <1>8

\* The copy of one row that the run holds is replaced.
SeenIs(r, id, copy) ==
    /\ Others(r) /\ job'[r].pc = "upgrade"
    /\ DOMAIN job'[r].seen = DOMAIN job[r].seen /\ job'[r].seen[id] = copy
    /\ \A other \in DOMAIN job[r].seen \ {id} : job'[r].seen[other] = job[r].seen[other]

LEMMA SeenMapIs ==
    ASSUME NEW q \in RunRecs, NEW id \in DOMAIN q.seen, NEW copy \in SummaryRows
    PROVE  [q.seen EXCEPT ![id] = copy] \in SeenMaps
<1> DEFINE f == [q.seen EXCEPT ![id] = copy]
<1>1. DOMAIN q.seen \in SUBSET (1..MaxRows) /\ \A other \in DOMAIN q.seen : q.seen[other] \in SummaryRows
  BY RecIs
<1>2. q.seen \in [DOMAIN q.seen -> SummaryRows]
  <2>1. PICK D \in SUBSET (1..MaxRows) : q.seen \in [D -> SummaryRows]
    BY RecIs DEF SeenMaps
  <2> QED
    BY <2>1
<1>3. f \in [DOMAIN q.seen -> SummaryRows]
  BY <1>2
<1> QED
  BY <1>1, <1>3 DEF SeenMaps

\* An edited summary in review gets a link; its text is as it was.
LEMMA AttachIs ==
    ASSUME TypeInv, VersionInv, NEW r \in Runs, AttachMinutes(r)
    PROVE  /\ in(r, "upgrade") /\ UNCHANGED <<world, req, texts, confirmed, cards, raced>>
           /\ \/ (Moves(r) \/ Quits(r)) /\ rows' = rows
              \/ \E id \in DOMAIN job[r].seen, new \in SummaryRows :
                    /\ id \in DOMAIN rows /\ rows[id].approval # "published" /\ rows[id].edited
                    /\ new.now.n = rows[id].now.n /\ new.approval = rows[id].approval
                    /\ new.revision = rows[id].revision
                    /\ written(id, new) /\ SeenIs(r, id, rows'[id])
<1> DEFINE q == job[r]
           a == advanced(q)
           link == <<q.at, "minutes">>
<1>1. /\ q \in RunRecs /\ q.pc = "upgrade" /\ q.at <= MeetingCount
      /\ UNCHANGED <<world, req, texts, confirmed, cards, raced>>
  BY DEF AttachMinutes, onEntry, in, TypeInv, RunsOK
<1>2. PICK id \in due(q) :
         LET row == q.seen[id]
             new == [row EXCEPT !.now.docs = {d \in @ : d[2] # "minutes"} \cup {link}] IN
         /\ editedAndUnpublished(row)
         /\ CASE "minutes" \notin entry(q) \/ link \in row.now.docs ->
                   job' = [job EXCEPT ![r] = a] /\ UNCHANGED rows
              [] "minutes" \in entry(q) /\ link \notin row.now.docs /\ unchanged(id, row) ->
                   /\ written(id, new)
                   /\ job' = [job EXCEPT ![r] = [a EXCEPT !.seen[id] = rows'[id]]]
              [] OTHER -> job' = [job EXCEPT ![r] = IdleRun] /\ UNCHANGED rows
  BY DEF AttachMinutes
<1> DEFINE row == q.seen[id]
           now == [row.now EXCEPT !.docs = {d \in row.now.docs : d[2] # "minutes"} \cup {link}]
           new == [row EXCEPT !.now = now]
<1>3. id \in DOMAIN q.seen /\ row \in SummaryRows /\ id \in DOMAIN rows /\ Follows(row, rows[id])
  BY <1>1, DueIs, RecIs DEF VersionInv
<1>4. a \in RunRecs /\ a.pc = "upgrade" /\ a.seen = q.seen /\ a.at # 1
  BY <1>1, AdvancedIs
<1>5. CASE "minutes" \notin entry(q) \/ link \in row.now.docs
  <2>1. job' = [job EXCEPT ![r] = a] /\ rows' = rows
    BY <1>2, <1>5
  <2>2. Others(r) /\ job'[r] = a
    BY <1>4, <2>1, JobIs DEF TypeInv
  <2> QED
    BY <1>1, <1>4, <2>1, <2>2 DEF Moves, in
<1>6. CASE "minutes" \in entry(q) /\ link \notin row.now.docs /\ ~unchanged(id, row)
  <2>1. job' = [job EXCEPT ![r] = IdleRun] /\ rows' = rows
    BY <1>2, <1>6
  <2> QED
    BY <1>1, <2>1, IdleRunIs, JobIs DEF Quits, in, TypeInv
<1>7. CASE "minutes" \in entry(q) /\ link \notin row.now.docs /\ unchanged(id, row)
  <2>1. /\ written(id, [row EXCEPT !.now.docs = {d \in @ : d[2] # "minutes"} \cup {link}])
        /\ job' = [job EXCEPT ![r] = [a EXCEPT !.seen[id] = rows'[id]]]
        /\ editedAndUnpublished(row)
    BY <1>2, <1>7
  <2>2. row = rows[id]
    BY <1>3, <1>7 DEF unchanged, Follows
  <2>3. link \in Meetings \X DocKinds
    BY <1>1, RecIs, SummariesAssumption DEF Meetings, DocKinds
  <2> HIDE DEF row, link
  <2>4. now \in Texts /\ now.n = row.now.n
    BY <1>3, <2>3 DEF SummaryRows, Texts
  <2>5. [row EXCEPT !.now.docs = {d \in @ : d[2] # "minutes"} \cup {link}] = new
    BY <1>3 DEF SummaryRows, Texts
  <2> HIDE DEF now
  <2>6. /\ new \in SummaryRows /\ new.now = now /\ new.approval = row.approval /\ new.revision = row.revision
    BY <1>3, <2>4 DEF SummaryRows
  <2> HIDE DEF new
  <2>7. written(id, new)
    BY <2>1, <2>5
  <2>8. rows'[id] \in SummaryRows
    BY <1>3, <2>6, <2>7, WrittenIs DEF TypeInv
  <2> DEFINE copy == rows'[id]
             seen == [a.seen EXCEPT ![id] = copy]
             n == [a EXCEPT !.seen = seen]
  <2>9. seen \in SeenMaps
    BY <1>3, <1>4, <2>8, SeenMapIs
  <2>10. job' = [job EXCEPT ![r] = n]
    BY <1>4, <2>1 DEF RunRecs
  <2>11. /\ DOMAIN seen = DOMAIN q.seen /\ seen[id] = copy
         /\ \A other \in DOMAIN q.seen \ {id} : seen[other] = q.seen[other]
    BY <1>3, <1>4
  <2> HIDE DEF seen
  <2>12. n \in RunRecs /\ n.pc = "upgrade" /\ n.seen = seen
    BY <1>4, <2>9 DEF RunRecs
  <2> HIDE DEF n
  <2>13. SeenIs(r, id, rows'[id])
    BY <2>10, <2>11, <2>12, JobIs DEF SeenIs, TypeInv
  <2>14. rows[id].approval # "published" /\ rows[id].edited
    BY <2>1, <2>2 DEF editedAndUnpublished
  <2> QED
    BY <1>1, <1>3, <2>2, <2>4, <2>6, <2>7, <2>13, <2>14 DEF in
<1> QED
  BY <1>5, <1>6, <1>7

\* What the second pass writes: a revision of a public text, or another text to review.
LEMMA UpgradedIs ==
    ASSUME NEW row \in SummaryRows, NEW src \in Meetings \X {1, 2}, NEW text \in Texts
    PROVE  /\ upgraded(row, src, text) \in SummaryRows
           /\ upgraded(row, src, text).version = row.version
           /\ upgraded(row, src, text).approval = row.approval
           /\ row.approval = "published" =>
                 upgraded(row, src, text).now = row.now /\ upgraded(row, src, text).revision = text
           /\ row.approval # "published" =>
                 upgraded(row, src, text).now = text /\ upgraded(row, src, text).revision = row.revision
<1>1. CASE row.approval = "published"
  BY <1>1 DEF upgraded, SummaryRows
<1>2. CASE row.approval # "published"
  <2>1. row.approval = "pending"
    BY <1>2 DEF SummaryRows
  <2> QED
    BY <1>2, <2>1 DEF upgraded, SummaryRows
<1> QED
  BY <1>1, <1>2

LEMMA UpgradeIs ==
    ASSUME TypeInv, VersionInv, NEW r \in Runs, UpgradeSummary(r)
    PROVE  /\ in(r, "upgrade") /\ texts' = texts + 1 /\ UNCHANGED <<world, req, confirmed, cards, raced>>
           /\ \E id \in DOMAIN job[r].seen, new \in SummaryRows, text \in Texts :
                 /\ id \in DOMAIN rows /\ text.n = texts + 1
                 /\ has(text, "video") /\ ~text.stamps => text.flag
                 /\ new.version = job[r].seen[id].version
                 /\ \/ /\ job[r].seen[id] = rows[id]
                       /\ ~(rows[id].edited /\ rows[id].approval # "published")
                       /\ new.approval = rows[id].approval
                       /\ rows[id].approval = "published" => new.now = rows[id].now /\ new.revision = text
                       /\ rows[id].approval # "published" => new.now = text /\ new.revision = rows[id].revision
                       /\ written(id, new) /\ SeenIs(r, id, rows'[id])
                    \/ /\ job[r].seen[id].version # rows[id].version
                       /\ rows' = rows /\ SeenIs(r, id, new)
<1> DEFINE q == job[r]
           a == advanced(q)
<1>1. /\ q \in RunRecs /\ q.pc = "upgrade" /\ q.at <= MeetingCount /\ q.written < Cap
      /\ texts' = texts + 1 /\ UNCHANGED <<world, req, confirmed, cards, raced>>
  BY DEF UpgradeSummary, onEntry, in, TypeInv, RunsOK
<1>2. PICK id \in due(q), o \in outcomes(q) :
         LET row == q.seen[id]
             new == upgraded(row, sourceId(q), textOf(q, o)) IN
         /\ ~editedAndUnpublished(row)
         /\ IF unchanged(id, row)
            THEN /\ written(id, new)
                 /\ job' = [job EXCEPT ![r] = [advanced(q) EXCEPT !.seen[id] = rows'[id], !.written = @ + 1]]
            ELSE /\ job' = [job EXCEPT ![r] = [advanced(q) EXCEPT !.seen[id] = new]]
                 /\ UNCHANGED rows
  BY DEF UpgradeSummary
<1> DEFINE row == q.seen[id]
           src == sourceId(q)
           text == textOf(q, o)
           new == upgraded(row, src, text)
<1>3. id \in DOMAIN q.seen /\ row \in SummaryRows /\ id \in DOMAIN rows /\ Follows(row, rows[id])
  BY <1>1, DueIs, RecIs DEF VersionInv
<1>4. a \in RunRecs /\ a.pc = "upgrade" /\ a.seen = q.seen /\ a.written = q.written
  BY <1>1, AdvancedIs
<1>5. /\ text \in Texts /\ text.n = texts + 1 /\ src \in Meetings \X {1, 2}
      /\ has(text, "video") /\ ~text.stamps => text.flag
  BY <1>1, TextOfIs DEF TypeInv
<1> HIDE DEF row, src, text
<1>6. /\ new \in SummaryRows /\ new.version = row.version /\ new.approval = row.approval
      /\ row.approval = "published" => new.now = row.now /\ new.revision = text
      /\ row.approval # "published" => new.now = text /\ new.revision = row.revision
  BY <1>3, <1>5, UpgradedIs
<1>7. /\ ~editedAndUnpublished(row)
      /\ \/ /\ unchanged(id, row) /\ written(id, new)
            /\ job' = [job EXCEPT ![r] = [a EXCEPT !.seen[id] = rows'[id], !.written = @ + 1]]
         \/ /\ ~unchanged(id, row) /\ rows' = rows
            /\ job' = [job EXCEPT ![r] = [a EXCEPT !.seen[id] = new]]
  BY <1>2 DEF row, src, text
<1> HIDE DEF new
<1>8. CASE /\ unchanged(id, row) /\ written(id, new)
           /\ job' = [job EXCEPT ![r] = [a EXCEPT !.seen[id] = rows'[id], !.written = @ + 1]]
  <2>1. rows'[id] \in SummaryRows
    BY <1>3, <1>6, <1>8, WrittenIs DEF TypeInv
  <2> DEFINE copy == rows'[id]
             seen == [a.seen EXCEPT ![id] = copy]
             w == a.written + 1
             n == [a EXCEPT !.seen = seen, !.written = w]
  <2>2. w \in 0..Cap
    <3>1. q.written \in 0..Cap /\ Cap \in Nat
      BY <1>1, RecIs, SummariesAssumption
    <3> QED
      BY <1>1, <1>4, <3>1
  <2>3. seen \in SeenMaps
    BY <1>3, <1>4, <2>1, SeenMapIs
  <2>4. job' = [job EXCEPT ![r] = n]
    BY <1>4, <1>8 DEF RunRecs
  <2>5. /\ DOMAIN seen = DOMAIN q.seen /\ seen[id] = copy
        /\ \A other \in DOMAIN q.seen \ {id} : seen[other] = q.seen[other]
    BY <1>3, <1>4
  <2> HIDE DEF seen, w
  <2>6. n \in RunRecs /\ n.pc = "upgrade" /\ n.seen = seen
    BY <1>4, <2>2, <2>3 DEF RunRecs
  <2> HIDE DEF n
  <2>7. SeenIs(r, id, rows'[id])
    BY <2>4, <2>5, <2>6, JobIs DEF SeenIs, TypeInv
  <2>8. row = rows[id]
    BY <1>3, <1>8 DEF unchanged, Follows
  <2>9. ~(rows[id].edited /\ rows[id].approval # "published")
    BY <1>7, <2>8 DEF editedAndUnpublished
  <2> QED
    BY <1>1, <1>3, <1>5, <1>6, <1>8, <2>7, <2>8, <2>9 DEF in, row
<1>9. CASE /\ ~unchanged(id, row) /\ rows' = rows
           /\ job' = [job EXCEPT ![r] = [a EXCEPT !.seen[id] = new]]
  <2> DEFINE seen == [a.seen EXCEPT ![id] = new]
             n == [a EXCEPT !.seen = seen]
  <2>1. seen \in SeenMaps
    BY <1>3, <1>4, <1>6, SeenMapIs
  <2>2. job' = [job EXCEPT ![r] = n]
    BY <1>4, <1>9 DEF RunRecs
  <2>3. /\ DOMAIN seen = DOMAIN q.seen /\ seen[id] = new
        /\ \A other \in DOMAIN q.seen \ {id} : seen[other] = q.seen[other]
    BY <1>3, <1>4
  <2> HIDE DEF seen
  <2>4. n \in RunRecs /\ n.pc = "upgrade" /\ n.seen = seen
    BY <1>4, <2>1 DEF RunRecs
  <2> HIDE DEF n
  <2>5. SeenIs(r, id, new)
    BY <2>2, <2>3, <2>4, JobIs DEF SeenIs, TypeInv
  <2>6. row.version # rows[id].version
    BY <1>9 DEF unchanged
  <2> QED
    BY <1>1, <1>3, <1>5, <1>6, <1>9, <2>5, <2>6 DEF in, row
<1> QED
  BY <1>7, <1>8, <1>9

-----------------------------------------------------------------------------
(***************************************************************************)
(* What the steps of a request do.                                         *)
(***************************************************************************)
OtherRequests(t) == req' \in [Requests -> ReqRecs] /\ \A s \in Requests \ {t} : req'[s] = req[s]

LEMMA RequestIs ==
    ASSUME RequestsOK, NEW t \in Requests, NEW q \in ReqRecs, req' = [req EXCEPT ![t] = q]
    PROVE  OtherRequests(t) /\ req'[t] = q
BY DEF RequestsOK, OtherRequests

LEMMA OpenIs ==
    ASSUME TypeInv, NEW t \in Requests, NEW kind \in AdminKinds, NEW id \in DOMAIN rows, Open(t, kind, id)
    PROVE  /\ OtherRequests(t) /\ req'[t].kind = kind /\ req'[t].row = id /\ req'[t].read = rows[id]
           /\ mayStart(kind, rows[id])
           /\ UNCHANGED <<world, rows, job, texts, confirmed, cards, raced>>
<1> DEFINE pc == IF kind \in {"approve", "confirm"} THEN "announce" ELSE "save"
           q == [pc |-> pc, kind |-> kind, row |-> id, read |-> rows[id]]
<1>1. /\ req' = [req EXCEPT ![t] = q] /\ mayStart(kind, rows[id])
      /\ UNCHANGED <<world, rows, job, texts, confirmed, cards, raced>>
  BY DEF Open
<1>2. pc \in {"idle", "announce", "save"} /\ id \in 0..MaxRows /\ rows[id] \in SummaryRows
  BY RowsAre, SummariesAssumption DEF TypeInv
<1>3. q \in ReqRecs /\ q.kind = kind /\ q.row = id /\ q.read = rows[id]
  BY <1>2 DEF ReqRecs
<1> HIDE DEF q
<1> QED
  BY <1>1, <1>3, RequestIs DEF TypeInv

LEMMA AnnounceIs ==
    ASSUME TypeInv, NEW t \in Requests, Announce(t)
    PROVE  /\ OtherRequests(t) /\ req[t].pc = "announce" /\ req'[t].pc = "save"
           /\ req'[t].kind = req[t].kind /\ req'[t].row = req[t].row /\ req'[t].read = req[t].read
           /\ cards' = cards \cup {req[t].row}
           /\ UNCHANGED <<world, rows, job, texts, confirmed, raced>>
<1> DEFINE q == [req[t] EXCEPT !.pc = "save"]
<1>1. /\ req[t].pc = "announce" /\ req' = [req EXCEPT ![t].pc = "save"] /\ cards' = cards \cup {req[t].row}
      /\ UNCHANGED <<world, rows, job, texts, confirmed, raced>>
      /\ req[t] \in ReqRecs /\ req \in [Requests -> ReqRecs]
  BY DEF Announce, TypeInv, RequestsOK
<1>2. q \in ReqRecs /\ q.pc = "save" /\ q.kind = req[t].kind /\ q.row = req[t].row /\ q.read = req[t].read
  BY <1>1 DEF ReqRecs
<1>3. req' = [req EXCEPT ![t] = q]
  BY <1>1
<1> HIDE DEF q
<1> QED
  BY <1>1, <1>2, <1>3, RequestIs DEF TypeInv

LEMMA RequestDiesIs ==
    ASSUME TypeInv, NEW t \in Requests, RequestDies(t)
    PROVE  OtherRequests(t) /\ req[t].pc # "idle" /\ req'[t] = IdleRequest /\ UNCHANGED <<world, rows, job, texts, confirmed, cards, raced>>
BY IdleRequestIs, RequestIs DEF RequestDies, TypeInv

\* A save leaves the text, and an approval comes of one that is not flagged or was
\* confirmed; or it has the admin's text, in review; or the revision's.
SavedText(row, new) ==
    \/ /\ new.now = row.now /\ new.revision \in {row.revision, NoRevision} /\ texts' = texts
       /\ \/ new.approval = row.approval
          \/ new.approval = "published" /\ (~effectiveQualityFlag(row.now) \/ row.now.n \in confirmed')
    \/ /\ new.now.n = texts + 1 /\ new.revision = row.revision /\ texts' = texts + 1
       /\ row.approval = "pending" /\ new.approval = "pending"
    \/ /\ new.now = row.revision /\ new.revision = NoRevision /\ texts' = texts
       /\ new.approval = row.approval /\ row.revision # NoRevision
       /\ ~row.revision.flag \/ row.revision.n \in confirmed'

LEMMA EditedIs ==
    ASSUME WorldOK, NEW row \in SummaryRows, NEW stamps \in BOOLEAN
    PROVE  /\ edited(row, stamps) \in SummaryRows /\ edited(row, stamps).now.n = texts + 1
           /\ edited(row, stamps).revision = row.revision /\ edited(row, stamps).approval = row.approval
<1> DEFINE n == texts + 1
           flag == row.now.flag /\ ~stamps
           now == [row.now EXCEPT !.n = n, !.stamps = stamps, !.flag = flag]
           new == [row EXCEPT !.edited = TRUE, !.now = now]
<1>1. n \in Nat /\ flag \in BOOLEAN /\ row.now \in Texts
  BY DEF WorldOK, SummaryRows, Texts
<1>2. edited(row, stamps) = new
  BY <1>1 DEF edited, SummaryRows, Texts
<1> HIDE DEF n, flag
<1>3. now \in Texts /\ now.n = n
  BY <1>1 DEF Texts
<1> HIDE DEF now
<1>4. new \in SummaryRows /\ new.now = now /\ new.revision = row.revision /\ new.approval = row.approval
  BY <1>3 DEF SummaryRows
<1> QED
  BY <1>2, <1>3, <1>4 DEF n

LEMMA SaveIs ==
    ASSUME TypeInv, VersionInv, NEW t \in Requests, Save(t)
    PROVE  /\ req[t].pc = "save" /\ OtherRequests(t) /\ req'[t] = IdleRequest
           /\ UNCHANGED <<world, job, cards>>
           /\ \/ UNCHANGED <<rows, texts, confirmed, raced>>
              \/ /\ req[t].row \in DOMAIN rows
                 /\ \E new \in SummaryRows :
                       /\ written(req[t].row, new) /\ SavedText(rows[req[t].row], new)
                       /\ rows[req[t].row].approval = "published" => new.approval = "published"
                       /\ confirmed \subseteq confirmed' /\ confirmed' \subseteq confirmed \cup {new.now.n}
                 /\ raced' = (raced \/ (midRun /\ rows[req[t].row].archived /\ ~rows'[req[t].row].archived))
<1> DEFINE q == req[t]
           id == q.row
           row == rows[id]
<1>1. /\ q.pc = "save" /\ req' = [req EXCEPT ![t] = IdleRequest] /\ UNCHANGED <<world, job, cards>>
      /\ q \in ReqRecs
  BY DEF Save, TypeInv, RequestsOK
<1>2. OtherRequests(t) /\ req'[t] = IdleRequest
  BY <1>1, IdleRequestIs, RequestIs DEF TypeInv
<1>3. CASE ~unchanged(id, q.read)
  <2>1. UNCHANGED <<rows, texts, confirmed, raced>>
    BY <1>3 DEF Save
  <2> QED
    BY <1>1, <1>2, <2>1
<1>4. CASE unchanged(id, q.read)
  <2>1. id \in DOMAIN rows /\ mayStart(q.kind, q.read) /\ Follows(q.read, row)
    BY <1>1 DEF TypeInv, RequestsOK, VersionInv
  <2>2. q.read = row /\ row \in SummaryRows /\ RowOK(row, texts)
    BY <1>4, <2>1, RowsAre DEF unchanged, Follows, TypeInv
  <2>3. PICK stamps \in IF q.kind = "edit" THEN BOOLEAN ELSE {FALSE} :
              /\ written(id, outcome(q, stamps))
              /\ texts' = IF q.kind = "edit" THEN texts + 1 ELSE texts
              /\ confirmed' = IF q.kind \in {"confirm", "acceptConfirmed"}
                              THEN confirmed \cup {rows'[id].now.n} ELSE confirmed
              /\ raced' = (raced \/ (midRun /\ rows[id].archived /\ ~rows'[id].archived))
    BY <1>4 DEF Save
  <2>4. stamps \in BOOLEAN
    BY <2>3
  <2> DEFINE new == outcome(q, stamps)
  <2>5. q.kind \in AdminKinds
    BY <1>1 DEF ReqRecs
  <2> HIDE DEF row
  \* The row each kind of request leaves.
  <2>6. CASE q.kind = "edit"
    <3>1. new = edited(row, stamps) /\ row.approval = "pending"
      BY <2>1, <2>2, <2>6 DEF outcome, mayStart
    <3>2. new \in SummaryRows /\ new.now.n = texts + 1 /\ new.revision = row.revision /\ new.approval = row.approval
      BY <2>2, <2>4, <3>1, EditedIs DEF TypeInv
    <3>3. texts' = texts + 1 /\ confirmed' = confirmed
      BY <2>3, <2>6
    <3>4. SavedText(row, new)
      BY <3>1, <3>2, <3>3 DEF SavedText
    <3> QED
      BY <1>1, <1>2, <2>1, <2>3, <3>1, <3>2, <3>3, <3>4 DEF row
  <2>7. ASSUME q.kind # "edit", new \in SummaryRows,
               \/ /\ new.now = row.now /\ new.revision \in {row.revision, NoRevision}
                  /\ \/ new.approval = row.approval
                     \/ /\ new.approval = "published"
                        /\ ~effectiveQualityFlag(row.now) \/ q.kind = "confirm"
               \/ /\ new.now = row.revision /\ new.revision = NoRevision
                  /\ new.approval = row.approval /\ row.revision # NoRevision
                  /\ ~row.revision.flag \/ q.kind = "acceptConfirmed"
        PROVE  /\ SavedText(row, new) /\ (row.approval = "published" => new.approval = "published")
               /\ confirmed \subseteq confirmed' /\ confirmed' \subseteq confirmed \cup {new.now.n}
    <3>1. texts' = texts
      BY <2>3, <2>7
    <3>2. rows'[id].now = new.now
      BY <2>1, <2>3, <2>7, WrittenIs DEF Alike, TypeInv
    <3>3. /\ q.kind \in {"confirm", "acceptConfirmed"} => new.now.n \in confirmed'
          /\ confirmed \subseteq confirmed' /\ confirmed' \subseteq confirmed \cup {new.now.n}
      BY <2>3, <3>2
    <3>4. row.approval = "published" => new.approval = "published"
      BY <2>7
    <3>5. CASE /\ new.now = row.now /\ new.revision \in {row.revision, NoRevision}
               /\ \/ new.approval = row.approval
                  \/ /\ new.approval = "published"
                     /\ ~effectiveQualityFlag(row.now) \/ q.kind = "confirm"
      <4>1. q.kind = "confirm" => row.now.n \in confirmed'
        BY <3>3, <3>5
      <4> QED
        BY <3>1, <3>3, <3>4, <3>5, <4>1 DEF SavedText
    <3>6. CASE /\ new.now = row.revision /\ new.revision = NoRevision
               /\ new.approval = row.approval /\ row.revision # NoRevision
               /\ ~row.revision.flag \/ q.kind = "acceptConfirmed"
      <4>1. q.kind = "acceptConfirmed" => row.revision.n \in confirmed'
        BY <3>3, <3>6
      <4> QED
        BY <3>1, <3>3, <3>4, <3>6, <4>1 DEF SavedText
    <3> QED
      BY <2>7, <3>5, <3>6
  <2>8. CASE q.kind \in {"approve", "confirm"}
    <3>1. new = [row EXCEPT !.approval = "published", !.archived = FALSE]
      BY <2>2, <2>8 DEF outcome
    <3>2. q.kind = "approve" => ~effectiveQualityFlag(row.now)
      BY <2>1, <2>2 DEF mayStart
    <3>3. new \in SummaryRows /\ new.now = row.now /\ new.revision = row.revision /\ new.approval = "published"
      BY <2>2, <3>1 DEF SummaryRows
    <3> QED
      BY <1>1, <1>2, <2>1, <2>3, <2>7, <2>8, <3>2, <3>3 DEF row
  <2>9. CASE q.kind \in {"accept", "acceptConfirmed"}
    <3>1. new = [row EXCEPT !.now = row.revision, !.revision = NoRevision]
      BY <2>2, <2>9 DEF outcome
    <3>2. row.revision # NoRevision /\ (q.kind = "accept" => ~row.revision.flag)
      BY <2>1, <2>2, <2>9 DEF mayStart
    <3>3. new \in SummaryRows /\ new.now = row.revision /\ new.revision = NoRevision /\ new.approval = row.approval
      BY <2>2, <3>1, NoRevisionIs DEF SummaryRows
    <3> QED
      BY <1>1, <1>2, <2>1, <2>3, <2>7, <2>9, <3>2, <3>3 DEF row
  <2>10. CASE q.kind = "discard"
    <3>1. new = [row EXCEPT !.revision = NoRevision]
      BY <2>2, <2>10 DEF outcome
    <3>2. new \in SummaryRows /\ new.now = row.now /\ new.revision = NoRevision /\ new.approval = row.approval
      BY <2>2, <3>1, NoRevisionIs DEF SummaryRows
    <3> QED
      BY <1>1, <1>2, <2>1, <2>3, <2>7, <2>10, <3>2 DEF row
  <2>11. CASE q.kind \in {"archive", "restore"}
    <3>1. new = [row EXCEPT !.archived = TRUE] \/ new = [row EXCEPT !.archived = FALSE]
      BY <2>2, <2>11 DEF outcome
    <3>2. new \in SummaryRows /\ new.now = row.now /\ new.revision = row.revision /\ new.approval = row.approval
      BY <2>2, <3>1 DEF SummaryRows
    <3> QED
      BY <1>1, <1>2, <2>1, <2>3, <2>7, <2>11, <3>2 DEF row
  <2> QED
    BY <2>5, <2>6, <2>8, <2>9, <2>10, <2>11 DEF AdminKinds
<1> QED
  BY <1>3, <1>4

-----------------------------------------------------------------------------
(***************************************************************************)
(* Types.                                                                  *)
(***************************************************************************)
LEMMA WorldKeeps ==
    ASSUME WorldOK, UNCHANGED world, texts' \in {texts, texts + 1}
    PROVE  WorldOK' /\ texts' >= texts /\ texts' \in Nat
BY DEF WorldOK, world

LEMMA RowsStay ==
    ASSUME TypeInv, UNCHANGED <<rows, texts, confirmed>>, cards' \subseteq DOMAIN rows
    PROVE  RowsOK'
BY DEF TypeInv, RowsOK

LEMMA NumbersStay ==
    ASSUME NEW row, NEW n \in Nat, NEW k \in Nat, k >= n, RowOK(row, n)
    PROVE  RowOK(row, k)
BY DEF RowOK

LEMMA RowsPut ==
    ASSUME TypeInv, NEW id \in DOMAIN rows, NEW new \in SummaryRows, written(id, new),
           texts' \in Nat, texts' >= texts, RowOK(new, texts'),
           cards' = cards, confirmed' \subseteq confirmed \cup {new.now.n}
    PROVE  RowsOK'
<1>1. /\ rows' \in Seq(SummaryRows) /\ Len(rows') = Len(rows) /\ DOMAIN rows' = DOMAIN rows
      /\ rows'[id] \in SummaryRows /\ Alike(rows'[id], new)
      /\ \A other \in DOMAIN rows \ {id} : rows'[other] = rows[other]
  BY WrittenIs DEF TypeInv
<1>2. texts \in Nat /\ Len(rows) <= MaxRows /\ cards \subseteq DOMAIN rows /\ confirmed \subseteq 1..texts
  BY DEF TypeInv, WorldOK, RowsOK
<1>3. RowOK(rows'[id], texts')
  BY <1>1 DEF RowOK, Alike
<1>4. \A other \in DOMAIN rows \ {id} : RowOK(rows'[other], texts')
  <2> SUFFICES ASSUME NEW other \in DOMAIN rows \ {id} PROVE RowOK(rows'[other], texts')
    OBVIOUS
  <2>1. RowOK(rows[other], texts)
    BY RowsAre DEF TypeInv
  <2> QED
    BY <1>1, <1>2, <2>1, NumbersStay
<1>5. confirmed' \subseteq 1..texts'
  <2>1. new.now.n \in 1..texts' /\ \A n \in 1..texts : n \in 1..texts'
    BY <1>2 DEF RowOK
  <2> QED
    BY <1>2, <2>1
<1> QED
  BY <1>1, <1>2, <1>3, <1>4, <1>5 DEF RowsOK

LEMMA RowsGrow ==
    ASSUME TypeInv, Len(rows) < MaxRows, NEW row \in SummaryRows, rows' = Append(rows, row),
           texts' \in Nat, texts' >= texts, RowOK(row, texts'), UNCHANGED <<cards, confirmed>>
    PROVE  RowsOK'
<1>1. /\ rows' \in Seq(SummaryRows) /\ Len(rows') = Len(rows) + 1
      /\ DOMAIN rows' = DOMAIN rows \cup {Len(rows')}
      /\ \A id \in DOMAIN rows : id # Len(rows') /\ rows'[id] = rows[id]
      /\ rows'[Len(rows')] = row
  BY AppendedIs DEF TypeInv
<1>2. texts \in Nat /\ cards \subseteq DOMAIN rows /\ confirmed \subseteq 1..texts
  BY DEF TypeInv, WorldOK, RowsOK
<1>3. Len(rows') <= MaxRows
  BY <1>1, RowsAre, SummariesAssumption DEF TypeInv
<1>4. \A id \in DOMAIN rows : RowOK(rows'[id], texts')
  <2> SUFFICES ASSUME NEW id \in DOMAIN rows PROVE RowOK(rows'[id], texts')
    OBVIOUS
  <2>1. RowOK(rows[id], texts)
    BY RowsAre DEF TypeInv
  <2> QED
    BY <1>1, <1>2, <2>1, NumbersStay
<1>5. confirmed' \subseteq 1..texts'
  BY <1>2
<1> QED
  BY <1>1, <1>2, <1>3, <1>4, <1>5 DEF RowsOK

LEMMA RunsStep ==
    ASSUME TypeInv, NEW r \in Runs, Others(r), DOMAIN rows \subseteq DOMAIN rows',
           job'[r].pc \in {"announce", "publish"} => job'[r].row \in DOMAIN rows' /\ job'[r].written < Cap
    PROVE  RunsOK'
BY DEF TypeInv, RunsOK, Others

LEMMA RunsStay ==
    ASSUME TypeInv, job' = job, DOMAIN rows \subseteq DOMAIN rows'
    PROVE  RunsOK'
BY DEF TypeInv, RunsOK

LEMMA RequestsStep ==
    ASSUME TypeInv, NEW t \in Requests, OtherRequests(t), DOMAIN rows \subseteq DOMAIN rows',
           req'[t].pc # "idle" => req'[t].row \in DOMAIN rows' /\ mayStart(req'[t].kind, req'[t].read)
    PROVE  RequestsOK'
BY DEF TypeInv, RequestsOK, OtherRequests, mayStart, effectiveQualityFlag, has

LEMMA RequestsStay ==
    ASSUME TypeInv, req' = req, DOMAIN rows \subseteq DOMAIN rows'
    PROVE  RequestsOK'
BY DEF TypeInv, RequestsOK, mayStart, effectiveQualityFlag, has

\* The steps of a run that write nothing.
LEMMA QuietType ==
    ASSUME TypeInv, NEW r \in Runs, Others(r), job'[r].pc \notin {"announce", "publish"},
           UNCHANGED <<world, rows, req, texts, confirmed, cards>>
    PROVE  TypeInv'
<1>1. WorldOK'
  BY WorldKeeps DEF TypeInv
<1>2. RowsOK'
  BY RowsStay DEF TypeInv, RowsOK
<1>3. RunsOK' /\ RequestsOK'
  BY RunsStep, RequestsStay
<1> QED
  BY <1>1, <1>2, <1>3 DEF TypeInv

LEMMA NextType == TypeInv /\ VersionInv /\ [Next]_vars => TypeInv'
<1> SUFFICES ASSUME TypeInv, VersionInv, [Next]_vars PROVE TypeInv'
  OBVIOUS
<1>0. texts \in Nat /\ texts + 1 \in Nat /\ texts + 1 >= texts /\ cards \subseteq DOMAIN rows
  BY DEF TypeInv, WorldOK, RowsOK
<1>1. ASSUME NEW r \in Runs, Discover(r) \/ getAllProcesses(r) \/ getArchivedProcesses(r) PROVE TypeInv'
  BY <1>1, DiscoverIs, ReadAllIs, ReadArchivedIs, QuietType DEF still
<1>2. ASSUME NEW r \in Runs, Moves(r) \/ Quits(r), UNCHANGED still PROVE TypeInv'
  BY <1>2, IdleRunIs, QuietType DEF still, Moves, Quits
<1>3. ASSUME NEW r \in Runs, CreateSummary(r) PROVE TypeInv'
  <2>1. PICK row \in SummaryRows : /\ rows' = Append(rows, row)
                                   /\ row.now.n = texts + 1 /\ row.revision = NoRevision
    BY <1>3, CreateIs
  <2>2. texts' = texts + 1 /\ Len(rows) < MaxRows /\ UNCHANGED <<world, req, confirmed, cards>> /\ Others(r)
    BY <1>3, CreateIs
  <2>3. DOMAIN rows' = DOMAIN rows \cup {Len(rows')}
    BY <2>1, AppendedIs DEF TypeInv
  <2>4. RowOK(row, texts')
    BY <1>0, <2>1, <2>2, NoRevisionIs DEF RowOK
  <2>5. RowsOK' /\ WorldOK'
    BY <1>0, <2>1, <2>2, <2>4, RowsGrow, WorldKeeps DEF TypeInv
  <2>6. RunsOK' /\ RequestsOK'
    BY <1>3, <2>2, <2>3, CreateIs, RunsStep, RequestsStay
  <2> QED
    BY <2>5, <2>6 DEF TypeInv
<1>4. ASSUME NEW r \in Runs, AnnounceNew(r) PROVE TypeInv'
  <2>1. job[r].row \in DOMAIN rows /\ job[r].written < Cap
    BY <1>4, AnnounceNewIs DEF TypeInv, RunsOK, in
  <2>2. RowsOK' /\ WorldOK'
    BY <1>0, <1>4, <2>1, AnnounceNewIs, RowsStay, WorldKeeps DEF TypeInv
  <2>3. RunsOK' /\ RequestsOK'
    BY <1>4, <2>1, AnnounceNewIs, RunsStep, RequestsStay
  <2> QED
    BY <2>2, <2>3 DEF TypeInv
<1>5. ASSUME NEW id \in DOMAIN rows, NEW new \in SummaryRows, written(id, new), RowOK(new, texts'),
             texts' \in {texts, texts + 1}, UNCHANGED <<world, cards>>, confirmed' \subseteq confirmed \cup {new.now.n}
      PROVE  RowsOK' /\ WorldOK' /\ DOMAIN rows \subseteq DOMAIN rows'
  <2>1. WorldOK' /\ texts' >= texts /\ texts' \in Nat
    BY <1>5, WorldKeeps DEF TypeInv
  <2> QED
    BY <1>5, <2>1, RowsPut, WrittenIs DEF TypeInv
<1>6. ASSUME NEW r \in Runs, PublishNew(r) PROVE TypeInv'
  <2> DEFINE id == job[r].row
             new == [rows[id] EXCEPT !.approval = "published"]
  <2>1. /\ Others(r) /\ job'[r].pc = "create" /\ id \in DOMAIN rows
        /\ UNCHANGED <<world, req, texts, confirmed, cards>>
        /\ written(id, new) \/ rows' = rows
    BY <1>6, PublishNewIs
  <2>2. new \in SummaryRows /\ RowOK(new, texts')
    BY <2>1, RowsAre DEF TypeInv, RowOK, SummaryRows
  <2> HIDE DEF new, id
  <2>3. RowsOK' /\ WorldOK' /\ DOMAIN rows \subseteq DOMAIN rows'
    <3>1. CASE written(id, new)
      BY <1>5, <2>1, <2>2, <3>1
    <3>2. CASE rows' = rows
      BY <1>0, <2>1, <3>2, RowsStay, WorldKeeps DEF TypeInv
    <3> QED
      BY <2>1, <3>1, <3>2
  <2>4. RunsOK' /\ RequestsOK'
    BY <2>1, <2>3, RunsStep, RequestsStay
  <2> QED
    BY <2>3, <2>4 DEF TypeInv
<1>7. ASSUME NEW r \in Runs, AttachMinutes(r) PROVE TypeInv'
  <2>1. CASE (Moves(r) \/ Quits(r)) /\ rows' = rows
    BY <1>2, <1>7, <2>1, AttachIs DEF still
  <2>2. ASSUME NEW id \in DOMAIN job[r].seen, NEW new \in SummaryRows, id \in DOMAIN rows,
               new.now.n = rows[id].now.n, new.revision = rows[id].revision,
               written(id, new), SeenIs(r, id, rows'[id])
        PROVE TypeInv'
    <3>1. UNCHANGED <<world, req, texts, confirmed, cards>>
      BY <1>7, AttachIs
    <3>2. RowOK(new, texts')
      BY <2>2, <3>1, RowsAre DEF TypeInv, RowOK
    <3>3. RowsOK' /\ WorldOK' /\ DOMAIN rows \subseteq DOMAIN rows'
      BY <1>5, <2>2, <3>1, <3>2
    <3>4. RunsOK' /\ RequestsOK'
      BY <2>2, <3>1, <3>3, RunsStep, RequestsStay DEF SeenIs
    <3> QED
      BY <3>3, <3>4 DEF TypeInv
  <2> QED
    BY <1>7, <2>1, <2>2, AttachIs
<1>8. ASSUME NEW r \in Runs, UpgradeSummary(r) PROVE TypeInv'
  <2>1. texts' = texts + 1 /\ UNCHANGED <<world, req, confirmed, cards>>
    BY <1>8, UpgradeIs
  <2>2. ASSUME NEW id \in DOMAIN job[r].seen, NEW new \in SummaryRows, NEW text \in Texts,
               id \in DOMAIN rows, text.n = texts + 1,
               rows[id].approval = "published" => new.now = rows[id].now /\ new.revision = text,
               rows[id].approval # "published" => new.now = text /\ new.revision = rows[id].revision,
               written(id, new), SeenIs(r, id, rows'[id])
        PROVE TypeInv'
    <3>1. RowOK(rows[id], texts)
      BY <2>2, RowsAre DEF TypeInv
    <3>2. RowOK(new, texts')
      BY <1>0, <2>1, <2>2, <3>1 DEF RowOK, NoText
    <3>3. RowsOK' /\ WorldOK' /\ DOMAIN rows \subseteq DOMAIN rows'
      BY <1>5, <2>1, <2>2, <3>2
    <3>4. RunsOK' /\ RequestsOK'
      BY <2>1, <2>2, <3>3, RunsStep, RequestsStay DEF SeenIs
    <3> QED
      BY <3>3, <3>4 DEF TypeInv
  <2>3. ASSUME NEW id \in DOMAIN job[r].seen, NEW new, rows' = rows, SeenIs(r, id, new) PROVE TypeInv'
    <3>1. WorldOK'
      BY <2>1, WorldKeeps DEF TypeInv
    <3>2. RowsOK'
      <4>1. \A i \in DOMAIN rows : RowOK(rows[i], texts')
        BY <1>0, <2>1, RowsAre, NumbersStay DEF TypeInv
      <4>2. confirmed \subseteq 1..texts'
        BY <1>0, <2>1 DEF TypeInv, RowsOK
      <4> QED
        BY <2>1, <2>3, <4>1, <4>2 DEF RowsOK, TypeInv
    <3>3. RunsOK' /\ RequestsOK'
      BY <2>1, <2>3, RunsStep, RequestsStay DEF SeenIs
    <3> QED
      BY <3>1, <3>2, <3>3 DEF TypeInv
  <2> QED
    BY <1>8, <2>2, <2>3, UpgradeIs
<1>9. ASSUME NEW t \in Requests, NEW kind \in AdminKinds, NEW id \in DOMAIN rows, Open(t, kind, id) PROVE TypeInv'
  <2>1. UNCHANGED <<world, rows, job, texts, confirmed, cards>>
    BY <1>9, OpenIs
  <2>2. WorldOK' /\ RowsOK' /\ RunsOK'
    BY <1>0, <2>1, WorldKeeps, RowsStay, RunsStay DEF TypeInv
  <2>3. RequestsOK'
    BY <1>9, <2>1, OpenIs, RequestsStep
  <2> QED
    BY <2>2, <2>3 DEF TypeInv
<1>10. ASSUME NEW t \in Requests, Announce(t) PROVE TypeInv'
  <2>1. UNCHANGED <<world, rows, job, texts, confirmed>> /\ cards' = cards \cup {req[t].row}
    BY <1>10, AnnounceIs
  <2>2. req[t].row \in DOMAIN rows /\ mayStart(req[t].kind, req[t].read)
    BY <1>10, AnnounceIs DEF TypeInv, RequestsOK
  <2>3. WorldOK' /\ RowsOK' /\ RunsOK'
    BY <1>0, <2>1, <2>2, WorldKeeps, RowsStay, RunsStay DEF TypeInv
  <2>4. RequestsOK'
    BY <1>10, <2>1, <2>2, AnnounceIs, RequestsStep
  <2> QED
    BY <2>3, <2>4 DEF TypeInv
<1>11. ASSUME NEW t \in Requests, Save(t) PROVE TypeInv'
  <2>1. OtherRequests(t) /\ req'[t] = IdleRequest /\ UNCHANGED <<world, job, cards>>
    BY <1>11, SaveIs
  <2>2. RowsOK' /\ WorldOK' /\ DOMAIN rows \subseteq DOMAIN rows'
    <3>1. CASE UNCHANGED <<rows, texts, confirmed, raced>>
      BY <1>0, <2>1, <3>1, RowsStay, WorldKeeps DEF TypeInv
    <3>2. ASSUME req[t].row \in DOMAIN rows, NEW new \in SummaryRows,
                 written(req[t].row, new), SavedText(rows[req[t].row], new),
                 confirmed' \subseteq confirmed \cup {new.now.n}
          PROVE  RowsOK' /\ WorldOK' /\ DOMAIN rows \subseteq DOMAIN rows'
      <4>1. texts' \in {texts, texts + 1}
        BY <3>2 DEF SavedText
      <4>2. RowOK(rows[req[t].row], texts)
        BY <3>2, RowsAre DEF TypeInv
      <4>3. RowOK(new, texts')
        BY <1>0, <3>2, <4>2, NoRevisionIs DEF SavedText, RowOK, NoText
      <4> QED
        BY <1>5, <2>1, <3>2, <4>1, <4>3
    <3> QED
      BY <1>11, <3>1, <3>2, SaveIs
  <2>3. RunsOK' /\ RequestsOK'
    BY <2>1, <2>2, RunsStay, RequestsStep, IdleRequestIs
  <2> QED
    BY <2>2, <2>3 DEF TypeInv
<1>12. ASSUME NEW t \in Requests, RequestDies(t) PROVE TypeInv'
  <2>1. OtherRequests(t) /\ req'[t].pc = "idle" /\ UNCHANGED <<world, rows, job, texts, confirmed, cards>>
    BY <1>12, RequestDiesIs, IdleRequestIs
  <2>2. WorldOK' /\ RowsOK' /\ RunsOK' /\ RequestsOK'
    BY <1>0, <2>1, WorldKeeps, RowsStay, RunsStay, RequestsStep DEF TypeInv
  <2> QED
    BY <2>2 DEF TypeInv
<1>13. ASSUME UNCHANGED <<rows, job, req, texts, confirmed, cards>>, WorldOK' PROVE TypeInv'
  BY <1>0, <1>13, RowsStay, RunsStay, RequestsStay DEF TypeInv
<1>14. ASSUME NEW m \in Meetings, NEW kind \in DocKinds, Post(m, kind) PROVE TypeInv'
  <2>1. WorldOK'
    BY <1>14 DEF Post, TypeInv, WorldOK
  <2> QED
    BY <1>13, <1>14, <2>1 DEF Post
<1>15. CASE ChangeConnector \/ DaysPass
  <2>1. WorldOK'
    BY <1>15 DEF ChangeConnector, DaysPass, TypeInv, WorldOK
  <2> QED
    BY <1>13, <1>15, <2>1 DEF ChangeConnector, DaysPass
<1>16. CASE UNCHANGED vars
  <2>1. WorldOK'
    BY <1>16 DEF vars, world, TypeInv, WorldOK
  <2> QED
    BY <1>13, <1>16, <2>1 DEF vars
<1>17. CASE Next
  <2>1. ASSUME NEW r \in Runs, \/ PassEnds(r) \/ SkipEntry(r) \/ WaitForRecord(r) \/ NothingDue(r)
                               \/ UpgradeWaits(r) \/ EntryFails(r) \/ RunDies(r)
        PROVE TypeInv'
    BY <1>2, <2>1, PassEndsIs, SkipEntryIs, PassesIs, EntryFailsIs, RunDiesIs
  <2> QED
    BY <1>1, <1>3, <1>4, <1>6, <1>7, <1>8, <1>9, <1>10, <1>11, <1>12, <1>14, <1>15, <1>17, <2>1 DEF Next, RunStep
<1> QED
  BY <1>16, <1>17

LEMMA InitType == Init => TypeInv
<1> SUFFICES ASSUME Init PROVE TypeInv
  OBVIOUS
<1> DEFINE none == [m \in Meetings |-> {}]
           agenda == [m \in Meetings |-> IF m = 1 THEN {"agenda", "video"} ELSE {}]
<1>1. none \in [Meetings -> SUBSET DocKinds] /\ agenda \in [Meetings -> SUBSET DocKinds]
  BY DEF DocKinds
<1>2. /\ scheme = 1 /\ happened \in BOOLEAN /\ graceOver = FALSE /\ autoPublish \in BOOLEAN
      /\ \/ docs = none /\ rows = <<>> /\ texts = 0
         \/ /\ docs = agenda /\ texts = 1
            /\ \E archived \in BOOLEAN : rows = <<[legacySummary EXCEPT !.archived = archived]>>
      /\ job = [r \in Runs |-> IdleRun] /\ req = [t \in Requests |-> IdleRequest]
      /\ confirmed = {} /\ cards = {}
  BY DEF Init
<1> HIDE DEF none, agenda
<1>3. WorldOK
  <2>1. docs \in [Meetings -> SUBSET DocKinds] /\ texts \in Nat
    BY <1>1, <1>2
  <2>2. scheme \in {1, 2} /\ happened \in BOOLEAN /\ graceOver \in BOOLEAN /\ autoPublish \in BOOLEAN
    <3>1. scheme = 1 /\ graceOver = FALSE /\ happened \in BOOLEAN /\ autoPublish \in BOOLEAN
      BY DEF Init
    <3> QED
      BY <3>1
  <2> QED
    BY <2>1, <2>2 DEF WorldOK
<1>4. RowsOK
  <2>1. CASE rows = <<>>
    <3>1. rows \in Seq(SummaryRows) /\ Len(rows) = 0 /\ DOMAIN rows = {}
      BY <2>1
    <3> QED
      BY <1>2, <3>1, SummariesAssumption DEF RowsOK
  <2>2. ASSUME NEW archived \in BOOLEAN, rows = <<[legacySummary EXCEPT !.archived = archived]>>, texts = 1
        PROVE  RowsOK
    <3> DEFINE row == [legacySummary EXCEPT !.archived = archived]
    <3>1. row \in SummaryRows /\ row.now.n = 1 /\ row.revision = NoRevision
      BY LegacyIs DEF SummaryRows
    <3>2. RowOK(row, 1)
      BY <3>1, NoRevisionIs DEF RowOK
    <3>3. rows = <<row>>
      BY <2>2
    <3> HIDE DEF row
    <3>4. rows \in Seq(SummaryRows) /\ Len(rows) = 1 /\ DOMAIN rows = {1} /\ rows[1] = row
      BY <3>1, <3>3
    <3>5. Len(rows) <= MaxRows
      BY <3>4, SummariesAssumption
    <3>6. \A id \in DOMAIN rows : RowOK(rows[id], texts)
      BY <2>2, <3>2, <3>4
    <3>7. cards \subseteq DOMAIN rows /\ confirmed \subseteq 1..texts
      BY <1>2
    <3> QED
      BY <3>4, <3>5, <3>6, <3>7 DEF RowsOK
  <2> QED
    BY <1>2, <2>1, <2>2
<1>5. RunsOK
  BY <1>2, IdleRunIs DEF RunsOK
<1>6. RequestsOK
  BY <1>2, IdleRequestIs DEF RequestsOK
<1> QED
  BY <1>3, <1>4, <1>5, <1>6 DEF TypeInv

-----------------------------------------------------------------------------
(***************************************************************************)
(* Versions: a copy with the row's version is the row.                     *)
(***************************************************************************)
\* No row goes, and a row that changes has the next version.
Advance ==
    \A id \in DOMAIN rows :
        id \in DOMAIN rows' /\ (rows'[id] = rows[id] \/ rows'[id].version = rows[id].version + 1)

LEMMA PutAdvances ==
    ASSUME TypeInv, NEW id \in DOMAIN rows, NEW new \in SummaryRows, written(id, new)
    PROVE  Advance /\ rows'[id] \in SummaryRows
BY WrittenIs DEF Advance, TypeInv

LEMMA StaysBehind ==
    ASSUME TypeInv, Advance, NEW id \in DOMAIN rows, NEW copy \in SummaryRows, Follows(copy, rows[id])
    PROVE  id \in DOMAIN rows' /\ Follows(copy, rows'[id])
<1>1. rows[id].version \in Nat /\ copy.version \in Nat
  BY RowsAre DEF TypeInv, SummaryRows
<1>2. copy.version <= rows[id].version /\ (copy.version = rows[id].version => copy = rows[id])
  BY DEF Follows
<1>3. id \in DOMAIN rows' /\ (rows'[id] = rows[id] \/ rows'[id].version = rows[id].version + 1)
  BY DEF Advance
<1> QED
  BY <1>1, <1>2, <1>3 DEF Follows

LEMMA RunVersion ==
    ASSUME TypeInv, VersionInv, Advance, NEW r \in Runs, Others(r), req' = req,
           \A id \in DOMAIN job'[r].seen : id \in DOMAIN rows' /\ Follows(job'[r].seen[id], rows'[id])
    PROVE  VersionInv'
<1>1. ASSUME NEW s \in Runs \ {r}, NEW id \in DOMAIN job'[s].seen
      PROVE  id \in DOMAIN rows' /\ Follows(job'[s].seen[id], rows'[id])
  <2>1. job'[s] = job[s] /\ job[s] \in RunRecs
    BY DEF Others, TypeInv, RunsOK
  <2>2. id \in DOMAIN rows /\ Follows(job[s].seen[id], rows[id]) /\ job[s].seen[id] \in SummaryRows
    BY <1>1, <2>1, RecIs DEF VersionInv
  <2> QED
    BY <2>1, <2>2, StaysBehind
<1>2. ASSUME NEW t \in Requests, req'[t].pc # "idle" PROVE Follows(req'[t].read, rows'[req'[t].row])
  <2>1. req[t].row \in DOMAIN rows /\ req[t].read \in SummaryRows
    BY <1>2 DEF TypeInv, RequestsOK, ReqRecs
  <2>2. Follows(req[t].read, rows[req[t].row])
    BY <1>2 DEF VersionInv
  <2> QED
    BY <2>1, <2>2, StaysBehind
<1> QED
  BY <1>1, <1>2 DEF VersionInv, Follows

LEMMA RequestVersion ==
    ASSUME TypeInv, VersionInv, Advance, job' = job, NEW t \in Requests, OtherRequests(t),
           req'[t].pc # "idle" => Follows(req'[t].read, rows'[req'[t].row])
    PROVE  VersionInv'
<1>1. ASSUME NEW s \in Runs, NEW id \in DOMAIN job'[s].seen
      PROVE  id \in DOMAIN rows' /\ Follows(job'[s].seen[id], rows'[id])
  <2>1. job[s] \in RunRecs
    BY DEF TypeInv, RunsOK
  <2>2. id \in DOMAIN rows /\ Follows(job[s].seen[id], rows[id]) /\ job[s].seen[id] \in SummaryRows
    BY <1>1, <2>1, RecIs DEF VersionInv
  <2> QED
    BY <2>2, StaysBehind
<1>2. ASSUME NEW s \in Requests \ {t}, req'[s].pc # "idle" PROVE Follows(req'[s].read, rows'[req'[s].row])
  <2>1. req'[s] = req[s] /\ req[s].row \in DOMAIN rows /\ req[s].read \in SummaryRows
    BY <1>2 DEF TypeInv, RequestsOK, ReqRecs, OtherRequests
  <2>2. Follows(req[s].read, rows[req[s].row])
    BY <1>2, <2>1 DEF VersionInv
  <2> QED
    BY <2>1, <2>2, StaysBehind
<1> QED
  BY <1>1, <1>2 DEF VersionInv, Follows

LEMMA VersionStays ==
    ASSUME VersionInv, UNCHANGED <<rows, job, req>>
    PROVE  VersionInv'
BY DEF VersionInv, Follows

\* What a run holds when it reads nothing.
LEMMA HeldVersion ==
    ASSUME TypeInv, VersionInv, Advance, NEW r \in Runs
    PROVE  \A id \in DOMAIN job[r].seen : id \in DOMAIN rows' /\ Follows(job[r].seen[id], rows'[id])
<1> TAKE id \in DOMAIN job[r].seen
<1>1. id \in DOMAIN rows /\ Follows(job[r].seen[id], rows[id]) /\ job[r].seen[id] \in SummaryRows
  BY RunIs, RecIs DEF VersionInv, TypeInv
<1> QED
  BY <1>1, StaysBehind

LEMMA RowFollowsItself == ASSUME RowsOK, NEW id \in DOMAIN rows PROVE Follows(rows[id], rows[id])
BY RowsAre DEF Follows, SummaryRows

LEMMA NextVersion == TypeInv /\ VersionInv /\ [Next]_vars => VersionInv'
<1> SUFFICES ASSUME TypeInv, VersionInv, [Next]_vars PROVE VersionInv'
  OBVIOUS
<1>0. rows' = rows => Advance
  BY DEF Advance
<1>1. ASSUME NEW r \in Runs, Others(r), rows' = rows, req' = req,
             DOMAIN job'[r].seen = {} \/ job'[r].seen = job[r].seen
      PROVE  VersionInv'
  BY <1>0, <1>1, HeldVersion, RunVersion
<1>2. ASSUME NEW r \in Runs, Discover(r) PROVE VersionInv'
  BY <1>1, <1>2, DiscoverIs
<1>3. ASSUME NEW r \in Runs, Moves(r) \/ Quits(r), UNCHANGED still PROVE VersionInv'
  BY <1>1, <1>3, IdleRunIs DEF still, Moves, Quits
<1>4. ASSUME NEW r \in Runs, getAllProcesses(r) PROVE VersionInv'
  <2>1. Others(r) /\ rows' = rows /\ req' = req
    BY <1>4, ReadAllIs DEF still
  <2>2. \A id \in DOMAIN job'[r].seen : id \in DOMAIN rows' /\ Follows(job'[r].seen[id], rows'[id])
    BY <1>4, <2>1, ReadAllIs, LiveAre, RowFollowsItself DEF TypeInv
  <2> QED
    BY <1>0, <2>1, <2>2, RunVersion
<1>5. ASSUME NEW r \in Runs, getArchivedProcesses(r) PROVE VersionInv'
  <2>1. Others(r) /\ rows' = rows /\ req' = req
    BY <1>5, ReadArchivedIs DEF still
  <2>2. /\ DOMAIN job'[r].seen = DOMAIN job[r].seen \cup removed
        /\ \A id \in DOMAIN job[r].seen : job'[r].seen[id] = job[r].seen[id]
        /\ \A id \in removed \ DOMAIN job[r].seen : job'[r].seen[id] = rows[id]
    BY <1>5, ReadArchivedIs
  <2>3. ASSUME NEW id \in DOMAIN job'[r].seen
        PROVE  id \in DOMAIN rows' /\ Follows(job'[r].seen[id], rows'[id])
    <3>1. CASE id \in DOMAIN job[r].seen
      BY <1>0, <2>1, <2>2, <3>1, HeldVersion
    <3>2. CASE id \in removed \ DOMAIN job[r].seen
      BY <2>1, <2>2, <3>2, LiveAre, RowFollowsItself DEF TypeInv
    <3> QED
      BY <2>2, <3>1, <3>2
  <2> QED
    BY <1>0, <2>1, <2>3, RunVersion
<1>6. ASSUME NEW r \in Runs, CreateSummary(r) PROVE VersionInv'
  <2>1. Others(r) /\ job'[r].seen = job[r].seen /\ req' = req
    BY <1>6, CreateIs
  <2>2. PICK row \in SummaryRows : rows' = Append(rows, row)
    BY <1>6, CreateIs
  <2>3. Advance
    BY <2>2, AppendedIs DEF Advance, TypeInv
  <2> QED
    BY <2>1, <2>3, HeldVersion, RunVersion
<1>7. ASSUME NEW r \in Runs, AnnounceNew(r) PROVE VersionInv'
  BY <1>1, <1>7, AnnounceNewIs
<1>8. ASSUME NEW r \in Runs, PublishNew(r) PROVE VersionInv'
  <2> DEFINE id == job[r].row
             new == [rows[id] EXCEPT !.approval = "published"]
  <2>1. /\ Others(r) /\ job'[r].seen = job[r].seen /\ req' = req /\ id \in DOMAIN rows
        /\ written(id, new) \/ rows' = rows
    BY <1>8, PublishNewIs
  <2>2. new \in SummaryRows
    BY <2>1, RowsAre DEF TypeInv, SummaryRows
  <2> HIDE DEF new, id
  <2>3. Advance
    BY <1>0, <2>1, <2>2, PutAdvances
  <2> QED
    BY <2>1, <2>3, HeldVersion, RunVersion
<1>9. ASSUME NEW r \in Runs, NEW id \in DOMAIN job[r].seen, NEW copy, SeenIs(r, id, copy), Advance, req' = req,
             id \in DOMAIN rows', Follows(copy, rows'[id])
      PROVE  VersionInv'
  <2>1. \A other \in DOMAIN job'[r].seen : other \in DOMAIN rows' /\ Follows(job'[r].seen[other], rows'[other])
    <3> TAKE other \in DOMAIN job'[r].seen
    <3>1. CASE other = id
      BY <1>9, <3>1 DEF SeenIs
    <3>2. CASE other # id
      BY <1>9, <3>2, HeldVersion DEF SeenIs
    <3> QED
      BY <3>1, <3>2
  <2> QED
    BY <1>9, <2>1, RunVersion DEF SeenIs
<1>10. ASSUME NEW r \in Runs, NEW id \in DOMAIN job[r].seen, NEW new \in SummaryRows, id \in DOMAIN rows,
              written(id, new), SeenIs(r, id, rows'[id]), req' = req
       PROVE  VersionInv'
  <2>1. Advance /\ rows'[id] \in SummaryRows
    BY <1>10, PutAdvances
  <2>2. id \in DOMAIN rows' /\ Follows(rows'[id], rows'[id])
    BY <1>10, <2>1 DEF Advance, Follows, SummaryRows
  <2> QED
    BY <1>9, <1>10, <2>1, <2>2
<1>11. ASSUME NEW r \in Runs, AttachMinutes(r) PROVE VersionInv'
  <2>1. CASE (Moves(r) \/ Quits(r)) /\ rows' = rows
    <3>1. Others(r) /\ req' = req
      BY <1>11, <2>1, AttachIs DEF Moves, Quits
    <3> QED
      BY <1>1, <2>1, <3>1, IdleRunIs DEF Moves, Quits
  <2> QED
    BY <1>10, <1>11, <2>1, AttachIs
<1>12. ASSUME NEW r \in Runs, UpgradeSummary(r) PROVE VersionInv'
  <2>1. ASSUME NEW id \in DOMAIN job[r].seen, NEW new \in SummaryRows, id \in DOMAIN rows,
               new.version = job[r].seen[id].version, job[r].seen[id].version # rows[id].version,
               rows' = rows, SeenIs(r, id, new), req' = req
        PROVE  VersionInv'
    <3>1. Follows(job[r].seen[id], rows[id])
      BY <2>1 DEF VersionInv
    <3>2. Follows(new, rows'[id])
      BY <2>1, <3>1 DEF Follows
    <3> QED
      BY <1>0, <1>9, <2>1, <3>2
  <2> QED
    BY <1>10, <1>12, <2>1, UpgradeIs
<1>13. ASSUME NEW t \in Requests, NEW kind \in AdminKinds, NEW id \in DOMAIN rows, Open(t, kind, id) PROVE VersionInv'
  <2>1. /\ OtherRequests(t) /\ req'[t].row = id /\ req'[t].read = rows[id] /\ rows' = rows /\ job' = job
    BY <1>13, OpenIs
  <2>2. Follows(req'[t].read, rows'[req'[t].row])
    BY <2>1, RowFollowsItself DEF TypeInv
  <2> QED
    BY <1>0, <2>1, <2>2, RequestVersion
<1>14. ASSUME NEW t \in Requests, Announce(t) PROVE VersionInv'
  <2>1. /\ OtherRequests(t) /\ req'[t].row = req[t].row /\ req'[t].read = req[t].read /\ rows' = rows
        /\ job' = job /\ req[t].pc # "idle"
    BY <1>14, AnnounceIs
  <2>2. Follows(req'[t].read, rows'[req'[t].row])
    BY <2>1 DEF VersionInv
  <2> QED
    BY <1>0, <2>1, <2>2, RequestVersion
<1>15. ASSUME NEW t \in Requests, Save(t) PROVE VersionInv'
  <2>1. OtherRequests(t) /\ req'[t].pc = "idle" /\ job' = job
    BY <1>15, SaveIs, IdleRequestIs
  <2>2. Advance
    BY <1>0, <1>15, SaveIs, PutAdvances
  <2> QED
    BY <2>1, <2>2, RequestVersion
<1>16. ASSUME NEW t \in Requests, RequestDies(t) PROVE VersionInv'
  <2>1. OtherRequests(t) /\ req'[t].pc = "idle" /\ job' = job /\ rows' = rows
    BY <1>16, RequestDiesIs, IdleRequestIs
  <2> QED
    BY <1>0, <2>1, RequestVersion
<1>17. ASSUME NEW m \in Meetings, NEW kind \in DocKinds, Post(m, kind) PROVE VersionInv'
  BY <1>17, VersionStays DEF Post
<1>18. CASE ChangeConnector \/ DaysPass \/ UNCHANGED vars
  BY <1>18, VersionStays DEF ChangeConnector, DaysPass, vars
<1>19. CASE Next
  <2>1. ASSUME NEW r \in Runs, \/ PassEnds(r) \/ SkipEntry(r) \/ WaitForRecord(r) \/ NothingDue(r)
                               \/ UpgradeWaits(r) \/ EntryFails(r) \/ RunDies(r)
        PROVE VersionInv'
    BY <1>3, <2>1, PassEndsIs, SkipEntryIs, PassesIs, EntryFailsIs, RunDiesIs
  <2> QED
    BY <1>2, <1>4, <1>5, <1>6, <1>7, <1>8, <1>11, <1>12, <1>13, <1>14, <1>15, <1>16, <1>17, <1>18, <1>19, <2>1
       DEF Next, RunStep
<1> QED
  BY <1>18, <1>19

LEMMA Always == Spec => [](TypeInv /\ VersionInv)
<1>1. Init => TypeInv /\ VersionInv
  <2> SUFFICES ASSUME Init PROVE VersionInv
    BY InitType
  <2>1. \A r \in Runs : job[r] = IdleRun
    BY DEF Init
  <2>2. \A t \in Requests : req[t] = IdleRequest
    BY DEF Init
  <2> QED
    BY <2>1, <2>2, IdleRunIs, IdleRequestIs DEF VersionInv
<1>2. TypeInv /\ VersionInv /\ [Next]_vars => (TypeInv /\ VersionInv)'
  BY NextType, NextVersion
<1> QED
  BY <1>1, <1>2, PTL DEF Spec

LEMMA TypeIsOK == TypeInv => TypeOK
<1> SUFFICES ASSUME TypeInv PROVE TypeOK
  OBVIOUS
<1>1. docs \in [Meetings -> SUBSET DocKinds] /\ scheme \in {1, 2} /\ rows \in Seq(SummaryRows)
  BY DEF TypeInv, WorldOK, RowsOK
<1>2. \A id \in DOMAIN rows : rows[id].now.n \in 1..texts /\ rows[id].revision.n \in 0..texts
  BY RowsAre DEF TypeInv, RowOK
<1>3. \A r \in Runs : /\ \A id \in DOMAIN job[r].seen : job[r].seen[id] \in SummaryRows
                      /\ \A id \in DOMAIN job[r].asRead : job[r].asRead[id] \in SummaryRows
                      /\ job[r].slots \in 0..2 * MaxRows /\ job[r].written \in 0..Cap
  BY RunIs, RecIs DEF TypeInv
<1>4. \A t \in Requests : req[t].read \in SummaryRows
  BY DEF TypeInv, RequestsOK, ReqRecs
<1>5. cards \subseteq DOMAIN rows /\ confirmed \subseteq 1..texts
  BY DEF TypeInv, RowsOK
<1> QED
  BY <1>1, <1>2, <1>3, <1>4, <1>5 DEF TypeOK

\* The rows, and what runs and requests hold of them, keep their types, and a text has a
\* number that was given out.
THEOREM SummariesTypeCorrect == Spec => []TypeOK
BY Always, TypeIsOK, PTL

-----------------------------------------------------------------------------
(***************************************************************************)
(* Flagged texts.                                                          *)
(***************************************************************************)
\* A public text with a video and no timestamps is a known one, or from before the rules.
Shown(row, known) ==
    row.approval = "published" /\ has(row.now, "video") /\ ~row.now.stamps =>
        row.now.n \in known \/ (row.now.early /\ ~row.now.flag)

Honest(text) == has(text, "video") /\ ~text.stamps => text.flag

JobFlag == \A r \in Runs : job[r].pc \in {"announce", "publish"} /\ rows[job[r].row].version = 0 =>
                 ~effectiveQualityFlag(rows[job[r].row].now)

LEMMA FlagIs ==
    FlagInv <=> /\ \A id \in DOMAIN rows : Shown(rows[id], confirmed) /\ Honest(rows[id].revision)
                /\ JobFlag
BY DEF FlagInv, FlaggedNeedsConfirm, Shown, Honest, JobFlag

LEMMA FlagIsNext ==
    FlagInv' <=> /\ \A id \in DOMAIN rows' : Shown(rows'[id], confirmed') /\ Honest(rows'[id].revision)
                 /\ JobFlag'
BY DEF FlagInv, FlaggedNeedsConfirm, Shown, Honest, JobFlag, has, effectiveQualityFlag

LEMMA NoRevisionHonest == Honest(NoRevision)
BY NoRevisionIs DEF Honest, has

LEMMA KnownStays ==
    ASSUME NEW row, NEW known, NEW more, known \subseteq more, Shown(row, known)
    PROVE  Shown(row, more)
BY DEF Shown

\* A row that is written has another version than 0.
LEMMA JobsFlag ==
    ASSUME TypeInv, FlagInv, Advance, NEW r \in Runs, Others(r),
           job'[r].pc \in {"announce", "publish"} /\ rows'[job'[r].row].version = 0 =>
                ~effectiveQualityFlag(rows'[job'[r].row].now)
    PROVE  JobFlag'
<1> SUFFICES ASSUME NEW s \in Runs, s # r, job'[s].pc \in {"announce", "publish"}, rows'[job'[s].row].version = 0
             PROVE  ~effectiveQualityFlag(rows'[job'[s].row].now)
  BY DEF JobFlag, effectiveQualityFlag, has
<1>1. job'[s] = job[s] /\ job[s].row \in DOMAIN rows
  BY DEF Others, TypeInv, RunsOK
<1>2. rows[job[s].row].version \in Nat
  BY <1>1, RowsAre DEF TypeInv, SummaryRows
<1>3. rows'[job[s].row] = rows[job[s].row]
  BY <1>1, <1>2 DEF Advance
<1>4. JobFlag
  BY FlagIs
<1> QED
  BY <1>1, <1>3, <1>4 DEF JobFlag

LEMMA JobsFlagStay ==
    ASSUME TypeInv, FlagInv, Advance, job' = job
    PROVE  JobFlag'
<1> SUFFICES ASSUME NEW s \in Runs, job'[s].pc \in {"announce", "publish"}, rows'[job'[s].row].version = 0
             PROVE  ~effectiveQualityFlag(rows'[job'[s].row].now)
  BY DEF JobFlag, effectiveQualityFlag, has
<1>1. job'[s] = job[s] /\ job[s].row \in DOMAIN rows
  BY DEF TypeInv, RunsOK
<1>2. rows[job[s].row].version \in Nat
  BY <1>1, RowsAre DEF TypeInv, SummaryRows
<1>3. rows'[job[s].row] = rows[job[s].row]
  BY <1>1, <1>2 DEF Advance
<1>4. JobFlag
  BY FlagIs
<1> QED
  BY <1>1, <1>3, <1>4 DEF JobFlag

LEMMA FlagPut ==
    ASSUME TypeInv, FlagInv, NEW id \in DOMAIN rows, NEW new \in SummaryRows, written(id, new),
           confirmed \subseteq confirmed', Shown(new, confirmed'), Honest(new.revision)
    PROVE  \A other \in DOMAIN rows' : Shown(rows'[other], confirmed') /\ Honest(rows'[other].revision)
<1>1. /\ DOMAIN rows' = DOMAIN rows /\ Alike(rows'[id], new)
      /\ \A other \in DOMAIN rows \ {id} : rows'[other] = rows[other]
  BY WrittenIs DEF TypeInv
<1>2. Shown(rows'[id], confirmed') /\ Honest(rows'[id].revision)
  BY <1>1 DEF Alike, Shown
<1>3. \A other \in DOMAIN rows : Shown(rows[other], confirmed') /\ Honest(rows[other].revision)
  BY FlagIs, KnownStays
<1> QED
  BY <1>1, <1>2, <1>3

LEMMA NextFlag == TypeInv /\ VersionInv /\ FlagInv /\ [Next]_vars => FlagInv'
<1> SUFFICES ASSUME TypeInv, VersionInv, FlagInv, [Next]_vars PROVE FlagInv'
  OBVIOUS
<1>0. /\ \A id \in DOMAIN rows : Shown(rows[id], confirmed) /\ Honest(rows[id].revision)
      /\ JobFlag
      /\ rows' = rows => Advance
  BY FlagIs DEF Advance
<1>1. ASSUME NEW r \in Runs, Others(r), rows' = rows, confirmed' = confirmed,
             job'[r].pc \notin {"announce", "publish"}
      PROVE  FlagInv'
  BY <1>0, <1>1, JobsFlag, FlagIsNext
<1>2. ASSUME NEW r \in Runs, Discover(r) \/ getAllProcesses(r) \/ getArchivedProcesses(r) PROVE FlagInv'
  BY <1>1, <1>2, DiscoverIs, ReadAllIs, ReadArchivedIs DEF still
<1>3. ASSUME NEW r \in Runs, Moves(r) \/ Quits(r), rows' = rows, confirmed' = confirmed PROVE FlagInv'
  BY <1>1, <1>3, IdleRunIs DEF Moves, Quits
<1>4. ASSUME NEW r \in Runs, CreateSummary(r) PROVE FlagInv'
  <2>1. /\ Others(r) /\ confirmed' = confirmed
        /\ \/ job'[r].pc = "create"
           \/ job'[r].pc = "announce" /\ job'[r].row = Len(rows')
    BY <1>4, CreateIs
  <2>2. PICK row \in SummaryRows :
           /\ rows' = Append(rows, row) /\ row.revision = NoRevision /\ row.approval = "pending"
           /\ job'[r].pc = "announce" => ~effectiveQualityFlag(row.now)
    BY <1>4, CreateIs
  <2>3. /\ DOMAIN rows' = DOMAIN rows \cup {Len(rows')}
        /\ \A id \in DOMAIN rows : rows'[id] = rows[id]
        /\ rows'[Len(rows')] = row
    BY <2>2, AppendedIs DEF TypeInv
  <2>4. Advance
    BY <2>3 DEF Advance
  <2>5. Shown(row, confirmed') /\ Honest(row.revision)
    BY <2>2, NoRevisionHonest DEF Shown
  <2>6. JobFlag'
    BY <2>1, <2>2, <2>3, <2>4, JobsFlag
  <2> QED
    BY <1>0, <2>1, <2>3, <2>5, <2>6, FlagIsNext
<1>5. ASSUME NEW r \in Runs, AnnounceNew(r) PROVE FlagInv'
  <2>1. /\ Others(r) /\ rows' = rows /\ confirmed' = confirmed
        /\ job[r].pc = "announce" /\ job'[r].row = job[r].row
    BY <1>5, AnnounceNewIs DEF in
  <2>2. rows'[job'[r].row].version = 0 => ~effectiveQualityFlag(rows'[job'[r].row].now)
    BY <1>0, <2>1 DEF JobFlag
  <2>3. JobFlag'
    BY <1>0, <2>1, <2>2, JobsFlag
  <2> QED
    BY <1>0, <2>1, <2>3, FlagIsNext
<1>6. ASSUME NEW r \in Runs, PublishNew(r) PROVE FlagInv'
  <2> DEFINE id == job[r].row
             new == [rows[id] EXCEPT !.approval = "published"]
  <2>1. /\ Others(r) /\ job'[r].pc = "create" /\ confirmed' = confirmed /\ id \in DOMAIN rows
        /\ job[r].pc = "publish"
        /\ (rows[id].version = 0 /\ written(id, new)) \/ rows' = rows
    BY <1>6, PublishNewIs DEF in
  <2>2. CASE rows' = rows
    BY <1>1, <2>1, <2>2
  <2>3. CASE rows[id].version = 0 /\ written(id, new)
    <3>1. ~effectiveQualityFlag(rows[id].now)
      BY <1>0, <2>1, <2>3 DEF JobFlag
    <3>2. new \in SummaryRows /\ new.now = rows[id].now /\ new.revision = rows[id].revision
      BY <2>1, RowsAre DEF TypeInv, SummaryRows
    <3> HIDE DEF new, id
    <3>3. Shown(new, confirmed') /\ Honest(new.revision)
      BY <1>0, <2>1, <3>1, <3>2 DEF Shown, effectiveQualityFlag
    <3>4. Advance
      BY <2>1, <2>3, <3>2, PutAdvances
    <3>5. JobFlag'
      BY <2>1, <3>4, JobsFlag
    <3>6. \A other \in DOMAIN rows' : Shown(rows'[other], confirmed') /\ Honest(rows'[other].revision)
      BY <2>1, <2>3, <3>2, <3>3, FlagPut
    <3> QED
      BY <3>5, <3>6, FlagIsNext
  <2> QED
    BY <2>1, <2>2, <2>3
<1>7. ASSUME NEW r \in Runs, NEW id \in DOMAIN rows, NEW new \in SummaryRows, written(id, new), Others(r),
             job'[r].pc = "upgrade", confirmed' = confirmed, Shown(new, confirmed), Honest(new.revision)
      PROVE  FlagInv'
  <2>1. Advance
    BY <1>7, PutAdvances
  <2>2. JobFlag'
    BY <1>7, <2>1, JobsFlag
  <2>3. \A other \in DOMAIN rows' : Shown(rows'[other], confirmed') /\ Honest(rows'[other].revision)
    BY <1>7, FlagPut
  <2> QED
    BY <2>2, <2>3, FlagIsNext
<1>8. ASSUME NEW r \in Runs, AttachMinutes(r) PROVE FlagInv'
  <2>1. CASE (Moves(r) \/ Quits(r)) /\ rows' = rows
    BY <1>3, <1>8, <2>1, AttachIs
  <2>2. ASSUME NEW id \in DOMAIN rows, NEW new \in SummaryRows, rows[id].approval # "published",
               new.approval = rows[id].approval, new.revision = rows[id].revision,
               written(id, new), SeenIs(r, id, rows'[id])
        PROVE  FlagInv'
    <3>1. Shown(new, confirmed) /\ Honest(new.revision)
      BY <1>0, <2>2 DEF Shown
    <3>2. Others(r) /\ job'[r].pc = "upgrade" /\ confirmed' = confirmed
      BY <1>8, <2>2, AttachIs DEF SeenIs
    <3> QED
      BY <1>7, <2>2, <3>1, <3>2
  <2> QED
    BY <1>8, <2>1, <2>2, AttachIs
<1>9. ASSUME NEW r \in Runs, UpgradeSummary(r) PROVE FlagInv'
  <2>1. confirmed' = confirmed
    BY <1>9, UpgradeIs
  <2>2. ASSUME NEW id \in DOMAIN rows, NEW new \in SummaryRows, NEW text \in Texts,
               has(text, "video") /\ ~text.stamps => text.flag,
               new.approval = rows[id].approval,
               rows[id].approval = "published" => new.now = rows[id].now /\ new.revision = text,
               rows[id].approval # "published" => new.now = text /\ new.revision = rows[id].revision,
               written(id, new), SeenIs(r, id, rows'[id])
        PROVE  FlagInv'
    <3>1. Shown(new, confirmed)
      BY <1>0, <2>2 DEF Shown
    <3>2. Honest(text)
      BY <2>2 DEF Honest
    <3>3. Honest(new.revision)
      BY <1>0, <2>2, <3>2
    <3>4. Others(r) /\ job'[r].pc = "upgrade"
      BY <2>2 DEF SeenIs
    <3> QED
      BY <1>7, <2>1, <2>2, <3>1, <3>3, <3>4
  <2>3. ASSUME NEW id, NEW new, rows' = rows, SeenIs(r, id, new) PROVE FlagInv'
    BY <1>1, <2>1, <2>3 DEF SeenIs
  <2> QED
    BY <1>9, <2>2, <2>3, UpgradeIs
<1>10. ASSUME job' = job, rows' = rows, confirmed' = confirmed PROVE FlagInv'
  BY <1>0, <1>10, JobsFlagStay, FlagIsNext
<1>11. ASSUME NEW t \in Requests, Save(t) PROVE FlagInv'
  <2>1. job' = job
    BY <1>11, SaveIs
  <2>2. CASE UNCHANGED <<rows, texts, confirmed, raced>>
    BY <1>10, <2>1, <2>2
  <2>3. ASSUME req[t].row \in DOMAIN rows, NEW new \in SummaryRows,
               written(req[t].row, new), SavedText(rows[req[t].row], new), confirmed \subseteq confirmed'
        PROVE  FlagInv'
    <3> DEFINE row == rows[req[t].row]
    <3>1. Shown(row, confirmed') /\ Honest(row.revision)
      BY <1>0, <2>3, KnownStays
    <3> HIDE DEF row
    <3>2. SavedText(row, new)
      BY <2>3 DEF row
    <3>3. Shown(new, confirmed') /\ Honest(new.revision)
      <4>1. CASE /\ new.now = row.now /\ new.revision \in {row.revision, NoRevision}
                 /\ \/ new.approval = row.approval
                    \/ new.approval = "published" /\ (~effectiveQualityFlag(row.now) \/ row.now.n \in confirmed')
        <5>1. Shown(new, confirmed')
          BY <3>1, <4>1 DEF Shown, effectiveQualityFlag
        <5>2. Honest(new.revision)
          BY <3>1, <4>1, NoRevisionHonest
        <5> QED
          BY <5>1, <5>2
      <4>2. CASE new.revision = row.revision /\ new.approval = "pending"
        BY <3>1, <4>2 DEF Shown
      <4>3. CASE /\ new.now = row.revision /\ new.revision = NoRevision
                 /\ ~row.revision.flag \/ row.revision.n \in confirmed'
        <5>1. Shown(new, confirmed')
          BY <3>1, <4>3 DEF Shown, Honest
        <5>2. Honest(new.revision)
          BY <4>3, NoRevisionHonest
        <5> QED
          BY <5>1, <5>2
      <4> QED
        BY <3>2, <4>1, <4>2, <4>3 DEF SavedText
    <3>4. Advance
      BY <2>3, PutAdvances
    <3>5. JobFlag'
      BY <2>1, <3>4, JobsFlagStay
    <3>6. \A other \in DOMAIN rows' : Shown(rows'[other], confirmed') /\ Honest(rows'[other].revision)
      BY <2>3, <3>3, FlagPut
    <3> QED
      BY <3>5, <3>6, FlagIsNext
  <2> QED
    BY <1>11, <2>2, <2>3, SaveIs
<1>12. ASSUME NEW t \in Requests, NEW kind \in AdminKinds, NEW id \in DOMAIN rows, Open(t, kind, id) PROVE FlagInv'
  BY <1>10, <1>12, OpenIs
<1>13. ASSUME NEW t \in Requests, Announce(t) \/ RequestDies(t) PROVE FlagInv'
  BY <1>10, <1>13, AnnounceIs, RequestDiesIs
<1>14. ASSUME NEW m \in Meetings, NEW kind \in DocKinds, Post(m, kind) PROVE FlagInv'
  BY <1>10, <1>14 DEF Post
<1>15. CASE ChangeConnector \/ DaysPass \/ UNCHANGED vars
  BY <1>10, <1>15 DEF ChangeConnector, DaysPass, vars
<1>16. CASE Next
  <2>1. ASSUME NEW r \in Runs, \/ PassEnds(r) \/ SkipEntry(r) \/ WaitForRecord(r) \/ NothingDue(r)
                               \/ UpgradeWaits(r) \/ EntryFails(r) \/ RunDies(r)
        PROVE FlagInv'
    BY <1>3, <2>1, PassEndsIs, SkipEntryIs, PassesIs, EntryFailsIs, RunDiesIs DEF still
  <2> QED
    BY <1>2, <1>4, <1>5, <1>6, <1>8, <1>9, <1>11, <1>12, <1>13, <1>14, <1>15, <1>16, <2>1 DEF Next, RunStep
<1> QED
  BY <1>15, <1>16

LEMMA InitFlag == Init => FlagInv
<1> SUFFICES ASSUME Init PROVE FlagInv
  OBVIOUS
<1>1. JobFlag
  BY IdleRunIs DEF Init, JobFlag
<1>2. CASE rows = <<>>
  BY <1>1, <1>2, FlagIs
<1>3. ASSUME NEW archived \in BOOLEAN, rows = <<[legacySummary EXCEPT !.archived = archived]>>
      PROVE  FlagInv
  <2> DEFINE row == [legacySummary EXCEPT !.archived = archived]
  <2>1. row.now.early /\ ~row.now.flag /\ row.revision = NoRevision
    BY LegacyIs DEF SummaryRows
  <2>2. rows = <<row>>
    BY <1>3
  <2> HIDE DEF row
  <2>3. DOMAIN rows = {1} /\ rows[1] = row
    BY <2>2
  <2>4. Shown(row, confirmed) /\ Honest(row.revision)
    BY <2>1, NoRevisionHonest DEF Shown
  <2> QED
    BY <1>1, <2>3, <2>4, FlagIs
<1>4. rows = <<>> \/ \E archived \in BOOLEAN : rows = <<[legacySummary EXCEPT !.archived = archived]>>
  BY DEF Init
<1> QED
  BY <1>2, <1>3, <1>4

\* A public text with a video and no timestamps was confirmed by an admin (or is from
\* before the rules): the job publishes only what it just wrote unflagged, an approval
\* that does not confirm is refused if the row changed since it was read, and a revision
\* that is flagged must be confirmed.
THEOREM FlagsAreConfirmed == Spec => []FlaggedNeedsConfirm
<1>1. TypeInv /\ VersionInv /\ FlagInv /\ [Next]_vars => FlagInv'
  BY NextFlag
<1>2. FlagInv => FlaggedNeedsConfirm
  BY DEF FlagInv
<1> QED
  BY <1>1, <1>2, Always, InitFlag, PTL DEF Spec

-----------------------------------------------------------------------------
(***************************************************************************)
(* What an admin wrote, and what is public.                                *)
(***************************************************************************)
KeepsEdits ==
    \A id \in DOMAIN rows :
        /\ rows[id].edited /\ rows[id].approval = "pending" /\ rows'[id].now.n # rows[id].now.n => req' # req
        /\ rows[id].approval = "published" => rows'[id].approval = "published"

LEMMA EditsPut ==
    ASSUME TypeInv, NEW id \in DOMAIN rows, NEW new \in SummaryRows, written(id, new),
           rows[id].edited /\ rows[id].approval = "pending" /\ new.now.n # rows[id].now.n => req' # req,
           rows[id].approval = "published" => new.approval = "published"
    PROVE  KeepsEdits
BY WrittenIs DEF Alike, KeepsEdits, TypeInv

LEMMA EditsStep == TypeInv /\ VersionInv /\ [Next]_vars => KeepsEdits
<1> SUFFICES ASSUME TypeInv, VersionInv, [Next]_vars PROVE KeepsEdits
  OBVIOUS
<1>1. rows' = rows => KeepsEdits
  BY DEF KeepsEdits
<1>2. ASSUME NEW r \in Runs, CreateSummary(r) PROVE KeepsEdits
  <2>1. PICK row \in SummaryRows : rows' = Append(rows, row)
    BY <1>2, CreateIs
  <2>2. \A id \in DOMAIN rows : rows'[id] = rows[id]
    BY <2>1, AppendedIs DEF TypeInv
  <2> QED
    BY <2>2 DEF KeepsEdits
<1>3. ASSUME NEW r \in Runs, PublishNew(r) PROVE KeepsEdits
  <2> DEFINE id == job[r].row
             new == [rows[id] EXCEPT !.approval = "published"]
  <2>1. id \in DOMAIN rows /\ (written(id, new) \/ rows' = rows)
    BY <1>3, PublishNewIs
  <2>2. new \in SummaryRows /\ new.now = rows[id].now /\ new.approval = "published"
    BY <2>1, RowsAre DEF TypeInv, SummaryRows
  <2> HIDE DEF new, id
  <2> QED
    BY <1>1, <2>1, <2>2, EditsPut
<1>4. ASSUME NEW r \in Runs, AttachMinutes(r) PROVE KeepsEdits
  BY <1>1, <1>4, AttachIs, EditsPut
<1>5. ASSUME NEW r \in Runs, UpgradeSummary(r) PROVE KeepsEdits
  <2>1. ASSUME NEW id \in DOMAIN rows, NEW new \in SummaryRows, written(id, new),
               ~(rows[id].edited /\ rows[id].approval # "published"), new.approval = rows[id].approval
        PROVE  KeepsEdits
    BY <2>1, EditsPut
  <2> QED
    BY <1>1, <1>5, <2>1, UpgradeIs
<1>6. ASSUME NEW t \in Requests, Save(t) PROVE KeepsEdits
  <2>1. req' # req
    BY <1>6, SaveIs, IdleRequestIs
  <2>2. ASSUME NEW new \in SummaryRows, req[t].row \in DOMAIN rows, written(req[t].row, new),
               rows[req[t].row].approval = "published" => new.approval = "published"
        PROVE  KeepsEdits
    BY <2>1, <2>2, EditsPut
  <2> QED
    BY <1>1, <1>6, <2>2, SaveIs
<1>7. ASSUME NEW r \in Runs, \/ PassEnds(r) \/ SkipEntry(r) \/ WaitForRecord(r) \/ NothingDue(r)
                             \/ UpgradeWaits(r) \/ EntryFails(r) \/ RunDies(r) \/ Discover(r)
                             \/ getAllProcesses(r) \/ getArchivedProcesses(r) \/ AnnounceNew(r)
      PROVE KeepsEdits
  BY <1>1, <1>7, PassEndsIs, SkipEntryIs, PassesIs, EntryFailsIs, RunDiesIs, DiscoverIs, ReadAllIs,
     ReadArchivedIs, AnnounceNewIs DEF still
<1>8. ASSUME NEW t \in Requests, NEW kind \in AdminKinds, NEW id \in DOMAIN rows, Open(t, kind, id) PROVE KeepsEdits
  BY <1>1, <1>8, OpenIs
<1>9. ASSUME NEW t \in Requests, Announce(t) \/ RequestDies(t) PROVE KeepsEdits
  BY <1>1, <1>9, AnnounceIs, RequestDiesIs
<1>10. ASSUME NEW m \in Meetings, NEW kind \in DocKinds, Post(m, kind) PROVE KeepsEdits
  BY <1>1, <1>10 DEF Post
<1>11. CASE ChangeConnector \/ DaysPass \/ UNCHANGED vars
  BY <1>1, <1>11 DEF ChangeConnector, DaysPass, vars
<1> QED
  BY <1>2, <1>3, <1>4, <1>5, <1>6, <1>7, <1>8, <1>9, <1>10, <1>11 DEF Next, RunStep

\* While a summary an admin edited is in review, only an admin's request changes its
\* text, and what is public stays public, however a run and the requests overlap: a
\* write of a copy with the row's version is a write of the row.
THEOREM AdminsOwnTheirEdits == Spec => EditsKept
<1>1. TypeInv /\ VersionInv /\ [Next]_vars => [KeepsEdits]_vars
  BY EditsStep
<1>2. Spec => [][KeepsEdits]_vars
  BY <1>1, Always, PTL DEF Spec
<1> QED
  BY <1>2 DEF EditsKept, KeepsEdits

-----------------------------------------------------------------------------
(***************************************************************************)
(* One meeting has one summary.                                            *)
(***************************************************************************)
\* A step of a run that is under way, and is the only one.
LEMMA OneStep ==
    ASSUME OneInv, NEW r \in Runs, ~in(r, "idle"), Others(r), raced' = raced, Len(rows') <= 1,
           job'[r].pc # "archived", job'[r].pc = "create" => job'[r].at # 1
    PROVE  OneInv'
<1> SUFFICES ASSUME ~raced PROVE OneInv'
  BY DEF OneInv
<1>1. \A s \in Runs \ {r} : job'[s] = job[s] /\ job[s].pc = "idle"
  BY DEF OneInv, Others, in
<1> QED
  BY <1>1 DEF OneInv, in

LEMMA OneStays ==
    ASSUME OneInv, job' = job, DOMAIN rows' = DOMAIN rows, rows = <<>> => rows' = <<>>,
           Len(rows') = Len(rows), raced => raced',
           ~raced' => \A id \in DOMAIN rows : rows[id].archived /\ midRun => rows'[id].archived
    PROVE  OneInv'
<1> SUFFICES ASSUME ~raced' PROVE OneInv'
  BY DEF OneInv
<1>1. ~raced
  OBVIOUS
<1>2. \A r, s \in Runs : job'[r].pc = "idle" \/ job'[s].pc = "idle" \/ r = s
  BY <1>1 DEF OneInv, in
<1>3. ASSUME NEW r \in Runs, job'[r].pc = "archived", NEW id \in DOMAIN rows'
      PROVE  id \in DOMAIN job'[r].seen \/ rows'[id].archived
  <2>1. midRun
    BY <1>3 DEF midRun, in
  <2>2. id \in DOMAIN job[r].seen \/ rows[id].archived
    BY <1>1, <1>3 DEF OneInv, in
  <2> QED
    BY <1>3, <2>1, <2>2
<1>4. \A r \in Runs : job'[r].pc = "create" /\ job'[r].at = 1 /\ rows' # <<>> => job'[r].slots > 0
  BY <1>1 DEF OneInv, in
<1>5. Len(rows') <= 1
  BY <1>1 DEF OneInv
<1> QED
  BY <1>2, <1>3, <1>4, <1>5 DEF OneInv, in

LEMMA NoRows == ASSUME TypeInv PROVE rows = <<>> <=> DOMAIN rows = {}
<1>1. rows \in Seq(SummaryRows)
  BY RowsAre DEF TypeInv
<1> QED
  BY <1>1, EmptySeq, LenProperties

LEMMA NextOne ==
    ASSUME MeetingCount = 1
    PROVE  TypeInv /\ VersionInv /\ OneInv /\ [Next]_vars => OneInv'
<1> SUFFICES ASSUME TypeInv, VersionInv, OneInv, [Next]_vars PROVE OneInv'
  OBVIOUS
<1>0. ~raced => Len(rows) <= 1
  BY DEF OneInv
<1>1. ASSUME NEW r \in Runs, Discover(r) PROVE OneInv'
  <2>1. /\ in(r, "idle") /\ Others(r) /\ job'[r].pc = "all" /\ rows' = rows
        /\ raced' = (raced \/ \E other \in Runs \ {r} : ~in(other, "idle"))
    BY <1>1, DiscoverIs
  <2> SUFFICES ASSUME ~raced' PROVE OneInv'
    BY DEF OneInv
  <2>2. ~raced
    BY <2>1
  <2>3. \A s \in Runs \ {r} : job'[s].pc = "idle"
    BY <2>1 DEF Others, in
  <2>4. Len(rows') <= 1
    BY <1>0, <2>1, <2>2
  <2> QED
    BY <2>1, <2>3, <2>4 DEF OneInv, in
<1>2. ASSUME NEW r \in Runs, getAllProcesses(r) PROVE OneInv'
  <2>1. /\ in(r, "all") /\ Others(r) /\ job'[r].pc = "archived" /\ DOMAIN job'[r].seen = live
        /\ rows' = rows /\ raced' = raced
    BY <1>2, ReadAllIs DEF still
  <2> SUFFICES ASSUME ~raced PROVE OneInv'
    BY <2>1 DEF OneInv
  <2>2. \A s \in Runs \ {r} : job'[s] = job[s] /\ job[s].pc = "idle"
    BY <2>1 DEF OneInv, Others, in
  <2>3. \A id \in DOMAIN rows : id \in live \/ rows[id].archived
    BY DEF live
  <2> QED
    BY <1>0, <2>1, <2>2, <2>3 DEF OneInv, in
<1>3. ASSUME NEW r \in Runs, getArchivedProcesses(r) PROVE OneInv'
  <2>1. /\ in(r, "archived") /\ Others(r) /\ job'[r].pc = "create" /\ rows' = rows /\ raced' = raced
        /\ DOMAIN job[r].seen # {} \/ removed # {} => job'[r].slots > 0
    BY <1>3, ReadArchivedIs DEF still
  <2> SUFFICES ASSUME ~raced PROVE OneInv'
    BY <2>1 DEF OneInv
  <2>2. \A s \in Runs \ {r} : job'[s] = job[s] /\ job[s].pc = "idle"
    BY <2>1 DEF OneInv, Others, in
  <2>3. rows # <<>> => job'[r].slots > 0
    <3> SUFFICES ASSUME rows # <<>> PROVE job'[r].slots > 0
      OBVIOUS
    <3>1. PICK id \in DOMAIN rows : TRUE
      BY NoRows
    <3>2. id \in DOMAIN job[r].seen \/ id \in removed
      BY <2>1 DEF OneInv, removed
    <3> QED
      BY <2>1, <3>2
  <2> QED
    BY <1>0, <2>1, <2>2, <2>3 DEF OneInv, in
<1>4. ASSUME NEW r \in Runs, Moves(r) \/ Quits(r), ~in(r, "idle"), raced' = raced, Len(rows') = Len(rows)
      PROVE  OneInv'
  <2>1. job'[r].pc # "archived" /\ (job'[r].pc = "create" => job'[r].at # 1) /\ Others(r)
    BY <1>4, IdleRunIs DEF Moves, Quits
  <2>2. CASE raced
    BY <1>4, <2>2 DEF OneInv
  <2> QED
    BY <1>0, <1>4, <2>1, <2>2, OneStep
<1>5. ASSUME NEW r \in Runs, CreateSummary(r) PROVE OneInv'
  <2>1. /\ in(r, "create") /\ job[r].at <= 1 /\ job[r].slots = 0 /\ Others(r) /\ raced' = raced
        /\ \/ job'[r].pc = "create" /\ job'[r].at # 1
           \/ job'[r].pc = "announce"
    BY <1>5, CreateIs
  <2>2. CASE raced
    BY <2>1, <2>2 DEF OneInv
  <2>3. CASE ~raced
    <3>1. job[r].at = 1
      BY <2>1, RunIs, RecIs DEF TypeInv
    <3>2. rows = <<>>
      BY <2>1, <2>3, <3>1 DEF OneInv
    <3>3. PICK row \in SummaryRows : rows' = Append(rows, row)
      BY <1>5, CreateIs
    <3>4. Len(rows') = 1
      BY <3>2, <3>3, AppendedIs DEF TypeInv
    <3> QED
      BY <2>1, <3>4, OneStep DEF in
  <2> QED
    BY <2>2, <2>3
<1>6. ASSUME NEW r \in Runs, AnnounceNew(r) PROVE OneInv'
  <2>1. in(r, "announce") /\ Others(r) /\ job'[r].pc = "publish" /\ raced' = raced /\ rows' = rows
    BY <1>6, AnnounceNewIs
  <2>2. CASE raced
    BY <2>1, <2>2 DEF OneInv
  <2> QED
    BY <1>0, <2>1, <2>2, OneStep DEF in
<1>7. ASSUME NEW r \in Runs, PublishNew(r) PROVE OneInv'
  <2> DEFINE id == job[r].row
             new == [rows[id] EXCEPT !.approval = "published"]
  <2>1. /\ in(r, "publish") /\ Others(r) /\ job'[r].pc = "create" /\ job'[r].at # 1 /\ raced' = raced
        /\ id \in DOMAIN rows /\ (written(id, new) \/ rows' = rows)
    BY <1>7, PublishNewIs
  <2>2. new \in SummaryRows
    BY <2>1, RowsAre DEF TypeInv, SummaryRows
  <2> HIDE DEF new, id
  <2>3. Len(rows') = Len(rows)
    BY <2>1, <2>2, WrittenIs DEF TypeInv
  <2>4. CASE raced
    BY <2>1, <2>4 DEF OneInv
  <2> QED
    BY <1>0, <2>1, <2>3, <2>4, OneStep DEF in
<1>8. ASSUME NEW r \in Runs, NEW id, NEW copy, SeenIs(r, id, copy), ~in(r, "idle"), raced' = raced,
             Len(rows') = Len(rows)
      PROVE  OneInv'
  <2>1. CASE raced
    BY <1>8, <2>1 DEF OneInv
  <2> QED
    BY <1>0, <1>8, <2>1, OneStep DEF SeenIs
<1>9. ASSUME NEW r \in Runs, AttachMinutes(r) PROVE OneInv'
  <2>1. ~in(r, "idle") /\ raced' = raced
    BY <1>9, AttachIs DEF in
  <2>2. CASE (Moves(r) \/ Quits(r)) /\ rows' = rows
    BY <1>4, <2>1, <2>2
  <2>3. ASSUME NEW id \in DOMAIN rows, NEW new \in SummaryRows, written(id, new), SeenIs(r, id, rows'[id])
        PROVE  OneInv'
    BY <1>8, <2>1, <2>3, WrittenIs DEF TypeInv
  <2> QED
    BY <1>9, <2>2, <2>3, AttachIs
<1>10. ASSUME NEW r \in Runs, UpgradeSummary(r) PROVE OneInv'
  <2>1. ~in(r, "idle") /\ raced' = raced
    BY <1>10, UpgradeIs DEF in
  <2>2. ASSUME NEW id \in DOMAIN rows, NEW new \in SummaryRows, written(id, new), SeenIs(r, id, rows'[id])
        PROVE  OneInv'
    BY <1>8, <2>1, <2>2, WrittenIs DEF TypeInv
  <2>3. ASSUME NEW id, NEW new, rows' = rows, SeenIs(r, id, new) PROVE OneInv'
    BY <1>8, <2>1, <2>3
  <2> QED
    BY <1>10, <2>2, <2>3, UpgradeIs
<1>11. ASSUME job' = job, rows' = rows, raced' = raced PROVE OneInv'
  BY <1>11, OneStays
<1>12. ASSUME NEW t \in Requests, Save(t) PROVE OneInv'
  <2>1. job' = job
    BY <1>12, SaveIs
  <2>2. CASE UNCHANGED <<rows, texts, confirmed, raced>>
    BY <1>11, <2>1, <2>2
  <2>3. ASSUME req[t].row \in DOMAIN rows, NEW new \in SummaryRows, written(req[t].row, new),
               raced' = (raced \/ (midRun /\ rows[req[t].row].archived /\ ~rows'[req[t].row].archived))
        PROVE  OneInv'
    <3>1. /\ Len(rows') = Len(rows) /\ DOMAIN rows' = DOMAIN rows
          /\ \A other \in DOMAIN rows \ {req[t].row} : rows'[other] = rows[other]
      BY <2>3, WrittenIs DEF TypeInv
    <3>2. rows # <<>>
      BY <2>3, NoRows
    <3>3. ASSUME ~raced', NEW id \in DOMAIN rows, rows[id].archived, midRun PROVE rows'[id].archived
      BY <2>3, <3>1, <3>3
    <3> QED
      BY <2>1, <2>3, <3>1, <3>2, <3>3, OneStays
  <2> QED
    BY <1>12, <2>2, <2>3, SaveIs
<1>13. ASSUME NEW t \in Requests, NEW kind \in AdminKinds, NEW id \in DOMAIN rows, Open(t, kind, id) PROVE OneInv'
  BY <1>11, <1>13, OpenIs
<1>14. ASSUME NEW t \in Requests, Announce(t) \/ RequestDies(t) PROVE OneInv'
  BY <1>11, <1>14, AnnounceIs DEF RequestDies
<1>15. ASSUME NEW m \in Meetings, NEW kind \in DocKinds, Post(m, kind) PROVE OneInv'
  BY <1>11, <1>15 DEF Post
<1>16. CASE ChangeConnector \/ DaysPass \/ UNCHANGED vars
  BY <1>11, <1>16 DEF ChangeConnector, DaysPass, vars
<1>17. CASE Next
  <2>1. ASSUME NEW r \in Runs, \/ PassEnds(r) \/ SkipEntry(r) \/ WaitForRecord(r) \/ NothingDue(r)
                               \/ UpgradeWaits(r) \/ EntryFails(r) \/ RunDies(r)
        PROVE OneInv'
    BY <1>4, <2>1, PassEndsIs, SkipEntryIs, PassesIs, EntryFailsIs, RunDiesIs DEF still
  <2> QED
    BY <1>1, <1>2, <1>3, <1>5, <1>6, <1>7, <1>9, <1>10, <1>12, <1>13, <1>14, <1>15, <1>16, <1>17, <2>1
       DEF Next, RunStep
<1> QED
  BY <1>16, <1>17

LEMMA InitOne == Init => OneInv
<1> SUFFICES ASSUME Init PROVE OneInv
  OBVIOUS
<1>1. \A r \in Runs : job[r].pc = "idle"
  BY IdleRunIs DEF Init
<1>2. Len(rows) <= 1
  <2>1. rows = <<>> \/ \E archived \in BOOLEAN : rows = <<[legacySummary EXCEPT !.archived = archived]>>
    BY DEF Init
  <2>2. ASSUME NEW row, rows = <<row>> PROVE Len(rows) <= 1
    BY <2>2
  <2> QED
    BY <2>1, <2>2
<1> QED
  BY <1>1, <1>2 DEF OneInv, in

\* A meeting that is the only one of its date and title is summarized once, its archived
\* summary included, unless two runs overlap or a summary comes back from the archive
\* while one reads: a run that created a summary has counted every row, and had none.
THEOREM MeetingsHaveOneSummary ==
    ASSUME MeetingCount = 1
    PROVE  Spec => []OneSummary
<1>1. TypeInv /\ VersionInv /\ OneInv /\ [Next]_vars => OneInv'
  BY NextOne
<1>2. TypeInv /\ OneInv => OneSummary
  <2> SUFFICES ASSUME TypeInv, OneInv, ~raced, NEW m \in Meetings
               PROVE  Cardinality({id \in DOMAIN rows : rows[id].made = m}) <= 1
    BY DEF OneSummary
  <2> DEFINE made == {id \in DOMAIN rows : rows[id].made = m}
  <2>1. made \subseteq {1}
    BY RowsAre DEF TypeInv, OneInv
  <2>2. IsFiniteSet({1}) /\ Cardinality({1}) = 1
    BY FS_Singleton
  <2> HIDE DEF made
  <2>3. Cardinality(made) <= 1
    BY <2>1, <2>2, FS_Subset
  <2> QED
    BY <2>3 DEF made
<1> QED
  BY <1>1, <1>2, Always, InitOne, PTL DEF Spec

=============================================================================
