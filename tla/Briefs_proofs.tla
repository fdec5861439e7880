--------------------------- MODULE Briefs_proofs ---------------------------
(***************************************************************************)
(* Theorems about Briefs, for any finite set of requests, any set of       *)
(* officials and any bounds.                                               *)
(***************************************************************************)
EXTENDS Briefs, FiniteSetTheorems, TLAPS

-----------------------------------------------------------------------------
(***************************************************************************)
(* The inductive invariant.                                                *)
(***************************************************************************)
\* A row whose texts and summaries are among the first k written.
RowOK(b, k) ==
    /\ b \in BriefRows
    /\ b.text.n \in 1..k /\ b.text.src \in 0..k /\ b.owed \in 0..k
    /\ b.revision # NoText => b.revision.n \in 1..k /\ b.revision.src \in 0..k /\ b.pub = "published"

RequestRecords ==
    [pc : PCs, kind : Kinds, brief : BriefRows, fresh : Texts, source : Nat, anchor : BOOLEAN]

\* Which requests come to a step.
Comes(pc, kind) ==
    /\ pc = "generate" => kind = "regenerate"
    /\ pc \in {"mail", "announce", "finalize", "finalizeSave", "settle"} => kind = "approve"
    /\ pc \in {"take", "takeSave"} => kind \in {"approve", "publish"}
    /\ pc = "emit" => kind \in {"edit", "regenerate", "publish", "discard"}
    /\ pc = "save" => kind # "respond"
    /\ pc \in {"anchor", "insert"} => kind = "respond"

\* An approval before its save and after it.
Before == {"mail", "announce", "finalize", "finalizeSave", "save"}
After == {"take", "takeSave", "settle"}

\* A request holds what its next step reads, on a row it was let through with.
ReqOK(q, k) ==
    /\ q \in RequestRecords
    /\ RowOK(q.brief, k)
    /\ Comes(q.pc, q.kind)
    /\ q.pc \in {"emit", "save"} /\ q.kind \in {"edit", "regenerate"} => q.fresh.n \in 1..k /\ q.fresh.src \in 0..k
    /\ q.kind = "edit" => q.brief.pub = "pending"
    /\ q.kind = "publish" => q.brief.revision # NoText
    /\ q.kind = "approve" /\ q.pc \in Before => q.brief.pub = "pending"
    /\ q.kind = "approve" /\ q.pc \in After => q.brief.pub = "published"
    /\ q.pc = "takeSave" => brings(q) # 0

SourceRows == [status : {"closed", "finalized"}, summary : Nat, kept : SUBSET Nat, version : Nat]

TypeInv ==
    /\ texts \in Nat
    /\ RowOK(brief, texts)
    /\ source \in SourceRows /\ source.summary \in 1..texts
    /\ req \in [Requests -> RequestRecords]
    /\ \A t \in Requests : ReqOK(req[t], texts)
    /\ anchors \in Nat
    /\ mailed \in [Officials -> [times : Nat, texts : SUBSET Texts]]
    /\ log \in [updated : Nat, published : Nat, writes : Nat]
    /\ shown \in [first : SUBSET Texts, all : SUBSET Texts]
    /\ saved \subseteq Texts /\ superseded \subseteq Texts
    /\ spoiled \in Nat /\ overlapped \in BOOLEAN /\ broken \in BOOLEAN

\* A request that read the current version holds the row as it is.
SnapshotInv ==
    \A t \in Requests : ~at(t, "idle") =>
        /\ req[t].brief.version <= brief.version
        /\ req[t].brief.version = brief.version => req[t].brief = brief

\* An approval past its mail sent its text to everyone; nothing was published
\* while the brief is pending.
MailInv ==
    /\ \A t \in Requests : req[t].kind = "approve" /\ req[t].pc \in Before \ {"mail"} =>
          \A o \in Officials : req[t].brief.text \in mailed[o].texts
    /\ brief.pub = "pending" => shown.first = {}
    /\ \A text \in shown.first : shown.first = {text}

\* Requests that emitted their event and have not saved.
announced == {t \in Requests : req[t].pc \in {"finalize", "finalizeSave", "save"}}

\* Every write has an event, counting those still to be written.
EventInv == log.writes + Cardinality(announced) <= log.updated + log.published

\* Approvals that have mailed, and that have announced.
mailing == {t \in Requests : req[t].kind = "approve" /\ req[t].pc \in Before \ {"mail"}}
announcing == {t \in Requests : req[t].kind = "approve" /\ req[t].pc \in Before \ {"mail", "announce"}}

\* The mails and announcements, charged to the approvals that made them.
ChargeInv ==
    /\ \A o \in Officials : mailed[o].times <= spoiled + Cardinality(shown.first) + Cardinality(mailing)
    /\ log.published <= spoiled + Cardinality(shown.first) + Cardinality(announcing)

\* Until two requests overlap there is one at most, and a response about to
\* make a card read that there is none.
CardInv ==
    /\ ~overlapped => \A t, u \in Requests : at(t, "idle") \/ at(u, "idle") \/ t = u
    /\ ~overlapped /\ ~broken => \A t \in Requests : at(t, "insert") /\ req[t].anchor => anchors = 0
    /\ OneCardADay

IInv == TypeInv /\ SnapshotInv /\ NothingLost /\ MailInv /\ PublishedAsMailed /\ EventInv /\ ChargeInv /\ CardInv

-----------------------------------------------------------------------------
(***************************************************************************)
(* Type correctness.                                                       *)
(***************************************************************************)
\* A row stays in order as more texts are written.
LEMMA RowGrows ==
    ASSUME NEW k \in Nat, NEW m \in Nat, k <= m, NEW b, RowOK(b, k)
    PROVE  RowOK(b, m)
BY DEF RowOK

\* So does a request.
LEMMA RequestGrows ==
    ASSUME NEW k \in Nat, NEW m \in Nat, k <= m, NEW q, ReqOK(q, k)
    PROVE  ReqOK(q, m)
<1>1. RowOK(q.brief, m)
  BY RowGrows DEF ReqOK
<1> QED
  BY <1>1 DEF ReqOK

\* The first row and a request that is over are in order.
LEMMA IdleOK ==
    ASSUME NEW k \in Nat, k >= 1
    PROVE  RowOK(createBriefState, k) /\ ReqOK(Idle, k)
<1>1. RowOK(createBriefState, k)
  BY DEF RowOK, createBriefState, firstText, NoText, BriefRows, Texts
<1>2. createBriefState \in BriefRows /\ createBriefState.pub = "pending"
  BY DEF createBriefState, firstText, NoText, BriefRows, Texts
<1>3. Idle \in RequestRecords
  BY <1>2 DEF Idle, RequestRecords, PCs, Kinds, NoText, Texts
<1> QED
  BY <1>1, <1>2, <1>3 DEF Idle, ReqOK, Comes, Before, After

\* A step replaces one request, and the others stay in order.
LEMMA RequestMoves ==
    ASSUME TypeInv, NEW t \in Requests, NEW q, becomes(t, q),
           texts' \in Nat, texts <= texts', ReqOK(q, texts')
    PROVE  /\ req' \in [Requests -> RequestRecords]
           /\ \A u \in Requests : ReqOK(req[u], texts)'
<1>1. q \in RequestRecords
  BY DEF ReqOK
<1>2. req' \in [Requests -> RequestRecords]
  BY <1>1 DEF TypeInv, becomes
<1>3. ASSUME NEW u \in Requests
      PROVE  ReqOK(req'[u], texts')
  <2>1. CASE u = t
    BY <2>1 DEF becomes, TypeInv
  <2>2. CASE u # t
    <3>1. req'[u] = req[u] /\ ReqOK(req[u], texts) /\ texts \in Nat
      BY <2>2 DEF becomes, TypeInv
    <3> QED
      BY <3>1, RequestGrows
  <2> QED
    BY <2>1, <2>2
<1> QED
  BY <1>2, <1>3 DEF ReqOK, RowOK, Comes, brings

\* What a request saves is a row in order.
LEMMA ChangedOK ==
    ASSUME NEW k \in Nat, NEW q, ReqOK(q, k), q.pc = "save"
    PROVE  RowOK(changed(q), k)
<1>1. q.kind \in Kinds \ {"respond"} /\ RowOK(q.brief, k) /\ q.fresh \in Texts
  BY DEF ReqOK, Comes, RequestRecords
<1>2. CASE q.kind = "edit"
  BY <1>1, <1>2 DEF ReqOK, RowOK, changed, BriefRows
<1>3. CASE q.kind = "regenerate"
  <2>1. q.fresh.n \in 1..k /\ q.fresh.src \in 0..k
    BY <1>3 DEF ReqOK
  <2>2. CASE q.brief.pub = "published"
    BY <1>1, <1>3, <2>1, <2>2 DEF RowOK, changed, regenerated, BriefRows
  <2>3. CASE q.brief.pub # "published"
    BY <1>1, <1>3, <2>1, <2>3 DEF RowOK, changed, regenerated, BriefRows, Texts
  <2> QED
    BY <2>2, <2>3
<1>4. CASE q.kind = "approve"
  BY <1>1, <1>4 DEF RowOK, changed, BriefRows
<1>5. CASE q.kind = "publish"
  <2>1. q.brief.revision # NoText
    BY <1>5 DEF ReqOK
  <2>2. NoText \in Texts
    BY DEF NoText, Texts
  <2> QED
    BY <1>1, <1>5, <2>1, <2>2 DEF RowOK, changed, published, BriefRows
<1>6. CASE q.kind = "discard"
  BY <1>1, <1>6 DEF RowOK, changed, BriefRows, NoText, Texts
<1> QED
  BY <1>1, <1>2, <1>3, <1>4, <1>5, <1>6 DEF Kinds

\* Only the version differs in the row as it is stored.
LEMMA StoredOK ==
    ASSUME NEW k \in Nat, NEW b, RowOK(b, k), NEW v \in Nat
    PROVE  RowOK([b EXCEPT !.version = v], k)
BY DEF RowOK, BriefRows

\* A step that only moves a request between its steps.
LEMMA TypeGoto ==
    ASSUME TypeInv, NEW t \in Requests, NEW q, becomes(t, q), ReqOK(q, texts), texts' = texts,
           brief' = brief, source' = source, anchors' = anchors, mailed' = mailed,
           log' \in [updated : Nat, published : Nat, writes : Nat],
           shown' = shown, saved' = saved, superseded' = superseded,
           spoiled' \in Nat, overlapped' \in BOOLEAN, broken' \in BOOLEAN
    PROVE  TypeInv'
<1>1. texts \in Nat /\ texts' \in Nat /\ texts <= texts'
  BY DEF TypeInv
<1>2. /\ req' \in [Requests -> RequestRecords]
      /\ \A u \in Requests : ReqOK(req[u], texts)'
  BY <1>1, RequestMoves
<1> QED
  BY <1>1, <1>2 DEF TypeInv

\* A request that ends is in order.
LEMMA EndsOK ==
    ASSUME TypeInv, NEW t \in Requests, ends(t)
    PROVE  /\ becomes(t, Idle) /\ ReqOK(Idle, texts)
           /\ spoiled' \in Nat /\ broken' \in BOOLEAN
<1>1. texts \in Nat /\ texts >= 1
  BY DEF TypeInv, RowOK
<1> QED
  BY <1>1, IdleOK DEF ends, TypeInv

\* Opening a request.
LEMMA TypeOpen ==
    ASSUME TypeInv, NEW t \in Requests, NEW kind \in Kinds, Open(t, kind)
    PROVE  TypeInv'
<1> DEFINE text == IF kind = "edit" THEN [n |-> texts', src |-> brief.text.src] ELSE NoText
           q == [Idle EXCEPT !.pc = firstStep(kind), !.kind = kind, !.brief = brief, !.fresh = text]
<1>1. texts \in Nat /\ texts' \in Nat /\ texts <= texts' /\ texts >= 1 /\ (kind = "edit" => texts' = texts + 1)
  BY DEF TypeInv, RowOK, Open
<1>2. RowOK(brief, texts) /\ RowOK(brief, texts') /\ brief \in BriefRows
  BY <1>1, RowGrows DEF TypeInv, RowOK
<1>3. text \in Texts /\ (kind = "edit" => text.n \in 1..texts' /\ text.src \in 0..texts')
  BY <1>1, <1>2 DEF RowOK, NoText, Texts
<1> HIDE DEF text
<1>4. firstStep(kind) \in PCs \ {"save", "takeSave", "settle"} /\ Comes(firstStep(kind), kind)
      /\ (firstStep(kind) = "emit" => kind \in {"edit", "publish", "discard"})
  BY DEF firstStep, Comes, Kinds, PCs
<1>5. Idle \in RequestRecords
  BY <1>1, IdleOK DEF ReqOK
<1>6. q \in RequestRecords /\ q.brief = brief /\ q.kind = kind /\ q.pc = firstStep(kind) /\ q.fresh = text
  BY <1>2, <1>3, <1>4, <1>5 DEF RequestRecords
<1>7. accepts(kind, brief)
  BY DEF Open
<1>8. /\ kind \in {"edit", "approve"} => brief.pub = "pending"
      /\ kind = "publish" => brief.revision # NoText
      /\ kind = "approve" => firstStep(kind) = "mail"
  BY <1>7 DEF accepts, firstStep
<1>9. ReqOK(q, texts')
  <2> HIDE DEF q
  <2> QED
    BY <1>2, <1>3, <1>4, <1>6, <1>8 DEF ReqOK, Before, After
<1>10. becomes(t, q)
  BY DEF Open, text
<1> HIDE DEF q
<1>11. /\ req' \in [Requests -> RequestRecords]
       /\ \A u \in Requests : ReqOK(req[u], texts)'
  BY <1>1, <1>9, <1>10, RequestMoves
<1>12. source' = source /\ source' \in SourceRows /\ source'.summary \in 1..texts'
  BY <1>1 DEF Open, TypeInv
<1>13. overlapped' \in BOOLEAN
  BY DEF Open
<1> QED
  BY <1>1, <1>2, <1>11, <1>12, <1>13 DEF Open, TypeInv

\* Writing a new version.
LEMMA TypeFresh ==
    ASSUME TypeInv, NEW t \in Requests, freshContent(t)
    PROVE  TypeInv'
<1>1. texts \in Nat /\ texts >= 1 /\ ReqOK(req[t], texts) /\ req[t].pc = "generate"
  BY DEF TypeInv, RowOK, freshContent, at
<1>2. CASE becomes(t, Idle) /\ UNCHANGED texts
  BY <1>1, <1>2, IdleOK, TypeGoto DEF freshContent, fine, TypeInv
<1>3. CASE /\ texts' = texts + 1
           /\ \E src \in {0, texts'} :
                becomes(t, [req[t] EXCEPT !.pc = "emit", !.fresh = [n |-> texts', src |-> src]])
  <2>1. PICK src \in {0, texts'} :
                becomes(t, [req[t] EXCEPT !.pc = "emit", !.fresh = [n |-> texts', src |-> src]])
    BY <1>3
  <2> DEFINE q == [req[t] EXCEPT !.pc = "emit", !.fresh = [n |-> texts', src |-> src]]
  <2>2. ReqOK(req[t], texts') /\ texts' \in Nat /\ texts <= texts'
    BY <1>1, <1>3, RequestGrows
  <2>3. ReqOK(q, texts')
    <3> DEFINE text == [n |-> texts', src |-> src]
    <3>1. text \in Texts /\ text.n \in 1..texts' /\ text.src \in 0..texts'
      BY <1>1, <1>3 DEF Texts
    <3>2. q = [req[t] EXCEPT !.pc = "emit", !.fresh = text]
      OBVIOUS
    <3> HIDE DEF text, q
    <3>3. req[t] \in RequestRecords /\ req[t].kind = "regenerate"
      BY <1>1 DEF ReqOK, Comes
    <3>4. q \in RequestRecords /\ q.brief = req[t].brief /\ q.kind = "regenerate" /\ q.pc = "emit" /\ q.fresh = text
      BY <3>1, <3>2, <3>3 DEF RequestRecords, PCs
    <3> QED
      BY <2>2, <3>1, <3>4 DEF ReqOK, Comes, Before, After
  <2>4. becomes(t, q)
    BY <2>1
  <2> HIDE DEF q
  <2>5. /\ req' \in [Requests -> RequestRecords]
        /\ \A u \in Requests : ReqOK(req[u], texts)'
    BY <2>2, <2>3, <2>4, RequestMoves
  <2>6. RowOK(brief, texts') /\ brief' = brief
    BY <1>1, <2>2, RowGrows DEF TypeInv, freshContent
  <2>7. source' = source /\ source'.summary \in 1..texts'
    BY <1>1, <2>2 DEF TypeInv, freshContent
  <2> QED
    BY <2>2, <2>5, <2>6, <2>7 DEF TypeInv, freshContent, fine
<1> QED
  BY <1>2, <1>3 DEF freshContent

\* Mailing the officials.
LEMMA TypeDeliver ==
    ASSUME TypeInv, NEW t \in Requests, deliver(t)
    PROVE  TypeInv'
<1>1. texts \in Nat /\ ReqOK(req[t], texts) /\ req[t].pc = "mail" /\ req[t].brief.text \in Texts
  BY DEF TypeInv, deliver, at, ReqOK, RequestRecords, BriefRows
<1>2. PICK sent \in SUBSET Officials :
        /\ mailed' = [o \in Officials |->
                IF o \in sent THEN [times |-> mailed[o].times + 1, texts |-> mailed[o].texts \cup {req[t].brief.text}]
                ELSE mailed[o]]
        /\ IF delivered(sent) THEN goto(t, "announce") /\ fine ELSE ends(t)
  BY DEF deliver
<1>3. mailed' \in [Officials -> [times : Nat, texts : SUBSET Texts]]
  BY <1>1, <1>2 DEF TypeInv
<1>4. PICK q : becomes(t, q) /\ ReqOK(q, texts) /\ spoiled' \in Nat /\ broken' \in BOOLEAN
  <2>1. CASE ends(t)
    BY <2>1, EndsOK
  <2>2. CASE goto(t, "announce") /\ fine
    <3>1. ReqOK([req[t] EXCEPT !.pc = "announce"], texts)
      BY <1>1 DEF ReqOK, RequestRecords, PCs, Comes, Before, After, brings
    <3> QED
      BY <2>2, <3>1 DEF goto, fine, TypeInv
  <2> QED
    BY <1>2, <2>1, <2>2
<1>5. texts' = texts /\ texts' \in Nat /\ texts <= texts'
  BY <1>1 DEF deliver
<1>6. /\ req' \in [Requests -> RequestRecords]
      /\ \A u \in Requests : ReqOK(req[u], texts)'
  BY <1>4, <1>5, RequestMoves
<1> QED
  BY <1>3, <1>4, <1>5, <1>6 DEF TypeInv, deliver

\* The steps that move a request on, and write nothing but events.
LEMMA TypeMoves ==
    ASSUME TypeInv, NEW t \in Requests,
           \/ emitBriefResultPublished(t) \/ finalizeBriefSource(t) \/ applySourceState(t)
           \/ emitBriefUpdated(t) \/ latestAnchorAt(t) \/ Stops(t)
    PROVE  TypeInv'
<1>1. texts \in Nat /\ ReqOK(req[t], texts) /\ req[t] \in RequestRecords /\ source.version \in Nat
  BY DEF TypeInv, SourceRows
<1>2. CASE emitBriefResultPublished(t)
  <2>1. ReqOK([req[t] EXCEPT !.pc = "finalize"], texts)
    BY <1>1, <1>2 DEF emitBriefResultPublished, at, ReqOK, RequestRecords, PCs, Comes, Before, After
  <2>2. becomes(t, [req[t] EXCEPT !.pc = "finalize"])
    BY <1>2 DEF emitBriefResultPublished, goto
  <2> QED
    BY <1>2, <2>1, <2>2, TypeGoto DEF emitBriefResultPublished, rowsKept, fine, TypeInv
<1>3. CASE finalizeBriefSource(t)
  <2>1. ReqOK([req[t] EXCEPT !.pc = "save"], texts)
    BY <1>1, <1>3 DEF finalizeBriefSource, at, ReqOK, RequestRecords, PCs, Comes, Before, After
  <2>2. ReqOK([req[t] EXCEPT !.pc = "finalizeSave", !.source = source.version], texts)
    BY <1>1, <1>3 DEF finalizeBriefSource, at, ReqOK, RequestRecords, PCs, Comes, Before, After
  <2>3. PICK q : becomes(t, q) /\ ReqOK(q, texts)
    BY <1>3, <2>1, <2>2 DEF finalizeBriefSource
  <2> QED
    BY <1>3, <2>3, TypeGoto DEF finalizeBriefSource, rowsKept, fine, TypeInv
<1>4. CASE applySourceState(t)
  <2>1. req[t].pc = "take" /\ req[t].kind \in {"approve", "publish"}
    BY <1>1, <1>4 DEF applySourceState, at, ReqOK, Comes
  <2>2. ReqOK([req[t] EXCEPT !.pc = afterTake(req[t])], texts)
    BY <1>1, <2>1 DEF ReqOK, RequestRecords, PCs, Comes, Before, After, afterTake
  <2>3. brings(req[t]) # 0 => ReqOK([req[t] EXCEPT !.pc = "takeSave", !.source = source.version], texts)
    BY <1>1, <2>1 DEF ReqOK, RequestRecords, PCs, Comes, Before, After, brings
  <2>4. PICK q : becomes(t, q) /\ ReqOK(q, texts)
    BY <1>4, <2>2, <2>3 DEF applySourceState
  <2> QED
    BY <1>4, <2>4, TypeGoto DEF applySourceState, rowsKept, fine, TypeInv
<1>5. CASE emitBriefUpdated(t)
  <2>1. ReqOK([req[t] EXCEPT !.pc = "save"], texts)
    BY <1>1, <1>5 DEF emitBriefUpdated, at, ReqOK, RequestRecords, PCs, Comes, Before, After
  <2>2. becomes(t, [req[t] EXCEPT !.pc = "save"])
    BY <1>5 DEF emitBriefUpdated, goto
  <2> QED
    BY <1>5, <2>1, <2>2, TypeGoto DEF emitBriefUpdated, rowsKept, fine, TypeInv
<1>6. CASE latestAnchorAt(t)
  <2>1. \A b \in BOOLEAN : ReqOK([req[t] EXCEPT !.pc = "insert", !.anchor = b], texts)
    BY <1>1, <1>6 DEF latestAnchorAt, at, ReqOK, RequestRecords, PCs, Comes, Before, After
  <2>2. PICK q : becomes(t, q) /\ ReqOK(q, texts)
    BY <1>6, <2>1 DEF latestAnchorAt, isFeedAnchor
  <2>3. spoiled' = spoiled /\ broken' \in BOOLEAN
    BY <1>6 DEF latestAnchorAt, fine, TypeInv
  <2> QED
    BY <1>6, <2>2, <2>3, TypeGoto DEF latestAnchorAt, rowsKept, TypeInv
<1>7. CASE Stops(t)
  BY <1>7, EndsOK, TypeGoto DEF Stops, rowsKept, TypeInv
<1> QED
  BY <1>2, <1>3, <1>4, <1>5, <1>6, <1>7

\* The writes of the source.
LEMMA TypeSource ==
    ASSUME TypeInv, NEW t \in Requests, finalizeSave(t) \/ takeSave(t)
    PROVE  TypeInv'
<1>1. texts \in Nat /\ texts' = texts /\ ReqOK(req[t], texts) /\ req[t] \in RequestRecords /\ source \in SourceRows
      /\ source.summary \in 1..texts
  BY DEF TypeInv, finalizeSave, takeSave
<1>2. CASE finalizeSave(t)
  <2>1. ReqOK([req[t] EXCEPT !.pc = "save"], texts)
    BY <1>1, <1>2 DEF finalizeSave, at, ReqOK, RequestRecords, PCs, Comes, Before, After
  <2>2. PICK q : becomes(t, q) /\ ReqOK(q, texts) /\ spoiled' \in Nat /\ broken' \in BOOLEAN
    <3>1. CASE ends(t)
      BY <3>1, EndsOK
    <3>2. CASE goto(t, "save") /\ fine
      BY <2>1, <3>2 DEF goto, fine, TypeInv
    <3> QED
      BY <1>2, <3>1, <3>2 DEF finalizeSave
  <2>3. /\ req' \in [Requests -> RequestRecords]
        /\ \A u \in Requests : ReqOK(req[u], texts)'
    BY <1>1, <2>2, RequestMoves
  <2>4. source' \in SourceRows /\ source'.summary \in 1..texts
    <3>1. PICK v \in Nat : v = source.version + 1
      BY <1>1 DEF SourceRows
    <3>2. source' = source \/ source' = [source EXCEPT !.status = "finalized", !.version = v]
      BY <1>2, <3>1 DEF finalizeSave
    <3> QED
      BY <1>1, <3>2 DEF SourceRows
  <2> QED
    BY <1>1, <1>2, <2>2, <2>3, <2>4 DEF finalizeSave, TypeInv
<1>3. CASE takeSave(t)
  <2>1. req[t].pc = "takeSave" /\ req[t].kind \in {"approve", "publish"} /\ brings(req[t]) # 0
    BY <1>1, <1>3 DEF takeSave, at, ReqOK, Comes
  <2>2. ReqOK([req[t] EXCEPT !.pc = afterTake(req[t])], texts)
    BY <1>1, <2>1 DEF ReqOK, RequestRecords, PCs, Comes, Before, After, afterTake
  <2>3. PICK q : becomes(t, q) /\ ReqOK(q, texts) /\ spoiled' \in Nat /\ broken' \in BOOLEAN
    <3>1. CASE ends(t)
      BY <3>1, EndsOK
    <3>2. CASE goto(t, afterTake(req[t])) /\ fine
      BY <2>2, <3>2 DEF goto, fine, TypeInv
    <3> QED
      BY <1>3, <3>1, <3>2 DEF takeSave
  <2>4. /\ req' \in [Requests -> RequestRecords]
        /\ \A u \in Requests : ReqOK(req[u], texts)'
    BY <1>1, <2>3, RequestMoves
  <2>5. brings(req[t]) \in 1..texts
    BY <1>1, <2>1 DEF brings, ReqOK, RowOK
  <2>6. taken(brings(req[t])) \in SourceRows /\ taken(brings(req[t])).summary \in 1..texts
    <3>1. PICK v \in Nat : v = source.version + 1
      BY <1>1 DEF SourceRows
    <3>2. PICK src \in Nat : src = brings(req[t])
      BY <1>1, <2>5
    <3>3. PICK kept \in SUBSET Nat : kept = source.kept \cup {source.summary}
      BY <1>1 DEF SourceRows
    <3>4. taken(brings(req[t])) = [source EXCEPT !.summary = src, !.kept = kept, !.version = v]
      BY <1>1, <3>1, <3>2, <3>3 DEF taken, SourceRows
    <3>5. source \in SourceRows
      BY <1>1
    <3>6. [source EXCEPT !.summary = src, !.kept = kept, !.version = v] \in SourceRows
      BY <3>5 DEF SourceRows
    <3>7. [source EXCEPT !.summary = src, !.kept = kept, !.version = v].summary = src
      BY <3>5 DEF SourceRows
    <3> QED
      BY <2>5, <3>2, <3>4, <3>6, <3>7
  <2>7. source' \in SourceRows /\ source'.summary \in 1..texts
    BY <1>1, <1>3, <2>6 DEF takeSave
  <2> QED
    BY <1>1, <1>3, <2>3, <2>4, <2>7 DEF takeSave, TypeInv
<1> QED
  BY <1>2, <1>3

\* The write of the brief.
LEMMA TypeSave ==
    ASSUME TypeInv, NEW t \in Requests, saveProcessState(t)
    PROVE  TypeInv'
<1> DEFINE q == req[t]
           new == [changed(q) EXCEPT !.version = brief.version + 1]
<1>1. texts \in Nat /\ texts' = texts /\ texts >= 1 /\ ReqOK(q, texts) /\ q \in RequestRecords /\ q.pc = "save"
      /\ brief.version \in Nat
  BY DEF TypeInv, saveProcessState, at, RowOK, BriefRows
<1>2. RowOK(changed(q), texts)
  BY <1>1, ChangedOK
<1>3. RowOK(new, texts)
  BY <1>1, <1>2, StoredOK
<1>4. CASE ends(t) /\ UNCHANGED <<brief, saved, superseded, shown, log>>
  BY <1>1, <1>4, EndsOK, TypeGoto DEF saveProcessState, TypeInv
<1>5. CASE ~(ends(t) /\ UNCHANGED <<brief, saved, superseded, shown, log>>)
  <2>1. /\ unchanged(q.brief)
        /\ brief' = new
        /\ saved' = saved \cup {new.text}
        /\ superseded' = IF q.kind = "edit" THEN superseded \cup {q.brief.text} ELSE superseded
        /\ shown' = IF new.pub = "pending" THEN shown
                    ELSE [first |-> IF q.kind = "approve" THEN {new.text} ELSE shown.first,
                          all |-> shown.all \cup {new.text}]
        /\ log' = [log EXCEPT !.writes = @ + 1]
        /\ becomes(t, IF q.kind = "approve" /\ new.owed # 0 THEN [q EXCEPT !.pc = "take", !.brief = new]
                      ELSE Idle)
        /\ fine
    BY <1>5 DEF saveProcessState
  <2>2. q.kind = "approve" => new.pub = "published"
    BY <1>1 DEF changed, ReqOK, RowOK, BriefRows
  <2>3. new \in BriefRows /\ new.text \in Texts /\ q.brief.text \in Texts
    BY <1>1, <1>3 DEF RowOK, BriefRows, ReqOK
  <2> HIDE DEF new
  <2>4. q.kind = "approve" => ReqOK([q EXCEPT !.pc = "take", !.brief = new], texts)
    BY <1>1, <1>3, <2>2, <2>3 DEF ReqOK, RequestRecords, PCs, Comes, Before, After
  <2>5. PICK r : becomes(t, r) /\ ReqOK(r, texts)
    BY <1>1, <2>1, <2>4, IdleOK
  <2>6. /\ req' \in [Requests -> RequestRecords]
        /\ \A u \in Requests : ReqOK(req[u], texts)'
    BY <1>1, <2>5, RequestMoves
  <2>7. saved' \subseteq Texts /\ superseded' \subseteq Texts
    BY <2>1, <2>3 DEF TypeInv
  <2>8. shown' \in [first : SUBSET Texts, all : SUBSET Texts]
    BY <2>1, <2>3 DEF TypeInv
  <2>9. log' \in [updated : Nat, published : Nat, writes : Nat]
    BY <2>1 DEF TypeInv
  <2> QED
    BY <1>1, <1>3, <2>1, <2>6, <2>7, <2>8, <2>9 DEF saveProcessState, fine, TypeInv
<1> QED
  BY <1>4, <1>5

\* The other writes.
LEMMA TypeRest ==
    ASSUME TypeInv, \/ \E t \in Requests : settle(t) \/ insertResponse(t)
                    \/ TouchSource \/ DayPasses
    PROVE  TypeInv'
<1>1. texts \in Nat /\ texts >= 1
  BY DEF TypeInv, RowOK
<1>2. ASSUME NEW t \in Requests, settle(t)
      PROVE  TypeInv'
  <2>1. RowOK(req[t].brief, texts) /\ brief.version \in Nat
    BY <1>2 DEF TypeInv, ReqOK, RowOK, BriefRows
  <2>2. RowOK([req[t].brief EXCEPT !.owed = 0, !.version = brief.version + 1], texts)
    <3> DEFINE b == [req[t].brief EXCEPT !.owed = 0]
    <3>1. brief.version + 1 \in Nat /\ RowOK(b, texts)
      BY <2>1, <1>1 DEF RowOK, BriefRows
    <3>2. [req[t].brief EXCEPT !.owed = 0, !.version = brief.version + 1] = [b EXCEPT !.version = brief.version + 1]
      OBVIOUS
    <3> QED
      BY <1>1, <3>1, <3>2, StoredOK
  <2>3. CASE ends(t) /\ UNCHANGED brief
    BY <1>2, <2>3, EndsOK, TypeGoto DEF settle, TypeInv
  <2>4. CASE /\ brief' = [req[t].brief EXCEPT !.owed = 0, !.version = brief.version + 1]
             /\ becomes(t, Idle) /\ fine
    <3>1. texts' = texts
      BY <1>2 DEF settle
    <3>2. /\ req' \in [Requests -> RequestRecords]
          /\ \A u \in Requests : ReqOK(req[u], texts)'
      BY <1>1, <2>4, <3>1, IdleOK, RequestMoves
    <3> QED
      BY <1>2, <2>2, <2>4, <3>1, <3>2 DEF settle, fine, TypeInv
  <2> QED
    BY <1>2, <2>3, <2>4 DEF settle
<1>3. ASSUME NEW t \in Requests, insertResponse(t)
      PROVE  TypeInv'
  <2>1. texts' = texts /\ becomes(t, Idle)
    BY <1>3 DEF insertResponse
  <2>2. /\ req' \in [Requests -> RequestRecords]
        /\ \A u \in Requests : ReqOK(req[u], texts)'
    BY <1>1, <2>1, IdleOK, RequestMoves
  <2> QED
    BY <1>3, <2>1, <2>2 DEF insertResponse, fine, TypeInv
<1>4. CASE TouchSource
  <2>1. source \in SourceRows
    BY DEF TypeInv
  <2>2. PICK v \in Nat : v = source.version + 1
    BY <2>1 DEF SourceRows
  <2>3. source' \in SourceRows /\ source'.summary = source.summary
    BY <1>4, <2>1, <2>2 DEF TouchSource, SourceRows
  <2> QED
    BY <1>4, <2>3 DEF TouchSource, TypeInv
<1>5. CASE DayPasses
  BY <1>5 DEF DayPasses, TypeInv
<1> QED
  BY <1>2, <1>3, <1>4, <1>5

\* Every step keeps the types.
LEMMA TypeNext ==
    ASSUME TypeInv, [Next]_vars
    PROVE  TypeInv'
<1>1. CASE UNCHANGED vars
  BY <1>1 DEF vars, TypeInv
<1>2. ASSUME NEW t \in Requests, Step(t) \/ Stops(t)
      PROVE  TypeInv'
  BY <1>2, TypeFresh, TypeDeliver, TypeMoves, TypeSource, TypeSave, TypeRest DEF Step
<1> QED
  BY <1>1, <1>2, TypeOpen, TypeRest DEF Next

LEMMA TypeInit ==
    ASSUME Init
    PROVE  TypeInv
<1>1. texts = 1 /\ RowOK(createBriefState, 1) /\ ReqOK(Idle, 1)
  BY IdleOK DEF Init
<1>2. req \in [Requests -> RequestRecords] /\ \A t \in Requests : req[t] = Idle
  BY <1>1 DEF Init, ReqOK
<1>3. source \in SourceRows /\ source.summary \in 1..1
  BY DEF Init, SourceRows
<1>4. firstText \in Texts
  BY DEF firstText, Texts
<1>5. /\ mailed \in [Officials -> [times : Nat, texts : SUBSET Texts]]
      /\ log \in [updated : Nat, published : Nat, writes : Nat]
      /\ shown \in [first : SUBSET Texts, all : SUBSET Texts]
  BY DEF Init
<1>6. /\ brief = createBriefState /\ anchors = 0 /\ saved = {firstText} /\ superseded = {}
      /\ spoiled = 0 /\ overlapped = FALSE /\ broken = FALSE
  BY DEF Init
<1> QED
  BY <1>1, <1>2, <1>3, <1>4, <1>5, <1>6 DEF TypeInv

-----------------------------------------------------------------------------
(***************************************************************************)
(* What steps do to the requests.                                          *)
(***************************************************************************)
\* The steps that write neither the brief nor what is known of its texts.
Elsewhere(t) ==
    \/ freshContent(t) \/ deliver(t) \/ emitBriefResultPublished(t) \/ finalizeBriefSource(t)
    \/ finalizeSave(t) \/ applySourceState(t) \/ takeSave(t) \/ emitBriefUpdated(t)
    \/ latestAnchorAt(t) \/ insertResponse(t) \/ Stops(t)

\* One request moves and the others stay.
LEMMA OneMoves ==
    ASSUME TypeInv, NEW t \in Requests, NEW q, becomes(t, q)
    PROVE  req'[t] = q /\ \A u \in Requests \ {t} : req'[u] = req[u]
BY DEF TypeInv, becomes

\* Such a step leaves the texts alone, and its request ends or goes on with
\* the row it read, as the same kind of request.
LEMMA ElsewhereKeeps ==
    ASSUME TypeInv, NEW t \in Requests, Elsewhere(t)
    PROVE  /\ brief' = brief /\ saved' = saved /\ superseded' = superseded /\ shown' = shown
           /\ req[t].pc # "idle"
           /\ \E q : /\ becomes(t, q)
                     /\ q = Idle \/ (q.brief = req[t].brief /\ q.kind = req[t].kind)
<1>1. brief' = brief /\ saved' = saved /\ superseded' = superseded /\ shown' = shown
  BY DEF Elsewhere, freshContent, deliver, emitBriefResultPublished, finalizeBriefSource, finalizeSave,
         applySourceState, takeSave, emitBriefUpdated, latestAnchorAt, insertResponse, Stops, rowsKept
<1>2. req[t].pc # "idle"
  BY DEF Elsewhere, freshContent, deliver, emitBriefResultPublished, finalizeBriefSource, finalizeSave,
         applySourceState, takeSave, emitBriefUpdated, latestAnchorAt, insertResponse, Stops, at
<1>3. req[t] \in RequestRecords
  BY DEF TypeInv
<1>4. \A pc : [req[t] EXCEPT !.pc = pc].brief = req[t].brief /\ [req[t] EXCEPT !.pc = pc].kind = req[t].kind
  BY <1>3 DEF RequestRecords
<1>5. CASE \E pc : goto(t, pc)
  BY <1>1, <1>2, <1>4, <1>5 DEF goto
<1>6. CASE ends(t) \/ insertResponse(t)
  BY <1>1, <1>2, <1>6 DEF ends, insertResponse
<1>7. CASE freshContent(t)
  <2>1. \A text : LET q == [req[t] EXCEPT !.pc = "emit", !.fresh = text]
                  IN  q.brief = req[t].brief /\ q.kind = req[t].kind
    BY <1>3 DEF RequestRecords
  <2>2. PICK q : becomes(t, q) /\ (q = Idle \/ \E text : q = [req[t] EXCEPT !.pc = "emit", !.fresh = text])
    BY <1>7 DEF freshContent
  <2> QED
    BY <1>1, <1>2, <2>1, <2>2
<1>8. CASE finalizeBriefSource(t) \/ applySourceState(t)
  <2>1. PICK pc, v, q : becomes(t, q) /\ \/ q = [req[t] EXCEPT !.pc = pc]
                                         \/ q = [req[t] EXCEPT !.pc = pc, !.source = v]
    BY <1>8 DEF finalizeBriefSource, applySourceState
  <2>2. q.brief = req[t].brief /\ q.kind = req[t].kind
    BY <1>3, <2>1 DEF RequestRecords
  <2> QED
    BY <1>1, <1>2, <2>1, <2>2
<1>9. CASE latestAnchorAt(t)
  <2>1. \A a : LET q == [req[t] EXCEPT !.pc = "insert", !.anchor = a]
               IN  q.brief = req[t].brief /\ q.kind = req[t].kind
    BY <1>3 DEF RequestRecords
  <2> QED
    BY <1>1, <1>2, <1>9, <2>1 DEF latestAnchorAt
<1>10. CASE deliver(t) \/ emitBriefResultPublished(t) \/ finalizeSave(t) \/ takeSave(t) \/ emitBriefUpdated(t) \/ Stops(t)
  BY <1>5, <1>6, <1>10 DEF deliver, emitBriefResultPublished, finalizeSave, takeSave, emitBriefUpdated, Stops
<1> QED
  BY <1>6, <1>7, <1>8, <1>9, <1>10 DEF Elsewhere

\* A step of Next is the opening of a request, one of those, a write of the
\* brief, or nobody's.
LEMMA Steps ==
    ASSUME [Next]_vars
    PROVE  \/ \E t \in Requests : \/ Elsewhere(t) \/ saveProcessState(t) \/ settle(t)
                                  \/ \E kind \in Kinds : Open(t, kind)
           \/ UNCHANGED <<brief, req, saved, superseded, shown, mailed, log, spoiled, overlapped, broken>>
              /\ (anchors' = anchors \/ anchors' = 0)
BY DEF Next, Step, Elsewhere, TouchSource, DayPasses, vars

\* A save that takes effect.
LEMMA Saved ==
    ASSUME TypeInv, SnapshotInv, NEW t \in Requests, saveProcessState(t), unchanged(req[t].brief)
    PROVE  /\ req[t].brief = brief
           /\ brief' = [changed(req[t]) EXCEPT !.version = brief.version + 1]
           /\ brief'.text = changed(req[t]).text /\ brief'.history = changed(req[t]).history
           /\ brief'.pub = changed(req[t]).pub /\ brief'.version = brief.version + 1
           /\ brief'.owed = changed(req[t]).owed
           /\ saved' = saved \cup {brief'.text}
           /\ superseded' = IF req[t].kind = "edit" THEN superseded \cup {brief.text} ELSE superseded
           /\ shown' = IF brief'.pub = "pending" THEN shown
                       ELSE [first |-> IF req[t].kind = "approve" THEN {brief'.text} ELSE shown.first,
                             all |-> shown.all \cup {brief'.text}]
           /\ log' = [log EXCEPT !.writes = @ + 1]
           /\ mailed' = mailed /\ spoiled' = spoiled /\ broken' = broken /\ overlapped' = overlapped
           /\ anchors' = anchors
           /\ \/ req[t].kind = "approve" /\ becomes(t, [req[t] EXCEPT !.pc = "take", !.brief = brief'])
              \/ becomes(t, Idle)
<1>1. req[t].pc = "save" /\ ReqOK(req[t], texts) /\ texts \in Nat
  BY DEF saveProcessState, at, TypeInv
<1>3. req[t].brief = brief
  BY <1>1 DEF SnapshotInv, at, unchanged
<1>4. changed(req[t]) \in BriefRows
  BY <1>1, ChangedOK DEF RowOK
<1>5. brief' = [changed(req[t]) EXCEPT !.version = brief.version + 1]
  BY DEF saveProcessState
<1>6. /\ brief'.text = changed(req[t]).text /\ brief'.history = changed(req[t]).history
      /\ brief'.pub = changed(req[t]).pub /\ brief'.version = brief.version + 1
      /\ brief'.owed = changed(req[t]).owed
  BY <1>4, <1>5 DEF BriefRows
<1> QED
  BY <1>3, <1>5, <1>6 DEF saveProcessState, fine

\* A save that is refused.
LEMMA NotSaved ==
    ASSUME NEW t \in Requests, saveProcessState(t), ~unchanged(req[t].brief)
    PROVE  ends(t) /\ UNCHANGED <<brief, saved, superseded, shown, log, mailed, anchors, overlapped>>
BY DEF saveProcessState

\* settle writes the row as it was read, with nothing owed, or ends.
LEMMA Settled ==
    ASSUME TypeInv, SnapshotInv, NEW t \in Requests, settle(t)
    PROVE  /\ UNCHANGED <<saved, superseded, shown, log, mailed, anchors, overlapped>>
           /\ \/ ends(t) /\ brief' = brief
              \/ /\ becomes(t, Idle) /\ fine
                 /\ brief'.text = brief.text /\ brief'.history = brief.history
                 /\ brief'.pub = brief.pub /\ brief'.version = brief.version + 1
<1>1. CASE ~unchanged(req[t].brief)
  BY <1>1 DEF settle
<1>2. CASE unchanged(req[t].brief)
  <2>1. req[t].brief = brief /\ brief \in BriefRows
    BY <1>2 DEF SnapshotInv, at, unchanged, settle, TypeInv, RowOK
  <2>2. brief' = [brief EXCEPT !.owed = 0, !.version = brief.version + 1]
    BY <1>2, <2>1 DEF settle
  <2>3. /\ brief'.text = brief.text /\ brief'.history = brief.history
        /\ brief'.pub = brief.pub /\ brief'.version = brief.version + 1
    BY <2>1, <2>2 DEF BriefRows
  <2> QED
    BY <1>2, <2>3 DEF settle
<1> QED
  BY <1>1, <1>2

\* Opening a request, as far as the invariants see it.
LEMMA Opened ==
    ASSUME TypeInv, NEW t \in Requests, NEW kind \in Kinds, Open(t, kind)
    PROVE  /\ UNCHANGED <<brief, saved, superseded, shown, mailed, log, spoiled, broken, anchors>>
           /\ req[t].pc = "idle"
           /\ overlapped' = (overlapped \/ \E other \in Requests \ {t} : ~at(other, "idle"))
           /\ \E q : becomes(t, q) /\ q.brief = brief /\ q.kind = kind /\ q.pc = firstStep(kind)
<1> DEFINE text == IF kind = "edit" THEN [n |-> texts', src |-> brief.text.src] ELSE NoText
           q == [Idle EXCEPT !.pc = firstStep(kind), !.kind = kind, !.brief = brief, !.fresh = text]
<1>1. becomes(t, q)
  BY DEF Open
<1> HIDE DEF text
<1>2. Idle \in RequestRecords
  BY IdleOK DEF ReqOK
<1>3. q.brief = brief /\ q.kind = kind /\ q.pc = firstStep(kind)
  BY <1>2 DEF RequestRecords
<1> HIDE DEF q
<1> QED
  BY <1>1, <1>3 DEF Open, at

-----------------------------------------------------------------------------
(***************************************************************************)
(* The row a request holds, and the versions that are kept.                *)
(***************************************************************************)
LEMMA SnapshotNext ==
    ASSUME TypeInv, SnapshotInv, [Next]_vars
    PROVE  SnapshotInv'
<1>1. \A u \in Requests : req[u].pc # "idle" =>
        /\ req[u].brief.version <= brief.version
        /\ req[u].brief.version = brief.version => req[u].brief = brief
  BY DEF SnapshotInv, at
<1>2. brief.version \in Nat /\ \A u \in Requests : req[u].brief.version \in Nat
  BY DEF TypeInv, RowOK, ReqOK, BriefRows
<1>3. Idle.pc = "idle"
  BY DEF Idle
<1>4. ASSUME NEW t \in Requests, Elsewhere(t)
      PROVE  SnapshotInv'
  <2>1. PICK q : becomes(t, q) /\ (q = Idle \/ q.brief = req[t].brief)
    BY <1>4, ElsewhereKeeps
  <2>2. brief' = brief /\ req[t].pc # "idle"
    BY <1>4, ElsewhereKeeps
  <2>3. req'[t] = q /\ \A u \in Requests \ {t} : req'[u] = req[u]
    BY <2>1, OneMoves
  <2> QED
    BY <1>1, <1>3, <2>1, <2>2, <2>3 DEF SnapshotInv, at
<1>5. ASSUME NEW t \in Requests, NEW kind \in Kinds, Open(t, kind)
      PROVE  SnapshotInv'
  <2>1. PICK q : becomes(t, q) /\ q.brief = brief
    BY <1>5, Opened
  <2>2. brief' = brief
    BY <1>5, Opened
  <2>3. req'[t] = q /\ \A u \in Requests \ {t} : req'[u] = req[u]
    BY <2>1, OneMoves
  <2> QED
    BY <1>1, <1>2, <2>1, <2>2, <2>3 DEF SnapshotInv, at
<1>6. ASSUME NEW t \in Requests, NEW q, becomes(t, q), q = Idle \/ q.brief = brief',
             brief'.version = brief.version + 1
      PROVE  SnapshotInv'
  <2>1. req'[t] = q /\ \A u \in Requests \ {t} : req'[u] = req[u]
    BY <1>6, OneMoves
  <2>2. brief'.version \in Nat /\ brief.version < brief'.version
    BY <1>2, <1>6
  <2>3. ASSUME NEW u \in Requests, req'[u].pc # "idle"
        PROVE  /\ req'[u].brief.version <= brief'.version
               /\ req'[u].brief.version = brief'.version => req'[u].brief = brief'
    <3>1. CASE u = t
      BY <1>3, <1>6, <2>1, <2>2, <2>3, <3>1
    <3>2. CASE u # t
      BY <1>1, <1>2, <2>1, <2>2, <2>3, <3>2
    <3> QED
      BY <3>1, <3>2
  <2> QED
    BY <2>3 DEF SnapshotInv, at
<1>7. ASSUME NEW t \in Requests, ends(t), brief' = brief
      PROVE  SnapshotInv'
  <2>1. req'[t] = Idle /\ \A u \in Requests \ {t} : req'[u] = req[u]
    BY <1>7, OneMoves DEF ends
  <2> QED
    BY <1>1, <1>3, <1>7, <2>1 DEF SnapshotInv, at
<1>8. ASSUME NEW t \in Requests, saveProcessState(t)
      PROVE  SnapshotInv'
  <2>1. CASE unchanged(req[t].brief)
    <3>1. PICK q : becomes(t, q) /\ (q = Idle \/ q = [req[t] EXCEPT !.pc = "take", !.brief = brief'])
      BY <1>8, <2>1, Saved
    <3>2. [req[t] EXCEPT !.pc = "take", !.brief = brief'].brief = brief'
      BY DEF TypeInv, RequestRecords
    <3> QED
      BY <1>6, <1>8, <2>1, <3>1, <3>2, Saved
  <2>2. CASE ~unchanged(req[t].brief)
    BY <1>7, <1>8, <2>2, NotSaved
  <2> QED
    BY <2>1, <2>2
<1>9. ASSUME NEW t \in Requests, settle(t)
      PROVE  SnapshotInv'
  BY <1>6, <1>7, <1>9, Settled
<1>10. CASE UNCHANGED <<brief, req>>
  BY <1>10 DEF SnapshotInv, at
<1> QED
  BY <1>4, <1>5, <1>8, <1>9, <1>10, Steps

LEMMA LostNext ==
    ASSUME TypeInv, SnapshotInv, NothingLost, [Next]_vars
    PROVE  NothingLost'
<1>1. ASSUME NEW t \in Requests, saveProcessState(t), unchanged(req[t].brief)
      PROVE  NothingLost'
  <2>1. /\ req[t].brief = brief
        /\ brief'.text = changed(req[t]).text /\ brief'.history = changed(req[t]).history
        /\ saved' = saved \cup {brief'.text}
        /\ superseded' = IF req[t].kind = "edit" THEN superseded \cup {brief.text} ELSE superseded
    BY <1>1, Saved
  <2>2. brief \in BriefRows /\ req[t].kind \in Kinds \ {"respond"}
    BY <1>1 DEF TypeInv, RowOK, ReqOK, Comes, RequestRecords, saveProcessState, at
  <2>3. brief.history \cup {brief.text} \subseteq brief'.history \cup {brief'.text} \cup superseded'
    <3>1. CASE req[t].kind = "edit"
      BY <2>1, <2>2, <3>1 DEF changed, BriefRows
    <3>2. CASE req[t].kind = "regenerate"
      BY <2>1, <2>2, <3>2 DEF changed, regenerated, BriefRows
    <3>3. CASE req[t].kind = "publish"
      BY <2>1, <2>2, <3>3 DEF changed, published, BriefRows
    <3>4. CASE req[t].kind \in {"approve", "discard"}
      BY <2>1, <2>2, <3>4 DEF changed, BriefRows
    <3> QED
      BY <2>2, <3>1, <3>2, <3>3, <3>4 DEF Kinds
  <2>4. superseded \subseteq superseded'
    BY <2>1
  <2> QED
    BY <2>1, <2>3, <2>4 DEF NothingLost
<1>2. CASE /\ brief'.text = brief.text /\ brief'.history = brief.history
           /\ saved' = saved /\ superseded' = superseded
  BY <1>2 DEF NothingLost
<1>3. ASSUME NEW t \in Requests, Elsewhere(t) \/ settle(t) \/ (saveProcessState(t) /\ ~unchanged(req[t].brief))
      PROVE  NothingLost'
  BY <1>2, <1>3, ElsewhereKeeps, Settled, NotSaved
<1>4. ASSUME NEW t \in Requests, NEW kind \in Kinds, Open(t, kind)
      PROVE  NothingLost'
  BY <1>2, <1>4, Opened
<1> QED
  BY <1>1, <1>2, <1>3, <1>4, Steps

-----------------------------------------------------------------------------
(***************************************************************************)
(* Mails, events and the approvals they belong to.                         *)
(***************************************************************************)
\* What deliver does to a mailbox.
LEMMA Delivered ==
    ASSUME TypeInv, NEW t \in Requests, deliver(t)
    PROVE  /\ req[t].pc = "mail" /\ req[t].kind = "approve"
           /\ \A o \in Officials : /\ mailed[o].texts \subseteq mailed'[o].texts
                                   /\ mailed'[o].times \in Nat /\ mailed'[o].times <= mailed[o].times + 1
           /\ log' = log /\ overlapped' = overlapped /\ anchors' = anchors
           /\ \/ ends(t)
              \/ /\ goto(t, "announce") /\ fine
                 /\ \A o \in Officials : req[t].brief.text \in mailed'[o].texts
<1>1. PICK sent \in SUBSET Officials :
        /\ mailed' = [o \in Officials |->
                IF o \in sent THEN [times |-> mailed[o].times + 1, texts |-> mailed[o].texts \cup {req[t].brief.text}]
                ELSE mailed[o]]
        /\ IF delivered(sent) THEN goto(t, "announce") /\ fine ELSE ends(t)
  BY DEF deliver
<1>2. \A o \in Officials : mailed[o].times \in Nat
  BY DEF TypeInv
<1>3. ASSUME NEW o \in Officials
      PROVE  /\ mailed[o].texts \subseteq mailed'[o].texts
             /\ mailed'[o].times \in Nat /\ mailed'[o].times <= mailed[o].times + 1
             /\ o \in sent => req[t].brief.text \in mailed'[o].texts
  BY <1>1, <1>2
<1>4. req[t].pc = "mail" /\ req[t].kind = "approve"
  BY DEF deliver, at, TypeInv, ReqOK, Comes
<1> QED
  BY <1>1, <1>3, <1>4 DEF deliver, delivered

\* The other steps that do not write the brief, by what they announce.
LEMMA Moved ==
    ASSUME TypeInv, NEW t \in Requests, Elsewhere(t), ~deliver(t)
    PROVE  /\ mailed' = mailed /\ overlapped' = overlapped
           /\ \/ ends(t) /\ log' = log
              \/ \E q : /\ becomes(t, q) /\ spoiled' = spoiled
                        /\ q = Idle \/ (q.brief = req[t].brief /\ q.kind = req[t].kind)
                        /\ \/ /\ req[t].pc = "announce" /\ q.pc = "finalize"
                              /\ log' = [log EXCEPT !.published = @ + 1]
                           \/ /\ req[t].pc = "emit" /\ q.pc = "save" /\ req[t].kind # "approve"
                              /\ log' = [log EXCEPT !.updated = @ + 1]
                           \/ /\ req[t].pc \in {"finalize", "finalizeSave"} /\ q.pc \in {"finalizeSave", "save"}
                              /\ log' = log
                           \/ /\ req[t].pc \in {"generate", "take", "takeSave", "anchor", "insert"}
                              /\ q.pc \in {"idle", "emit", "takeSave", "settle", "insert"}
                              /\ log' = log
<1>1. mailed' = mailed /\ overlapped' = overlapped
  BY DEF Elsewhere, freshContent, emitBriefResultPublished, finalizeBriefSource, finalizeSave,
         applySourceState, takeSave, emitBriefUpdated, latestAnchorAt, insertResponse, Stops, rowsKept
<1>2. req[t] \in RequestRecords /\ Comes(req[t].pc, req[t].kind)
  BY DEF TypeInv, ReqOK
<1>3. Idle.pc = "idle"
  BY DEF Idle
<1>4. \A pc : LET q == [req[t] EXCEPT !.pc = pc]
              IN  q.pc = pc /\ q.brief = req[t].brief /\ q.kind = req[t].kind
  BY <1>2 DEF RequestRecords
<1>5. CASE freshContent(t)
  <2>1. PICK q, text : becomes(t, q) /\ (q = Idle \/ q = [req[t] EXCEPT !.pc = "emit", !.fresh = text])
    BY <1>5 DEF freshContent
  <2>2. q = Idle \/ (q.pc = "emit" /\ q.brief = req[t].brief /\ q.kind = req[t].kind)
    BY <1>2, <2>1 DEF RequestRecords
  <2>3. q.pc \in {"idle", "emit"}
    BY <1>3, <2>2
  <2> QED
    BY <1>1, <1>5, <2>1, <2>2, <2>3 DEF freshContent, fine, at
<1>6. CASE emitBriefResultPublished(t)
  BY <1>1, <1>4, <1>6 DEF emitBriefResultPublished, fine, at, goto
<1>7. CASE finalizeBriefSource(t)
  <2>1. PICK q : /\ becomes(t, q)
                 /\ \/ q = [req[t] EXCEPT !.pc = "save"]
                    \/ q = [req[t] EXCEPT !.pc = "finalizeSave", !.source = source.version]
    BY <1>7 DEF finalizeBriefSource
  <2>2. q.pc \in {"finalizeSave", "save"} /\ q.brief = req[t].brief /\ q.kind = req[t].kind
    BY <1>2, <2>1 DEF RequestRecords
  <2> QED
    BY <1>1, <1>7, <2>1, <2>2 DEF finalizeBriefSource, fine, at
<1>8. CASE finalizeSave(t)
  <2>1. CASE ends(t)
    BY <1>1, <1>8, <2>1 DEF finalizeSave
  <2>2. CASE goto(t, "save") /\ fine
    <3>1. PICK q : becomes(t, q) /\ q.pc = "save" /\ q.brief = req[t].brief /\ q.kind = req[t].kind
      BY <1>4, <2>2 DEF goto
    <3>2. req[t].pc = "finalizeSave" /\ log' = log /\ spoiled' = spoiled
      BY <1>8, <2>2 DEF finalizeSave, at, fine
    <3> QED
      BY <1>1, <3>1, <3>2
  <2> QED
    BY <1>8, <2>1, <2>2 DEF finalizeSave
<1>9. CASE applySourceState(t)
  <2>1. PICK q : /\ becomes(t, q)
                 /\ \/ q = [req[t] EXCEPT !.pc = afterTake(req[t])]
                    \/ q = [req[t] EXCEPT !.pc = "takeSave", !.source = source.version]
    BY <1>9 DEF applySourceState
  <2>2. q.pc \in {"emit", "settle", "takeSave"} /\ q.brief = req[t].brief /\ q.kind = req[t].kind
    BY <1>2, <2>1 DEF RequestRecords, afterTake
  <2> QED
    BY <1>1, <1>9, <2>1, <2>2 DEF applySourceState, fine, at
<1>10. CASE takeSave(t)
  <2>1. CASE ends(t)
    BY <1>1, <1>10, <2>1 DEF takeSave
  <2>2. CASE goto(t, afterTake(req[t])) /\ fine
    <3>1. afterTake(req[t]) \in {"emit", "settle"}
      BY DEF afterTake
    <3>2. PICK q : becomes(t, q) /\ q.pc = afterTake(req[t]) /\ q.brief = req[t].brief /\ q.kind = req[t].kind
      BY <1>4, <2>2 DEF goto
    <3>3. req[t].pc = "takeSave" /\ log' = log /\ spoiled' = spoiled
      BY <1>10, <2>2 DEF takeSave, at, fine
    <3> QED
      BY <1>1, <3>1, <3>2, <3>3
  <2> QED
    BY <1>10, <2>1, <2>2 DEF takeSave
<1>11. CASE emitBriefUpdated(t)
  <2>1. req[t].kind # "approve"
    BY <1>2, <1>11 DEF Comes, emitBriefUpdated, at
  <2> QED
    BY <1>1, <1>4, <1>11, <2>1 DEF emitBriefUpdated, fine, at, goto
<1>12. CASE latestAnchorAt(t)
  <2>1. PICK q, a : becomes(t, q) /\ q = [req[t] EXCEPT !.pc = "insert", !.anchor = a]
    BY <1>12 DEF latestAnchorAt
  <2>2. q.pc = "insert" /\ q.brief = req[t].brief /\ q.kind = req[t].kind
    BY <1>2, <2>1 DEF RequestRecords
  <2>3. spoiled' = spoiled /\ log' = log
    BY <1>12 DEF latestAnchorAt, fine
  <2> QED
    BY <1>1, <1>12, <2>1, <2>2, <2>3 DEF latestAnchorAt, at
<1>13. CASE insertResponse(t)
  BY <1>1, <1>3, <1>13 DEF insertResponse, fine, at
<1>14. CASE Stops(t)
  BY <1>1, <1>14 DEF Stops
<1> QED
  BY <1>5, <1>6, <1>7, <1>8, <1>9, <1>10, <1>11, <1>12, <1>13, <1>14 DEF Elsewhere

\* An approval's text was sent to everyone before it is stored.
LEMMA MailNext ==
    ASSUME TypeInv, SnapshotInv, MailInv, PublishedAsMailed, [Next]_vars
    PROVE  MailInv' /\ PublishedAsMailed'
<1> DEFINE Past == Before \ {"mail"}
           Sent(q) == \A o \in Officials : q.brief.text \in mailed[o].texts
           Sent1(q) == \A o \in Officials : q.brief.text \in mailed'[o].texts
           Grows == \A o \in Officials : mailed[o].texts \subseteq mailed'[o].texts
<1>1. /\ \A u \in Requests : req[u].kind = "approve" /\ req[u].pc \in Past => Sent(req[u])
      /\ brief.pub = "pending" => shown.first = {}
      /\ \A text \in shown.first : shown.first = {text}
      /\ \A o \in Officials : shown.first \subseteq mailed[o].texts
  BY DEF MailInv, PublishedAsMailed
<1>2. Idle.pc = "idle" /\ "idle" \notin Past
  BY DEF Idle, Before
<1>3. ASSUME NEW t \in Requests, NEW q, becomes(t, q), Grows, shown' = shown, brief'.pub = brief.pub,
             q.kind = "approve" /\ q.pc \in Past => Sent1(q)
      PROVE  MailInv' /\ PublishedAsMailed'
  <2>1. req'[t] = q /\ \A u \in Requests \ {t} : req'[u] = req[u]
    BY <1>3, OneMoves
  <2>2. \A u \in Requests : req'[u].kind = "approve" /\ req'[u].pc \in Past => Sent1(req'[u])
    BY <1>1, <1>3, <2>1
  <2> QED
    BY <1>1, <1>3, <2>2 DEF MailInv, PublishedAsMailed
<1>4. ASSUME NEW t \in Requests, deliver(t)
      PROVE  MailInv' /\ PublishedAsMailed'
  <2>1. Grows /\ shown' = shown /\ brief' = brief
    BY <1>4, Delivered DEF deliver
  <2>2. CASE ends(t)
    BY <1>2, <1>3, <2>1, <2>2 DEF ends
  <2>3. CASE goto(t, "announce") /\ \A o \in Officials : req[t].brief.text \in mailed'[o].texts
    <3>1. [req[t] EXCEPT !.pc = "announce"].brief = req[t].brief
      BY DEF TypeInv, RequestRecords
    <3> QED
      BY <1>3, <2>1, <2>3, <3>1 DEF goto
  <2> QED
    BY <1>4, <2>2, <2>3, Delivered
<1>5. ASSUME NEW t \in Requests, Elsewhere(t), ~deliver(t)
      PROVE  MailInv' /\ PublishedAsMailed'
  <2>1. mailed' = mailed /\ Grows /\ shown' = shown /\ brief' = brief
    BY <1>5, Moved, ElsewhereKeeps
  <2>2. CASE ends(t)
    BY <1>2, <1>3, <2>1, <2>2 DEF ends
  <2>3. CASE ~ends(t)
    <3>1. PICK q : /\ becomes(t, q)
                   /\ q = Idle \/ (q.brief = req[t].brief /\ q.kind = req[t].kind)
                   /\ \/ req[t].pc = "announce" /\ q.pc = "finalize"
                      \/ req[t].pc = "emit" /\ q.pc = "save" /\ req[t].kind # "approve"
                      \/ req[t].pc \in {"finalize", "finalizeSave"} /\ q.pc \in {"finalizeSave", "save"}
                      \/ q.pc \in {"idle", "emit", "takeSave", "settle", "insert"}
      BY <1>5, <2>3, Moved
    <3>2. q.kind = "approve" /\ q.pc \in Past => req[t].kind = "approve" /\ req[t].pc \in Past /\ q.brief = req[t].brief
      BY <1>2, <3>1 DEF Before
    <3> QED
      BY <1>1, <1>3, <2>1, <3>1, <3>2
  <2> QED
    BY <2>2, <2>3
<1>6. ASSUME NEW t \in Requests, NEW kind \in Kinds, Open(t, kind)
      PROVE  MailInv' /\ PublishedAsMailed'
  <2>1. PICK q : becomes(t, q) /\ q.kind = kind /\ q.pc = firstStep(kind)
    BY <1>6, Opened
  <2>2. mailed' = mailed /\ shown' = shown /\ brief' = brief
    BY <1>6, Opened
  <2>3. ~(q.kind = "approve" /\ q.pc \in Past)
    BY <2>1 DEF firstStep, Before
  <2> QED
    BY <1>3, <2>1, <2>2, <2>3
<1>7. ASSUME NEW t \in Requests, settle(t)
      PROVE  MailInv' /\ PublishedAsMailed'
  <2>1. becomes(t, Idle) /\ mailed' = mailed /\ shown' = shown /\ brief'.pub = brief.pub
    BY <1>7, Settled DEF ends
  <2> QED
    BY <1>2, <1>3, <2>1
<1>8. ASSUME NEW t \in Requests, saveProcessState(t)
      PROVE  MailInv' /\ PublishedAsMailed'
  <2>1. CASE ~unchanged(req[t].brief)
    BY <1>2, <1>3, <1>8, <2>1, NotSaved DEF ends
  <2>2. CASE unchanged(req[t].brief)
    <3>1. /\ req[t].brief = brief /\ mailed' = mailed
          /\ brief'.pub = changed(req[t]).pub /\ brief'.text = changed(req[t]).text
          /\ shown' = IF brief'.pub = "pending" THEN shown
                      ELSE [first |-> IF req[t].kind = "approve" THEN {brief'.text} ELSE shown.first,
                            all |-> shown.all \cup {brief'.text}]
      BY <1>8, <2>2, Saved
    <3>2. PICK q : becomes(t, q) /\ (q = Idle \/ q = [req[t] EXCEPT !.pc = "take", !.brief = brief'])
      BY <1>8, <2>2, Saved
    <3>3. q.pc \notin Past
      BY <1>2, <3>2 DEF TypeInv, RequestRecords, Before
    <3>4. brief \in BriefRows /\ req[t].kind \in Kinds \ {"respond"} /\ req[t].pc = "save"
      BY <1>8 DEF TypeInv, RowOK, ReqOK, Comes, RequestRecords, saveProcessState, at
    <3>5. req'[t] = q /\ \A u \in Requests \ {t} : req'[u] = req[u]
      BY <3>2, OneMoves
    <3>6. \A u \in Requests : req'[u].kind = "approve" /\ req'[u].pc \in Past => Sent1(req'[u])
      BY <1>1, <3>1, <3>3, <3>5
    <3>7. CASE req[t].kind = "approve"
      <4>1. brief'.text = brief.text /\ brief'.pub = "published"
        BY <3>1, <3>4, <3>7 DEF changed, BriefRows
      <4>2. Sent(req[t])
        BY <1>1, <3>4, <3>7 DEF Before
      <4>3. shown'.first = {brief.text}
        BY <3>1, <3>7, <4>1
      <4> QED
        BY <3>1, <3>6, <4>1, <4>2, <4>3 DEF MailInv, PublishedAsMailed
    <3>8. CASE req[t].kind # "approve"
      <4>1. brief'.pub = brief.pub
        BY <3>1, <3>4, <3>8 DEF changed, regenerated, published, BriefRows, Kinds
      <4>2. shown'.first = shown.first
        BY <3>1, <3>8
      <4> QED
        BY <1>1, <3>1, <3>6, <4>1, <4>2 DEF MailInv, PublishedAsMailed
    <3> QED
      BY <3>7, <3>8
  <2> QED
    BY <2>1, <2>2
<1>9. CASE UNCHANGED <<brief, req, shown, mailed>>
  BY <1>9 DEF MailInv, PublishedAsMailed
<1> QED
  BY <1>4, <1>5, <1>6, <1>7, <1>8, <1>9, Steps

\* Counting a set that changes by one element at most.
LEMMA Counts ==
    ASSUME NEW S, NEW T, NEW x, IsFiniteSet(S), IsFiniteSet(T)
    PROVE  /\ Cardinality(S) \in Nat /\ Cardinality(T) \in Nat
           /\ S \subseteq T => Cardinality(S) <= Cardinality(T)
           /\ S \subseteq T /\ x \in T \ S => Cardinality(S) + 1 <= Cardinality(T)
           /\ S \ {x} \subseteq T => Cardinality(S) <= Cardinality(T) + 1
<1>1. Cardinality(S) \in Nat /\ Cardinality(T) \in Nat
  BY FS_CardinalityType
<1>2. S \subseteq T => Cardinality(S) <= Cardinality(T)
  BY FS_Subset
<1>3. S \subseteq T /\ x \in T \ S => Cardinality(S) + 1 <= Cardinality(T)
  <2>1. SUFFICES ASSUME S \subseteq T, x \in T \ S
                 PROVE  Cardinality(S) + 1 <= Cardinality(T)
    OBVIOUS
  <2>2. IsFiniteSet(S \cup {x}) /\ Cardinality(S \cup {x}) = Cardinality(S) + 1
    BY <2>1, FS_AddElement
  <2>3. S \cup {x} \subseteq T
    BY <2>1
  <2> QED
    BY <2>2, <2>3, FS_Subset
<1>4. S \ {x} \subseteq T => Cardinality(S) <= Cardinality(T) + 1
  <2>1. SUFFICES ASSUME S \ {x} \subseteq T
                 PROVE  Cardinality(S) <= Cardinality(T) + 1
    OBVIOUS
  <2>2. IsFiniteSet(T \cup {x}) /\ Cardinality(T \cup {x}) = IF x \in T THEN Cardinality(T) ELSE Cardinality(T) + 1
    BY FS_AddElement
  <2>4. Cardinality(T \cup {x}) \in Nat /\ Cardinality(T \cup {x}) <= Cardinality(T) + 1
    BY <1>1, <2>2
  <2>3. S \subseteq T \cup {x}
    BY <2>1
  <2> QED
    BY <1>1, <2>2, <2>3, <2>4, FS_Subset
<1> QED
  BY <1>1, <1>2, <1>3, <1>4

\* The sets of requests the counts are about are finite.
LEMMA FiniteRequests ==
    /\ IsFiniteSet(announced) /\ IsFiniteSet(mailing) /\ IsFiniteSet(announcing) /\ IsFiniteSet(approving)
    /\ IsFiniteSet(announced') /\ IsFiniteSet(mailing') /\ IsFiniteSet(announcing')
<1>1. IsFiniteSet(Requests)
  BY BriefsAssumption
<1>2. \A S \in SUBSET Requests : IsFiniteSet(S)
  BY <1>1, FS_Subset
<1> QED
  BY <1>2 DEF announced, mailing, announcing, approving

\* The events emitted and not saved yet pay for the writes to come.
LEMMA EventNext ==
    ASSUME TypeInv, SnapshotInv, EventInv, [Next]_vars
    PROVE  EventInv'
<1> DEFINE Marked == {"finalize", "finalizeSave", "save"}
           n == Cardinality(announced)
           n1 == Cardinality(announced')
<1>1. /\ log \in [updated : Nat, published : Nat, writes : Nat]
      /\ log.updated \in Nat /\ log.published \in Nat /\ log.writes \in Nat
      /\ log.writes + n <= log.updated + log.published
  BY DEF TypeInv, EventInv
<1>2. n \in Nat /\ n1 \in Nat
  BY FiniteRequests, Counts
<1>3. Idle.pc = "idle"
  BY DEF Idle
<1>4. ASSUME NEW t \in Requests, NEW q, becomes(t, q)
      PROVE  /\ q.pc \notin Marked \/ req[t].pc \in Marked => n1 <= n
             /\ n1 <= n + 1
             /\ q.pc \notin Marked /\ req[t].pc \in Marked => n1 + 1 <= n
  <2>1. req'[t] = q /\ \A u \in Requests \ {t} : req'[u] = req[u]
    BY <1>4, OneMoves
  <2>2. announced' \ {t} \subseteq announced
    BY <2>1 DEF announced
  <2>3. q.pc \notin Marked \/ req[t].pc \in Marked => announced' \subseteq announced
    BY <2>1 DEF announced
  <2>4. q.pc \notin Marked /\ req[t].pc \in Marked => t \in announced \ announced'
    BY <2>1 DEF announced
  <2> QED
    BY <2>2, <2>3, <2>4, FiniteRequests, Counts
<1>5. ASSUME log' = log, n1 <= n
      PROVE  EventInv'
  BY <1>1, <1>2, <1>5 DEF EventInv
<1>6. ASSUME NEW t \in Requests, ends(t), log' = log
      PROVE  EventInv'
  BY <1>3, <1>4, <1>5, <1>6 DEF ends
<1>7. ASSUME NEW t \in Requests, deliver(t)
      PROVE  EventInv'
  <2>1. CASE ends(t)
    BY <1>6, <1>7, <2>1, Delivered
  <2>2. CASE goto(t, "announce")
    <3>1. [req[t] EXCEPT !.pc = "announce"].pc = "announce"
      BY DEF TypeInv, RequestRecords
    <3> QED
      BY <1>4, <1>5, <1>7, <2>2, <3>1, Delivered DEF goto
  <2> QED
    BY <1>7, <2>1, <2>2, Delivered
<1>8. ASSUME NEW t \in Requests, Elsewhere(t), ~deliver(t)
      PROVE  EventInv'
  <2>1. CASE ends(t) /\ log' = log
    BY <1>6, <2>1
  <2>2. CASE ~(ends(t) /\ log' = log)
    <3>1. PICK q : /\ becomes(t, q)
                   /\ \/ log' = [log EXCEPT !.published = @ + 1]
                      \/ log' = [log EXCEPT !.updated = @ + 1]
                      \/ req[t].pc \in {"finalize", "finalizeSave"} /\ log' = log
                      \/ q.pc \in {"idle", "emit", "takeSave", "settle", "insert"} /\ log' = log
      BY <1>8, <2>2, Moved
    <3>2. n1 <= n + 1
      BY <1>4, <3>1
    <3>3. CASE log' = log /\ (req[t].pc \in Marked \/ q.pc \notin Marked)
      BY <1>4, <1>5, <3>1, <3>3
    <3>4. CASE log' = [log EXCEPT !.published = @ + 1] \/ log' = [log EXCEPT !.updated = @ + 1]
      <4>1. log'.writes = log.writes /\ log'.updated + log'.published = log.updated + log.published + 1
        BY <1>1, <3>4
      <4> QED
        BY <1>1, <1>2, <3>2, <4>1 DEF EventInv
    <3> QED
      BY <3>1, <3>3, <3>4
  <2> QED
    BY <2>1, <2>2
<1>9. ASSUME NEW t \in Requests, NEW kind \in Kinds, Open(t, kind)
      PROVE  EventInv'
  <2>1. PICK q : becomes(t, q) /\ q.pc = firstStep(kind)
    BY <1>9, Opened
  <2>2. q.pc \notin Marked /\ log' = log
    BY <1>9, <2>1, Opened DEF firstStep
  <2> QED
    BY <1>4, <1>5, <2>1, <2>2
<1>10. ASSUME NEW t \in Requests, settle(t)
       PROVE  EventInv'
  BY <1>3, <1>4, <1>5, <1>10, Settled DEF ends
<1>11. ASSUME NEW t \in Requests, saveProcessState(t)
       PROVE  EventInv'
  <2>1. CASE ~unchanged(req[t].brief)
    BY <1>6, <1>11, <2>1, NotSaved
  <2>2. CASE unchanged(req[t].brief)
    <3>1. PICK q : becomes(t, q) /\ (q = Idle \/ q = [req[t] EXCEPT !.pc = "take", !.brief = brief'])
      BY <1>11, <2>2, Saved
    <3>2. q.pc \notin Marked /\ req[t].pc \in Marked
      BY <1>3, <1>11, <3>1 DEF TypeInv, RequestRecords, saveProcessState, at
    <3>3. n1 + 1 <= n
      BY <1>4, <3>1, <3>2
    <3>4. log' = [log EXCEPT !.writes = @ + 1]
      BY <1>11, <2>2, Saved
    <3>5. log'.writes = log.writes + 1 /\ log'.updated = log.updated /\ log'.published = log.published
      BY <1>1, <3>4
    <3> QED
      BY <1>1, <1>2, <3>3, <3>5 DEF EventInv
  <2> QED
    BY <2>1, <2>2
<1>12. CASE UNCHANGED <<req, log>>
  BY <1>12 DEF EventInv, announced
<1> QED
  BY <1>7, <1>8, <1>9, <1>10, <1>11, <1>12, Steps

\* Every mail and every announcement is charged to an approval.
LEMMA ChargeNext ==
    ASSUME TypeInv, SnapshotInv, MailInv, ChargeInv, [Next]_vars
    PROVE  ChargeInv'
<1> DEFINE Past == Before \ {"mail"}
           Told == Before \ {"mail", "announce"}
           m == Cardinality(mailing)
           m1 == Cardinality(mailing')
           a == Cardinality(announcing)
           a1 == Cardinality(announcing')
           f == Cardinality(shown.first)
           f1 == Cardinality(shown'.first)
           Mailing(q) == q.kind = "approve" /\ q.pc \in Past
           Telling(q) == q.kind = "approve" /\ q.pc \in Told
           Mails(k) == \A o \in Officials : mailed'[o].times \in Nat /\ mailed'[o].times <= mailed[o].times + k
           Tells(k) == log'.published \in Nat /\ log'.published <= log.published + k
<1>1. /\ \A o \in Officials : mailed[o].times \in Nat /\ mailed[o].times <= spoiled + f + m
      /\ log.published \in Nat /\ log.published <= spoiled + f + a
      /\ spoiled \in Nat
  BY DEF TypeInv, ChargeInv
<1>2. m \in Nat /\ m1 \in Nat /\ a \in Nat /\ a1 \in Nat
  BY FiniteRequests, Counts
<1>3. f \in Nat /\ f1 \in Nat
  <2>1. IsFiniteSet(shown.first)
    <3>1. shown.first = {} \/ \E text : shown.first = {text}
      BY DEF MailInv
    <3> QED
      BY <3>1, FS_EmptySet, FS_Singleton
  <2>2. shown'.first = shown.first \/ \E text : shown'.first = {text}
    <3>1. ASSUME NEW t \in Requests, saveProcessState(t)
          PROVE  shown'.first = shown.first \/ \E text : shown'.first = {text}
      <4>1. CASE ~unchanged(req[t].brief)
        BY <3>1, <4>1, NotSaved
      <4>2. CASE unchanged(req[t].brief)
        <5>1. shown' = IF brief'.pub = "pending" THEN shown
                       ELSE [first |-> IF req[t].kind = "approve" THEN {brief'.text} ELSE shown.first,
                             all |-> shown.all \cup {brief'.text}]
          BY <3>1, <4>2, Saved
        <5> QED
          BY <5>1
      <4> QED
        BY <4>1, <4>2
    <3> QED
      BY <3>1, Steps, ElsewhereKeeps, Settled, Opened
  <2> QED
    BY <2>1, <2>2, FS_Singleton, FS_CardinalityType
<1>4. /\ Mails(0) <=> \A o \in Officials : mailed'[o].times \in Nat /\ mailed'[o].times <= mailed[o].times
      /\ mailed' = mailed => Mails(0)
      /\ log' = log => Tells(0)
  BY <1>1
<1>5. ASSUME NEW t \in Requests, NEW q, becomes(t, q)
      PROVE  /\ Mailing(req[t]) /\ Mailing(q) => m <= m1
             /\ ~Mailing(req[t]) => m <= m1
             /\ Telling(req[t]) /\ Telling(q) => a <= a1
             /\ ~Telling(req[t]) => a <= a1
             /\ m <= m1 + 1 /\ a <= a1 + 1
             /\ ~Mailing(req[t]) /\ Mailing(q) => m + 1 <= m1
             /\ ~Telling(req[t]) /\ Telling(q) => a + 1 <= a1
  <2>1. req'[t] = q /\ \A u \in Requests \ {t} : req'[u] = req[u]
    BY <1>5, OneMoves
  <2>2. mailing \ {t} \subseteq mailing' /\ announcing \ {t} \subseteq announcing'
    BY <2>1 DEF mailing, announcing
  <2>3. /\ Mailing(q) \/ ~Mailing(req[t]) => mailing \subseteq mailing'
        /\ Telling(q) \/ ~Telling(req[t]) => announcing \subseteq announcing'
        /\ ~Mailing(req[t]) /\ Mailing(q) => t \in mailing' \ mailing
        /\ ~Telling(req[t]) /\ Telling(q) => t \in announcing' \ announcing
    BY <2>1 DEF mailing, announcing
  <2> QED
    BY <2>2, <2>3, FiniteRequests, Counts
<1> HIDE DEF m, m1, a, a1, f, f1
<1>6. ASSUME NEW k \in Nat, NEW j \in Nat, Mails(k), Tells(j), spoiled' \in Nat,
             spoiled + f + m + k <= spoiled' + f1 + m1, spoiled + f + a + j <= spoiled' + f1 + a1
      PROVE  ChargeInv'
  <2>1. ASSUME NEW o \in Officials
        PROVE  mailed'[o].times <= spoiled' + f1 + m1
    <3>1. PICK x \in Nat : x = mailed[o].times
      BY <1>1
    <3>2. PICK y \in Nat : y = mailed'[o].times
      BY <1>6
    <3>3. y <= x + k
      BY <1>6, <3>1, <3>2
    <3>4. x <= spoiled + f + m /\ spoiled \in Nat
      BY <1>1, <3>1
    <3>5. spoiled' \in Nat /\ spoiled + f + m + k <= spoiled' + f1 + m1
      BY <1>6
    <3>6. PICK s \in Nat, n \in Nat, c \in Nat : s = spoiled /\ n = f /\ c = m
      BY <1>2, <1>3, <3>4
    <3>7. PICK s1 \in Nat, n1 \in Nat, c1 \in Nat : s1 = spoiled' /\ n1 = f1 /\ c1 = m1
      BY <1>2, <1>3, <3>5
    <3>8. x <= s + n + c /\ s + n + c + k <= s1 + n1 + c1
      BY <3>4, <3>5, <3>6, <3>7
    <3>9. y <= s1 + n1 + c1
      BY <3>3, <3>8
    <3> QED
      BY <3>2, <3>7, <3>9
  <2>2. log'.published <= spoiled' + f1 + a1
    <3>1. PICK x \in Nat : x = log.published
      BY <1>1
    <3>2. PICK y \in Nat : y = log'.published
      BY <1>6
    <3>3. y <= x + j
      BY <1>6, <3>1, <3>2
    <3>4. x <= spoiled + f + a /\ spoiled \in Nat
      BY <1>1, <3>1
    <3>5. spoiled' \in Nat /\ spoiled + f + a + j <= spoiled' + f1 + a1
      BY <1>6
    <3>6. PICK s \in Nat, n \in Nat, c \in Nat : s = spoiled /\ n = f /\ c = a
      BY <1>2, <1>3, <3>4
    <3>7. PICK s1 \in Nat, n1 \in Nat, c1 \in Nat : s1 = spoiled' /\ n1 = f1 /\ c1 = a1
      BY <1>2, <1>3, <3>5
    <3>8. x <= s + n + c /\ s + n + c + j <= s1 + n1 + c1
      BY <3>4, <3>5, <3>6, <3>7
    <3>9. y <= s1 + n1 + c1
      BY <3>3, <3>8
    <3> QED
      BY <3>2, <3>7, <3>9
  <2> QED
    BY <2>1, <2>2 DEF ChargeInv, f1, m1, a1
<1>7. ASSUME NEW t \in Requests, ends(t), req[t].pc # "idle", shown' = shown, log' = log,
             mailed' = mailed \/ (req[t].kind = "approve" /\ req[t].pc = "mail" /\ Mails(1))
      PROVE  ChargeInv'
  <2>1. f1 = f
    BY <1>7 DEF f, f1
  <2>2. req[t].kind = "approve" /\ req[t].pc \in Before => spoiled' = spoiled + 1
    BY <1>7 DEF ends, TypeInv, ReqOK
  <2>3. spoiled' \in Nat /\ spoiled <= spoiled' /\ becomes(t, Idle)
    BY <1>1, <1>7 DEF ends
  <2>4. m <= m1 + 1 /\ a <= a1 + 1 /\ (~Mailing(req[t]) => m <= m1) /\ (~Telling(req[t]) => a <= a1)
    BY <1>5, <2>3
  <2>5. CASE req[t].kind = "approve" /\ req[t].pc \in Before
    <3>1. CASE req[t].pc = "mail"
      <4>1. ~Mailing(req[t]) /\ ~Telling(req[t])
        BY <3>1
      <4>2. Mails(1)
        BY <1>1, <1>7
      <4> QED
        BY <1>1, <1>2, <1>3, <1>4, <1>6, <1>7, <2>1, <2>2, <2>4, <2>5, <4>1, <4>2
    <3>2. CASE req[t].pc # "mail"
      BY <1>1, <1>2, <1>3, <1>4, <1>6, <1>7, <2>1, <2>2, <2>4, <2>5, <3>2
    <3> QED
      BY <3>1, <3>2
  <2>6. CASE ~(req[t].kind = "approve" /\ req[t].pc \in Before)
    <3>1. ~Mailing(req[t]) /\ ~Telling(req[t]) /\ mailed' = mailed
      BY <1>7, <2>6 DEF Before
    <3>2. Mails(0) /\ Tells(0)
      BY <1>4, <1>7, <3>1
    <3>3. spoiled + f + m + 0 <= spoiled' + f1 + m1 /\ spoiled + f + a + 0 <= spoiled' + f1 + a1
      BY <1>1, <1>2, <1>3, <2>1, <2>3, <2>4, <3>1
    <3> QED
      BY <1>6, <2>3, <3>2, <3>3
  <2> QED
    BY <2>5, <2>6
<1>8. ASSUME NEW t \in Requests, deliver(t)
      PROVE  ChargeInv'
  <2>1. shown' = shown /\ Mails(1) /\ log' = log /\ req[t].kind = "approve" /\ req[t].pc = "mail"
    BY <1>8, Delivered DEF deliver
  <2>2. CASE ends(t)
    BY <1>7, <2>1, <2>2
  <2>3. CASE goto(t, "announce") /\ fine
    <3>1. PICK q : becomes(t, q) /\ q.pc = "announce" /\ q.kind = "approve"
      BY <2>1, <2>3 DEF goto, TypeInv, RequestRecords
    <3>2. ~Mailing(req[t]) /\ Mailing(q) /\ ~Telling(req[t])
      BY <2>1, <3>1 DEF Before
    <3>3. m + 1 <= m1 /\ a <= a1
      BY <1>5, <3>1, <3>2
    <3>4. spoiled' = spoiled /\ f1 = f
      BY <2>1, <2>3 DEF fine, f, f1
    <3> QED
      BY <1>1, <1>2, <1>3, <1>4, <1>6, <2>1, <3>3, <3>4
  <2> QED
    BY <1>8, <2>2, <2>3, Delivered
<1>9. ASSUME NEW t \in Requests, NEW q, becomes(t, q), spoiled' = spoiled, shown' = shown, mailed' = mailed,
             Mailing(req[t]) => Mailing(q), Telling(req[t]) => Telling(q),
             \/ log' = log
             \/ ~Telling(req[t]) /\ Telling(q) /\ log' = [log EXCEPT !.published = @ + 1]
             \/ log' = [log EXCEPT !.updated = @ + 1]
             \/ log' = [log EXCEPT !.writes = @ + 1]
      PROVE  ChargeInv'
  <2>1. f1 = f /\ m <= m1 /\ a <= a1 /\ (~Telling(req[t]) /\ Telling(q) => a + 1 <= a1)
    BY <1>5, <1>9 DEF f, f1
  <2>2. log \in [updated : Nat, published : Nat, writes : Nat]
    BY DEF TypeInv
  <2>3. CASE log'.published = log.published
    BY <1>1, <1>2, <1>3, <1>4, <1>6, <1>9, <2>1, <2>3
  <2>4. CASE ~Telling(req[t]) /\ Telling(q) /\ log'.published = log.published + 1
    BY <1>1, <1>2, <1>3, <1>4, <1>6, <1>9, <2>1, <2>4
  <2> QED
    BY <1>9, <2>2, <2>3, <2>4
<1>10. ASSUME NEW t \in Requests, Elsewhere(t), ~deliver(t)
       PROVE  ChargeInv'
  <2>1. mailed' = mailed /\ shown' = shown /\ req[t].pc # "idle"
    BY <1>10, Moved, ElsewhereKeeps
  <2>2. CASE ends(t) /\ log' = log
    BY <1>7, <2>1, <2>2
  <2>3. CASE ~(ends(t) /\ log' = log)
    <3>1. PICK q : /\ becomes(t, q) /\ spoiled' = spoiled
                   /\ q = Idle \/ (q.brief = req[t].brief /\ q.kind = req[t].kind)
                   /\ \/ /\ req[t].pc = "announce" /\ q.pc = "finalize"
                         /\ log' = [log EXCEPT !.published = @ + 1]
                      \/ /\ req[t].pc = "emit" /\ q.pc = "save" /\ req[t].kind # "approve"
                         /\ log' = [log EXCEPT !.updated = @ + 1]
                      \/ /\ req[t].pc \in {"finalize", "finalizeSave"} /\ q.pc \in {"finalizeSave", "save"}
                         /\ log' = log
                      \/ /\ req[t].pc \in {"generate", "take", "takeSave", "anchor", "insert"}
                         /\ q.pc \in {"idle", "emit", "takeSave", "settle", "insert"}
                         /\ log' = log
      BY <1>10, <2>3, Moved
    <3>2. Comes(req[t].pc, req[t].kind) /\ Idle.pc = "idle"
      BY DEF TypeInv, ReqOK, Idle
    <3>3. CASE req[t].pc = "announce" /\ q.pc = "finalize" /\ log' = [log EXCEPT !.published = @ + 1]
      <4>1. req[t].kind = "approve" /\ q.kind = "approve"
        BY <3>1, <3>2, <3>3 DEF Comes
      <4>2. Mailing(q) /\ Telling(q) /\ ~Telling(req[t])
        BY <3>3, <4>1 DEF Before
      <4> QED
        BY <1>9, <2>1, <3>1, <3>3, <4>2
    <3>4. CASE req[t].pc = "emit" /\ log' = [log EXCEPT !.updated = @ + 1]
      <4>1. ~Mailing(req[t]) /\ ~Telling(req[t])
        BY <3>4 DEF Before
      <4> QED
        BY <1>9, <2>1, <3>1, <3>4, <4>1
    <3>5. CASE req[t].pc \in {"finalize", "finalizeSave"} /\ q.pc \in {"finalizeSave", "save"} /\ log' = log
      <4>1. req[t].kind = "approve" /\ q.kind = "approve"
        BY <3>1, <3>2, <3>5 DEF Comes
      <4>2. Mailing(q) /\ Telling(q)
        BY <3>5, <4>1 DEF Before
      <4> QED
        BY <1>9, <2>1, <3>1, <3>5, <4>2
    <3>6. CASE req[t].pc \in {"generate", "take", "takeSave", "anchor", "insert"} /\ log' = log
      <4>1. ~Mailing(req[t]) /\ ~Telling(req[t])
        BY <3>6 DEF Before
      <4> QED
        BY <1>9, <2>1, <3>1, <3>6, <4>1
    <3> QED
      BY <3>1, <3>3, <3>4, <3>5, <3>6
  <2> QED
    BY <2>2, <2>3
<1>11. ASSUME NEW t \in Requests, NEW kind \in Kinds, Open(t, kind)
       PROVE  ChargeInv'
  <2>1. ~Mailing(req[t]) /\ ~Telling(req[t])
    BY <1>11, Opened DEF Before
  <2> QED
    BY <1>9, <1>11, <2>1, Opened
<1>12. ASSUME NEW t \in Requests, settle(t)
       PROVE  ChargeInv'
  <2>1. req[t].pc = "settle"
    BY <1>12 DEF settle, at
  <2>2. ~Mailing(req[t]) /\ ~Telling(req[t])
    BY <2>1 DEF Before
  <2>3. UNCHANGED <<shown, log, mailed>>
    BY <1>12, Settled
  <2>4. CASE ends(t)
    BY <1>7, <2>1, <2>3, <2>4
  <2>5. CASE becomes(t, Idle) /\ fine
    BY <1>9, <2>2, <2>3, <2>5 DEF fine
  <2> QED
    BY <1>12, <2>4, <2>5, Settled
<1>13. ASSUME NEW t \in Requests, saveProcessState(t)
       PROVE  ChargeInv'
  <2>1. req[t].pc = "save"
    BY <1>13 DEF saveProcessState, at
  <2>2. CASE ~unchanged(req[t].brief)
    BY <1>7, <1>13, <2>1, <2>2, NotSaved
  <2>3. CASE unchanged(req[t].brief)
    <3>1. PICK q : becomes(t, q) /\ (q = Idle \/ q = [req[t] EXCEPT !.pc = "take", !.brief = brief'])
      BY <1>13, <2>3, Saved
    <3>2. /\ req[t].brief = brief /\ mailed' = mailed /\ spoiled' = spoiled
          /\ log' = [log EXCEPT !.writes = @ + 1]
          /\ brief'.pub = changed(req[t]).pub
          /\ shown' = IF brief'.pub = "pending" THEN shown
                      ELSE [first |-> IF req[t].kind = "approve" THEN {brief'.text} ELSE shown.first,
                            all |-> shown.all \cup {brief'.text}]
      BY <1>13, <2>3, Saved
    <3>3. CASE req[t].kind = "approve"
      <4>1. brief.pub = "pending" /\ brief \in BriefRows
        BY <2>1, <3>2, <3>3 DEF TypeInv, ReqOK, RowOK, Before
      <4>2. shown.first = {}
        BY <4>1 DEF MailInv
      <4>3. brief'.pub = "published"
        BY <3>2, <3>3, <4>1 DEF changed, BriefRows
      <4>4. shown'.first = {brief'.text}
        BY <3>2, <3>3, <4>3
      <4>5. f = 0 /\ f1 = 1
        BY <4>2, <4>4, FS_EmptySet, FS_Singleton DEF f, f1
      <4>6. m <= m1 + 1 /\ a <= a1 + 1
        BY <1>5, <3>1
      <4>7. log'.published = log.published
        BY <3>2 DEF TypeInv
      <4> QED
        BY <1>1, <1>2, <1>3, <1>4, <1>6, <3>2, <4>5, <4>6, <4>7
    <3>4. CASE req[t].kind # "approve"
      <4>1. shown'.first = shown.first
        BY <3>2, <3>4
      <4>2. f1 = f
        BY <4>1 DEF f, f1
      <4>3. m <= m1 /\ a <= a1
        BY <1>5, <3>1, <3>4
      <4>4. log'.published = log.published
        BY <3>2 DEF TypeInv
      <4> QED
        BY <1>1, <1>2, <1>3, <1>4, <1>6, <3>2, <4>2, <4>3, <4>4
    <3> QED
      BY <3>3, <3>4
  <2> QED
    BY <2>2, <2>3
<1>14. CASE UNCHANGED <<req, shown, mailed, log, spoiled>>
  BY <1>14 DEF ChargeInv, mailing, announcing
<1> QED
  BY <1>8, <1>10, <1>11, <1>12, <1>13, <1>14, Steps

-----------------------------------------------------------------------------
(***************************************************************************)
(* Cards of the officials' responses.                                      *)
(***************************************************************************)
\* A request comes to make a card if it read that there is none, or its
\* lookup failed; only insertResponse makes one.
LEMMA AnchorMoves ==
    ASSUME TypeInv, NEW t \in Requests, Elsewhere(t)
    PROVE  /\ overlapped' = overlapped /\ (broken => broken')
           /\ \/ /\ anchors' = anchors
                 /\ \E q : becomes(t, q) /\ (q.pc = "insert" /\ q.anchor => anchors = 0 \/ broken')
              \/ /\ req[t].pc = "insert" /\ becomes(t, Idle)
                 /\ anchors' = IF req[t].anchor THEN anchors + 1 ELSE anchors
<1>1. req[t] \in RequestRecords
  BY DEF TypeInv
<1>2. Idle.pc = "idle"
  BY DEF Idle
<1>3. CASE latestAnchorAt(t)
  <2>1. PICK v \in BOOLEAN : /\ becomes(t, [req[t] EXCEPT !.pc = "insert", !.anchor = v])
                             /\ v => anchors = 0 \/ broken'
                             /\ broken => broken'
    <3>1. CASE becomes(t, [req[t] EXCEPT !.pc = "insert", !.anchor = isFeedAnchor]) /\ fine
      <4>1. PICK v \in BOOLEAN : v = isFeedAnchor
        BY DEF isFeedAnchor
      <4> QED
        BY <3>1, <4>1 DEF isFeedAnchor, fine
    <3>2. CASE becomes(t, [req[t] EXCEPT !.pc = "insert", !.anchor = TRUE]) /\ broken' = TRUE
      BY <3>2
    <3> QED
      BY <1>3, <3>1, <3>2 DEF latestAnchorAt
  <2>2. PICK q : q = [req[t] EXCEPT !.pc = "insert", !.anchor = v]
    OBVIOUS
  <2>3. q.anchor = v
    BY <1>1, <2>2 DEF RequestRecords
  <2>4. anchors' = anchors /\ overlapped' = overlapped
    BY <1>3 DEF latestAnchorAt, rowsKept
  <2> QED
    BY <2>1, <2>2, <2>3, <2>4
<1>4. CASE insertResponse(t)
  BY <1>4 DEF insertResponse, fine, at
<1>5. CASE ends(t) /\ overlapped' = overlapped /\ anchors' = anchors
  BY <1>2, <1>5 DEF ends
<1>6. ASSUME NEW pc, goto(t, pc), pc # "insert", fine, overlapped' = overlapped, anchors' = anchors
      PROVE  /\ overlapped' = overlapped /\ (broken => broken') /\ anchors' = anchors
             /\ \E q : becomes(t, q) /\ (q.pc = "insert" /\ q.anchor => anchors = 0 \/ broken')
  <2>1. [req[t] EXCEPT !.pc = pc].pc = pc
    BY <1>1 DEF RequestRecords
  <2> QED
    BY <1>6, <2>1 DEF goto, fine
<1>7. CASE freshContent(t) \/ finalizeBriefSource(t) \/ applySourceState(t)
  <2>1. PICK q : /\ becomes(t, q)
                 /\ \/ q = Idle
                    \/ \E text : q = [req[t] EXCEPT !.pc = "emit", !.fresh = text]
                    \/ \E pc \in {"save", "emit", "settle"} : q = [req[t] EXCEPT !.pc = pc]
                    \/ \E v : \E pc \in {"finalizeSave", "takeSave"} : q = [req[t] EXCEPT !.pc = pc, !.source = v]
    BY <1>7 DEF freshContent, finalizeBriefSource, applySourceState, afterTake
  <2>2. q.pc # "insert"
    BY <1>1, <1>2, <2>1 DEF RequestRecords
  <2>3. fine /\ overlapped' = overlapped /\ anchors' = anchors
    BY <1>7 DEF freshContent, finalizeBriefSource, applySourceState, rowsKept
  <2> QED
    BY <2>1, <2>2, <2>3 DEF fine
<1>8. CASE deliver(t) \/ emitBriefResultPublished(t) \/ finalizeSave(t) \/ takeSave(t) \/ emitBriefUpdated(t) \/ Stops(t)
  <2>1. overlapped' = overlapped /\ anchors' = anchors
    BY <1>8 DEF deliver, emitBriefResultPublished, finalizeSave, takeSave, emitBriefUpdated, Stops, rowsKept
  <2>2. ends(t) \/ \E pc \in {"announce", "finalize", "save", "emit", "settle"} : goto(t, pc) /\ fine
    BY <1>8 DEF deliver, emitBriefResultPublished, finalizeSave, takeSave, emitBriefUpdated, Stops, afterTake
  <2> QED
    BY <1>5, <1>6, <2>1, <2>2
<1> QED
  BY <1>3, <1>4, <1>7, <1>8 DEF Elsewhere

\* One card a day, while requests come one at a time and none breaks off.
LEMMA CardNext ==
    ASSUME TypeInv, SnapshotInv, CardInv, [Next]_vars
    PROVE  CardInv'
<1> DEFINE Alone == \A t, u \in Requests : at(t, "idle") \/ at(u, "idle") \/ t = u
<1>1. ASSUME NEW t \in Requests, NEW q, becomes(t, q), req[t].pc # "idle",
             overlapped' = overlapped, broken => broken',
             \/ anchors' = anchors /\ (q.pc = "insert" /\ q.anchor => anchors = 0 \/ broken')
             \/ /\ req[t].pc = "insert" /\ q = Idle
                /\ anchors' = IF req[t].anchor THEN anchors + 1 ELSE anchors
      PROVE  CardInv'
  <2>1. req'[t] = q /\ \A u \in Requests \ {t} : req'[u] = req[u]
    BY <1>1, OneMoves
  <2>2. ~overlapped' => Alone'
    BY <1>1, <2>1 DEF CardInv, at
  <2>3. ASSUME ~overlapped', ~broken', NEW u \in Requests, at(u, "insert")', req'[u].anchor
        PROVE  anchors' = 0
    <3>1. u = t
      BY <1>1, <2>1, <2>3 DEF CardInv, at
    <3>2. q # Idle
      BY <2>1, <2>3, <3>1 DEF Idle, at
    <3> QED
      BY <1>1, <2>1, <2>3, <3>1, <3>2 DEF at
  <2>4. OneCardADay'
    <3>1. CASE overlapped \/ broken
      BY <1>1, <3>1 DEF OneCardADay
    <3>2. CASE ~overlapped /\ ~broken
      <4>1. anchors \in Nat /\ anchors <= 1
        BY <3>2 DEF TypeInv, CardInv, OneCardADay
      <4>2. req[t].pc = "insert" /\ req[t].anchor => anchors = 0
        BY <3>2 DEF CardInv, at
      <4>3. anchors' <= 1
        BY <1>1, <4>1, <4>2
      <4> QED
        BY <4>3 DEF OneCardADay
    <3> QED
      BY <3>1, <3>2
  <2> QED
    BY <2>2, <2>3, <2>4 DEF CardInv
<1>2. ASSUME NEW t \in Requests, Elsewhere(t)
      PROVE  CardInv'
  <2>1. req[t].pc # "idle"
    BY <1>2, ElsewhereKeeps
  <2> QED
    BY <1>1, <1>2, <2>1, AnchorMoves
<1>3. ASSUME NEW t \in Requests, NEW kind \in Kinds, Open(t, kind)
      PROVE  CardInv'
  <2>1. PICK q : becomes(t, q) /\ q.pc = firstStep(kind)
    BY <1>3, Opened
  <2>2. /\ broken' = broken /\ anchors' = anchors
        /\ overlapped' = (overlapped \/ \E other \in Requests \ {t} : ~at(other, "idle"))
    BY <1>3, Opened
  <2>3. req'[t] = q /\ \A u \in Requests \ {t} : req'[u] = req[u]
    BY <2>1, OneMoves
  <2>4. q.pc # "insert"
    BY <2>1 DEF firstStep
  <2>5. ~overlapped' => ~overlapped /\ \A u \in Requests \ {t} : at(u, "idle") /\ at(u, "idle")'
    BY <2>2, <2>3 DEF at
  <2>6. ~overlapped' => Alone'
    BY <2>5
  <2>7. ~overlapped' => \A u \in Requests : ~at(u, "insert")'
    BY <2>3, <2>4, <2>5 DEF at
  <2>8. OneCardADay'
    BY <2>2, <2>5 DEF CardInv, OneCardADay
  <2> QED
    BY <2>6, <2>7, <2>8 DEF CardInv
<1>4. ASSUME NEW t \in Requests, settle(t)
      PROVE  CardInv'
  <2>1. req[t].pc # "idle" /\ Idle.pc = "idle"
    BY <1>4 DEF settle, at, Idle
  <2>2. becomes(t, Idle) /\ (broken => broken') /\ overlapped' = overlapped /\ anchors' = anchors
    BY <1>4, Settled DEF ends, fine
  <2> QED
    BY <1>1, <2>1, <2>2
<1>5. ASSUME NEW t \in Requests, saveProcessState(t)
      PROVE  CardInv'
  <2>1. req[t].pc # "idle" /\ Idle.pc = "idle" /\ req[t] \in RequestRecords
    BY <1>5 DEF saveProcessState, at, Idle, TypeInv
  <2>2. CASE ~unchanged(req[t].brief)
    BY <1>1, <1>5, <2>1, <2>2, NotSaved DEF ends
  <2>3. CASE unchanged(req[t].brief)
    <3>1. PICK q : becomes(t, q) /\ (q = Idle \/ q = [req[t] EXCEPT !.pc = "take", !.brief = brief'])
      BY <1>5, <2>3, Saved
    <3>2. q.pc # "insert"
      BY <2>1, <3>1 DEF RequestRecords
    <3>3. broken' = broken /\ overlapped' = overlapped /\ anchors' = anchors
      BY <1>5, <2>3, Saved
    <3> QED
      BY <1>1, <2>1, <3>1, <3>2, <3>3
  <2> QED
    BY <2>2, <2>3
<1>6. CASE UNCHANGED <<req, overlapped, broken>> /\ (anchors' = anchors \/ anchors' = 0)
  <2>1. OneCardADay'
    BY <1>6 DEF CardInv, OneCardADay
  <2> QED
    BY <1>6, <2>1 DEF CardInv, at
<1> QED
  BY <1>2, <1>3, <1>4, <1>5, <1>6, Steps

-----------------------------------------------------------------------------
(***************************************************************************)
(* The theorems.                                                           *)
(***************************************************************************)
LEMMA InitInv == Init => IInv
<1> SUFFICES ASSUME Init PROVE IInv
  OBVIOUS
<1>1. TypeInv
  BY TypeInit
<1>2. /\ brief = createBriefState /\ req = [t \in Requests |-> Idle] /\ anchors = 0
      /\ mailed = [o \in Officials |-> [times |-> 0, texts |-> {}]]
      /\ log = [updated |-> 0, published |-> 0, writes |-> 0]
      /\ shown = [first |-> {}, all |-> {}] /\ saved = {firstText} /\ spoiled = 0
  BY DEF Init
<1>3. \A t \in Requests : req[t].pc = "idle"
  BY <1>2 DEF Idle
<1>4. SnapshotInv /\ CardInv
  BY <1>2, <1>3 DEF SnapshotInv, CardInv, OneCardADay, at
<1>5. NothingLost
  BY <1>2 DEF NothingLost, createBriefState
<1>6. MailInv /\ PublishedAsMailed
  BY <1>2, <1>3 DEF MailInv, PublishedAsMailed, Before
<1>7. announced = {} /\ mailing = {} /\ announcing = {} /\ shown.first = {}
  BY <1>2, <1>3 DEF announced, mailing, announcing, Before
<1>8. EventInv /\ ChargeInv
  <2>1. Cardinality({}) = 0
    BY FS_EmptySet
  <2>2. log.updated = 0 /\ log.published = 0 /\ log.writes = 0 /\ \A o \in Officials : mailed[o].times = 0
    BY <1>2
  <2> QED
    BY <1>2, <1>7, <2>1, <2>2 DEF EventInv, ChargeInv
<1> QED
  BY <1>1, <1>4, <1>5, <1>6, <1>8 DEF IInv

LEMMA NextInv == IInv /\ [Next]_vars => IInv'
BY TypeNext, SnapshotNext, LostNext, MailNext, EventNext, ChargeNext, CardNext DEF IInv

LEMMA Inductive == Spec => []IInv
BY InitInv, NextInv, PTL DEF Spec

\* Type correctness, with what a request may hold at each of its steps: the
\* row always has a text that was written, and a version waits only behind a
\* published one (createBriefState, changed, freshContent).
THEOREM BriefsTypeCorrect == Spec => []TypeOK
<1>1. IInv => TypeOK
  <2> SUFFICES ASSUME IInv PROVE TypeOK
    OBVIOUS
  <2>1. \A t \in Requests : req[t] \in RequestRecords
    BY DEF IInv, TypeInv
  <2>2. \A t \in Requests : req[t].pc \in PCs /\ req[t].kind \in Kinds
    BY <2>1 DEF RequestRecords
  <2>3. source.status \in {"closed", "finalized"} /\ source.summary \in 1..texts
    BY DEF IInv, TypeInv, SourceRows
  <2> QED
    BY <2>2, <2>3 DEF IInv, TypeInv, RowOK, TypeOK
<1> QED
  BY <1>1, Inductive, PTL

\* No version of a brief is lost, however many requests work on their copies
\* of the row: the version check of saveProcessState lets through only a copy
\* that is the row, and regenerating or publishing keeps what it replaces.
THEOREM VersionsKept == Spec => []NothingLost
<1>1. IInv => NothingLost
  BY DEF IInv
<1> QED
  BY <1>1, Inductive, PTL

\* approveBrief mails and announces before its save: every mail and every
\* announcement is charged to an approval that published, that broke off or
\* that is on its way, and none to a revision.
THEOREM MailsCharged == Spec => []MailedPerApproval
<1>1. IInv => MailedPerApproval
  <2> SUFFICES ASSUME IInv PROVE MailedPerApproval
    OBVIOUS
  <2>1. mailing \subseteq approving /\ announcing \subseteq approving
    <3>1. \A t \in Requests : ReqOK(req[t], texts)
      BY DEF IInv, TypeInv
    <3> QED
      BY <3>1 DEF mailing, announcing, approving, at, ReqOK, Before
  <2>2. IsFiniteSet(approving) /\ IsFiniteSet(mailing) /\ IsFiniteSet(announcing)
    BY BriefsAssumption, FS_Subset DEF approving, mailing, announcing
  <2>3. PICK m \in Nat, a \in Nat, p \in Nat :
          m = Cardinality(mailing) /\ a = Cardinality(announcing) /\ p = Cardinality(approving)
    BY <2>2, FS_CardinalityType
  <2>4. m <= p /\ a <= p
    BY <2>1, <2>2, <2>3, FS_Subset
  <2>5. IsFiniteSet(shown.first)
    <3>1. shown.first = {} \/ \E text : shown.first = {text}
      BY DEF IInv, MailInv
    <3> QED
      BY <3>1, FS_EmptySet, FS_Singleton
  <2>6. PICK f \in Nat, s \in Nat : f = Cardinality(shown.first) /\ s = spoiled
    BY <2>5, FS_CardinalityType DEF IInv, TypeInv
  <2>7. /\ \A o \in Officials : mailed[o].times \in Nat /\ mailed[o].times <= s + f + m
        /\ log.published \in Nat /\ log.published <= s + f + a
    BY <2>3, <2>6 DEF IInv, TypeInv, ChargeInv
  <2>8. /\ \A o \in Officials : mailed[o].times <= s + f + p
        /\ log.published <= s + f + p
    BY <2>4, <2>7
  <2> QED
    BY <2>3, <2>6, <2>8 DEF MailedPerApproval
<1> QED
  BY <1>1, Inductive, PTL

\* The text a brief is first published with was mailed to every official:
\* no edit or regeneration gets between an approval's mail and its save.
THEOREM PublishedWasMailed == Spec => []PublishedAsMailed
<1>1. IInv => PublishedAsMailed
  BY DEF IInv
<1> QED
  BY <1>1, Inductive, PTL

\* emitBriefUpdated and emitBriefResultPublished come before the save, so no
\* request, cut off or refused at any point, changes the row without an event.
THEOREM NoSilentWrite == Spec => []NothingSilent
<1>1. IInv => NothingSilent
  <2> SUFFICES ASSUME IInv PROVE NothingSilent
    OBVIOUS
  <2>1. IsFiniteSet(announced)
    BY BriefsAssumption, FS_Subset DEF announced
  <2>2. PICK k \in Nat : k = Cardinality(announced)
    BY <2>1, FS_CardinalityType
  <2>3. PICK w \in Nat, u \in Nat, p \in Nat : w = log.writes /\ u = log.updated /\ p = log.published
    BY DEF IInv, TypeInv
  <2>4. w + k <= u + p
    BY <2>2, <2>3 DEF IInv, EventInv
  <2>5. w <= u + p
    BY <2>4
  <2> QED
    BY <2>3, <2>5 DEF NothingSilent
<1> QED
  BY <1>1, Inductive, PTL

\* The officials' responses of one day share one card while no two requests
\* overlap and no lookup fails (latestAnchorAt, isFeedAnchor): for every number
\* of requests and days, so the two conditions are the only way to a second card.
THEOREM CardsBounded == Spec => []OneCardADay
<1>1. IInv => OneCardADay
  BY DEF IInv, CardInv
<1> QED
  BY <1>1, Inductive, PTL

-----------------------------------------------------------------------------
(***************************************************************************)
(* The brief and its source, while requests come one at a time.            *)
(***************************************************************************)
\* An approval that saved and still brings its summary; a revision that brought its
\* summary and has not saved.
Settling(q) == q.kind = "approve" /\ q.pc \in After
Publishing(q) == q.kind = "publish" /\ q.pc \in {"emit", "save"}

Keeps(s, src) == src \in {0, s.summary} \cup s.kept

\* How the row b, the source s and the published texts stand while q, which works on
\* the row as it is, is the only request.
Fits(b, s, all, q) ==
    /\ q.pc # "idle" => q.brief = b
    /\ q.pc # "idle" /\ q.kind = "edit" => q.fresh.src = b.text.src
    /\ q.kind = "approve" /\ q.pc = "save" => s.status = "finalized"
    /\ b.pub = "pending" => /\ all = {}
                            /\ b.owed = b.text.src \/ (b.owed = 0 /\ b.text.src \in {0, s.summary})
    /\ b.pub = "published" =>
          /\ s.status = "finalized"
          /\ \A text \in all : text = b.text \/ Keeps(s, text.src)
          /\ Settling(q) => b.owed # 0 /\ b.owed = b.text.src /\ (q.pc = "settle" => s.summary = b.owed)
          /\ Publishing(q) => b.owed = 0 /\ Keeps(s, b.text.src) /\ b.revision.src \in {0, s.summary}
          /\ ~Settling(q) /\ ~Publishing(q) => b.owed = 0 /\ b.text.src \in {0, s.summary}

SummaryInv ==
    ~overlapped /\ ~broken =>
        /\ \A t \in Requests : ~at(t, "idle") => Fits(brief, source, shown.all, req[t])
        /\ quiet => Fits(brief, source, shown.all, Idle)

\* The only request takes a step.
LEMMA SummaryStep ==
    ASSUME TypeInv, CardInv, NEW t \in Requests, NEW q, becomes(t, q), ~at(t, "idle"), ~overlapped,
           q = Idle \/ q.pc # "idle", Fits(brief', source', shown'.all, q)
    PROVE  SummaryInv'
<1>1. req'[t] = q /\ \A u \in Requests \ {t} : req'[u] = req[u]
  BY OneMoves
<1>2. \A u \in Requests \ {t} : req[u].pc = "idle"
  BY DEF CardInv, at
<1>3. Idle.pc = "idle"
  BY DEF Idle
<1>4. \A u \in Requests : req'[u].pc # "idle" => u = t /\ Fits(brief', source', shown'.all, req'[u])
  BY <1>1, <1>2
<1>5. (\A u \in Requests : req'[u].pc = "idle") => Fits(brief', source', shown'.all, Idle)
  BY <1>1, <1>3
<1> QED
  BY <1>4, <1>5 DEF SummaryInv, quiet, at

\* The steps before its save that write nothing the brief or the source shows.
LEMMA FitsOn ==
    ASSUME NEW b, NEW s, NEW all, NEW q, NEW next, Fits(b, s, all, q), next.brief = q.brief, next.kind = q.kind,
           q.pc # "idle", q.kind # "edit", ~Settling(q), ~Publishing(q), ~Settling(next), ~Publishing(next),
           next.kind = "approve" /\ next.pc = "save" => s.status = "finalized"
    PROVE  Fits(b, s, all, next)
BY DEF Fits

LEMMA FitsIdle ==
    ASSUME NEW b, NEW s, NEW all, NEW q, Fits(b, s, all, q), ~Settling(q), ~Publishing(q)
    PROVE  Fits(b, s, all, Idle)
BY DEF Fits, Settling, Publishing, Idle, After

\* A request goes on, as the same kind of request and with the same row.
GoesTo(t, pc) == \E q : becomes(t, q) /\ q.pc = pc /\ q.kind = req[t].kind /\ q.brief = req[t].brief

LEMMA MovesOn ==
    ASSUME TypeInv, NEW t \in Requests, NEW pc,
           \/ goto(t, pc)
           \/ \E v : becomes(t, [req[t] EXCEPT !.pc = pc, !.source = v])
           \/ \E v : becomes(t, [req[t] EXCEPT !.pc = pc, !.fresh = v])
           \/ \E v : becomes(t, [req[t] EXCEPT !.pc = pc, !.anchor = v])
    PROVE  GoesTo(t, pc)
<1>1. PICK q : /\ becomes(t, q)
               /\ \/ q = [req[t] EXCEPT !.pc = pc]
                  \/ \E v : q = [req[t] EXCEPT !.pc = pc, !.source = v]
                  \/ \E v : q = [req[t] EXCEPT !.pc = pc, !.fresh = v]
                  \/ \E v : q = [req[t] EXCEPT !.pc = pc, !.anchor = v]
  BY DEF goto
<1>2. q.pc = pc /\ q.kind = req[t].kind /\ q.brief = req[t].brief
  BY <1>1 DEF TypeInv, RequestRecords
<1> QED
  BY <1>1, <1>2 DEF GoesTo

\* The source takes a summary and keeps its own.
LEMMA TakenIs ==
    ASSUME TypeInv, NEW src, source' = taken(src)
    PROVE  /\ source'.status = source.status /\ source'.summary = src
           /\ source'.kept = source.kept \cup {source.summary}
BY DEF TypeInv, SourceRows, taken

\* What a save leaves fits.
LEMMA FitsSaved ==
    ASSUME NEW k \in Nat, NEW q, ReqOK(q, k), q.pc = "save", NEW s, NEW all,
           Fits(q.brief, s, all, q), NEW b, NEW next, NEW more,
           b.text = changed(q).text, b.pub = changed(q).pub, b.owed = changed(q).owed,
           more = IF b.pub = "pending" THEN all ELSE all \cup {b.text},
           \/ q.kind = "approve" /\ b.owed # 0 /\ next.pc = "take" /\ next.kind = "approve" /\ next.brief = b
           \/ ~(q.kind = "approve" /\ b.owed # 0) /\ next = Idle
    PROVE  Fits(b, s, more, next)
<1>1. /\ q.brief \in BriefRows /\ q.kind \in Kinds \ {"respond"} /\ q.fresh \in Texts
      /\ q.brief.pub \in {"pending", "published"}
  BY DEF ReqOK, RowOK, Comes, RequestRecords, BriefRows
<1>2. ~Settling(q) /\ ~Settling(Idle) /\ ~Publishing(Idle) /\ Idle.pc = "idle" /\ Idle.kind = "edit"
  BY DEF Settling, Publishing, After, Idle
<1>3. CASE q.kind = "edit"
  <2>1. q.brief.pub = "pending" /\ next = Idle
    BY <1>3 DEF ReqOK
  <2>2. b.pub = "pending" /\ b.owed = q.brief.owed /\ b.text.src = q.brief.text.src
    BY <1>1, <1>3, <2>1 DEF changed, BriefRows, Fits
  <2> QED
    BY <1>1, <1>2, <1>3, <2>1, <2>2 DEF Fits
<1>4. CASE q.kind = "regenerate"
  <2>1. next = Idle
    BY <1>4
  <2>2. CASE q.brief.pub = "published"
    <3>1. b.pub = "published" /\ b.owed = q.brief.owed /\ b.text = q.brief.text
      BY <1>1, <1>4, <2>2 DEF changed, regenerated, BriefRows
    <3>2. ~Publishing(q)
      BY <1>4 DEF Publishing
    <3> QED
      BY <1>2, <1>4, <2>1, <2>2, <3>1, <3>2 DEF Fits
  <2>3. CASE q.brief.pub = "pending"
    <3>1. b.pub = "pending" /\ b.owed = b.text.src
      BY <1>1, <1>4, <2>3 DEF changed, regenerated, BriefRows
    <3> QED
      BY <1>2, <1>4, <2>1, <2>3, <3>1 DEF Fits
  <2> QED
    BY <1>1, <2>2, <2>3
<1>5. CASE q.kind = "approve"
  <2>1. q.brief.pub = "pending" /\ s.status = "finalized"
    BY <1>5 DEF ReqOK, Before, Fits
  <2>2. b.pub = "published" /\ b.owed = q.brief.owed /\ b.text = q.brief.text
    BY <1>1, <1>5 DEF changed, BriefRows
  <2>3. more = {b.text} /\ (b.owed = b.text.src \/ (b.owed = 0 /\ b.text.src \in {0, s.summary}))
    BY <2>1, <2>2 DEF Fits
  <2>4. CASE b.owed # 0
    <3>1. next.pc = "take" /\ next.kind = "approve" /\ next.brief = b
      BY <1>5, <2>4
    <3>2. b.owed = b.text.src /\ Settling(next) /\ ~Publishing(next)
      BY <2>3, <2>4, <3>1 DEF Settling, Publishing, After
    <3> QED
      BY <2>1, <2>2, <2>3, <2>4, <3>1, <3>2 DEF Fits
  <2>5. CASE b.owed = 0
    <3>1. next = Idle /\ b.text.src \in {0, s.summary}
      BY <2>3, <2>5
    <3> QED
      BY <1>2, <2>1, <2>2, <2>3, <2>5, <3>1 DEF Fits
  <2> QED
    BY <2>4, <2>5
<1>6. CASE q.kind = "publish"
  <2>1. q.brief.pub = "published" /\ Publishing(q) /\ next = Idle
    BY <1>6 DEF ReqOK, RowOK, Publishing
  <2>2. b.pub = "published" /\ b.owed = q.brief.owed /\ b.text = q.brief.revision
    BY <1>1, <1>6, <2>1 DEF changed, published, BriefRows
  <2>3. /\ s.status = "finalized" /\ b.owed = 0 /\ b.text.src \in {0, s.summary}
        /\ Keeps(s, q.brief.text.src) /\ \A text \in all : text = q.brief.text \/ Keeps(s, text.src)
    BY <2>1, <2>2 DEF Fits
  <2>4. \A text \in more : text = b.text \/ Keeps(s, text.src)
    BY <2>2, <2>3
  <2> QED
    BY <1>2, <2>1, <2>2, <2>3, <2>4 DEF Fits
<1>7. CASE q.kind = "discard"
  <2>1. next = Idle /\ ~Publishing(q)
    BY <1>7 DEF Publishing
  <2>2. b.pub = q.brief.pub /\ b.owed = q.brief.owed /\ b.text = q.brief.text
    BY <1>1, <1>7 DEF changed, BriefRows
  <2> QED
    BY <1>1, <1>2, <2>1, <2>2 DEF Fits
<1> QED
  BY <1>1, <1>3, <1>4, <1>5, <1>6, <1>7 DEF Kinds

LEMMA SummaryNext ==
    ASSUME TypeInv, SnapshotInv, CardInv, SummaryInv, [Next]_vars
    PROVE  SummaryInv'
<1> SUFFICES ASSUME ~overlapped', ~broken' PROVE SummaryInv'
  BY DEF SummaryInv
<1>0. Idle.pc = "idle" /\ ~Settling(Idle) /\ ~Publishing(Idle) /\ Idle.kind = "edit"
  BY DEF Idle, Settling, Publishing, After
<1>1. ASSUME NEW t \in Requests, ends(t) PROVE FALSE
  BY <1>1 DEF ends
<1>2. ASSUME NEW t \in Requests, req[t].pc # "idle", ~overlapped, ~broken
      PROVE  /\ Fits(brief, source, shown.all, req[t]) /\ ReqOK(req[t], texts) /\ texts \in Nat
             /\ req[t].brief = brief /\ brief \in BriefRows
  BY <1>2 DEF SummaryInv, at, TypeInv, Fits, RowOK
<1>3. ASSUME NEW t \in Requests, NEW kind \in Kinds, Open(t, kind) PROVE SummaryInv'
  <2>1. /\ ~overlapped /\ ~broken /\ \A u \in Requests : req[u].pc = "idle"
        /\ brief' = brief /\ shown' = shown /\ source' = source
    BY <1>3, Opened DEF at, Open
  <2>2. PICK q : /\ becomes(t, q) /\ q.brief = brief /\ q.kind = kind /\ q.pc = firstStep(kind)
                 /\ kind = "edit" => q.fresh.src = brief.text.src
    <3> DEFINE text == IF kind = "edit" THEN [n |-> texts', src |-> brief.text.src] ELSE NoText
               q == [Idle EXCEPT !.pc = firstStep(kind), !.kind = kind, !.brief = brief, !.fresh = text]
    <3>1. becomes(t, q) /\ (kind = "edit" => text.src = brief.text.src)
      BY <1>3 DEF Open
    <3> HIDE DEF text
    <3>2. q.brief = brief /\ q.kind = kind /\ q.pc = firstStep(kind) /\ q.fresh = text
      BY DEF Idle
    <3> HIDE DEF q
    <3> QED
      BY <3>1, <3>2
  <2>3. Fits(brief, source, shown.all, Idle)
    BY <2>1 DEF SummaryInv, quiet, at
  <2>4. /\ ~Settling(q) /\ ~Publishing(q) /\ ~(q.kind = "approve" /\ q.pc = "save") /\ q.pc # "idle"
    BY <2>2 DEF Settling, Publishing, After, firstStep
  <2>5. Fits(brief', source', shown'.all, q)
    BY <1>0, <2>1, <2>2, <2>3, <2>4 DEF Fits
  <2>6. req'[t] = q /\ \A u \in Requests \ {t} : req'[u] = req[u]
    BY <2>2, OneMoves
  <2> QED
    BY <2>1, <2>4, <2>5, <2>6 DEF SummaryInv, quiet, at
\* Before a save or a take, nothing that the brief and the source show changes.
<1>4. ASSUME NEW t \in Requests, NEW q, becomes(t, q), req[t].pc # "idle", ~overlapped, ~broken,
             brief' = brief, source' = source, shown' = shown,
             ~Settling(req[t]), ~Publishing(req[t]),
             \/ q = Idle
             \/ /\ q.brief = req[t].brief /\ q.kind = req[t].kind /\ q.kind # "edit" /\ q.pc # "idle"
                /\ ~Settling(q) /\ ~Publishing(q)
                /\ q.kind = "approve" /\ q.pc = "save" => source.status = "finalized"
      PROVE  SummaryInv'
  <2>1. Fits(brief, source, shown.all, req[t])
    BY <1>2, <1>4
  <2>2. Fits(brief, source, shown.all, q)
    BY <1>4, <2>1, FitsIdle, FitsOn
  <2> QED
    BY <1>4, <2>2, SummaryStep DEF at
<1>5. ASSUME NEW t \in Requests, freshContent(t) PROVE SummaryInv'
  <2>1. /\ req[t].pc = "generate" /\ ~overlapped /\ ~broken /\ brief' = brief /\ source' = source /\ shown' = shown
    BY <1>5 DEF freshContent, at, fine
  <2>2. req[t].kind = "regenerate"
    BY <1>2, <2>1 DEF ReqOK, Comes
  <2>3. becomes(t, Idle) \/ \E text : becomes(t, [req[t] EXCEPT !.pc = "emit", !.fresh = text])
    BY <1>5 DEF freshContent
  <2>4. PICK q : becomes(t, q) /\ (q = Idle \/ (q.pc = "emit" /\ q.kind = req[t].kind /\ q.brief = req[t].brief))
    <3>1. becomes(t, Idle) \/ GoesTo(t, "emit")
      BY <2>3, MovesOn
    <3> QED
      BY <3>1 DEF GoesTo
  <2> QED
    BY <1>4, <2>1, <2>2, <2>4 DEF Settling, Publishing
<1>6. ASSUME NEW t \in Requests, deliver(t) \/ emitBriefResultPublished(t) PROVE SummaryInv'
  <2>1. /\ req[t].pc \in {"mail", "announce"} /\ ~overlapped /\ brief' = brief /\ source' = source /\ shown' = shown
        /\ \E pc \in {"announce", "finalize"} : goto(t, pc) /\ fine
    BY <1>1, <1>6 DEF deliver, emitBriefResultPublished, at, rowsKept
  <2>2. PICK q : becomes(t, q) /\ q.pc \in {"announce", "finalize"} /\ q.kind = req[t].kind /\ q.brief = req[t].brief
    <3>1. GoesTo(t, "announce") \/ GoesTo(t, "finalize")
      BY <2>1, MovesOn
    <3> QED
      BY <3>1 DEF GoesTo
  <2>3. ~broken
    BY <2>1 DEF fine
  <2>4. req[t].kind = "approve"
    BY <1>2, <2>1, <2>3 DEF ReqOK, Comes
  <2> QED
    BY <1>4, <2>1, <2>2, <2>3, <2>4 DEF Settling, Publishing, After
<1>7. ASSUME NEW t \in Requests, finalizeBriefSource(t) PROVE SummaryInv'
  <2>1. /\ req[t].pc = "finalize" /\ ~overlapped /\ ~broken /\ brief' = brief /\ source' = source /\ shown' = shown
        /\ \/ source.status = "finalized" /\ becomes(t, [req[t] EXCEPT !.pc = "save"])
           \/ becomes(t, [req[t] EXCEPT !.pc = "finalizeSave", !.source = source.version])
    BY <1>7 DEF finalizeBriefSource, at, rowsKept, fine
  <2>2. req[t].kind = "approve"
    BY <1>2, <2>1 DEF ReqOK, Comes
  <2>3. PICK q : /\ becomes(t, q) /\ q.kind = req[t].kind /\ q.brief = req[t].brief
                 /\ q.pc = "finalizeSave" \/ (q.pc = "save" /\ source.status = "finalized")
    <3>1. GoesTo(t, "finalizeSave") \/ (source.status = "finalized" /\ GoesTo(t, "save"))
      BY <2>1, MovesOn DEF goto
    <3> QED
      BY <3>1 DEF GoesTo
  <2> QED
    BY <1>4, <2>1, <2>2, <2>3 DEF Settling, Publishing, After
<1>8. ASSUME NEW t \in Requests, finalizeSave(t) PROVE SummaryInv'
  <2>1. /\ req[t].pc = "finalizeSave" /\ ~overlapped /\ brief' = brief /\ shown' = shown
        /\ source' = [source EXCEPT !.status = "finalized", !.version = @ + 1]
        /\ goto(t, "save") /\ fine
    BY <1>1, <1>8 DEF finalizeSave, at
  <2>2. source'.status = "finalized" /\ source'.summary = source.summary /\ source'.kept = source.kept
    BY <2>1 DEF TypeInv, SourceRows
  <2>3. /\ Fits(brief, source, shown.all, req[t]) /\ ReqOK(req[t], texts) /\ req[t].brief = brief
    BY <1>2, <2>1 DEF fine
  <2>4. req[t].kind = "approve" /\ brief.pub = "pending"
    BY <2>1, <2>3 DEF ReqOK, Comes, Before
  <2>5. PICK q : becomes(t, q) /\ q.pc = "save" /\ q.kind = req[t].kind /\ q.brief = req[t].brief
    <3>1. GoesTo(t, "save")
      BY <2>1, MovesOn
    <3> QED
      BY <3>1 DEF GoesTo
  <2>6. Fits(brief', source', shown'.all, q)
    BY <2>1, <2>2, <2>3, <2>4, <2>5 DEF Fits
  <2> QED
    BY <2>1, <2>5, <2>6, SummaryStep DEF at
<1>9. ASSUME NEW t \in Requests, emitBriefUpdated(t) PROVE SummaryInv'
  <2>1. /\ req[t].pc = "emit" /\ ~overlapped /\ ~broken /\ brief' = brief /\ source' = source /\ shown' = shown
        /\ goto(t, "save")
    BY <1>9 DEF emitBriefUpdated, at, rowsKept, fine
  <2>2. Fits(brief, source, shown.all, req[t]) /\ req[t].kind \in {"edit", "regenerate", "publish", "discard"}
    BY <1>2, <2>1 DEF ReqOK, Comes
  <2>3. PICK q : /\ becomes(t, q) /\ q.pc = "save" /\ q.kind = req[t].kind /\ q.brief = req[t].brief
                 /\ q.fresh = req[t].fresh
    <3>1. [req[t] EXCEPT !.pc = "save"].fresh = req[t].fresh
      BY DEF TypeInv, RequestRecords
    <3>2. /\ [req[t] EXCEPT !.pc = "save"].pc = "save" /\ [req[t] EXCEPT !.pc = "save"].kind = req[t].kind
          /\ [req[t] EXCEPT !.pc = "save"].brief = req[t].brief
      BY DEF TypeInv, RequestRecords
    <3> QED
      BY <2>1, <3>1, <3>2 DEF goto
  <2>4. Settling(q) = FALSE /\ Settling(req[t]) = FALSE /\ Publishing(q) = Publishing(req[t])
    BY <2>1, <2>2, <2>3 DEF Settling, Publishing, After
  <2>5. Fits(brief', source', shown'.all, q)
    BY <2>1, <2>2, <2>3, <2>4 DEF Fits
  <2> QED
    BY <2>1, <2>3, <2>5, SummaryStep DEF at
<1>10. ASSUME NEW t \in Requests, latestAnchorAt(t) \/ insertResponse(t) PROVE SummaryInv'
  <2>1. /\ req[t].pc \in {"anchor", "insert"} /\ ~overlapped /\ ~broken
        /\ brief' = brief /\ source' = source /\ shown' = shown
        /\ \/ becomes(t, Idle)
           \/ \E v : becomes(t, [req[t] EXCEPT !.pc = "insert", !.anchor = v])
    <3>1. CASE latestAnchorAt(t)
      <4>1. becomes(t, [req[t] EXCEPT !.pc = "insert", !.anchor = isFeedAnchor]) /\ fine
        BY <3>1 DEF latestAnchorAt
      <4> QED
        BY <3>1, <4>1 DEF latestAnchorAt, at, rowsKept, fine
    <3>2. CASE insertResponse(t)
      BY <3>2 DEF insertResponse, at, fine
    <3> QED
      BY <1>10, <3>1, <3>2
  <2>2. req[t].kind = "respond"
    BY <1>2, <2>1 DEF ReqOK, Comes
  <2>3. PICK q : becomes(t, q) /\ (q = Idle \/ (q.pc = "insert" /\ q.kind = req[t].kind /\ q.brief = req[t].brief))
    <3>1. becomes(t, Idle) \/ GoesTo(t, "insert")
      BY <2>1, MovesOn
    <3> QED
      BY <3>1 DEF GoesTo
  <2> QED
    BY <1>4, <2>1, <2>2, <2>3 DEF Settling, Publishing
\* The source takes the summary.
<1>11. ASSUME NEW t \in Requests, NEW q, becomes(t, q), req[t].pc \in {"take", "takeSave"}, ~overlapped, ~broken,
              brief' = brief, shown' = shown, q.brief = req[t].brief, q.kind = req[t].kind,
              q.pc = afterTake(req[t]),
              \/ source' = source /\ brings(req[t]) \in {0, source.summary}
              \/ source' = taken(brings(req[t]))
       PROVE  SummaryInv'
  <2>1. /\ Fits(brief, source, shown.all, req[t]) /\ ReqOK(req[t], texts) /\ req[t].brief = brief
        /\ req[t].kind \in {"approve", "publish"}
    BY <1>2, <1>11 DEF ReqOK, Comes
  <2>2. brief.pub = "published"
    BY <1>11, <2>1 DEF ReqOK, RowOK, After
  <2>3. /\ source'.status = source.status /\ \A src : Keeps(source, src) => Keeps(source', src)
        /\ brings(req[t]) \in {0, source'.summary}
    BY <1>11, TakenIs DEF Keeps
  <2>4. CASE req[t].kind = "approve"
    <3>1. Settling(req[t]) /\ Settling(q) /\ ~Publishing(q) /\ q.pc = "settle" /\ brings(req[t]) = brief.owed
      BY <1>11, <2>1, <2>4 DEF Settling, Publishing, After, afterTake, brings
    <3>2. source'.summary = brief.owed
      BY <2>1, <2>2, <2>3, <3>1 DEF Fits
    <3>3. Fits(brief', source', shown'.all, q)
      BY <1>11, <2>1, <2>2, <2>3, <3>1, <3>2 DEF Fits
    <3> QED
      BY <1>11, <3>1, <3>3, SummaryStep DEF at
  <2>5. CASE req[t].kind = "publish"
    <3>1. /\ ~Settling(req[t]) /\ ~Publishing(req[t]) /\ ~Settling(q) /\ Publishing(q) /\ q.pc = "emit"
          /\ brings(req[t]) = brief.revision.src
      BY <1>11, <2>1, <2>5 DEF Settling, Publishing, After, afterTake, brings
    <3>2. Keeps(source', brief.text.src) /\ brief.owed = 0
      BY <2>1, <2>2, <2>3, <3>1 DEF Fits, Keeps
    <3>3. Fits(brief', source', shown'.all, q)
      BY <1>11, <2>1, <2>2, <2>3, <3>1, <3>2 DEF Fits
    <3> QED
      BY <1>11, <3>1, <3>3, SummaryStep DEF at
  <2> QED
    BY <2>1, <2>4, <2>5
<1>12. ASSUME NEW t \in Requests, applySourceState(t) PROVE SummaryInv'
  <2>1. /\ req[t].pc = "take" /\ ~overlapped /\ ~broken /\ brief' = brief /\ source' = source /\ shown' = shown
        /\ \/ brings(req[t]) \in {0, source.summary} /\ becomes(t, [req[t] EXCEPT !.pc = afterTake(req[t])])
           \/ becomes(t, [req[t] EXCEPT !.pc = "takeSave", !.source = source.version])
    BY <1>12 DEF applySourceState, at, rowsKept, fine
  <2>2. CASE brings(req[t]) \in {0, source.summary} /\ becomes(t, [req[t] EXCEPT !.pc = afterTake(req[t])])
    <3>1. GoesTo(t, afterTake(req[t]))
      BY <2>2, MovesOn DEF goto
    <3>2. PICK q : becomes(t, q) /\ q.pc = afterTake(req[t]) /\ q.kind = req[t].kind /\ q.brief = req[t].brief
      BY <3>1 DEF GoesTo
    <3> QED
      BY <1>11, <2>1, <2>2, <3>2
  <2>3. CASE becomes(t, [req[t] EXCEPT !.pc = "takeSave", !.source = source.version])
    <3>0. GoesTo(t, "takeSave")
      BY <2>3, MovesOn
    <3>1. PICK q : becomes(t, q) /\ q.pc = "takeSave" /\ q.kind = req[t].kind /\ q.brief = req[t].brief
      BY <3>0 DEF GoesTo
    <3>2. /\ Settling(q) = Settling(req[t]) /\ Publishing(q) = Publishing(req[t])
      BY <2>1, <3>1 DEF Settling, Publishing, After
    <3>3. Fits(brief, source, shown.all, req[t]) /\ ReqOK(req[t], texts)
      BY <1>2, <2>1
    <3>4. q.kind \in {"approve", "publish"}
      BY <2>1, <3>1, <3>3 DEF ReqOK, Comes
    <3>5. Fits(brief', source', shown'.all, q)
      BY <2>1, <3>1, <3>2, <3>3, <3>4 DEF Fits
    <3> QED
      BY <2>1, <3>1, <3>5, SummaryStep DEF at
  <2> QED
    BY <2>1, <2>2, <2>3
<1>13. ASSUME NEW t \in Requests, takeSave(t) PROVE SummaryInv'
  <2>1. /\ req[t].pc = "takeSave" /\ ~overlapped /\ ~broken /\ brief' = brief /\ shown' = shown
        /\ source' = taken(brings(req[t])) /\ becomes(t, [req[t] EXCEPT !.pc = afterTake(req[t])])
    BY <1>1, <1>13 DEF takeSave, at, fine, goto
  <2>2. GoesTo(t, afterTake(req[t]))
    BY <2>1, MovesOn DEF goto
  <2>3. PICK q : becomes(t, q) /\ q.pc = afterTake(req[t]) /\ q.kind = req[t].kind /\ q.brief = req[t].brief
    BY <2>2 DEF GoesTo
  <2> QED
    BY <1>11, <2>1, <2>3
<1>14. ASSUME NEW t \in Requests, saveProcessState(t) PROVE SummaryInv'
  <2>1. unchanged(req[t].brief)
    BY <1>1, <1>14, NotSaved
  <2>2. req[t].pc = "save" /\ source' = source
    BY <1>14 DEF saveProcessState, at
  <2>3. /\ brief'.text = changed(req[t]).text /\ brief'.pub = changed(req[t]).pub
        /\ brief'.owed = changed(req[t]).owed /\ overlapped' = overlapped /\ broken' = broken
        /\ shown' = IF brief'.pub = "pending" THEN shown
                    ELSE [first |-> IF req[t].kind = "approve" THEN {brief'.text} ELSE shown.first,
                          all |-> shown.all \cup {brief'.text}]
    BY <1>14, <2>1, Saved
  <2>4. Fits(brief, source, shown.all, req[t]) /\ ReqOK(req[t], texts) /\ texts \in Nat /\ req[t].brief = brief
    BY <1>2, <2>2, <2>3
  <2>5. shown'.all = IF brief'.pub = "pending" THEN shown.all ELSE shown.all \cup {brief'.text}
    BY <2>3
  <2>6. changed(req[t]) \in BriefRows
    BY <2>2, <2>4, ChangedOK DEF RowOK
  <2>7. PICK q : /\ becomes(t, q)
                 /\ \/ /\ req[t].kind = "approve" /\ brief'.owed # 0
                       /\ q = [req[t] EXCEPT !.pc = "take", !.brief = brief']
                    \/ ~(req[t].kind = "approve" /\ brief'.owed # 0) /\ q = Idle
    BY <1>14, <2>1, <2>6 DEF saveProcessState, BriefRows
  <2>8. \/ req[t].kind = "approve" /\ brief'.owed # 0 /\ q.pc = "take" /\ q.kind = "approve" /\ q.brief = brief'
        \/ ~(req[t].kind = "approve" /\ brief'.owed # 0) /\ q = Idle
    BY <2>7 DEF TypeInv, RequestRecords
  <2>9. Fits(brief', source, shown'.all, q)
    BY <2>2, <2>3, <2>4, <2>5, <2>8, FitsSaved
  <2> QED
    BY <2>2, <2>3, <2>7, <2>8, <2>9, SummaryStep DEF at
<1>15. ASSUME NEW t \in Requests, settle(t) PROVE SummaryInv'
  <2>1. /\ req[t].pc = "settle" /\ source' = source /\ shown' = shown /\ overlapped' = overlapped
        /\ brief' = [req[t].brief EXCEPT !.owed = 0, !.version = brief.version + 1]
        /\ becomes(t, Idle) /\ broken' = broken
    BY <1>1, <1>15 DEF settle, at, fine
  <2>2. Fits(brief, source, shown.all, req[t]) /\ ReqOK(req[t], texts) /\ req[t].brief = brief /\ brief \in BriefRows
    BY <1>2, <2>1
  <2>3. Settling(req[t]) /\ brief.pub = "published"
    BY <2>1, <2>2 DEF Settling, After, ReqOK, Comes
  <2>4. brief'.owed = 0 /\ brief'.text = brief.text /\ brief'.pub = brief.pub
    BY <2>1, <2>2 DEF BriefRows
  <2>5. Fits(brief', source', shown'.all, Idle)
    BY <1>0, <2>1, <2>2, <2>3, <2>4 DEF Fits
  <2> QED
    BY <2>1, <2>5, SummaryStep DEF at
<1>16. ASSUME UNCHANGED <<brief, req, shown, overlapped, broken>>,
              source'.status = source.status, source'.summary = source.summary, source'.kept = source.kept
       PROVE  SummaryInv'
  <2>1. \A q : Fits(brief, source, shown.all, q) => Fits(brief', source', shown'.all, q)
    BY <1>16 DEF Fits, Keeps
  <2> QED
    BY <1>16, <2>1 DEF SummaryInv, quiet, at
<1>17. CASE TouchSource \/ DayPasses \/ UNCHANGED vars
  <2>1. source'.status = source.status /\ source'.summary = source.summary /\ source'.kept = source.kept
    BY <1>17 DEF TouchSource, DayPasses, vars, TypeInv, SourceRows
  <2> QED
    BY <1>16, <1>17, <2>1 DEF TouchSource, DayPasses, vars
<1>18. ASSUME NEW t \in Requests, Stops(t) PROVE SummaryInv'
  BY <1>1, <1>18 DEF Stops
<1> QED
  BY <1>3, <1>5, <1>6, <1>7, <1>8, <1>9, <1>10, <1>12, <1>13, <1>14, <1>15, <1>17, <1>18 DEF Next, Step

LEMMA SummaryInit == Init => SummaryInv
<1> SUFFICES ASSUME Init PROVE SummaryInv
  OBVIOUS
<1>1. brief = createBriefState /\ source.summary = 1 /\ shown.all = {} /\ \A t \in Requests : req[t] = Idle
  BY DEF Init
<1>2. Fits(brief, source, shown.all, Idle)
  BY <1>1 DEF Fits, createBriefState, firstText, Idle
<1> QED
  BY <1>1, <1>2 DEF SummaryInv, at, Idle

\* The process and its published brief show one summary, the process is final and has
\* every summary it ever showed, for any number of requests one after another, none
\* of them cut off or refused: a revision brings its summary before the brief's own
\* write, an approval after it, and owes it until then.
THEOREM BriefAndSourceAgree == Spec => []OneSummary
<1>1. IInv /\ SummaryInv /\ [Next]_vars => SummaryInv'
  BY SummaryNext DEF IInv
<1>2. IInv /\ SummaryInv => OneSummary
  <2> SUFFICES ASSUME IInv, SummaryInv, quiet, ~overlapped, ~broken
               PROVE  /\ \A text \in shown.all : text.src \in {0, source.summary} \cup source.kept
                      /\ brief.pub = "published" => /\ brief.text.src \in {0, source.summary}
                                                    /\ brief.owed = 0 /\ source.status = "finalized"
    BY DEF OneSummary
  <2>1. Fits(brief, source, shown.all, Idle) /\ ~Settling(Idle) /\ ~Publishing(Idle)
    BY DEF SummaryInv, Settling, Publishing, Idle, After
  <2>2. brief.pub \in {"pending", "published"}
    BY DEF IInv, TypeInv, RowOK, BriefRows
  <2> QED
    BY <2>1, <2>2 DEF Fits, Keeps
<1> QED
  BY <1>1, <1>2, Inductive, SummaryInit, PTL DEF Spec

=============================================================================
