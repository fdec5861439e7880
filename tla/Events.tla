------------------------------- MODULE Events -------------------------------
(***************************************************************************)
(* One event (packages/civic.event) and its edits                          *)
(* (src/services/processEdits.ts): its row in `processes`, its row on the  *)
(* calendar, who is going, and the requests on them.                       *)
(*                                                                         *)
(* The calendar is written after the process's row, in a call of its own,  *)
(* and so are the mails to the people going.  An action that loses its     *)
(* race writes none of them.  An edit of the words alone is written        *)
(* whatever happened to the row since it was read.                         *)
(***************************************************************************)
EXTENDS Naturals, FiniteSets, Sequences

CONSTANTS
    People,         \* who may say they are going
    Requests,       \* requests that can be in flight
    Productions,    \* whether the hub runs in production: TRUE, FALSE or both
    Limits,         \* how many may go; 0 is no limit
    FirstLimit,     \* the limit it was submitted with
    Ends,           \* when an event may end
    FirstEnd,       \* the end it was submitted with
    MaxTime,        \* bound: the clock
    MaxTexts,       \* bound: texts written
    MaxRequests,    \* bound: requests made, and calls that fail
    MaxAttempts     \* MAX_ACTION_ATTEMPTS

ASSUME EventsAssumption ==
    /\ IsFiniteSet(People) /\ IsFiniteSet(Requests)
    /\ Productions \subseteq BOOLEAN /\ Limits \subseteq Nat /\ FirstLimit \in Limits
    /\ Ends \subseteq Nat /\ FirstEnd \in Ends /\ MaxTime \in Nat /\ MaxTexts \in Nat \ {0} /\ MaxRequests \in Nat
    /\ MaxAttempts \in Nat \ {0}

Lifecycle == INSTANCE VoteLifecycle

VARIABLES
    production, \* whether the hub runs in production
    row,        \* the event's row in `processes`
    cal,        \* its row in calendar_events
    going,      \* calendar_attendance
    claim,      \* close_claimed_until is in the future
    now,        \* the clock
    req,        \* the requests in flight, and the forms that are open
    log,        \* the events, counted by type
    told,       \* history: who was mailed the cancellation, which times were mailed, announcements mailed
    owed,       \* history: those who were going when the event was cancelled, and still are
    had,        \* history: the times and the limits the row has had, and the edits saved but for layout
    overlapped, \* history: which kinds of request were in flight together (conflicts)
    unlisted,   \* history: someone said they were going while the event was not on the calendar
    undeclared, \* history: an action wrote the row from a status its descriptor does not name
    broken,     \* history: a request ended half way
    requests

vars == <<production, row, cal, going, claim, now, req, log, told, owed, had, overlapped, unlisted,
          undeclared, broken, requests>>

-----------------------------------------------------------------------------
\* Words, and how they are laid out.
firstText == [words |-> 1, layout |-> 0]

\* initializeState, as submitted.
initialRow(status) ==
    [status |-> status, version |-> 1, text |-> firstText, when |-> FirstEnd, cap |-> FirstLimit,
     cancelled |-> FALSE, early |-> FALSE, prev |-> "none"]

NotListed == [listed |-> FALSE, archived |-> FALSE, text |-> firstText, when |-> FirstEnd, cap |-> 0, cancelled |-> FALSE]

\* Mutant: the calendar row is written whole, shown again.
upsert_whole(r) ==
    [listed |-> TRUE, archived |-> FALSE, text |-> r.text, when |-> r.when, cap |-> r.cap, cancelled |-> r.cancelled]

\* writeIndex: every column but `archived`, which a new row has as false.
upsert(r) ==
    [listed |-> TRUE, archived |-> cal.archived, text |-> r.text, when |-> r.when, cap |-> r.cap,
     cancelled |-> r.cancelled]

Idle == [todo |-> <<>>, kind |-> "going", caller |-> "system", who |-> {},
         copy |-> initialRow("active"), next |-> initialRow("active"), tries |-> 0]

\* An event waiting for its approval, or on the calendar.
Init ==
    /\ production \in Productions
    /\ \/ row = initialRow("pending_review") /\ cal = NotListed
       \/ row = initialRow("active") /\ cal = [NotListed EXCEPT !.listed = TRUE, !.cap = FirstLimit]
    /\ had = [times |-> {FirstEnd}, limits |-> {FirstLimit}, edits |-> 0]
    /\ going = {} /\ claim = FALSE /\ now = 0
    /\ req = [t \in Requests |-> Idle]
    /\ log = [going |-> 0, notGoing |-> 0, announced |-> 0, edits |-> 0]
    /\ told = [cancelled |-> {}, times |-> {}, announcements |-> 0]
    /\ owed = {} /\ overlapped = {}
    /\ unlisted = FALSE /\ undeclared = FALSE /\ broken = FALSE
    /\ requests = 0

idle(t) == req[t].todo = <<>>
at(t, step) == ~idle(t) /\ Head(req[t].todo) = step
becomes(t, q) == req' = [req EXCEPT ![t] = IF q.todo = <<>> THEN Idle ELSE q]
ends(t) == becomes(t, Idle)
proceeds(t) == becomes(t, [req[t] EXCEPT !.todo = Tail(@)])

\* The row is written: what was read is of no more use.
committed(t) == becomes(t, [Idle EXCEPT !.todo = Tail(req[t].todo), !.kind = req[t].kind, !.next = req[t].next])

fails == requests < MaxRequests /\ requests' = requests + 1 /\ broken' = TRUE

\* Past its end it reads as past (isPastDeadline).
readAsClosed(r) == r.status = "active" /\ now > r.when

-----------------------------------------------------------------------------
(***************************************************************************)
(* What each request does, one database call or mailing at a time.         *)
(***************************************************************************)
\* The descriptor: where an action may run from.
declaredFrom(kind) == IF kind = "publish" THEN {"pending_review"} ELSE {"active"}

\* Mutant: the people going are told before the cancellation is written.
cancelCalls_told_first == <<"tell", "write", "index">>

cancelCalls == <<"write", "index", "tell">>

\* handleAction's calls, the events and the row, then what waits for the commit.
calls(kind) ==
    CASE kind = "publish" -> <<"write", "index">>
      [] kind = "cancel" -> cancelCalls
      [] kind = "close" -> <<"write">>
      [] kind = "going" -> <<"add", "append">>
      [] kind = "not_going" -> <<"remove", "append">>
      [] kind = "announce" -> <<"append", "tell">>
      [] kind \in {"archive", "restore"} -> <<"write", "flag">>

stateChanged(q) == q.next.when # q.copy.when \/ q.next.cap # q.copy.cap

\* Only the layout changed.
formattingOnly(q) == ~stateChanged(q) /\ q.next.text.words = q.copy.text.words

\* Mutant: the calendar is written before the row.
editCalls_indexed_first(q) ==
    <<"index", "save">>
    \o (IF q.next.when # q.copy.when THEN <<"tell">> ELSE <<>>)
    \o (IF formattingOnly(q) THEN <<>> ELSE <<"record">>)

\* applyEdit and onEdited: people are told of a new time, and an edit of the
\* layout alone is not recorded.
editCalls(q) ==
    <<"save", "index">>
    \o (IF q.next.when # q.copy.when THEN <<"tell">> ELSE <<>>)
    \o (IF formattingOnly(q) THEN <<>> ELSE <<"record">>)

\* What two requests in flight together can disturb: the calendar row, and whether
\* it is shown.
conflicts(kinds) ==
    {c \in {"calendar", "shown"} :
        /\ kinds \cap {"going", "not_going", "announce"} = {}
        /\ c = "calendar" => "close" \notin kinds
        /\ c = "shown" => kinds \cap {"publish", "restore"} # {}}

\* The request meets those in flight; a form that is open is not.
meets(t, kind) ==
    overlapped' = overlapped \cup
        UNION {conflicts({kind, req[u].kind}) : u \in {v \in Requests \ {t} : ~idle(v) /\ ~at(v, "submit")}}

arrives(t, q) ==
    /\ idle(t)
    /\ requests < MaxRequests
    /\ requests' = requests + 1
    /\ becomes(t, q)
    /\ UNCHANGED <<production, row, cal, going, claim, now, log, told, owed, had, unlisted, undeclared, broken>>

\* actOnProcess: what is not public takes actions from admins only; who may
\* call what is the descriptor's.
actOnProcess(t, kind, caller, who) ==
    /\ kind = "close" => caller = "admin"
    /\ (kind \in {"going", "not_going"}) = (who # {})
    /\ Lifecycle!isPubliclyFetchable(row.status) \/ caller = "admin"
    /\ arrives(t, [Idle EXCEPT !.todo = <<"attempt">>, !.kind = kind, !.caller = caller, !.who = who])
    /\ meets(t, kind)

\* An approval, which holds the review's claim, publishes.
Approve(t) ==
    /\ row.status = "pending_review"
    /\ \A u \in Requests : idle(u) \/ req[u].kind # "publish"
    /\ arrives(t, [Idle EXCEPT !.todo = <<"attempt">>, !.kind = "publish"])
    /\ meets(t, "publish")

expired == readAsClosed(row)

\* The hourly job finds it past its end.
closeIfExpired(t) ==
    /\ expired
    /\ arrives(t, [Idle EXCEPT !.todo = <<"claim", "attempt">>, !.kind = "close", !.copy = row])
    /\ meets(t, "close")

archiveProcess(t) ==
    /\ row.status # "archived"
    /\ arrives(t, [Idle EXCEPT !.todo = calls("archive"), !.kind = "archive", !.caller = "admin", !.copy = row,
                               !.next = [row EXCEPT !.status = "archived", !.prev = row.status]])
    /\ meets(t, "archive")

restored(r) == [r EXCEPT !.status = r.prev, !.prev = "none"]

restoreProcess(t) ==
    /\ row.status = "archived"
    /\ arrives(t, [Idle EXCEPT !.todo = calls("restore"), !.kind = "restore", !.caller = "admin", !.copy = row,
                               !.next = restored(row)])
    /\ meets(t, "restore")

\* startEdit: the form opens with the event as it is.
startEdit(t) ==
    /\ row.status = "active"
    /\ arrives(t, [Idle EXCEPT !.todo = <<"submit">>, !.kind = "edit", !.copy = row])
    /\ UNCHANGED overlapped

-----------------------------------------------------------------------------
(***************************************************************************)
(* Actions (executeAction, attemptAction).                                 *)
(***************************************************************************)
rest == UNCHANGED <<production, now, requests, overlapped>>
histories == UNCHANGED <<told, owed, had, unlisted, undeclared>>

\* The claim moves the row's version.
claimClose(t) ==
    /\ at(t, "claim")
    /\ IF row.status = req[t].copy.status /\ ~claim
       THEN claim' = TRUE /\ row' = [row EXCEPT !.version = @ + 1] /\ proceeds(t)
       ELSE ends(t) /\ UNCHANGED <<claim, row>>
    /\ UNCHANGED <<cal, going, log, broken>> /\ histories /\ rest

\* The row as the handler leaves it; an admin's close before the end is stamped.
handled(q) ==
    CASE q.kind = "publish" -> [row EXCEPT !.status = "active"]
      [] q.kind = "cancel" -> [row EXCEPT !.status = "closed", !.cancelled = TRUE]
      [] q.kind = "close" ->
           [row EXCEPT !.status = "closed",
                       !.early = @ \/ (q.caller = "admin" /\ row.when > now /\ row.status # "closed")]
      [] OTHER -> row

\* Outside production an action its descriptor does not allow is refused.
allows(kind, status) == production \/ status \in declaredFrom(kind)

\* The row is read and the handler runs.  "Going" writes before the descriptor
\* is asked; no row changes, so what was read is not kept.  A close of what is
\* closed changes nothing and only appends.
attemptAction(t) ==
    /\ at(t, "attempt")
    /\ LET q == req[t]
           ok == allows(q.kind, row.status)
           next == handled(q)
           attendance == q.kind \in {"going", "not_going"} IN
       becomes(t, IF (q.caller = "resident" /\ readAsClosed(row)) \/ ~(ok \/ attendance) THEN Idle
                  ELSE IF attendance
                  THEN [Idle EXCEPT !.kind = q.kind, !.who = q.who,
                                    !.todo = IF ok THEN calls(q.kind) ELSE <<Head(calls(q.kind)), "refuse">>]
                  ELSE [q EXCEPT !.copy = row, !.next = next,
                                 !.todo = IF q.kind = "close" /\ next = row THEN <<"append">> ELSE calls(q.kind)])
    /\ UNCHANGED <<row, cal, going, claim, log, broken>> /\ histories /\ rest

\* transition_process writes at the version and the status that were read.
sameVersion(q) == row.version = q.copy.version /\ row.status = q.copy.status

retry_safe == {"publish", "cancel", "close"}

transitionProcess(t) ==
    /\ at(t, "write")
    /\ LET q == req[t] IN
       IF sameVersion(q)
       THEN /\ row' = [q.next EXCEPT !.version = row.version + 1]
            /\ committed(t)
            /\ owed' = IF q.kind = "cancel" THEN going ELSE owed
            /\ undeclared' = (undeclared \/ (q.kind \in retry_safe /\ q.copy.status \notin declaredFrom(q.kind)))
       ELSE /\ IF q.kind \in retry_safe /\ q.tries + 1 < MaxAttempts
               THEN becomes(t, [q EXCEPT !.todo = <<"attempt">>, !.tries = @ + 1])
               ELSE ends(t)
            /\ UNCHANGED <<row, owed, undeclared>>
    /\ UNCHANGED <<cal, going, claim, log, told, had, unlisted, broken>> /\ rest

\* Events of an action that left the row alone.
appendEvent(t) ==
    /\ at(t, "append")
    /\ log' = CASE req[t].kind = "going" -> [log EXCEPT !.going = @ + 1]
                [] req[t].kind = "not_going" -> [log EXCEPT !.notGoing = @ + 1]
                [] req[t].kind = "announce" -> [log EXCEPT !.announced = @ + 1]
                [] OTHER -> log
    /\ proceeds(t)
    /\ UNCHANGED <<row, cal, going, claim, broken>> /\ histories /\ rest

-----------------------------------------------------------------------------
(***************************************************************************)
(* Going, and no longer.                                                   *)
(***************************************************************************)
\* calendar_attendance_capacity: no calendar row, no limit.
full == cal.cap # 0 /\ Cardinality(going) >= cal.cap

\* Mutant: someone who is going already is recorded again.
already_unseen(t) == FALSE

\* The attendance's key.
already(t) == req[t].who \subseteq going

addGoing(t) ==
    /\ at(t, "add")
    /\ IF already(t) \/ full
       THEN ends(t) /\ UNCHANGED <<going, unlisted>>
       ELSE /\ going' = going \cup req[t].who
            /\ unlisted' = (unlisted \/ ~cal.listed)
            /\ proceeds(t)
    /\ UNCHANGED <<row, cal, claim, log, told, owed, had, undeclared, broken>> /\ rest

removeGoing(t) ==
    /\ at(t, "remove")
    /\ IF already(t)
       THEN going' = going \ req[t].who /\ owed' = owed \ req[t].who /\ proceeds(t)
       ELSE ends(t) /\ UNCHANGED <<going, owed>>
    /\ UNCHANGED <<row, cal, claim, log, told, had, unlisted, undeclared, broken>> /\ rest

\* The descriptor refuses what the handler has already done.
checkAgainstDescriptor(t) ==
    /\ at(t, "refuse")
    /\ broken' = TRUE
    /\ ends(t)
    /\ UNCHANGED <<row, cal, going, claim, log>> /\ histories /\ rest

-----------------------------------------------------------------------------
(***************************************************************************)
(* After the commit: the calendar, the mails, the archived flag.           *)
(***************************************************************************)
writeIndex(t) ==
    /\ at(t, "index")
    /\ cal' = upsert(req[t].next)
    /\ proceeds(t)
    /\ UNCHANGED <<row, going, claim, log, broken>> /\ histories /\ rest

\* A mailing that fails is logged and nothing more.
tellGoing(t) ==
    /\ at(t, "tell")
    /\ \/ /\ told' = CASE req[t].kind = "cancel" -> [told EXCEPT !.cancelled = @ \cup going]
                       [] req[t].kind = "edit" -> [told EXCEPT !.times = @ \cup {req[t].next.when}]
                       [] OTHER -> [told EXCEPT !.announcements = @ + 1]
          /\ UNCHANGED <<broken, requests>>
       \/ fails /\ UNCHANGED told
    /\ proceeds(t)
    /\ UNCHANGED <<production, row, cal, going, claim, now, log, owed, had, overlapped, unlisted, undeclared>>

\* onArchive, onRestore: an update of the calendar row, if there is one.
setArchived(t) ==
    /\ at(t, "flag")
    /\ cal' = [cal EXCEPT !.archived = cal.listed /\ req[t].kind = "archive"]
    /\ proceeds(t)
    /\ UNCHANGED <<row, going, claim, log, broken>> /\ histories /\ rest

-----------------------------------------------------------------------------
(***************************************************************************)
(* Edits.                                                                  *)
(***************************************************************************)
\* What an editor makes of the form: new words, another layout, another time,
\* another limit.
inputs(form) ==
    {[form EXCEPT !.text.words = n] : n \in {had.edits + 2} \cap 1..MaxTexts}
    \cup {[form EXCEPT !.text.layout = 1 - @]}
    \cup {[form EXCEPT !.when = w] : w \in Ends}
    \cup {[form EXCEPT !.cap = c] : c \in Limits}

\* The form's times must not be over (checkTimes); applyEdit reads the event,
\* asks its editPolicy, and compares every field of the form with it.
submitEdit(t) ==
    /\ at(t, "submit")
    /\ \E input \in inputs(req[t].copy) :
         LET next == [row EXCEPT !.text = input.text, !.when = input.when, !.cap = input.cap]
             q == [req[t] EXCEPT !.copy = row, !.next = next] IN
         IF input.when > now /\ row.status = "active" /\ next # row
         THEN becomes(t, [q EXCEPT !.todo = editCalls(q)]) /\ meets(t, "edit")
         ELSE ends(t) /\ UNCHANGED overlapped
    /\ UNCHANGED <<production, row, cal, going, claim, now, log, broken, requests>> /\ histories

\* Mutant: an edit of the time is written as one of the words is.
writable_always(q) == TRUE

\* updateProcessColumnsAtVersion when a state field changed, else updateProcessColumns.
writable(q) == stateChanged(q) => row.version = q.copy.version

\* The columns the edit writes.
columns(q) ==
    IF stateChanged(q) THEN [q.next EXCEPT !.status = row.status, !.version = row.version + 1]
    ELSE [row EXCEPT !.text = q.next.text, !.version = @ + 1]

applyEdit(t) ==
    /\ at(t, "save")
    /\ LET q == req[t] IN
       IF writable(q)
       THEN /\ row' = columns(q)
            /\ had' = [times |-> had.times \cup {q.next.when}, limits |-> had.limits \cup {q.next.cap},
                       edits |-> had.edits + (IF formattingOnly(q) THEN 0 ELSE 1)]
            /\ committed(t)
       ELSE ends(t) /\ UNCHANGED <<row, had>>
    /\ UNCHANGED <<cal, going, claim, log, told, owed, unlisted, undeclared, broken>> /\ rest

\* civic.process.updated.
recordEdit(t) ==
    /\ at(t, "record")
    /\ log' = [log EXCEPT !.edits = @ + 1]
    /\ proceeds(t)
    /\ UNCHANGED <<row, cal, going, claim, broken>> /\ histories /\ rest

-----------------------------------------------------------------------------
\* A call fails, or the invocation dies.
Stops(t) ==
    /\ ~idle(t)
    /\ fails
    /\ ends(t)
    /\ UNCHANGED <<production, row, cal, going, claim, now, log, overlapped>> /\ histories

Tick ==
    /\ now < MaxTime
    /\ now' = now + 1
    /\ UNCHANGED <<production, row, cal, going, claim, req, log, overlapped, broken, requests>> /\ histories

\* CLOSE_CLAIM_MS passes.
ClaimLapses ==
    /\ claim
    /\ claim' = FALSE
    /\ UNCHANGED <<production, row, cal, going, now, req, log, overlapped, broken, requests>> /\ histories

Ask(t) ==
    \/ \E caller \in {"resident", "admin"} :
         \/ \E kind \in {"going", "not_going"}, p \in People : actOnProcess(t, kind, caller, {p})
         \/ \E kind \in {"cancel", "announce", "close"} : actOnProcess(t, kind, caller, {})
    \/ Approve(t) \/ closeIfExpired(t) \/ archiveProcess(t) \/ restoreProcess(t) \/ startEdit(t)

Step(t) ==
    \/ claimClose(t) \/ attemptAction(t) \/ transitionProcess(t) \/ appendEvent(t)
    \/ addGoing(t) \/ removeGoing(t) \/ checkAgainstDescriptor(t) \/ writeIndex(t) \/ tellGoing(t) \/ setArchived(t)
    \/ submitEdit(t) \/ applyEdit(t) \/ recordEdit(t)

Next ==
    \/ \E t \in Requests : Ask(t) \/ Step(t) \/ Stops(t)
    \/ Tick
    \/ ClaimLapses

Spec == Init /\ [][Next]_vars

-----------------------------------------------------------------------------
(***************************************************************************)
(* What must hold.                                                         *)
(***************************************************************************)
Kinds == {"publish", "cancel", "close", "going", "not_going", "announce", "edit", "archive", "restore"}
Statuses == {"pending_review", "active", "closed", "archived"}

\* Type correctness; a row is archived exactly when it knows what it was, but
\* for one an undeclared action took out of the archive.
TypeOK ==
    /\ row.status \in Statuses /\ row.when \in Ends /\ row.cap \in Limits
    /\ row.status = "archived" => row.prev \in Statuses \ {"archived"}
    /\ row.prev # "none" => row.status = "archived" \/ undeclared
    /\ going \subseteq People /\ owed \subseteq going
    /\ \A t \in Requests : req[t].kind \in Kinds /\ req[t].who \subseteq People

quiet == \A t \in Requests : idle(t) \/ at(t, "submit")

\* "Two people never take the last place at once": no more are going than the
\* event ever allowed, whatever edits of the limit are under way, unless
\* someone came before it was on the calendar.
WithinLimit ==
    unlisted \/ 0 \in had.limits \/ \E limit \in had.limits : Cardinality(going) <= limit

\* "Put the event's row on the calendar as it now is": the calendar shows the
\* event as it is once requests are done, if none ended half way and no two
\* that write the calendar were in flight together.  What an admin took down
\* stays off it even with edits and cancellations in flight around the takedown.
CalendarMatches ==
    quiet /\ ~broken /\ ~undeclared =>
        /\ "calendar" \notin overlapped =>
              /\ cal.listed \/ "pending_review" \in {row.status, row.prev}
              /\ cal.listed => /\ <<cal.text, cal.when, cal.cap, cal.cancelled>>
                                  = <<row.text, row.when, row.cap, row.cancelled>>
                               /\ cal.archived = (row.status = "archived")
        /\ "shown" \notin overlapped /\ row.status = "archived" => ~cal.listed \/ cal.archived

\* A cancelled event stays cancelled and closed: no edit, close or restore
\* that read it earlier brings it back.
CancellationFinal == [][row.cancelled => row'.cancelled /\ (undeclared' \/ row'.status # "active")]_vars

\* "Its people going are told": everyone who was going when the event was
\* cancelled, and still is, has been told once requests are done, unless one
\* ended half way.  "A refused or retried action tells nobody": a cancellation
\* or a new time that was mailed was written, and an announcement that was
\* mailed is on record.
ToldWhatHappened ==
    /\ quiet /\ ~broken => owed \subseteq told.cancelled
    /\ told.cancelled # {} => row.cancelled
    /\ told.times \subseteq had.times
    /\ told.announcements <= log.announced

\* The log has one Join more than Leaves for each one going, and one entry for
\* each edit but those of the layout, unless a request ended half way.
OnRecord ==
    quiet /\ ~broken => /\ log.going = log.notGoing + Cardinality(going)
                        /\ log.edits = had.edits

-----------------------------------------------------------------------------
(***************************************************************************)
(* What the code's text says and the code does not do.                     *)
(***************************************************************************)
\* handler.ts:102: "Put the event's row on the calendar as it now is".
CalendarAsItIs == quiet /\ ~broken /\ ~undeclared /\ cal.listed => cal.cancelled = row.cancelled

\* handler.ts:255: "Only an upcoming event can be edited."
OnlyUpcomingEdited == [][row'.text # row.text => row.status = "active"]_vars

\* processEdits.ts:280: "This changed while you were editing it.  Open it again
\* and make your edit.": an editor who changed the words or the layout leaves
\* the time alone.
OthersEditsKept ==
    [][\A t \in Requests : at(t, "submit") /\ ~idle(t)' /\ ~at(t, "submit")'
          /\ req'[t].next.text # req[t].copy.text /\ row.when # req[t].copy.when
          => req'[t].next.when # req[t].copy.when]_vars

\* manifest.ts:64: "Cancel an upcoming event".
CancelsUpcoming == [][~row.cancelled /\ row'.cancelled => row.status = "active"]_vars

\* manifest.ts:110: "Mark the event past at its end time".
ClosedAtItsEnd == row.status = "closed" => row.cancelled \/ row.early \/ row.when <= now

=============================================================================
