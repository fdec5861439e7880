------------------------------- MODULE Digest -------------------------------
(***************************************************************************)
(* The resident digest (src/jobs/digest.ts).                               *)
(*                                                                         *)
(* Events are appended to the log; once a day, and whenever an operator    *)
(* asks, a run reads the subscribers, the events and the hidden processes, *)
(* then mails each subscriber the events since that person's cursor, and   *)
(* moves the cursor.  Nothing keeps two runs apart.  Restricted and sample *)
(* events, which a run leaves out as it reads, are not in the log here.    *)
(*                                                                         *)
(* Time passes in ticks, Day of them a day.  A run is over within a tick   *)
(* (an invocation lasts minutes).  Within a tick the order of the log and  *)
(* of the cursors is that of recorded_at and last_digest_sent_at.          *)
(***************************************************************************)
EXTENDS Naturals, Sequences, FiniteSets

CONSTANTS
    Users,          \* residents with a mailbox
    Procs,          \* processes
    Cron,           \* the scheduler's run
    ByHand,         \* runs an operator can have under way
    Freq,           \* digest_frequency_days of each user
    Day,            \* ticks in a day
    Slack,          \* CADENCE_SLACK_MS, in ticks
    Window,         \* THIRTY_DAYS_MS, in ticks
    MaxEvents,      \* bound: events recorded
    MaxChanges,     \* bound: processes hidden and shown, subscriptions changed
    MaxForced,      \* bound: runs an operator starts
    MaxFaults       \* bound: runs missed or cut off, calls that fail

ASSUME DigestAssumption ==
    /\ Freq \in [Users -> Nat \ {0}]
    /\ Day \in Nat /\ Slack \in Nat /\ Slack < Day
    /\ Window \in Nat /\ \A u \in Users : Freq[u] * Day <= Window
    /\ MaxEvents \in Nat /\ MaxChanges \in Nat /\ MaxForced \in Nat /\ MaxFaults \in Nat

VARIABLES
    hour,       \* ticks since the day's send hour
    served,     \* the send hour's run was made
    log,        \* the events: their process and age; who was being mailed without it, who subscribed
    status,     \* each process: none yet, hidden or public
    sub,        \* the users subscribed
    cursor,     \* last_digest_sent_at: how many events were recorded by then
    age,        \* ticks since it; Never: long ago, or never set
    job,        \* the runs under way
    inbox,      \* history: how often each user was mailed each event
    shown,      \* history: the processes that ever were public
    veiled,     \* history: the events whose process was hidden once they were recorded
    unsure,     \* history: users mailed by a run that could not move their cursor
    overlapped, \* history: two runs were under way at once
    blind,      \* history: a lookup of the hidden processes failed
    changes, forced, faults

history == <<inbox, shown, veiled, unsure, overlapped, blind>>
counters == <<changes, forced, faults>>
vars == <<hour, served, log, status, sub, cursor, age, job, history, counters>>

Runs == {Cron} \cup ByHand
Events == 1..MaxEvents
Never == Window + 1

IdleRun == [pc |-> "idle", users |-> [u \in {} |-> 0], upto |-> 0, gone |-> {}, todo |-> {}, to |-> {}]

Init ==
    /\ hour = 0 /\ served = FALSE
    /\ log = <<>>
    /\ status = [p \in Procs |-> "none"]
    /\ sub \in SUBSET Users
    /\ cursor = [u \in Users |-> 0] /\ age = [u \in Users |-> Never]
    /\ job = [r \in Runs |-> IdleRun]
    /\ inbox = [u \in Users |-> [i \in Events |-> 0]]
    /\ shown = {} /\ veiled = {} /\ unsure = {} /\ overlapped = FALSE /\ blind = FALSE
    /\ changes = 0 /\ forced = 0 /\ faults = 0

in(r, pc) == job[r].pc = pc
underWay == {r \in Runs : ~in(r, "idle")}

fault == faults < MaxFaults /\ faults' = faults + 1 /\ UNCHANGED <<changes, forced>>

-----------------------------------------------------------------------------
(***************************************************************************)
(* Time, events and settings.                                              *)
(***************************************************************************)
older(a) == IF a < Never THEN a + 1 ELSE a

\* The hourly call comes in the send hour, or is missed.
Tick ==
    /\ underWay = {}
    /\ IF hour = 0 /\ ~served THEN fault ELSE UNCHANGED counters
    /\ hour' = (hour + 1) % Day
    /\ served' = FALSE
    /\ age' = [u \in Users |-> older(age[u])]
    /\ log' = [i \in DOMAIN log |-> [log[i] EXCEPT !.age = older(@)]]
    /\ UNCHANGED <<status, sub, cursor, job, history>>

\* A run that has read the log has these users still to mail or to mark.
beingMailed ==
    {u \in Users : \E r \in Runs :
        job[r].pc \in {"hidden", "users", "mark"} /\ u \in job[r].todo \cup job[r].to}

\* emitEvent: the database stamps recorded_at.
Record(p) ==
    /\ Len(log) < MaxEvents
    /\ status[p] # "none"
    /\ log' = Append(log, [proc |-> p, age |-> 0, mid |-> beingMailed, subs |-> sub])
    /\ veiled' = IF status[p] = "hidden" THEN veiled \cup {Len(log')} ELSE veiled
    /\ UNCHANGED <<hour, served, status, sub, cursor, age, job, inbox, shown, unsure, overlapped, blind, counters>>

\* A process is created (for review, or public), approved, restored or archived,
\* or its type's plugin is switched off or on.
SetStatus(p, s) ==
    /\ s # status[p]
    /\ changes < MaxChanges
    /\ changes' = changes + 1
    /\ status' = [status EXCEPT ![p] = s]
    /\ shown' = IF s = "public" THEN shown \cup {p} ELSE shown
    /\ veiled' = IF s = "hidden" THEN veiled \cup {i \in DOMAIN log : log[i].proc = p} ELSE veiled
    /\ UNCHANGED <<hour, served, log, sub, cursor, age, job, inbox, unsure, overlapped, blind, forced, faults>>

\* setDigestFrequency: on, or off (the settings, or the link in the mail).
Subscribe(u) ==
    /\ changes < MaxChanges
    /\ changes' = changes + 1
    /\ sub' = IF u \in sub THEN sub \ {u} ELSE sub \cup {u}
    /\ UNCHANGED <<hour, served, log, status, cursor, age, job, history, forced, faults>>

-----------------------------------------------------------------------------
(***************************************************************************)
(* A run.                                                                  *)
(***************************************************************************)
becomes(r, q) == job' = [job EXCEPT ![r] = q]

\* listSubscribedUsers: their cursors as they are now.
start(r) ==
    /\ in(r, "idle")
    /\ becomes(r, [IdleRun EXCEPT !.pc = "events", !.todo = sub,
                      !.users = [u \in sub |-> [cursor |-> cursor[u], age |-> age[u]]]])
    /\ overlapped' = (overlapped \/ underWay # {})
    /\ UNCHANGED <<hour, log, status, sub, cursor, age, inbox, shown, veiled, unsure, blind, changes, faults>>

Scheduled ==
    /\ hour = 0 /\ ~served
    /\ served' = TRUE
    /\ start(Cron)
    /\ UNCHANGED forced

Forced(r) ==
    /\ forced < MaxForced
    /\ forced' = forced + 1
    /\ start(r)
    /\ UNCHANGED served

getEventsSince(r) ==
    /\ in(r, "events")
    /\ becomes(r, [job[r] EXCEPT !.pc = "hidden", !.upto = Len(log)])
    /\ UNCHANGED <<hour, served, log, status, sub, cursor, age, history, counters>>

\* A failure is logged and the run goes on as if nothing were hidden.
getHiddenProcessIds(r) ==
    /\ in(r, "hidden")
    /\ \/ /\ becomes(r, [job[r] EXCEPT !.pc = "users", !.gone = {p \in Procs : status[p] = "hidden"}])
          /\ UNCHANGED <<blind, counters>>
       \/ /\ fault
          /\ becomes(r, [job[r] EXCEPT !.pc = "users"])
          /\ blind' = TRUE
    /\ UNCHANGED <<hour, served, log, status, sub, cursor, age, inbox, shown, veiled, unsure, overlapped>>

\* Mutant: only the day the frequency names counts, not a later one.
isDue_exact(q, u) == q.users[u].age = Freq[u] * Day - Slack

isDue(q, u) == q.users[u].age >= Freq[u] * Day - Slack

\* Mutant: what is recorded by the time of the mail.
windowEvents_latest(q, u) ==
    {i \in DOMAIN log : i > q.users[u].cursor /\ log[i].age <= Window /\ log[i].proc \notin q.gone}

\* recordedAfter(allRecent, clampSince(user)), less the hidden processes.
windowEvents(q, u) ==
    {i \in DOMAIN log :
        /\ i > q.users[u].cursor /\ i <= q.upto
        /\ log[i].age <= Window
        /\ log[i].proc \notin q.gone}

\* Not due, or nothing to tell: no mail, and the cursor stays.
SkipUser(r, u) ==
    /\ in(r, "users") /\ u \in job[r].todo
    /\ ~isDue(job[r], u) \/ windowEvents(job[r], u) = {}
    /\ becomes(r, [job[r] EXCEPT !.todo = @ \ {u}])
    /\ UNCHANGED <<hour, served, log, status, sub, cursor, age, history, counters>>

SendEmail(r, u) ==
    /\ in(r, "users") /\ u \in job[r].todo
    /\ LET due == windowEvents(job[r], u) IN
       /\ isDue(job[r], u) /\ due # {}
       /\ becomes(r, [job[r] EXCEPT !.pc = "mark", !.todo = @ \ {u}, !.to = {u}])
       /\ inbox' = [inbox EXCEPT ![u] = [i \in Events |-> IF i \in due THEN @[i] + 1 ELSE @[i]]]
    /\ UNCHANGED <<hour, served, log, status, sub, cursor, age, shown, veiled, unsure, overlapped, blind, counters>>

\* Mutant: the cursor moves although nothing was delivered.
NotSent_marked(r, u) ==
    /\ in(r, "users") /\ u \in job[r].todo
    /\ isDue(job[r], u) /\ windowEvents(job[r], u) # {}
    /\ fault
    /\ becomes(r, [job[r] EXCEPT !.todo = @ \ {u}])
    /\ cursor' = [cursor EXCEPT ![u] = Len(log)]
    /\ UNCHANGED <<hour, served, log, status, sub, age, history>>

\* Not delivered, or held back by the hub's mode.
NotSent(r, u) ==
    /\ in(r, "users") /\ u \in job[r].todo
    /\ isDue(job[r], u) /\ windowEvents(job[r], u) # {}
    /\ fault
    /\ becomes(r, [job[r] EXCEPT !.todo = @ \ {u}])
    /\ UNCHANGED <<hour, served, log, status, sub, cursor, age, history>>

\* The cursor moves to now, not to what the run read.
marked(q) == Len(log)

\* Mutant: the cursor is left.
cursorOf_kept(q, u) == cursor[u]

cursorOf(q, u) == IF u \in q.to THEN marked(q) ELSE cursor[u]

markDigestSent(r) ==
    /\ in(r, "mark")
    /\ LET q == job[r] IN
       /\ becomes(r, [q EXCEPT !.pc = "users", !.to = {}])
       /\ cursor' = [u \in Users |-> cursorOf(q, u)]
       /\ age' = [u \in Users |-> IF u \in q.to THEN 0 ELSE age[u]]
    /\ UNCHANGED <<hour, served, log, status, sub, history, counters>>

MarkFails(r) ==
    /\ in(r, "mark")
    /\ fault
    /\ becomes(r, [job[r] EXCEPT !.pc = "users", !.to = {}])
    /\ unsure' = unsure \cup job[r].to
    /\ UNCHANGED <<hour, served, log, status, sub, cursor, age, inbox, shown, veiled, overlapped, blind>>

RunEnds(r) ==
    /\ in(r, "users") /\ job[r].todo = {}
    /\ becomes(r, IdleRun)
    /\ UNCHANGED <<hour, served, log, status, sub, cursor, age, history, counters>>

\* A read throws, or the invocation dies.
RunDies(r) ==
    /\ ~in(r, "idle")
    /\ fault
    /\ becomes(r, IdleRun)
    /\ unsure' = unsure \cup job[r].to
    /\ UNCHANGED <<hour, served, log, status, sub, cursor, age, inbox, shown, veiled, overlapped, blind>>

RunStep(r) ==
    \/ getEventsSince(r) \/ getHiddenProcessIds(r) \/ markDigestSent(r) \/ RunEnds(r)
    \/ \E u \in Users : SkipUser(r, u) \/ SendEmail(r, u)

Next ==
    \/ Tick
    \/ \E p \in Procs : Record(p) \/ \E s \in {"hidden", "public"} : SetStatus(p, s)
    \/ \E u \in Users : Subscribe(u)
    \/ Scheduled
    \/ \E r \in ByHand : Forced(r)
    \/ \E r \in Runs :
         \/ RunStep(r) \/ MarkFails(r) \/ RunDies(r)
         \/ \E u \in Users : NotSent(r, u)

\* Time passes, the scheduler calls in the send hour, and a run goes on.
Spec ==
    /\ Init /\ [][Next]_vars
    /\ WF_vars(Tick)
    /\ WF_vars(Scheduled)
    /\ \A r \in Runs : WF_vars(RunStep(r))

-----------------------------------------------------------------------------
(***************************************************************************)
(* What must hold.                                                         *)
(***************************************************************************)
Snapshots == [cursor : 0..MaxEvents, age : 0..Never]

\* Type correctness; a cursor never runs ahead of the log.
TypeOK ==
    /\ hour \in 0..Day - 1 /\ served \in BOOLEAN
    /\ log \in Seq([proc : Procs, age : 0..Never, mid : SUBSET Users, subs : SUBSET Users])
    /\ status \in [Procs -> {"none", "hidden", "public"}] /\ sub \subseteq Users
    /\ cursor \in [Users -> 0..Len(log)] /\ age \in [Users -> 0..Never]
    /\ \A r \in Runs :
          /\ job[r].pc \in {"idle", "events", "hidden", "users", "mark"}
          /\ \A u \in DOMAIN job[r].users : job[r].users[u] \in Snapshots
          /\ job[r].upto \in 0..Len(log) /\ job[r].todo \subseteq DOMAIN job[r].users
    /\ inbox \in [Users -> [Events -> Nat]]

\* No one is told of an event twice ("stops a second run inside the same day
\* from mailing anyone twice"), through missed and failed runs, unless two
\* runs are under way at once or a cursor cannot be moved after a mail.
MailedOnce ==
    overlapped \/ \A u \in Users \ unsure : \A i \in Events : inbox[u][i] <= 1

\* The cursor never passes an event that its user was not mailed, unless the
\* event was recorded when a run had read the log and not yet marked that user,
\* is past the window, or its process was hidden since.
NoneSkipped ==
    \A u \in Users : \A i \in 1..cursor[u] :
        inbox[u][i] > 0 \/ u \in log[i].mid \/ log[i].age > Window \/ i \in veiled

\* What eventStore.ts says of selecting by arrival, that it cannot let an event
\* "fall outside every digest window": once the cursor has passed an event, it
\* was mailed, is past the window, or its process was hidden since.
ArrivalNeverMissed ==
    \A u \in Users : \A i \in 1..cursor[u] :
        inbox[u][i] > 0 \/ log[i].age > Window \/ i \in veiled

\* What is in review is nobody's mail: an event of a process that was never
\* public is not mailed, although processes are created and events recorded
\* while a run reads (unless the lookup of what is hidden failed).
UnshownNotMailed ==
    blind \/ \A u \in Users : \A i \in DOMAIN log : inbox[u][i] > 0 => log[i].proc \in shown

owed(u, i) == i <= Len(log) /\ u \in log[i].subs \ log[i].mid

\* An event of a public process is mailed to every subscriber in the end,
\* whatever runs are missed or fail (fewer than the window is days longer than
\* the frequency).
Mailed ==
    \A u \in Users, i \in Events :
        [](owed(u, i) => <>(inbox[u][i] > 0 \/ u \notin sub \/ i \in veiled))

=============================================================================
