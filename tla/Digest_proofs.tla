---------------------------- MODULE Digest_proofs ----------------------------
(***************************************************************************)
(* Proofs about Digest: for any residents, processes, frequencies, window  *)
(* and numbers of runs, however they overlap, are cut off or fail.         *)
(***************************************************************************)
EXTENDS Digest, SequenceTheorems, TLAPS

LogRec == [proc : Procs, age : 0..Never, mid : SUBSET Users, subs : SUBSET Users]

UserMaps == UNION {[D -> Snapshots] : D \in SUBSET Users}

RunRecs ==
    [pc : {"idle", "events", "hidden", "users", "mark"}, users : UserMaps, upto : Nat,
     gone : SUBSET Procs, todo : SUBSET Users, to : SUBSET Users]

\* The types, and a run holds no one it mailed but between a mail and its mark,
\* and goes to no one twice.
TypeInv ==
    /\ TypeOK
    /\ job \in [Runs -> RunRecs] /\ Len(log) <= MaxEvents
    /\ \A r \in Runs : /\ job[r].to # {} => in(r, "mark")
                       /\ job[r].to \cap job[r].todo = {}
                       /\ in(r, "idle") => job[r].todo = {}

\* A run has the cursors of those it has not come to as they are, while runs do not
\* overlap; and what a user was mailed is behind the cursor, or the cursor is about
\* to be moved.
MailInv ==
    ~overlapped =>
        /\ \A r, s \in underWay : r = s
        /\ \A r \in Runs : \A u \in job[r].todo : job[r].users[u].cursor = cursor[u]
        /\ \A u \in Users \ unsure : \A i \in Events :
              /\ inbox[u][i] <= 1
              /\ inbox[u][i] > 0 => i <= cursor[u] \/ \E r \in Runs : u \in job[r].to

\* Only what is in the log is mailed.
InboxInv == \A u \in Users : \A i \in Events : inbox[u][i] > 0 => i <= Len(log)

\* The user was mailed the event, or need not be.
covered(u, i) == inbox[u][i] > 0 \/ u \in log[i].mid \/ log[i].age > Window \/ i \in veiled

HiddenInv == \A i \in DOMAIN log : status[log[i].proc] = "hidden" => i \in veiled

\* A run's own cursors are behind what it will move them to: what it did not read was
\* recorded while it had its users to mail or to mark, and what it left out was hidden.
RunSkip(r) ==
    /\ \A u \in DOMAIN job[r].users : \A i \in 1..job[r].users[u].cursor :
          i \in DOMAIN log /\ covered(u, i)
    /\ job[r].pc \in {"hidden", "users", "mark"} =>
          \A i \in DOMAIN log : i > job[r].upto => job[r].todo \cup job[r].to \subseteq log[i].mid
    /\ job[r].pc \in {"events", "hidden"} => job[r].gone = {}
    /\ job[r].pc \in {"users", "mark"} =>
          \A i \in DOMAIN log : i <= job[r].upto /\ log[i].proc \in job[r].gone => i \in veiled
    /\ \A u \in job[r].to : \A i \in DOMAIN log : covered(u, i)

CursorSkip == \A u \in Users : \A i \in 1..cursor[u] : covered(u, i)

SkipInv == CursorSkip /\ \A r \in Runs : RunSkip(r)

\* A process with events is hidden or was public; a run that knows what is hidden has
\* left out what never was public.
ShownInv ==
    /\ \A p \in Procs : status[p] = "public" => p \in shown
    /\ \A i \in DOMAIN log : status[log[i].proc] # "none"
    /\ ~blind => \A r \in Runs : job[r].pc \in {"users", "mark"} =>
          \A i \in DOMAIN log : i <= job[r].upto => log[i].proc \in job[r].gone \cup shown
    /\ UnshownNotMailed

-----------------------------------------------------------------------------
(***************************************************************************)
(* The shape of the state, and what the actions do to it.                  *)
(***************************************************************************)
LEMMA NeverIs == Never \in Nat /\ Never > Window /\ Window \in Nat
BY DigestAssumption DEF Never

\* The events.
LEMMA LogIs ==
    ASSUME TypeInv
    PROVE  /\ log \in Seq(LogRec) /\ Len(log) \in Nat /\ DOMAIN log = 1..Len(log)
           /\ \A i \in DOMAIN log :
                 log[i] \in LogRec /\ log[i].proc \in Procs /\ log[i].age \in 0..Never
<1>1. log \in Seq(LogRec)
  BY DEF TypeInv, TypeOK, LogRec
<1>2. Len(log) \in Nat /\ DOMAIN log = 1..Len(log) /\ \A i \in 1..Len(log) : log[i] \in LogRec
  BY <1>1, LenProperties, ElementOfSeq
<1>3. \A i \in DOMAIN log : log[i].proc \in Procs /\ log[i].age \in 0..Never
  BY <1>2 DEF LogRec
<1> QED
  BY <1>1, <1>2, <1>3

LEMMA IdleRunIs ==
    /\ IdleRun \in RunRecs /\ IdleRun.pc = "idle" /\ DOMAIN IdleRun.users = {}
    /\ IdleRun.upto = 0 /\ IdleRun.gone = {} /\ IdleRun.todo = {} /\ IdleRun.to = {}
<1> DEFINE none == [u \in {} |-> 0]
<1>1. none \in [{} -> Snapshots] /\ DOMAIN none = {}
  OBVIOUS
<1>2. none \in UserMaps
  BY <1>1 DEF UserMaps
<1> HIDE DEF none
<1>3. IdleRun = [pc |-> "idle", users |-> none, upto |-> 0, gone |-> {}, todo |-> {}, to |-> {}]
  BY DEF IdleRun, none
<1> QED
  BY <1>1, <1>2, <1>3 DEF RunRecs

\* One run's record is replaced.
LEMMA JobIs ==
    ASSUME TypeInv, NEW r \in Runs, NEW q \in RunRecs, becomes(r, q)
    PROVE  job' \in [Runs -> RunRecs] /\ job'[r] = q /\ \A s \in Runs \ {r} : job'[s] = job[s]
BY DEF TypeInv, becomes

LEMMA RunIs ==
    ASSUME TypeInv, NEW r \in Runs
    PROVE  /\ job[r] \in RunRecs /\ job[r].users \in UserMaps /\ job[r].upto \in Nat
           /\ job[r].upto \in 0..Len(log)
           /\ job[r].gone \subseteq Procs /\ job[r].todo \subseteq Users /\ job[r].to \subseteq Users
           /\ job[r].todo \subseteq DOMAIN job[r].users /\ DOMAIN job[r].users \subseteq Users
           /\ \A u \in DOMAIN job[r].users :
                 job[r].users[u] \in Snapshots /\ job[r].users[u].cursor \in Nat
<1>1. job[r] \in RunRecs
  BY DEF TypeInv
<1>2. job[r].upto \in 0..Len(log) /\ job[r].todo \subseteq DOMAIN job[r].users
  BY DEF TypeInv, TypeOK
<1>3. \A u \in DOMAIN job[r].users : job[r].users[u] \in Snapshots
  BY DEF TypeInv, TypeOK
<1>4. /\ job[r].users \in UserMaps /\ job[r].upto \in Nat /\ job[r].gone \subseteq Procs
      /\ job[r].todo \subseteq Users /\ job[r].to \subseteq Users
  BY <1>1 DEF RunRecs
<1>5. DOMAIN job[r].users \subseteq Users
  <2>1. PICK D \in SUBSET Users : job[r].users \in [D -> Snapshots]
    BY <1>4 DEF UserMaps
  <2> QED
    BY <2>1
<1>6. \A u \in DOMAIN job[r].users : job[r].users[u].cursor \in Nat
  BY <1>3, DigestAssumption DEF Snapshots
<1> QED
  BY <1>1, <1>2, <1>3, <1>4, <1>5, <1>6

\* What a step does to the runs: nothing, or something to one of them.
Others(r) == job' \in [Runs -> RunRecs] /\ \A s \in Runs \ {r} : job'[s] = job[s]

LEMMA StartIs ==
    ASSUME TypeInv, NEW r \in Runs, start(r)
    PROVE  /\ in(r, "idle") /\ Others(r)
           /\ job'[r].pc = "events" /\ job'[r].todo = sub /\ DOMAIN job'[r].users = sub
           /\ \A u \in sub : job'[r].users[u].cursor = cursor[u] /\ job'[r].users[u] \in Snapshots
           /\ job'[r].upto = 0 /\ job'[r].gone = {} /\ job'[r].to = {}
           /\ overlapped' = (overlapped \/ underWay # {})
           /\ UNCHANGED <<hour, log, status, sub, cursor, age, inbox, shown, veiled, unsure, blind, changes, faults>>
<1> DEFINE users == [u \in sub |-> [cursor |-> cursor[u], age |-> age[u]]]
           q == [IdleRun EXCEPT !.pc = "events", !.todo = sub, !.users = users]
<1>1. /\ in(r, "idle") /\ becomes(r, q) /\ overlapped' = (overlapped \/ underWay # {})
      /\ UNCHANGED <<hour, log, status, sub, cursor, age, inbox, shown, veiled, unsure, blind, changes, faults>>
  BY DEF start
<1>2. /\ sub \subseteq Users /\ cursor \in [Users -> 0..Len(log)] /\ age \in [Users -> 0..Never]
      /\ Len(log) <= MaxEvents /\ Len(log) \in Nat /\ MaxEvents \in Nat
  BY LogIs, DigestAssumption DEF TypeInv, TypeOK
<1>3. /\ DOMAIN users = sub
      /\ \A u \in sub : users[u] = [cursor |-> cursor[u], age |-> age[u]] /\ users[u].cursor = cursor[u]
  OBVIOUS
<1>4. \A u \in sub : users[u] \in Snapshots
  <2> SUFFICES ASSUME NEW u \in sub PROVE users[u] \in Snapshots
    OBVIOUS
  <2>1. cursor[u] \in 0..MaxEvents /\ age[u] \in 0..Never
    BY <1>2
  <2> QED
    BY <1>3, <2>1 DEF Snapshots
<1>5. users \in [sub -> Snapshots]
  BY <1>4
<1> HIDE DEF users
<1>6. users \in UserMaps
  BY <1>2, <1>5 DEF UserMaps
<1>7. /\ q \in RunRecs /\ q.pc = "events" /\ q.users = users /\ q.upto = 0 /\ q.gone = {}
      /\ q.todo = sub /\ q.to = {}
  BY <1>2, <1>6, IdleRunIs DEF RunRecs
<1> HIDE DEF q
<1>8. job' \in [Runs -> RunRecs] /\ job'[r] = q /\ \A s \in Runs \ {r} : job'[s] = job[s]
  BY <1>1, <1>7, JobIs
<1> QED
  BY <1>1, <1>3, <1>4, <1>7, <1>8 DEF Others

LEMMA GetEventsIs ==
    ASSUME TypeInv, NEW r \in Runs, getEventsSince(r)
    PROVE  /\ in(r, "events") /\ Others(r)
           /\ job'[r].pc = "hidden" /\ job'[r].upto = Len(log)
           /\ job'[r].users = job[r].users /\ job'[r].todo = job[r].todo /\ job'[r].to = job[r].to
           /\ UNCHANGED <<hour, served, log, status, sub, cursor, age, history, counters>>
<1> DEFINE q == [job[r] EXCEPT !.pc = "hidden", !.upto = Len(log)]
<1>1. /\ in(r, "events") /\ becomes(r, q)
      /\ UNCHANGED <<hour, served, log, status, sub, cursor, age, history, counters>>
  BY DEF getEventsSince
<1>2. /\ q \in RunRecs /\ q.pc = "hidden" /\ q.upto = Len(log) /\ q.users = job[r].users
      /\ q.todo = job[r].todo /\ q.to = job[r].to
  BY RunIs, LogIs DEF RunRecs
<1> HIDE DEF q
<1> QED
  BY <1>1, <1>2, JobIs DEF Others

LEMMA GetHiddenIs ==
    ASSUME TypeInv, NEW r \in Runs, getHiddenProcessIds(r)
    PROVE  /\ in(r, "hidden") /\ Others(r)
           /\ job'[r].pc = "users" /\ job'[r].upto = job[r].upto
           /\ job'[r].users = job[r].users /\ job'[r].todo = job[r].todo /\ job'[r].to = job[r].to
           /\ \/ job'[r].gone = {p \in Procs : status[p] = "hidden"} /\ blind' = blind
              \/ job'[r].gone = job[r].gone /\ blind' = TRUE
           /\ UNCHANGED <<hour, served, log, status, sub, cursor, age, inbox, shown, veiled, unsure, overlapped>>
<1> DEFINE q == [job[r] EXCEPT !.pc = "users", !.gone = {p \in Procs : status[p] = "hidden"}]
           f == [job[r] EXCEPT !.pc = "users"]
<1>1. /\ in(r, "hidden")
      /\ \/ becomes(r, q) /\ UNCHANGED <<blind, counters>>
         \/ fault /\ becomes(r, f) /\ blind' = TRUE
      /\ UNCHANGED <<hour, served, log, status, sub, cursor, age, inbox, shown, veiled, unsure, overlapped>>
  BY DEF getHiddenProcessIds
<1>2. /\ q \in RunRecs /\ q.pc = "users" /\ q.upto = job[r].upto /\ q.users = job[r].users
      /\ q.todo = job[r].todo /\ q.to = job[r].to /\ q.gone = {p \in Procs : status[p] = "hidden"}
  BY RunIs DEF RunRecs
<1>3. /\ f \in RunRecs /\ f.pc = "users" /\ f.upto = job[r].upto /\ f.users = job[r].users
      /\ f.todo = job[r].todo /\ f.to = job[r].to /\ f.gone = job[r].gone
  BY RunIs DEF RunRecs
<1> HIDE DEF q, f
<1>4. CASE becomes(r, q) /\ blind' = blind
  BY <1>1, <1>2, <1>4, JobIs DEF Others
<1>5. CASE becomes(r, f) /\ blind' = TRUE
  BY <1>1, <1>3, <1>5, JobIs DEF Others
<1> QED
  BY <1>1, <1>4, <1>5

LEMMA SkipUserIs ==
    ASSUME TypeInv, NEW r \in Runs, NEW u \in Users, SkipUser(r, u)
    PROVE  /\ in(r, "users") /\ u \in job[r].todo /\ Others(r)
           /\ job'[r].pc = "users" /\ job'[r].todo = job[r].todo \ {u}
           /\ job'[r].upto = job[r].upto /\ job'[r].users = job[r].users
           /\ job'[r].gone = job[r].gone /\ job'[r].to = job[r].to
           /\ UNCHANGED <<hour, served, log, status, sub, cursor, age, history>>
<1> DEFINE q == [job[r] EXCEPT !.todo = @ \ {u}]
<1>1. /\ in(r, "users") /\ u \in job[r].todo /\ becomes(r, q)
      /\ UNCHANGED <<hour, served, log, status, sub, cursor, age, history>>
  BY DEF SkipUser
<1>2. /\ q \in RunRecs /\ q.pc = job[r].pc /\ q.upto = job[r].upto /\ q.users = job[r].users
      /\ q.todo = job[r].todo \ {u} /\ q.to = job[r].to /\ q.gone = job[r].gone
  BY RunIs DEF RunRecs
<1> HIDE DEF q
<1> QED
  BY <1>1, <1>2, JobIs DEF Others, in

LEMMA NotSentIs ==
    ASSUME TypeInv, NEW r \in Runs, NEW u \in Users, NotSent(r, u)
    PROVE  /\ in(r, "users") /\ u \in job[r].todo /\ Others(r)
           /\ job'[r].pc = "users" /\ job'[r].todo = job[r].todo \ {u}
           /\ job'[r].upto = job[r].upto /\ job'[r].users = job[r].users
           /\ job'[r].gone = job[r].gone /\ job'[r].to = job[r].to
           /\ UNCHANGED <<hour, served, log, status, sub, cursor, age, history>>
<1> DEFINE q == [job[r] EXCEPT !.todo = @ \ {u}]
<1>1. /\ in(r, "users") /\ u \in job[r].todo /\ becomes(r, q)
      /\ UNCHANGED <<hour, served, log, status, sub, cursor, age, history>>
  BY DEF NotSent
<1>2. /\ q \in RunRecs /\ q.pc = job[r].pc /\ q.upto = job[r].upto /\ q.users = job[r].users
      /\ q.todo = job[r].todo \ {u} /\ q.to = job[r].to /\ q.gone = job[r].gone
  BY RunIs DEF RunRecs
<1> HIDE DEF q
<1> QED
  BY <1>1, <1>2, JobIs DEF Others, in

LEMMA SendEmailIs ==
    ASSUME TypeInv, NEW r \in Runs, NEW u \in Users, SendEmail(r, u)
    PROVE  /\ in(r, "users") /\ u \in job[r].todo /\ Others(r)
           /\ job'[r].pc = "mark" /\ job'[r].todo = job[r].todo \ {u} /\ job'[r].to = {u}
           /\ job'[r].upto = job[r].upto /\ job'[r].users = job[r].users
           /\ job'[r].gone = job[r].gone
           /\ inbox' \in [Users -> [Events -> Nat]]
           /\ \A v \in Users \ {u} : inbox'[v] = inbox[v]
           /\ \A i \in Events : IF i \in windowEvents(job[r], u) THEN inbox'[u][i] = inbox[u][i] + 1
                                                                 ELSE inbox'[u][i] = inbox[u][i]
           /\ UNCHANGED <<hour, served, log, status, sub, cursor, age, shown, veiled, unsure, overlapped, blind>>
<1> DEFINE q == [job[r] EXCEPT !.pc = "mark", !.todo = @ \ {u}, !.to = {u}]
           mails == [i \in Events |-> IF i \in windowEvents(job[r], u) THEN inbox[u][i] + 1 ELSE inbox[u][i]]
<1>1. /\ in(r, "users") /\ u \in job[r].todo /\ becomes(r, q)
      /\ inbox' = [inbox EXCEPT ![u] = mails]
      /\ UNCHANGED <<hour, served, log, status, sub, cursor, age, shown, veiled, unsure, overlapped, blind>>
  BY DEF SendEmail
<1>2. /\ q \in RunRecs /\ q.pc = "mark" /\ q.upto = job[r].upto /\ q.users = job[r].users
      /\ q.todo = job[r].todo \ {u} /\ q.to = {u} /\ q.gone = job[r].gone
  BY RunIs DEF RunRecs
<1> HIDE DEF q
<1>3. inbox \in [Users -> [Events -> Nat]]
  BY DEF TypeInv, TypeOK
<1>4. inbox[u] \in [Events -> Nat]
  BY <1>3
<1>5. /\ mails \in [Events -> Nat]
      /\ \A i \in Events : IF i \in windowEvents(job[r], u) THEN mails[i] = inbox[u][i] + 1
                                                            ELSE mails[i] = inbox[u][i]
  BY <1>4
<1> HIDE DEF mails
<1>6. inbox' \in [Users -> [Events -> Nat]] /\ inbox'[u] = mails /\ \A v \in Users \ {u} : inbox'[v] = inbox[v]
  BY <1>1, <1>3, <1>5
<1> QED
  BY <1>1, <1>2, <1>5, <1>6, JobIs DEF Others

LEMMA MarkIs ==
    ASSUME TypeInv, NEW r \in Runs, markDigestSent(r)
    PROVE  /\ in(r, "mark") /\ Others(r)
           /\ job'[r].pc = "users" /\ job'[r].todo = job[r].todo /\ job'[r].to = {}
           /\ job'[r].upto = job[r].upto /\ job'[r].users = job[r].users
           /\ job'[r].gone = job[r].gone
           /\ \A u \in Users : cursor'[u] = IF u \in job[r].to THEN Len(log) ELSE cursor[u]
           /\ cursor' \in [Users -> 0..Len(log)] /\ age' \in [Users -> 0..Never]
           /\ UNCHANGED <<hour, served, log, status, sub, history>>
<1> DEFINE q == [job[r] EXCEPT !.pc = "users", !.to = {}]
<1>1. /\ in(r, "mark") /\ becomes(r, q)
      /\ cursor' = [u \in Users |-> cursorOf(job[r], u)]
      /\ age' = [u \in Users |-> IF u \in job[r].to THEN 0 ELSE age[u]]
      /\ UNCHANGED <<hour, served, log, status, sub, history>>
  BY DEF markDigestSent
<1>2. /\ q \in RunRecs /\ q.pc = "users" /\ q.upto = job[r].upto /\ q.users = job[r].users
      /\ q.todo = job[r].todo /\ q.to = {} /\ q.gone = job[r].gone
  BY RunIs DEF RunRecs
<1> HIDE DEF q
<1>3. cursor \in [Users -> 0..Len(log)] /\ age \in [Users -> 0..Never] /\ Len(log) \in Nat
  BY LogIs DEF TypeInv, TypeOK
<1>4. \A u \in Users : cursor'[u] = IF u \in job[r].to THEN Len(log) ELSE cursor[u]
  BY <1>1 DEF cursorOf, marked
<1>5. cursor' \in [Users -> 0..Len(log)]
  BY <1>1, <1>3 DEF cursorOf, marked
<1>6. age' \in [Users -> 0..Never]
  BY <1>1, <1>3, NeverIs
<1> QED
  BY <1>1, <1>2, <1>4, <1>5, <1>6, JobIs DEF Others

LEMMA MarkFailsIs ==
    ASSUME TypeInv, NEW r \in Runs, MarkFails(r)
    PROVE  /\ in(r, "mark") /\ Others(r)
           /\ job'[r].pc = "users" /\ job'[r].todo = job[r].todo /\ job'[r].to = {}
           /\ job'[r].upto = job[r].upto /\ job'[r].users = job[r].users
           /\ job'[r].gone = job[r].gone
           /\ unsure' = unsure \cup job[r].to
           /\ UNCHANGED <<hour, served, log, status, sub, cursor, age, inbox, shown, veiled, overlapped, blind>>
<1> DEFINE q == [job[r] EXCEPT !.pc = "users", !.to = {}]
<1>1. /\ in(r, "mark") /\ becomes(r, q) /\ unsure' = unsure \cup job[r].to
      /\ UNCHANGED <<hour, served, log, status, sub, cursor, age, inbox, shown, veiled, overlapped, blind>>
  BY DEF MarkFails
<1>2. /\ q \in RunRecs /\ q.pc = "users" /\ q.upto = job[r].upto /\ q.users = job[r].users
      /\ q.todo = job[r].todo /\ q.to = {} /\ q.gone = job[r].gone
  BY RunIs DEF RunRecs
<1> HIDE DEF q
<1> QED
  BY <1>1, <1>2, JobIs DEF Others

\* A run's end, or its loss: it is idle, and who it mailed and did not mark is not known.
LEMMA EndIs ==
    ASSUME TypeInv, NEW r \in Runs, RunEnds(r) \/ RunDies(r)
    PROVE  /\ Others(r) /\ job'[r] = IdleRun
           /\ unsure' = unsure \cup job[r].to
           /\ UNCHANGED <<hour, served, log, status, sub, cursor, age, inbox, shown, veiled, overlapped, blind>>
<1>1. /\ becomes(r, IdleRun)
      /\ UNCHANGED <<hour, served, log, status, sub, cursor, age, inbox, shown, veiled, overlapped, blind>>
  BY DEF RunEnds, RunDies, history
<1>2. CASE RunEnds(r)
  <2>1. job[r].to = {} /\ unsure' = unsure
    BY <1>2 DEF RunEnds, TypeInv, in, history
  <2> QED
    BY <1>1, <2>1, IdleRunIs, JobIs DEF Others
<1>3. CASE RunDies(r)
  <2>1. unsure' = unsure \cup job[r].to
    BY <1>3 DEF RunDies
  <2> QED
    BY <1>1, <2>1, IdleRunIs, JobIs DEF Others
<1> QED
  BY <1>2, <1>3

\* Time passes: what was past the window stays past it.
LEMMA TickIs ==
    ASSUME TypeInv, Tick
    PROVE  /\ log' \in Seq(LogRec) /\ Len(log') = Len(log) /\ DOMAIN log' = DOMAIN log
           /\ \A i \in DOMAIN log :
                 /\ log'[i].proc = log[i].proc /\ log'[i].mid = log[i].mid
                 /\ log[i].age > Window => log'[i].age > Window
           /\ hour' \in 0..Day - 1 /\ served' \in BOOLEAN /\ age' \in [Users -> 0..Never]
           /\ UNCHANGED <<status, sub, cursor, job, history>>
<1>1. /\ hour' = (hour + 1) % Day /\ served' = FALSE
      /\ age' = [u \in Users |-> older(age[u])]
      /\ log' = [i \in DOMAIN log |-> [log[i] EXCEPT !.age = older(@)]]
      /\ UNCHANGED <<status, sub, cursor, job, history>>
  BY DEF Tick
<1>2. \A a \in 0..Never : older(a) \in 0..Never /\ (a > Window => older(a) > Window)
  BY NeverIs DEF older, Never
<1>3. hour' \in 0..Day - 1 /\ served' \in BOOLEAN
  <2>1. hour \in 0..Day - 1 /\ Day \in Nat
    BY DigestAssumption DEF TypeInv, TypeOK
  <2>2. Day > 0 /\ hour + 1 \in Int
    BY <2>1
  <2>3. (hour + 1) % Day \in 0..Day - 1
    BY <2>1, <2>2
  <2> QED
    BY <1>1, <2>3
<1>4. age' \in [Users -> 0..Never]
  <2>1. age \in [Users -> 0..Never]
    BY DEF TypeInv, TypeOK
  <2>2. \A u \in Users : older(age[u]) \in 0..Never
    BY <1>2, <2>1
  <2> QED
    BY <1>1, <2>2
<1>5. \A i \in DOMAIN log : /\ log'[i] \in LogRec /\ log'[i].proc = log[i].proc /\ log'[i].mid = log[i].mid
                            /\ log'[i].age = older(log[i].age)
  <2> SUFFICES ASSUME NEW i \in DOMAIN log
               PROVE  /\ log'[i] \in LogRec /\ log'[i].proc = log[i].proc /\ log'[i].mid = log[i].mid
                      /\ log'[i].age = older(log[i].age)
    OBVIOUS
  <2> DEFINE a == older(log[i].age)
  <2>1. log[i] \in LogRec /\ a \in 0..Never
    BY LogIs, <1>2
  <2>2. log'[i] = [log[i] EXCEPT !.age = a]
    BY <1>1
  <2> HIDE DEF a
  <2>3. log'[i] \in LogRec /\ log'[i].proc = log[i].proc /\ log'[i].mid = log[i].mid /\ log'[i].age = a
    BY <2>1, <2>2 DEF LogRec
  <2> QED
    BY <2>3 DEF a
<1>6. DOMAIN log' = 1..Len(log) /\ Len(log) \in Nat /\ DOMAIN log = 1..Len(log)
  BY <1>1, LogIs
<1>7. log' \in [1..Len(log) -> LogRec]
  <2>1. log' = [i \in 1..Len(log) |-> log'[i]]
    BY <1>1, <1>6
  <2> QED
    BY <1>5, <1>6, <2>1
<1>8. log' \in Seq(LogRec) /\ Len(log') = Len(log)
  BY <1>6, <1>7, SeqDef, LenProperties
<1>9. \A i \in DOMAIN log : log[i].age > Window => log'[i].age > Window
  BY <1>2, <1>5, LogIs
<1> QED
  BY <1>1, <1>3, <1>4, <1>5, <1>6, <1>8, <1>9

\* The last of log' is the event recorded.
LEMMA RecordIs ==
    ASSUME TypeInv, NEW p \in Procs, Record(p)
    PROVE  /\ status[p] # "none" /\ log' \in Seq(LogRec)
           /\ Len(log') = Len(log) + 1 /\ Len(log') <= MaxEvents /\ DOMAIN log' = DOMAIN log \cup {Len(log')}
           /\ \A i \in DOMAIN log : i # Len(log') /\ log'[i] = log[i]
           /\ log'[Len(log')].proc = p /\ log'[Len(log')].mid = beingMailed
           /\ veiled \subseteq veiled' /\ (status[p] = "hidden" => Len(log') \in veiled')
           /\ UNCHANGED <<hour, served, status, sub, cursor, age, job, inbox, shown, unsure, overlapped, blind>>
<1> DEFINE e == [proc |-> p, age |-> 0, mid |-> beingMailed, subs |-> sub]
<1>1. /\ Len(log) < MaxEvents /\ status[p] # "none" /\ log' = Append(log, e)
      /\ veiled' = IF status[p] = "hidden" THEN veiled \cup {Len(log')} ELSE veiled
      /\ UNCHANGED <<hour, served, status, sub, cursor, age, job, inbox, shown, unsure, overlapped, blind>>
  BY DEF Record
<1>2. e \in LogRec /\ e.proc = p /\ e.mid = beingMailed
  BY NeverIs DEF TypeInv, TypeOK, LogRec, beingMailed
<1> HIDE DEF e
<1>3. log \in Seq(LogRec) /\ Len(log) \in Nat /\ DOMAIN log = 1..Len(log) /\ MaxEvents \in Nat
  BY LogIs, DigestAssumption
<1>4. /\ log' \in Seq(LogRec) /\ Len(log') = Len(log) + 1
      /\ \A i \in 1..Len(log) : log'[i] = log[i]
      /\ log'[Len(log) + 1] = e
  BY <1>1, <1>2, <1>3, AppendProperties
<1>5. DOMAIN log' = 1..Len(log')
  BY <1>4, LenProperties
<1>6. DOMAIN log' = DOMAIN log \cup {Len(log')} /\ \A i \in DOMAIN log : i # Len(log')
  BY <1>3, <1>4, <1>5
<1>7. Len(log') <= MaxEvents
  BY <1>1, <1>3, <1>4
<1> QED
  BY <1>1, <1>2, <1>3, <1>4, <1>6, <1>7

LEMMA SetStatusIs ==
    ASSUME TypeInv, NEW p \in Procs, NEW s \in {"hidden", "public"}, SetStatus(p, s)
    PROVE  /\ status' \in [Procs -> {"none", "hidden", "public"}]
           /\ status'[p] = s /\ \A o \in Procs \ {p} : status'[o] = status[o]
           /\ shown \subseteq shown' /\ (s = "public" => p \in shown')
           /\ veiled \subseteq veiled' /\ (s = "hidden" => \A i \in DOMAIN log : log[i].proc = p => i \in veiled')
           /\ UNCHANGED <<hour, served, log, sub, cursor, age, job, inbox, unsure, overlapped, blind>>
BY DEF SetStatus, TypeInv, TypeOK

LEMMA SubscribeIs ==
    ASSUME TypeInv, NEW u \in Users, Subscribe(u)
    PROVE  /\ sub' \subseteq Users
           /\ UNCHANGED <<hour, served, log, status, cursor, age, job, history>>
BY DEF Subscribe, TypeInv, TypeOK

-----------------------------------------------------------------------------
(***************************************************************************)
(* Types.                                                                  *)
(***************************************************************************)
StateTypes ==
    /\ hour \in 0..Day - 1 /\ served \in BOOLEAN
    /\ log \in Seq(LogRec) /\ Len(log) <= MaxEvents
    /\ status \in [Procs -> {"none", "hidden", "public"}] /\ sub \subseteq Users
    /\ cursor \in [Users -> 0..Len(log)] /\ age \in [Users -> 0..Never]
    /\ job \in [Runs -> RunRecs]
    /\ inbox \in [Users -> [Events -> Nat]]

\* A run's record beside a log of n events.
RunOK(q, n) ==
    /\ q.pc \in {"idle", "events", "hidden", "users", "mark"}
    /\ \A u \in DOMAIN q.users : q.users[u] \in Snapshots
    /\ q.upto \in 0..n /\ q.todo \subseteq DOMAIN q.users
    /\ q.to # {} => q.pc = "mark"
    /\ q.to \cap q.todo = {}
    /\ q.pc = "idle" => q.todo = {}

LEMMA TypeParts == TypeInv <=> StateTypes /\ \A r \in Runs : RunOK(job[r], Len(log))
BY DEF TypeInv, TypeOK, StateTypes, RunOK, LogRec, in

LEMMA RunsAre == TypeInv => Cron \in Runs /\ ByHand \subseteq Runs
BY DEF Runs

\* One run moves on, beside the same log.
LEMMA RunTypes ==
    ASSUME StateTypes, \A s \in Runs : RunOK(job[s], Len(log)),
           NEW r \in Runs, Others(r), RunOK(job'[r], Len(log)), log' = log
    PROVE  \A s \in Runs : RunOK(job'[s], Len(log'))
BY DEF Others

LEMMA InitType == Init => TypeInv
<1> SUFFICES ASSUME Init PROVE TypeInv
  OBVIOUS
<1>1. log = <<>> /\ log \in Seq(LogRec) /\ Len(log) = 0
  BY DEF Init
<1>2. job = [r \in Runs |-> IdleRun] /\ \A r \in Runs : job[r] = IdleRun
  BY DEF Init
<1>3. job \in [Runs -> RunRecs]
  BY <1>2, IdleRunIs
<1>4. \A r \in Runs : RunOK(job[r], Len(log))
  BY <1>1, <1>2, IdleRunIs DEF RunOK
<1>5. hour \in 0..Day - 1 /\ served \in BOOLEAN
  <2>1. Day \in Nat /\ Day > 0
    BY DigestAssumption
  <2>2. 0 \in 0..Day - 1
    BY <2>1
  <2>3. hour = 0
    BY DEF Init
  <2>4. served \in BOOLEAN
    BY DEF Init
  <2> QED
    BY <2>2, <2>3, <2>4
<1>6. cursor \in [Users -> 0..Len(log)] /\ age \in [Users -> 0..Never]
  BY <1>1, NeverIs DEF Init
<1>7. status \in [Procs -> {"none", "hidden", "public"}] /\ sub \subseteq Users
      /\ inbox \in [Users -> [Events -> Nat]] /\ Len(log) <= MaxEvents
  BY <1>1, DigestAssumption DEF Init
<1> QED
  BY <1>1, <1>3, <1>4, <1>5, <1>6, <1>7, TypeParts DEF StateTypes

LEMMA NextType == TypeInv /\ [Next]_vars => TypeInv'
<1> SUFFICES ASSUME TypeInv, [Next]_vars
             PROVE  StateTypes' /\ \A r \in Runs : RunOK(job'[r], Len(log'))
  BY DEF TypeInv, TypeOK, StateTypes, RunOK, LogRec, in
<1>0. StateTypes /\ \A r \in Runs : RunOK(job[r], Len(log))
  BY TypeParts
<1>1. ASSUME Tick PROVE StateTypes' /\ \A r \in Runs : RunOK(job'[r], Len(log'))
  BY <1>0, <1>1, TickIs DEF StateTypes, history
<1>2. ASSUME NEW p \in Procs, Record(p) PROVE StateTypes' /\ \A r \in Runs : RunOK(job'[r], Len(log'))
  <2>1. Len(log) \in Nat /\ Len(log') = Len(log) + 1
    BY <1>2, LogIs, RecordIs
  <2>2. \A k \in 0..Len(log) : k \in 0..Len(log')
    BY <2>1
  <2>3. \A r \in Runs : RunOK(job'[r], Len(log'))
    BY <1>0, <1>2, <2>2, RecordIs DEF RunOK
  <2>4. cursor' \in [Users -> 0..Len(log')]
    BY <1>0, <1>2, <2>2, RecordIs DEF StateTypes
  <2> QED
    BY <1>0, <1>2, <2>3, <2>4, RecordIs DEF StateTypes
<1>3. ASSUME NEW p \in Procs, NEW s \in {"hidden", "public"}, SetStatus(p, s)
      PROVE StateTypes' /\ \A r \in Runs : RunOK(job'[r], Len(log'))
  BY <1>0, <1>3, SetStatusIs DEF StateTypes
<1>4. ASSUME NEW u \in Users, Subscribe(u)
      PROVE StateTypes' /\ \A r \in Runs : RunOK(job'[r], Len(log'))
  BY <1>0, <1>4, SubscribeIs DEF StateTypes, history
<1>5. ASSUME NEW r \in Runs, start(r), served' \in BOOLEAN
      PROVE StateTypes' /\ \A s \in Runs : RunOK(job'[s], Len(log'))
  <2>1. RunOK(job'[r], Len(log))
    <3>1. Len(log) \in Nat
      BY LogIs
    <3> QED
      BY <1>5, <3>1, StartIs DEF RunOK
  <2>2. \A s \in Runs : RunOK(job'[s], Len(log'))
    BY <1>0, <1>5, <2>1, StartIs, RunTypes
  <2> QED
    BY <1>0, <1>5, <2>2, StartIs DEF StateTypes, Others
<1>6. ASSUME NEW r \in Runs, getEventsSince(r)
      PROVE StateTypes' /\ \A s \in Runs : RunOK(job'[s], Len(log'))
  <2>1. RunOK(job'[r], Len(log))
    <3>1. Len(log) \in Nat /\ RunOK(job[r], Len(log))
      BY <1>0, LogIs
    <3> QED
      BY <1>6, <3>1, GetEventsIs DEF RunOK, in
  <2>2. \A s \in Runs : RunOK(job'[s], Len(log'))
    BY <1>0, <1>6, <2>1, GetEventsIs, RunTypes
  <2> QED
    BY <1>0, <1>6, <2>2, GetEventsIs DEF StateTypes, Others, history
<1>7. ASSUME NEW r \in Runs, getHiddenProcessIds(r)
      PROVE StateTypes' /\ \A s \in Runs : RunOK(job'[s], Len(log'))
  <2>1. RunOK(job'[r], Len(log))
    BY <1>0, <1>7, GetHiddenIs DEF RunOK, in
  <2>2. \A s \in Runs : RunOK(job'[s], Len(log'))
    BY <1>0, <1>7, <2>1, GetHiddenIs, RunTypes
  <2> QED
    BY <1>0, <1>7, <2>2, GetHiddenIs DEF StateTypes, Others
<1>8. ASSUME NEW r \in Runs, NEW u \in Users, SkipUser(r, u) \/ NotSent(r, u)
      PROVE StateTypes' /\ \A s \in Runs : RunOK(job'[s], Len(log'))
  <2>1. RunOK(job'[r], Len(log)) /\ Others(r) /\ log' = log
    BY <1>0, <1>8, SkipUserIs, NotSentIs DEF RunOK, in
  <2>2. \A s \in Runs : RunOK(job'[s], Len(log'))
    BY <1>0, <2>1, RunTypes
  <2> QED
    BY <1>0, <1>8, <2>2, SkipUserIs, NotSentIs DEF StateTypes, Others, history
<1>9. ASSUME NEW r \in Runs, NEW u \in Users, SendEmail(r, u)
      PROVE StateTypes' /\ \A s \in Runs : RunOK(job'[s], Len(log'))
  <2>1. RunOK(job'[r], Len(log))
    BY <1>0, <1>9, SendEmailIs DEF RunOK, in
  <2>2. \A s \in Runs : RunOK(job'[s], Len(log'))
    BY <1>0, <1>9, <2>1, SendEmailIs, RunTypes
  <2> QED
    BY <1>0, <1>9, <2>2, SendEmailIs DEF StateTypes, Others
<1>10. ASSUME NEW r \in Runs, markDigestSent(r)
      PROVE StateTypes' /\ \A s \in Runs : RunOK(job'[s], Len(log'))
  <2>1. RunOK(job'[r], Len(log))
    BY <1>0, <1>10, MarkIs DEF RunOK, in
  <2>2. \A s \in Runs : RunOK(job'[s], Len(log'))
    BY <1>0, <1>10, <2>1, MarkIs, RunTypes
  <2> QED
    BY <1>0, <1>10, <2>2, MarkIs DEF StateTypes, Others, history
<1>11. ASSUME NEW r \in Runs, MarkFails(r)
      PROVE StateTypes' /\ \A s \in Runs : RunOK(job'[s], Len(log'))
  <2>1. RunOK(job'[r], Len(log))
    BY <1>0, <1>11, MarkFailsIs DEF RunOK, in
  <2>2. \A s \in Runs : RunOK(job'[s], Len(log'))
    BY <1>0, <1>11, <2>1, MarkFailsIs, RunTypes
  <2> QED
    BY <1>0, <1>11, <2>2, MarkFailsIs DEF StateTypes, Others
<1>12. ASSUME NEW r \in Runs, RunEnds(r) \/ RunDies(r)
      PROVE StateTypes' /\ \A s \in Runs : RunOK(job'[s], Len(log'))
  <2>1. RunOK(job'[r], Len(log))
    BY <1>12, EndIs, IdleRunIs, LogIs DEF RunOK
  <2>2. \A s \in Runs : RunOK(job'[s], Len(log'))
    BY <1>0, <1>12, <2>1, EndIs, RunTypes
  <2> QED
    BY <1>0, <1>12, <2>2, EndIs DEF StateTypes, Others
<1>13. CASE UNCHANGED vars
  BY <1>0, <1>13 DEF vars, history, StateTypes
<1>14. CASE Next
  <2>1. ASSUME Scheduled PROVE start(Cron) /\ served' \in BOOLEAN
    BY <2>1 DEF Scheduled
  <2>2. ASSUME NEW r \in ByHand, Forced(r) PROVE start(r) /\ served' \in BOOLEAN
    BY <1>0, <2>2 DEF Forced, StateTypes
  <2> QED
    BY <1>1, <1>2, <1>3, <1>4, <1>5, <1>6, <1>7, <1>8, <1>9, <1>10, <1>11, <1>12, <1>14, <2>1, <2>2,
       RunsAre DEF Next, RunStep
<1> QED
  BY <1>13, <1>14

\* Types.
LEMMA TypeAlways == Spec => []TypeInv
<1>1. Spec => Init /\ [][Next]_vars
  BY PTL DEF Spec
<1> QED
  BY <1>1, InitType, NextType, PTL

\* Every state of a digest has its type, and no cursor is ahead of the log.
THEOREM DigestTypeCorrect == Spec => []TypeOK
<1>1. TypeInv => TypeOK
  BY DEF TypeInv
<1> QED
  BY <1>1, TypeAlways, PTL

-----------------------------------------------------------------------------
(***************************************************************************)
(* MailedOnce.                                                             *)
(***************************************************************************)
\* Only a run under way has anyone to go to, or someone it mailed and did not mark.
LEMMA IdleHasNone ==
    ASSUME TypeInv, NEW r \in Runs, in(r, "idle")
    PROVE  job[r].todo = {} /\ job[r].to = {}
BY DEF TypeInv, in

\* Runs that do not overlap: beside one that is under way the others are idle.
LEMMA AloneIs ==
    ASSUME TypeInv, MailInv, ~overlapped, NEW r \in Runs, ~in(r, "idle")
    PROVE  \A s \in Runs \ {r} : job[s].todo = {} /\ job[s].to = {}
<1> SUFFICES ASSUME NEW s \in Runs \ {r} PROVE job[s].todo = {} /\ job[s].to = {}
  OBVIOUS
<1>1. r \in underWay /\ (s \in underWay => r = s)
  BY DEF MailInv, underWay
<1>2. in(s, "idle")
  BY <1>1 DEF underWay
<1> QED
  BY <1>2, IdleHasNone

LEMMA UnderWayIs ==
    ASSUME NEW r \in Runs, Others(r), ~in(r, "idle")
    PROVE  underWay' \subseteq underWay
BY DEF Others, underWay, in

\* The mail of a run that is alone: no event a second time.
LEMMA SendMail ==
    ASSUME TypeInv, MailInv, InboxInv, NEW r \in Runs, NEW u \in Users, SendEmail(r, u)
    PROVE  MailInv' /\ InboxInv'
<1>0. /\ in(r, "users") /\ u \in job[r].todo /\ Others(r) /\ ~in(r, "idle")
      /\ job'[r].todo = job[r].todo \ {u} /\ job'[r].to = {u} /\ job'[r].users = job[r].users
      /\ \A v \in Users \ {u} : inbox'[v] = inbox[v]
      /\ \A i \in Events : IF i \in windowEvents(job[r], u) THEN inbox'[u][i] = inbox[u][i] + 1
                                                            ELSE inbox'[u][i] = inbox[u][i]
      /\ log' = log /\ cursor' = cursor /\ unsure' = unsure /\ overlapped' = overlapped
  BY SendEmailIs DEF in
<1>1. Len(log) \in Nat /\ DOMAIN log = 1..Len(log) /\ job[r].users[u].cursor \in Nat
  BY <1>0, LogIs, RunIs
<1>2. \A i \in windowEvents(job[r], u) : i \in DOMAIN log /\ i > job[r].users[u].cursor
  BY DEF windowEvents
<1>3. InboxInv'
  <2> SUFFICES ASSUME NEW v \in Users, NEW i \in Events, inbox'[v][i] > 0 PROVE i <= Len(log)
    BY <1>0 DEF InboxInv
  <2>1. CASE v = u /\ i \in windowEvents(job[r], u)
    BY <1>1, <1>2, <2>1
  <2>2. CASE ~(v = u /\ i \in windowEvents(job[r], u))
    <3>1. inbox'[v][i] = inbox[v][i]
      BY <1>0, <2>2
    <3> QED
      BY <3>1 DEF InboxInv
  <2> QED
    BY <2>1, <2>2
<1>4. MailInv'
  <2> SUFFICES ASSUME ~overlapped
               PROVE  /\ \A s, t \in underWay' : s = t
                      /\ \A s \in Runs : \A v \in job'[s].todo : job'[s].users[v].cursor = cursor'[v]
                      /\ \A v \in Users \ unsure' : \A i \in Events :
                            /\ inbox'[v][i] <= 1
                            /\ inbox'[v][i] > 0 => i <= cursor'[v] \/ \E s \in Runs : v \in job'[s].to
    BY <1>0 DEF MailInv
  <2>1. \A s \in Runs \ {r} : job[s].todo = {} /\ job[s].to = {} /\ job'[s] = job[s]
    BY <1>0, AloneIs DEF Others
  <2>2. job[r].to = {}
    BY <1>0 DEF TypeInv, in
  <2>3. underWay' \subseteq underWay /\ \A s, t \in underWay : s = t
    BY <1>0, UnderWayIs DEF MailInv
  <2>4. \A v \in job[r].todo : job[r].users[v].cursor = cursor[v]
    BY DEF MailInv
  <2>5. \A v \in Users \ unsure : \A i \in Events : inbox[v][i] <= 1 /\ (inbox[v][i] > 0 => i <= cursor[v])
    BY <2>1, <2>2 DEF MailInv
  <2>6. \A s \in Runs : \A v \in job'[s].todo : job'[s].users[v].cursor = cursor'[v]
    BY <1>0, <2>1, <2>4
  <2>7. ASSUME NEW v \in Users \ unsure', NEW i \in Events
        PROVE  /\ inbox'[v][i] <= 1
               /\ inbox'[v][i] > 0 => i <= cursor'[v] \/ \E s \in Runs : v \in job'[s].to
    <3>1. CASE v # u
      BY <1>0, <2>5, <3>1
    <3>2. CASE v = u /\ i \notin windowEvents(job[r], u)
      BY <1>0, <2>5, <3>2
    <3>3. CASE v = u /\ i \in windowEvents(job[r], u)
      <4>1. inbox[u][i] \in Nat /\ i \in Nat
        <5>1. inbox \in [Users -> [Events -> Nat]] /\ i \in Nat
          BY <1>1, <1>2, <3>3 DEF TypeInv, TypeOK
        <5> QED
          BY <5>1
      <4>2. i > cursor[u] /\ cursor[u] \in Nat
        BY <1>0, <1>1, <1>2, <2>4, <3>3
      <4>3. ~(i <= cursor[u])
        BY <4>1, <4>2
      <4>4. ~(inbox[u][i] > 0)
        BY <1>0, <2>5, <3>3, <4>3
      <4>5. inbox'[u][i] = inbox[u][i] + 1
        BY <1>0, <3>3
      <4>6. inbox'[u][i] = 1
        BY <4>1, <4>4, <4>5
      <4> QED
        BY <1>0, <3>3, <4>6
    <3> QED
      BY <3>1, <3>2, <3>3
  <2> QED
    BY <2>3, <2>6, <2>7
<1> QED
  BY <1>3, <1>4

\* The mark: the cursor passes all that was mailed.
LEMMA MarkMail ==
    ASSUME TypeInv, MailInv, InboxInv, NEW r \in Runs, markDigestSent(r)
    PROVE  MailInv' /\ InboxInv'
<1>0. /\ in(r, "mark") /\ Others(r) /\ ~in(r, "idle")
      /\ job'[r].todo = job[r].todo /\ job'[r].to = {} /\ job'[r].users = job[r].users
      /\ \A u \in Users : cursor'[u] = IF u \in job[r].to THEN Len(log) ELSE cursor[u]
      /\ log' = log /\ inbox' = inbox /\ unsure' = unsure /\ overlapped' = overlapped
  BY MarkIs DEF in, history
<1>1. InboxInv'
  BY <1>0 DEF InboxInv
<1>2. MailInv'
  <2> SUFFICES ASSUME ~overlapped
               PROVE  /\ \A s, t \in underWay' : s = t
                      /\ \A s \in Runs : \A v \in job'[s].todo : job'[s].users[v].cursor = cursor'[v]
                      /\ \A v \in Users \ unsure' : \A i \in Events :
                            /\ inbox'[v][i] <= 1
                            /\ inbox'[v][i] > 0 => i <= cursor'[v] \/ \E s \in Runs : v \in job'[s].to
    BY <1>0 DEF MailInv
  <2>1. \A s \in Runs \ {r} : job[s].todo = {} /\ job[s].to = {} /\ job'[s] = job[s]
    BY <1>0, AloneIs DEF Others
  <2>2. job[r].to \cap job[r].todo = {} /\ job[r].todo \subseteq Users
    BY RunIs DEF TypeInv
  <2>3. underWay' \subseteq underWay /\ \A s, t \in underWay : s = t
    BY <1>0, UnderWayIs DEF MailInv
  <2>4. \A s \in Runs : \A v \in job'[s].todo : job'[s].users[v].cursor = cursor'[v]
    <3>1. \A v \in job[r].todo : job[r].users[v].cursor = cursor[v]
      BY DEF MailInv
    <3>2. \A v \in job[r].todo : cursor'[v] = cursor[v]
      BY <1>0, <2>2
    <3> QED
      BY <1>0, <2>1, <3>1, <3>2
  <2>5. ASSUME NEW v \in Users \ unsure', NEW i \in Events
        PROVE  /\ inbox'[v][i] <= 1
               /\ inbox'[v][i] > 0 => i <= cursor'[v] \/ \E s \in Runs : v \in job'[s].to
    <3>1. inbox'[v][i] <= 1 /\ (inbox[v][i] > 0 => i <= cursor[v] \/ v \in job[r].to)
      BY <1>0, <2>1 DEF MailInv
    <3>2. CASE v \in job[r].to
      BY <1>0, <3>1, <3>2 DEF InboxInv
    <3>3. CASE v \notin job[r].to
      BY <1>0, <3>1, <3>3
    <3> QED
      BY <3>2, <3>3
  <2> QED
    BY <2>3, <2>4, <2>5
<1> QED
  BY <1>1, <1>2

\* A run begins while none is under way, or two overlap from here on.
LEMMA StartMail ==
    ASSUME TypeInv, MailInv, InboxInv, NEW r \in Runs, start(r)
    PROVE  MailInv' /\ InboxInv'
<1>0. /\ in(r, "idle") /\ Others(r)
      /\ job'[r].todo = sub /\ job'[r].to = {}
      /\ \A u \in sub : job'[r].users[u].cursor = cursor[u]
      /\ log' = log /\ cursor' = cursor /\ inbox' = inbox /\ unsure' = unsure
      /\ overlapped' = (overlapped \/ underWay # {})
  BY StartIs
<1>1. InboxInv'
  BY <1>0 DEF InboxInv
<1>2. MailInv'
  <2> SUFFICES ASSUME ~overlapped, underWay = {}
               PROVE  /\ \A s, t \in underWay' : s = t
                      /\ \A s \in Runs : \A v \in job'[s].todo : job'[s].users[v].cursor = cursor'[v]
                      /\ \A v \in Users \ unsure' : \A i \in Events :
                            /\ inbox'[v][i] <= 1
                            /\ inbox'[v][i] > 0 => i <= cursor'[v] \/ \E s \in Runs : v \in job'[s].to
    BY <1>0 DEF MailInv
  <2>1. \A s \in Runs : in(s, "idle") /\ job[s].todo = {} /\ job[s].to = {}
    BY IdleHasNone DEF underWay
  <2>2. underWay' \subseteq {r}
    BY <1>0, <2>1 DEF underWay, in, Others
  <2>3. \A s \in Runs : \A v \in job'[s].todo : job'[s].users[v].cursor = cursor'[v]
    BY <1>0, <2>1 DEF Others
  <2>4. \A v \in Users \ unsure : \A i \in Events : inbox[v][i] <= 1 /\ (inbox[v][i] > 0 => i <= cursor[v])
    BY <2>1 DEF MailInv
  <2> QED
    BY <1>0, <2>2, <2>3, <2>4
<1> QED
  BY <1>1, <1>2

\* A run goes on without a mail, ends, dies or cannot move a cursor.
LEMMA PassMail ==
    ASSUME TypeInv, MailInv, InboxInv, NEW r \in Runs, Others(r), ~in(r, "idle"),
           \A v \in job'[r].todo : v \in job[r].todo /\ job'[r].users = job[r].users,
           job[r].to \subseteq job'[r].to \cup unsure', unsure \subseteq unsure',
           Len(log') = Len(log), cursor' = cursor, inbox' = inbox, overlapped' = overlapped
    PROVE  MailInv' /\ InboxInv'
<1>1. InboxInv'
  BY DEF InboxInv
<1>2. MailInv'
  <2> SUFFICES ASSUME ~overlapped
               PROVE  /\ \A s, t \in underWay' : s = t
                      /\ \A s \in Runs : \A v \in job'[s].todo : job'[s].users[v].cursor = cursor'[v]
                      /\ \A v \in Users \ unsure' : \A i \in Events :
                            /\ inbox'[v][i] <= 1
                            /\ inbox'[v][i] > 0 => i <= cursor'[v] \/ \E s \in Runs : v \in job'[s].to
    BY DEF MailInv
  <2>1. underWay' \subseteq underWay /\ \A s, t \in underWay : s = t
    BY UnderWayIs DEF MailInv
  <2>2. \A s \in Runs : \A v \in job'[s].todo : job'[s].users[v].cursor = cursor'[v]
    <3>1. \A s \in Runs : \A v \in job[s].todo : job[s].users[v].cursor = cursor[v]
      BY DEF MailInv
    <3> QED
      BY <3>1 DEF Others
  <2>3. \A v \in Users \ unsure' : \A i \in Events :
            /\ inbox'[v][i] <= 1
            /\ inbox'[v][i] > 0 => i <= cursor'[v] \/ \E s \in Runs : v \in job'[s].to
    <3> SUFFICES ASSUME NEW v \in Users \ unsure', NEW i \in Events
                 PROVE  /\ inbox'[v][i] <= 1
                        /\ inbox'[v][i] > 0 => i <= cursor'[v] \/ \E s \in Runs : v \in job'[s].to
      OBVIOUS
    <3>1. inbox[v][i] <= 1 /\ (inbox[v][i] > 0 => i <= cursor[v] \/ \E s \in Runs : v \in job[s].to)
      BY DEF MailInv
    <3>2. \A s \in Runs : v \in job[s].to => v \in job'[s].to
      BY DEF Others
    <3> QED
      BY <3>1, <3>2
  <2> QED
    BY <2>1, <2>2, <2>3
<1> QED
  BY <1>1, <1>2

LEMMA NextMail ==
    TypeInv /\ MailInv /\ InboxInv /\ [Next]_vars => MailInv' /\ InboxInv'
<1> SUFFICES ASSUME TypeInv, MailInv, InboxInv, [Next]_vars PROVE MailInv' /\ InboxInv'
  OBVIOUS
<1>1. ASSUME job' = job, cursor' = cursor, inbox' = inbox, unsure' = unsure, overlapped' = overlapped,
             Len(log') >= Len(log), Len(log') \in Int
      PROVE  MailInv' /\ InboxInv'
  <2>1. MailInv'
    BY <1>1 DEF MailInv, underWay, in
  <2>2. InboxInv'
    <3> SUFFICES ASSUME NEW u \in Users, NEW i \in Events, inbox[u][i] > 0 PROVE i <= Len(log')
      BY <1>1 DEF InboxInv
    <3>1. i <= Len(log) /\ Len(log) \in Nat /\ i \in Int
      BY LogIs DEF InboxInv, Events
    <3> QED
      BY <1>1, <3>1
  <2> QED
    BY <2>1, <2>2
<1>2. ASSUME Tick PROVE MailInv' /\ InboxInv'
  BY <1>1, <1>2, TickIs, LogIs DEF history
<1>3. ASSUME NEW p \in Procs, Record(p) PROVE MailInv' /\ InboxInv'
  <2>1. Len(log) \in Nat /\ Len(log') = Len(log) + 1
    BY <1>3, LogIs, RecordIs
  <2>2. Len(log') >= Len(log) /\ Len(log') \in Int
    BY <2>1
  <2> QED
    BY <1>1, <1>3, <2>2, RecordIs
<1>4. ASSUME NEW p \in Procs, NEW s \in {"hidden", "public"}, SetStatus(p, s) PROVE MailInv' /\ InboxInv'
  BY <1>1, <1>4, SetStatusIs, LogIs
<1>5. ASSUME NEW u \in Users, Subscribe(u) PROVE MailInv' /\ InboxInv'
  BY <1>1, <1>5, SubscribeIs, LogIs DEF history
<1>6. ASSUME NEW r \in Runs, getEventsSince(r) PROVE MailInv' /\ InboxInv'
  <2>1. ~in(r, "idle")
    BY <1>6, GetEventsIs DEF in
  <2> QED
    BY <1>6, <2>1, GetEventsIs, PassMail DEF history
<1>7. ASSUME NEW r \in Runs, getHiddenProcessIds(r) PROVE MailInv' /\ InboxInv'
  <2>1. ~in(r, "idle")
    BY <1>7, GetHiddenIs DEF in
  <2> QED
    BY <1>7, <2>1, GetHiddenIs, PassMail
<1>8. ASSUME NEW r \in Runs, NEW u \in Users, SkipUser(r, u) \/ NotSent(r, u) PROVE MailInv' /\ InboxInv'
  <2>1. /\ ~in(r, "idle") /\ Others(r) /\ job'[r].todo \subseteq job[r].todo /\ job'[r].users = job[r].users
        /\ job'[r].to = job[r].to /\ log' = log /\ cursor' = cursor /\ inbox' = inbox
        /\ unsure' = unsure /\ overlapped' = overlapped
    BY <1>8, SkipUserIs, NotSentIs DEF in, history
  <2> QED
    BY <2>1, PassMail
<1>9. ASSUME NEW r \in Runs, MarkFails(r) PROVE MailInv' /\ InboxInv'
  <2>1. ~in(r, "idle")
    BY <1>9, MarkFailsIs DEF in
  <2> QED
    BY <1>9, <2>1, MarkFailsIs, PassMail
<1>10. ASSUME NEW r \in Runs, RunEnds(r) \/ RunDies(r) PROVE MailInv' /\ InboxInv'
  <2>1. ~in(r, "idle")
    BY <1>10 DEF RunEnds, RunDies, in
  <2>2. /\ Others(r) /\ job'[r].todo = {} /\ unsure' = unsure \cup job[r].to
        /\ log' = log /\ cursor' = cursor /\ inbox' = inbox /\ overlapped' = overlapped
    BY <1>10, EndIs, IdleRunIs
  <2>3. /\ job[r].to \subseteq job'[r].to \cup unsure' /\ unsure \subseteq unsure'
        /\ \A v \in job'[r].todo : v \in job[r].todo /\ job'[r].users = job[r].users
        /\ Len(log') = Len(log)
    BY <2>2
  <2> QED
    BY <2>1, <2>2, <2>3, PassMail
<1>11. CASE UNCHANGED vars
  BY <1>1, <1>11, LogIs DEF vars, history
<1>12. CASE Next
  <2>1. ASSUME Scheduled PROVE start(Cron)
    BY <2>1 DEF Scheduled
  <2>2. ASSUME NEW r \in ByHand, Forced(r) PROVE start(r)
    BY <2>2 DEF Forced
  <2> QED
    BY <1>2, <1>3, <1>4, <1>5, <1>6, <1>7, <1>8, <1>9, <1>10, <1>12, <2>1, <2>2, StartMail, SendMail,
       MarkMail, RunsAre DEF Next, RunStep
<1> QED
  BY <1>11, <1>12

\* The inbox's own history.
LEMMA InitMail == Init => MailInv /\ InboxInv
<1> SUFFICES ASSUME Init PROVE MailInv /\ InboxInv
  OBVIOUS
<1>1. \A u \in Users : \A i \in Events : inbox[u][i] = 0
  BY DEF Init
<1>2. \A r \in Runs : in(r, "idle") /\ job[r].todo = {}
  BY IdleRunIs DEF Init, in
<1> QED
  BY <1>1, <1>2 DEF MailInv, InboxInv, underWay

LEMMA MailAlways == Spec => []MailInv
<1>1. Spec => Init /\ [][Next]_vars
  BY PTL DEF Spec
<1> QED
  BY <1>1, InitType, NextType, InitMail, NextMail, PTL

LEMMA InboxAlways == Spec => []InboxInv
<1>1. Spec => Init /\ [][Next]_vars
  BY PTL DEF Spec
<1> QED
  BY <1>1, InitType, NextType, InitMail, NextMail, PTL

\* No one is told of an event twice: while runs do not overlap, each finds the
\* cursors as they are, and what was mailed is behind them.
THEOREM MailsOnce == Spec => []MailedOnce
<1>1. MailInv => MailedOnce
  BY DEF MailInv, MailedOnce
<1> QED
  BY <1>1, MailAlways, PTL

-----------------------------------------------------------------------------
(***************************************************************************)
(* NoneSkipped.                                                            *)
(***************************************************************************)
\* What no step takes back: a mail, an event, its age past the window, its being hidden.
Grows ==
    /\ \A u \in Users : \A i \in Events : inbox[u][i] > 0 => inbox'[u][i] > 0
    /\ \A i \in DOMAIN log : /\ i \in DOMAIN log' /\ i <= Len(log')
                             /\ log'[i].proc = log[i].proc /\ log'[i].mid = log[i].mid
                             /\ log[i].age > Window => log'[i].age > Window
    /\ veiled \subseteq veiled'

LEMMA StepGrows == TypeInv /\ [Next]_vars => Grows
<1> SUFFICES ASSUME TypeInv, [Next]_vars PROVE Grows
  OBVIOUS
<1>0. \A i \in DOMAIN log : i \in Nat /\ i <= Len(log)
  BY LogIs
<1>1. ASSUME log' = log, inbox' = inbox, veiled \subseteq veiled' PROVE Grows
  BY <1>0, <1>1 DEF Grows
<1>2. ASSUME Tick PROVE Grows
  BY <1>0, <1>2, TickIs DEF Grows, history
<1>3. ASSUME NEW p \in Procs, Record(p) PROVE Grows
  <2>1. Len(log) \in Nat /\ Len(log') = Len(log) + 1
    BY <1>3, LogIs, RecordIs
  <2>2. \A i \in DOMAIN log : i <= Len(log')
    BY <1>0, <2>1
  <2> QED
    BY <1>3, <2>2, RecordIs DEF Grows
<1>4. ASSUME NEW p \in Procs, NEW s \in {"hidden", "public"}, SetStatus(p, s) PROVE Grows
  BY <1>1, <1>4, SetStatusIs
<1>5. ASSUME NEW u \in Users, Subscribe(u) PROVE Grows
  BY <1>1, <1>5, SubscribeIs DEF history
<1>6. ASSUME NEW r \in Runs, \/ start(r) \/ getEventsSince(r) \/ getHiddenProcessIds(r)
                             \/ markDigestSent(r) \/ MarkFails(r) \/ RunEnds(r) \/ RunDies(r)
      PROVE Grows
  BY <1>1, <1>6, StartIs, GetEventsIs, GetHiddenIs, MarkIs, MarkFailsIs, EndIs DEF history
<1>7. ASSUME NEW r \in Runs, NEW u \in Users, SkipUser(r, u) \/ NotSent(r, u) PROVE Grows
  BY <1>1, <1>7, SkipUserIs, NotSentIs DEF history
<1>8. ASSUME NEW r \in Runs, NEW u \in Users, SendEmail(r, u) PROVE Grows
  <2>1. /\ log' = log /\ veiled' = veiled
        /\ \A v \in Users \ {u} : inbox'[v] = inbox[v]
        /\ \A i \in Events : inbox'[u][i] = inbox[u][i] + 1 \/ inbox'[u][i] = inbox[u][i]
    BY <1>8, SendEmailIs
  <2>2. \A i \in Events : inbox[u][i] \in Nat
    <3>1. inbox \in [Users -> [Events -> Nat]]
      BY DEF TypeInv, TypeOK
    <3> QED
      BY <3>1
  <2>3. \A v \in Users : \A i \in Events : inbox[v][i] > 0 => inbox'[v][i] > 0
    BY <2>1, <2>2
  <2> QED
    BY <1>0, <2>1, <2>3 DEF Grows
<1>9. CASE UNCHANGED vars
  BY <1>1, <1>9 DEF vars, history
<1>10. CASE Next
  <2>1. ASSUME Scheduled PROVE start(Cron)
    BY <2>1 DEF Scheduled
  <2>2. ASSUME NEW r \in ByHand, Forced(r) PROVE start(r)
    BY <2>2 DEF Forced
  <2> QED
    BY <1>2, <1>3, <1>4, <1>5, <1>6, <1>7, <1>8, <1>10, <2>1, <2>2, RunsAre DEF Next, RunStep
<1> QED
  BY <1>9, <1>10

\* So an event a user was mailed, or need not be, stays so.
LEMMA CoveredStays ==
    ASSUME TypeInv, Grows, NEW u \in Users, NEW i \in DOMAIN log, covered(u, i)
    PROVE  covered(u, i)'
<1>1. i \in Events
  <2>1. i \in 1..Len(log) /\ Len(log) \in Nat /\ Len(log) <= MaxEvents /\ MaxEvents \in Nat
    BY LogIs, DigestAssumption DEF TypeInv
  <2> QED
    BY <2>1 DEF Events
<1>2. inbox[u][i] > 0 => inbox'[u][i] > 0
  BY <1>1 DEF Grows
<1>3. /\ log'[i].mid = log[i].mid
      /\ log[i].age > Window => log'[i].age > Window
      /\ i \in veiled => i \in veiled'
  BY DEF Grows
<1> QED
  BY <1>2, <1>3 DEF covered

LEMMA NextHidden == TypeInv /\ HiddenInv /\ [Next]_vars => HiddenInv'
<1> SUFFICES ASSUME TypeInv, HiddenInv, [Next]_vars PROVE HiddenInv'
  OBVIOUS
<1>0. Grows
  BY StepGrows
<1>1. ASSUME DOMAIN log' = DOMAIN log, status' = status PROVE HiddenInv'
  BY <1>0, <1>1 DEF HiddenInv, Grows
<1>2. ASSUME NEW p \in Procs, Record(p) PROVE HiddenInv'
  <2> SUFFICES ASSUME NEW i \in DOMAIN log', status[log'[i].proc] = "hidden" PROVE i \in veiled'
    BY <1>2, RecordIs DEF HiddenInv
  <2>1. CASE i \in DOMAIN log
    BY <1>0, <2>1 DEF HiddenInv, Grows
  <2>2. CASE i = Len(log')
    BY <1>2, <2>2, RecordIs
  <2> QED
    BY <1>2, <2>1, <2>2, RecordIs
<1>3. ASSUME NEW p \in Procs, NEW s \in {"hidden", "public"}, SetStatus(p, s) PROVE HiddenInv'
  <2> SUFFICES ASSUME NEW i \in DOMAIN log, status'[log[i].proc] = "hidden" PROVE i \in veiled'
    BY <1>3, SetStatusIs DEF HiddenInv
  <2>1. log[i].proc \in Procs
    BY LogIs
  <2>2. CASE log[i].proc = p
    BY <1>3, <2>2, SetStatusIs
  <2>3. CASE log[i].proc # p
    BY <1>3, <2>1, <2>3, SetStatusIs DEF HiddenInv
  <2> QED
    BY <2>2, <2>3
<1>4. ASSUME Tick PROVE HiddenInv'
  BY <1>1, <1>4, TickIs
<1>5. ASSUME NEW u \in Users, Subscribe(u) PROVE HiddenInv'
  BY <1>1, <1>5, SubscribeIs
<1>6. ASSUME NEW r \in Runs, \/ start(r) \/ getEventsSince(r) \/ getHiddenProcessIds(r)
                             \/ markDigestSent(r) \/ MarkFails(r) \/ RunEnds(r) \/ RunDies(r)
      PROVE HiddenInv'
  BY <1>1, <1>6, StartIs, GetEventsIs, GetHiddenIs, MarkIs, MarkFailsIs, EndIs
<1>7. ASSUME NEW r \in Runs, NEW u \in Users, SkipUser(r, u) \/ NotSent(r, u) \/ SendEmail(r, u) PROVE HiddenInv'
  BY <1>1, <1>7, SkipUserIs, NotSentIs, SendEmailIs
<1>8. CASE UNCHANGED vars
  BY <1>1, <1>8 DEF vars
<1>9. CASE Next
  <2>1. ASSUME Scheduled PROVE start(Cron)
    BY <2>1 DEF Scheduled
  <2>2. ASSUME NEW r \in ByHand, Forced(r) PROVE start(r)
    BY <2>2 DEF Forced
  <2> QED
    BY <1>2, <1>3, <1>4, <1>5, <1>6, <1>7, <1>9, <2>1, <2>2, RunsAre DEF Next, RunStep
<1> QED
  BY <1>8, <1>9

LEMMA CursorKeeps ==
    ASSUME TypeInv, Grows, CursorSkip, cursor' = cursor
    PROVE  CursorSkip'
<1> SUFFICES ASSUME NEW u \in Users, NEW i \in 1..cursor[u] PROVE covered(u, i)'
  BY DEF CursorSkip
<1>1. i \in DOMAIN log
  <2>1. cursor[u] \in 0..Len(log) /\ Len(log) \in Nat /\ DOMAIN log = 1..Len(log)
    BY LogIs DEF TypeInv, TypeOK
  <2> QED
    BY <2>1
<1>2. covered(u, i)
  BY DEF CursorSkip
<1> QED
  BY <1>1, <1>2, CoveredStays

\* A run that read nothing in this step.
LEMMA RunKeeps ==
    ASSUME TypeInv, Grows, DOMAIN log' = DOMAIN log, NEW r \in Runs, RunSkip(r),
           job'[r].users = job[r].users, job'[r].upto = job[r].upto, job'[r].gone = job[r].gone,
           job'[r].to \subseteq job[r].to, job'[r].todo \subseteq job[r].todo,
           \/ job'[r].pc = job[r].pc
           \/ job[r].pc \in {"users", "mark"} /\ job'[r].pc \in {"users", "mark"}
    PROVE  RunSkip(r)'
<1>1. ASSUME NEW u \in DOMAIN job'[r].users, NEW i \in 1..job'[r].users[u].cursor
      PROVE  i \in DOMAIN log' /\ covered(u, i)'
  <2>1. i \in DOMAIN log /\ covered(u, i) /\ u \in Users
    BY <1>1, RunIs DEF RunSkip
  <2> QED
    BY <2>1, CoveredStays
<1>2. ASSUME NEW u \in job'[r].to, NEW i \in DOMAIN log' PROVE covered(u, i)'
  <2>1. i \in DOMAIN log /\ covered(u, i) /\ u \in Users
    BY <1>2, RunIs DEF RunSkip
  <2> QED
    BY <2>1, CoveredStays
<1>3. job'[r].pc \in {"hidden", "users", "mark"} =>
          \A i \in DOMAIN log' : i > job'[r].upto => job'[r].todo \cup job'[r].to \subseteq log'[i].mid
  BY DEF RunSkip, Grows
<1>4. job'[r].pc \in {"events", "hidden"} => job'[r].gone = {}
  BY DEF RunSkip
<1>5. job'[r].pc \in {"users", "mark"} =>
          \A i \in DOMAIN log' : i <= job'[r].upto /\ log'[i].proc \in job'[r].gone => i \in veiled'
  BY DEF RunSkip, Grows
<1> QED
  BY <1>1, <1>2, <1>3, <1>4, <1>5 DEF RunSkip

\* An event is recorded: beside a run that read the log it is one recorded meanwhile.
LEMMA RecordSkip ==
    ASSUME TypeInv, Grows, NEW p \in Procs, Record(p), NEW r \in Runs, RunSkip(r)
    PROVE  RunSkip(r)'
<1>0. /\ job' = job /\ DOMAIN log' = DOMAIN log \cup {Len(log')} /\ Len(log') = Len(log) + 1
      /\ log'[Len(log')].mid = beingMailed /\ Len(log) \in Nat
  BY RecordIs, LogIs
<1>1. ASSUME NEW u \in DOMAIN job'[r].users, NEW i \in 1..job'[r].users[u].cursor
      PROVE  i \in DOMAIN log' /\ covered(u, i)'
  <2>1. i \in DOMAIN log /\ covered(u, i) /\ u \in Users
    BY <1>0, <1>1, RunIs DEF RunSkip
  <2> QED
    BY <1>0, <2>1, CoveredStays
<1>2. job[r].pc \in {"hidden", "users", "mark"} => job[r].todo \cup job[r].to \subseteq log'[Len(log')].mid
  BY <1>0, RunIs DEF beingMailed
<1>3. ASSUME NEW u \in job'[r].to, NEW i \in DOMAIN log' PROVE covered(u, i)'
  <2>1. u \in job[r].to /\ u \in Users /\ job[r].pc = "mark"
    BY <1>0, <1>3, RunIs DEF TypeInv, in
  <2>2. CASE i \in DOMAIN log
    BY <2>1, <2>2, CoveredStays DEF RunSkip
  <2>3. CASE i = Len(log')
    BY <1>2, <2>1, <2>3 DEF covered
  <2> QED
    BY <1>0, <2>2, <2>3
<1>4. job'[r].pc \in {"hidden", "users", "mark"} =>
          \A i \in DOMAIN log' : i > job'[r].upto => job'[r].todo \cup job'[r].to \subseteq log'[i].mid
  BY <1>0, <1>2 DEF RunSkip, Grows
<1>5. job'[r].pc \in {"events", "hidden"} => job'[r].gone = {}
  BY <1>0 DEF RunSkip
<1>6. job'[r].pc \in {"users", "mark"} =>
          \A i \in DOMAIN log' : i <= job'[r].upto /\ log'[i].proc \in job'[r].gone => i \in veiled'
  <2> SUFFICES ASSUME job[r].pc \in {"users", "mark"}, NEW i \in DOMAIN log',
                      i <= job[r].upto, log'[i].proc \in job[r].gone
               PROVE  i \in veiled'
    BY <1>0
  <2>1. job[r].upto \in 0..Len(log)
    BY RunIs
  <2>2. i # Len(log')
    BY <1>0, <2>1
  <2>3. i \in DOMAIN log
    BY <1>0, <2>2
  <2> QED
    BY <2>3 DEF RunSkip, Grows
<1> QED
  BY <1>1, <1>3, <1>4, <1>5, <1>6 DEF RunSkip

\* A run takes the cursors as they are.
LEMMA StartSkip ==
    ASSUME TypeInv, Grows, CursorSkip, NEW r \in Runs, start(r)
    PROVE  RunSkip(r)'
<1>0. /\ job'[r].pc = "events" /\ DOMAIN job'[r].users = sub
      /\ \A u \in sub : job'[r].users[u].cursor = cursor[u]
      /\ job'[r].gone = {} /\ job'[r].to = {} /\ log' = log
  BY StartIs
<1>1. ASSUME NEW u \in DOMAIN job'[r].users, NEW i \in 1..job'[r].users[u].cursor
      PROVE  i \in DOMAIN log' /\ covered(u, i)'
  <2>1. u \in Users /\ i \in 1..cursor[u]
    BY <1>0, <1>1 DEF TypeInv, TypeOK
  <2>2. i \in DOMAIN log
    <3>1. cursor[u] \in 0..Len(log) /\ Len(log) \in Nat /\ DOMAIN log = 1..Len(log)
      BY <2>1, LogIs DEF TypeInv, TypeOK
    <3> QED
      BY <2>1, <3>1
  <2> QED
    BY <1>0, <2>1, <2>2, CoveredStays DEF CursorSkip
<1> QED
  BY <1>0, <1>1 DEF RunSkip

\* It reads the events up to now.
LEMMA GetEventsSkip ==
    ASSUME TypeInv, Grows, NEW r \in Runs, RunSkip(r), getEventsSince(r)
    PROVE  RunSkip(r)'
<1>0. /\ job[r].pc = "events" /\ job'[r].pc = "hidden" /\ job'[r].upto = Len(log)
      /\ job'[r].users = job[r].users /\ job'[r].to = job[r].to /\ log' = log
  BY GetEventsIs DEF in
<1>1. ASSUME NEW u \in DOMAIN job'[r].users, NEW i \in 1..job'[r].users[u].cursor
      PROVE  i \in DOMAIN log' /\ covered(u, i)'
  <2>1. i \in DOMAIN log /\ covered(u, i) /\ u \in Users
    BY <1>0, <1>1, RunIs DEF RunSkip
  <2> QED
    BY <1>0, <2>1, CoveredStays
<1>2. job'[r].to = {}
  BY <1>0 DEF TypeInv, in
<1>3. \A i \in DOMAIN log' : ~(i > job'[r].upto)
  BY <1>0, LogIs
<1>4. job'[r].gone = {}
  <2>1. job[r].gone = {}
    BY <1>0 DEF RunSkip
  <2> QED
    BY <2>1 DEF getEventsSince, becomes, TypeInv
<1> QED
  BY <1>0, <1>1, <1>2, <1>3, <1>4 DEF RunSkip

\* It reads what is hidden now, or takes nothing to be.
LEMMA GetHiddenSkip ==
    ASSUME TypeInv, HiddenInv, Grows, NEW r \in Runs, RunSkip(r), getHiddenProcessIds(r)
    PROVE  RunSkip(r)'
<1>0. /\ job[r].pc = "hidden" /\ job'[r].pc = "users" /\ job'[r].upto = job[r].upto
      /\ job'[r].users = job[r].users /\ job'[r].to = job[r].to /\ job'[r].todo = job[r].todo
      /\ log' = log /\ veiled' = veiled
      /\ \/ job'[r].gone = {p \in Procs : status[p] = "hidden"}
         \/ job'[r].gone = job[r].gone
  BY GetHiddenIs DEF in
<1>1. ASSUME NEW u \in DOMAIN job'[r].users, NEW i \in 1..job'[r].users[u].cursor
      PROVE  i \in DOMAIN log' /\ covered(u, i)'
  <2>1. i \in DOMAIN log /\ covered(u, i) /\ u \in Users
    BY <1>0, <1>1, RunIs DEF RunSkip
  <2> QED
    BY <1>0, <2>1, CoveredStays
<1>2. job'[r].to = {}
  BY <1>0 DEF TypeInv, in
<1>3. \A i \in DOMAIN log' : i > job'[r].upto => job'[r].todo \cup job'[r].to \subseteq log'[i].mid
  BY <1>0 DEF RunSkip
<1>4. \A i \in DOMAIN log' : log'[i].proc \in job'[r].gone => i \in veiled'
  <2>1. job[r].gone = {}
    BY <1>0 DEF RunSkip
  <2> QED
    BY <1>0, <2>1 DEF HiddenInv
<1> QED
  BY <1>0, <1>1, <1>2, <1>3, <1>4 DEF RunSkip

\* A mail has every event that needs one.
LEMMA SendSkip ==
    ASSUME TypeInv, Grows, NEW r \in Runs, NEW u \in Users, RunSkip(r), SendEmail(r, u)
    PROVE  RunSkip(r)'
<1>0. /\ job[r].pc = "users" /\ u \in job[r].todo
      /\ job'[r].pc = "mark" /\ job'[r].upto = job[r].upto /\ job'[r].to = {u}
      /\ job'[r].todo = job[r].todo \ {u}
      /\ job'[r].users = job[r].users /\ job'[r].gone = job[r].gone
      /\ log' = log /\ veiled' = veiled
      /\ \A i \in Events : i \in windowEvents(job[r], u) => inbox'[u][i] = inbox[u][i] + 1
  BY SendEmailIs DEF in
<1>1. ASSUME NEW v \in DOMAIN job'[r].users, NEW i \in 1..job'[r].users[v].cursor
      PROVE  i \in DOMAIN log' /\ covered(v, i)'
  <2>1. i \in DOMAIN log /\ covered(v, i) /\ v \in Users
    BY <1>0, <1>1, RunIs DEF RunSkip
  <2> QED
    BY <1>0, <2>1, CoveredStays
<1>2. ASSUME NEW i \in DOMAIN log PROVE covered(u, i)'
  <2>0. /\ i \in Nat \ {0} /\ i \in Events /\ u \in DOMAIN job[r].users
        /\ job[r].users[u].cursor \in Nat /\ job[r].upto \in Nat /\ log[i].age \in Nat
    <3>1. i \in 1..Len(log) /\ Len(log) \in Nat /\ Len(log) <= MaxEvents /\ MaxEvents \in Nat
      BY LogIs, DigestAssumption DEF TypeInv
    <3>2. log[i].age \in Nat
      BY LogIs, NeverIs
    <3> QED
      BY <1>0, <3>1, <3>2, RunIs DEF Events
  <2>1. CASE i <= job[r].users[u].cursor
    <3>1. i \in 1..job[r].users[u].cursor
      BY <2>0, <2>1
    <3> QED
      BY <2>0, <3>1, CoveredStays DEF RunSkip
  <2>2. CASE i > job[r].upto
    <3>1. u \in log[i].mid
      BY <1>0, <2>2 DEF RunSkip
    <3> QED
      BY <1>0, <3>1 DEF covered
  <2>3. CASE log[i].age > Window
    BY <1>0, <2>3 DEF covered
  <2>4. CASE i <= job[r].upto /\ log[i].proc \in job[r].gone
    <3>1. i \in veiled
      BY <1>0, <2>4 DEF RunSkip
    <3> QED
      BY <1>0, <3>1 DEF covered
  <2>5. CASE i \in windowEvents(job[r], u)
    <3>1. inbox[u][i] \in Nat
      <4>1. inbox \in [Users -> [Events -> Nat]]
        BY DEF TypeInv, TypeOK
      <4> QED
        BY <2>0, <4>1
    <3>2. inbox'[u][i] > 0
      BY <1>0, <2>0, <2>5, <3>1
    <3> QED
      BY <3>2 DEF covered
  <2> QED
    BY <2>0, <2>1, <2>2, <2>3, <2>4, <2>5, NeverIs DEF windowEvents
<1>3. \A i \in DOMAIN log' : /\ i > job'[r].upto => job'[r].todo \cup job'[r].to \subseteq log'[i].mid
                             /\ i <= job'[r].upto /\ log'[i].proc \in job'[r].gone => i \in veiled'
  BY <1>0 DEF RunSkip
<1>4. \A v \in job'[r].to : \A i \in DOMAIN log' : covered(v, i)'
  BY <1>0, <1>2
<1> QED
  BY <1>0, <1>1, <1>3, <1>4 DEF RunSkip

\* The mark moves the cursor past what is mailed or need not be.
LEMMA MarkSkip ==
    ASSUME TypeInv, Grows, CursorSkip, NEW r \in Runs, RunSkip(r), markDigestSent(r)
    PROVE  CursorSkip'
<1> SUFFICES ASSUME NEW u \in Users, NEW i \in 1..cursor'[u] PROVE covered(u, i)'
  BY DEF CursorSkip
<1>0. /\ cursor'[u] = IF u \in job[r].to THEN Len(log) ELSE cursor[u]
      /\ cursor[u] \in 0..Len(log) /\ Len(log) \in Nat /\ DOMAIN log = 1..Len(log)
  BY MarkIs, LogIs DEF TypeInv, TypeOK
<1>1. CASE u \in job[r].to
  BY <1>0, <1>1, CoveredStays DEF RunSkip
<1>2. CASE u \notin job[r].to
  <2>1. i \in DOMAIN log /\ covered(u, i)
    BY <1>0, <1>2 DEF CursorSkip
  <2> QED
    BY <2>1, CoveredStays
<1> QED
  BY <1>1, <1>2

\* A run that ended knows nothing.
LEMMA EndSkip ==
    ASSUME NEW r \in Runs, job'[r] = IdleRun
    PROVE  RunSkip(r)'
BY IdleRunIs DEF RunSkip

LEMMA NextSkip == TypeInv /\ HiddenInv /\ SkipInv /\ [Next]_vars => SkipInv'
<1> SUFFICES ASSUME TypeInv, HiddenInv, SkipInv, [Next]_vars PROVE SkipInv'
  OBVIOUS
<1>0. Grows /\ CursorSkip /\ \A r \in Runs : RunSkip(r)
  BY StepGrows DEF SkipInv
<1>1. ASSUME job' = job, cursor' = cursor, DOMAIN log' = DOMAIN log PROVE SkipInv'
  <2>1. \A r \in Runs : RunSkip(r)'
    BY <1>0, <1>1, RunKeeps
  <2> QED
    BY <1>0, <1>1, <2>1, CursorKeeps DEF SkipInv
<1>2. ASSUME NEW r \in Runs, Others(r), RunSkip(r)', cursor' = cursor, log' = log PROVE SkipInv'
  <2>1. \A s \in Runs \ {r} : RunSkip(s)'
    BY <1>0, <1>2, RunKeeps DEF Others
  <2>2. CursorSkip'
    BY <1>0, <1>2, CursorKeeps
  <2> QED
    BY <1>2, <2>1, <2>2 DEF SkipInv
<1>3. ASSUME Tick PROVE SkipInv'
  BY <1>1, <1>3, TickIs
<1>4. ASSUME NEW p \in Procs, Record(p) PROVE SkipInv'
  <2>1. \A r \in Runs : RunSkip(r)'
    BY <1>0, <1>4, RecordSkip
  <2>2. CursorSkip'
    BY <1>0, <1>4, CursorKeeps, RecordIs
  <2> QED
    BY <2>1, <2>2 DEF SkipInv
<1>5. ASSUME NEW p \in Procs, NEW s \in {"hidden", "public"}, SetStatus(p, s) PROVE SkipInv'
  BY <1>1, <1>5, SetStatusIs
<1>6. ASSUME NEW u \in Users, Subscribe(u) PROVE SkipInv'
  BY <1>1, <1>6, SubscribeIs
<1>7. ASSUME NEW r \in Runs, start(r) PROVE SkipInv'
  BY <1>0, <1>2, <1>7, StartIs, StartSkip
<1>8. ASSUME NEW r \in Runs, getEventsSince(r) PROVE SkipInv'
  BY <1>0, <1>2, <1>8, GetEventsIs, GetEventsSkip
<1>9. ASSUME NEW r \in Runs, getHiddenProcessIds(r) PROVE SkipInv'
  BY <1>0, <1>2, <1>9, GetHiddenIs, GetHiddenSkip
<1>10. ASSUME NEW r \in Runs, NEW u \in Users, SkipUser(r, u) \/ NotSent(r, u) PROVE SkipInv'
  <2>1. /\ Others(r) /\ log' = log /\ cursor' = cursor
        /\ job'[r].users = job[r].users /\ job'[r].upto = job[r].upto /\ job'[r].gone = job[r].gone
        /\ job'[r].to \subseteq job[r].to /\ job'[r].todo \subseteq job[r].todo
        /\ job'[r].pc = job[r].pc
    BY <1>10, SkipUserIs, NotSentIs DEF in
  <2>2. RunSkip(r)'
    BY <1>0, <2>1, RunKeeps
  <2> QED
    BY <1>2, <2>1, <2>2
<1>11. ASSUME NEW r \in Runs, NEW u \in Users, SendEmail(r, u) PROVE SkipInv'
  BY <1>0, <1>2, <1>11, SendEmailIs, SendSkip
<1>12. ASSUME NEW r \in Runs, markDigestSent(r) \/ MarkFails(r) PROVE Others(r) /\ RunSkip(r)'
  <2>1. /\ Others(r) /\ log' = log
        /\ job'[r].users = job[r].users /\ job'[r].upto = job[r].upto /\ job'[r].gone = job[r].gone
        /\ job'[r].to \subseteq job[r].to /\ job'[r].todo \subseteq job[r].todo
        /\ job[r].pc \in {"users", "mark"} /\ job'[r].pc \in {"users", "mark"}
    BY <1>12, MarkIs, MarkFailsIs DEF in
  <2> QED
    BY <1>0, <2>1, RunKeeps
<1>13. ASSUME NEW r \in Runs, markDigestSent(r) PROVE SkipInv'
  <2>1. \A s \in Runs \ {r} : RunSkip(s)'
    BY <1>0, <1>13, RunKeeps, MarkIs DEF Others
  <2>2. CursorSkip'
    BY <1>0, <1>13, MarkSkip
  <2> QED
    BY <1>12, <1>13, <2>1, <2>2 DEF SkipInv
<1>14. ASSUME NEW r \in Runs, MarkFails(r) PROVE SkipInv'
  BY <1>2, <1>12, <1>14, MarkFailsIs
<1>15. ASSUME NEW r \in Runs, RunEnds(r) \/ RunDies(r) PROVE SkipInv'
  BY <1>2, <1>15, EndIs, EndSkip
<1>16. CASE UNCHANGED vars
  BY <1>1, <1>16 DEF vars
<1>17. CASE Next
  <2>1. ASSUME Scheduled PROVE start(Cron)
    BY <2>1 DEF Scheduled
  <2>2. ASSUME NEW r \in ByHand, Forced(r) PROVE start(r)
    BY <2>2 DEF Forced
  <2> QED
    BY <1>3, <1>4, <1>5, <1>6, <1>7, <1>8, <1>9, <1>10, <1>11, <1>13, <1>14, <1>15, <1>17, <2>1, <2>2,
       RunsAre DEF Next, RunStep
<1> QED
  BY <1>16, <1>17

LEMMA InitSkip == Init => HiddenInv /\ SkipInv
<1> SUFFICES ASSUME Init PROVE HiddenInv /\ SkipInv
  OBVIOUS
<1>1. log = <<>> /\ DOMAIN log = {} /\ \A u \in Users : cursor[u] = 0
  BY DEF Init
<1>2. \A r \in Runs : job[r] = IdleRun
  BY DEF Init
<1>3. \A r \in Runs : RunSkip(r)
  BY <1>2, IdleRunIs DEF RunSkip
<1>4. \A u \in Users : 1..cursor[u] = {}
  BY <1>1
<1> QED
  BY <1>1, <1>3, <1>4 DEF HiddenInv, SkipInv, CursorSkip

\* A cursor passes no event that should have been told: it moves after a mail, to what
\* is recorded then, and what that mail did not have was hidden, past the window, or
\* recorded when a run had read the log and not yet marked its user; however runs
\* overlap, fail and are cut off.
THEOREM SkipsNothing == Spec => []NoneSkipped
<1>1. SkipInv => NoneSkipped
  BY DEF SkipInv, CursorSkip, covered, NoneSkipped
<1>2. Spec => Init /\ [][Next]_vars
  BY PTL DEF Spec
<1> QED
  BY <1>1, <1>2, TypeAlways, InitSkip, NextHidden, NextSkip, PTL

-----------------------------------------------------------------------------
(***************************************************************************)
(* UnshownNotMailed.                                                       *)
(***************************************************************************)
\* The steps that mail nothing and read nothing that is hidden.
LEMMA KeepsShown ==
    ASSUME TypeInv, ShownInv, Grows, DOMAIN log' = DOMAIN log, status' = status, shown' = shown, inbox' = inbox,
           blind => blind',
           \A r \in Runs :
              \/ job'[r].pc \notin {"users", "mark"}
              \/ /\ job[r].pc \in {"users", "mark"}
                 /\ job'[r].upto = job[r].upto /\ job'[r].gone = job[r].gone
    PROVE  ShownInv'
<1>1. \A i \in DOMAIN log : log'[i].proc = log[i].proc
  BY DEF Grows
<1>2. /\ \A p \in Procs : status'[p] = "public" => p \in shown'
      /\ \A i \in DOMAIN log' : status'[log'[i].proc] # "none"
  BY <1>1 DEF ShownInv
<1>3. ~blind' => \A r \in Runs : job'[r].pc \in {"users", "mark"} =>
          \A i \in DOMAIN log' : i <= job'[r].upto => log'[i].proc \in job'[r].gone \cup shown'
  BY <1>1 DEF ShownInv
<1>4. UnshownNotMailed'
  BY <1>1 DEF ShownInv, UnshownNotMailed
<1> QED
  BY <1>2, <1>3, <1>4 DEF ShownInv

\* An event is recorded of a process that is public, so was shown, or hidden; no run has read it.
LEMMA RecordShown ==
    ASSUME TypeInv, ShownInv, InboxInv, Grows, NEW p \in Procs, Record(p)
    PROVE  ShownInv'
<1>0. /\ job' = job /\ status' = status /\ shown' = shown /\ inbox' = inbox /\ blind' = blind
      /\ DOMAIN log' = DOMAIN log \cup {Len(log')} /\ Len(log') = Len(log) + 1 /\ Len(log) \in Nat
      /\ log'[Len(log')].proc = p /\ status[p] # "none" /\ Len(log') <= MaxEvents
  BY RecordIs, LogIs
<1>1. \A i \in DOMAIN log : log'[i].proc = log[i].proc
  BY DEF Grows
<1>2. /\ \A o \in Procs : status'[o] = "public" => o \in shown'
      /\ \A i \in DOMAIN log' : status'[log'[i].proc] # "none"
  BY <1>0, <1>1 DEF ShownInv
<1>3. \A r \in Runs : ~(Len(log') <= job'[r].upto)
  <2> SUFFICES ASSUME NEW r \in Runs PROVE ~(Len(log') <= job[r].upto)
    BY <1>0
  <2>1. job[r].upto \in 0..Len(log)
    BY RunIs
  <2> QED
    BY <1>0, <2>1
<1>4. ~blind' => \A r \in Runs : job'[r].pc \in {"users", "mark"} =>
          \A i \in DOMAIN log' : i <= job'[r].upto => log'[i].proc \in job'[r].gone \cup shown'
  BY <1>0, <1>1, <1>3 DEF ShownInv
<1>5. UnshownNotMailed'
  <2>1. \A u \in Users : ~(inbox'[u][Len(log')] > 0)
    <3>1. Len(log') \in Events /\ ~(Len(log') <= Len(log))
      BY <1>0, DigestAssumption DEF Events
    <3> QED
      BY <1>0, <3>1 DEF InboxInv
  <2> QED
    BY <1>0, <1>1, <2>1 DEF ShownInv, UnshownNotMailed
<1> QED
  BY <1>2, <1>4, <1>5 DEF ShownInv

LEMMA SetStatusShown ==
    ASSUME TypeInv, ShownInv, NEW p \in Procs, NEW s \in {"hidden", "public"}, SetStatus(p, s)
    PROVE  ShownInv'
<1>0. /\ status'[p] = s /\ \A o \in Procs \ {p} : status'[o] = status[o]
      /\ shown \subseteq shown' /\ (s = "public" => p \in shown')
      /\ log' = log /\ job' = job /\ inbox' = inbox /\ blind' = blind
  BY SetStatusIs
<1>1. \A o \in Procs : status'[o] = "public" => o \in shown'
  BY <1>0 DEF ShownInv
<1>2. \A i \in DOMAIN log' : status'[log'[i].proc] # "none"
  BY <1>0, LogIs DEF ShownInv
<1>3. ~blind' => \A r \in Runs : job'[r].pc \in {"users", "mark"} =>
          \A i \in DOMAIN log' : i <= job'[r].upto => log'[i].proc \in job'[r].gone \cup shown'
  BY <1>0 DEF ShownInv
<1>4. UnshownNotMailed'
  BY <1>0 DEF ShownInv, UnshownNotMailed
<1> QED
  BY <1>1, <1>2, <1>3, <1>4 DEF ShownInv

\* What is neither hidden when the run looks nor shown before has no events.
LEMMA GetHiddenShown ==
    ASSUME TypeInv, ShownInv, Grows, NEW r \in Runs, getHiddenProcessIds(r)
    PROVE  ShownInv'
<1>0. /\ Others(r) /\ log' = log /\ status' = status /\ shown' = shown /\ inbox' = inbox
      /\ \/ job'[r].gone = {p \in Procs : status[p] = "hidden"} /\ blind' = blind
         \/ blind' = TRUE
  BY GetHiddenIs
<1>1. /\ \A p \in Procs : status'[p] = "public" => p \in shown'
      /\ \A i \in DOMAIN log' : status'[log'[i].proc] # "none"
  BY <1>0 DEF ShownInv
<1>2. ~blind' => \A s \in Runs : job'[s].pc \in {"users", "mark"} =>
          \A i \in DOMAIN log' : i <= job'[s].upto => log'[i].proc \in job'[s].gone \cup shown'
  <2> SUFFICES ASSUME ~blind', NEW s \in Runs, job'[s].pc \in {"users", "mark"},
                      NEW i \in DOMAIN log, i <= job'[s].upto
               PROVE  log[i].proc \in job'[s].gone \cup shown
    BY <1>0
  <2>1. CASE s = r
    <3>1. log[i].proc \in Procs /\ status[log[i].proc] # "none"
      BY LogIs DEF ShownInv
    <3>2. status[log[i].proc] \in {"hidden", "public"}
      BY <3>1 DEF TypeInv, TypeOK
    <3> QED
      BY <1>0, <2>1, <3>1, <3>2 DEF ShownInv
  <2>2. CASE s # r
    BY <1>0, <2>2 DEF ShownInv, Others
  <2> QED
    BY <2>1, <2>2
<1>3. UnshownNotMailed'
  BY <1>0 DEF ShownInv, UnshownNotMailed
<1> QED
  BY <1>1, <1>2, <1>3 DEF ShownInv

\* A mail has only what the run does not leave out.
LEMMA SendShown ==
    ASSUME TypeInv, ShownInv, NEW r \in Runs, NEW u \in Users, SendEmail(r, u)
    PROVE  ShownInv'
<1>0. /\ job[r].pc = "users" /\ Others(r) /\ job'[r].upto = job[r].upto /\ job'[r].gone = job[r].gone
      /\ \A v \in Users \ {u} : inbox'[v] = inbox[v]
      /\ \A i \in Events : i \notin windowEvents(job[r], u) => inbox'[u][i] = inbox[u][i]
      /\ log' = log /\ status' = status /\ shown' = shown /\ blind' = blind
  BY SendEmailIs DEF in
<1>1. /\ \A p \in Procs : status'[p] = "public" => p \in shown'
      /\ \A i \in DOMAIN log' : status'[log'[i].proc] # "none"
  BY <1>0 DEF ShownInv
<1>2. ~blind' => \A s \in Runs : job'[s].pc \in {"users", "mark"} =>
          \A i \in DOMAIN log' : i <= job'[s].upto => log'[i].proc \in job'[s].gone \cup shown'
  BY <1>0 DEF ShownInv, Others
<1>3. UnshownNotMailed'
  <2> SUFFICES ASSUME ~blind, NEW v \in Users, NEW i \in DOMAIN log, inbox'[v][i] > 0
               PROVE  log[i].proc \in shown
    BY <1>0 DEF UnshownNotMailed
  <2>1. CASE v = u /\ i \in windowEvents(job[r], u)
    BY <1>0, <2>1 DEF windowEvents, ShownInv
  <2>2. CASE ~(v = u /\ i \in windowEvents(job[r], u))
    <3>1. i \in Events
      <4>1. i \in 1..Len(log) /\ Len(log) \in Nat /\ Len(log) <= MaxEvents /\ MaxEvents \in Nat
        BY LogIs, DigestAssumption DEF TypeInv
      <4> QED
        BY <4>1 DEF Events
    <3>2. inbox[v][i] > 0
      BY <1>0, <2>2, <3>1
    <3> QED
      BY <3>2 DEF ShownInv, UnshownNotMailed
  <2> QED
    BY <2>1, <2>2
<1> QED
  BY <1>1, <1>2, <1>3 DEF ShownInv

LEMMA NextShown == TypeInv /\ InboxInv /\ ShownInv /\ [Next]_vars => ShownInv'
<1> SUFFICES ASSUME TypeInv, InboxInv, ShownInv, [Next]_vars PROVE ShownInv'
  OBVIOUS
<1>0. Grows
  BY StepGrows
<1>1. ASSUME job' = job, DOMAIN log' = DOMAIN log, status' = status, shown' = shown, inbox' = inbox, blind' = blind
      PROVE  ShownInv'
  BY <1>0, <1>1, KeepsShown
<1>2. ASSUME NEW r \in Runs, Others(r), log' = log, status' = status, shown' = shown, inbox' = inbox, blind' = blind,
             \/ job'[r].pc \notin {"users", "mark"}
             \/ /\ job[r].pc \in {"users", "mark"}
                /\ job'[r].upto = job[r].upto /\ job'[r].gone = job[r].gone
      PROVE  ShownInv'
  <2>1. \A s \in Runs :
              \/ job'[s].pc \notin {"users", "mark"}
              \/ /\ job[s].pc \in {"users", "mark"}
                 /\ job'[s].upto = job[s].upto /\ job'[s].gone = job[s].gone
    BY <1>2 DEF Others
  <2> QED
    BY <1>0, <1>2, <2>1, KeepsShown
<1>3. ASSUME Tick PROVE ShownInv'
  BY <1>1, <1>3, TickIs DEF history
<1>4. ASSUME NEW p \in Procs, Record(p) PROVE ShownInv'
  BY <1>0, <1>4, RecordShown
<1>5. ASSUME NEW p \in Procs, NEW s \in {"hidden", "public"}, SetStatus(p, s) PROVE ShownInv'
  BY <1>5, SetStatusShown
<1>6. ASSUME NEW u \in Users, Subscribe(u) PROVE ShownInv'
  BY <1>1, <1>6, SubscribeIs DEF history
<1>7. ASSUME NEW r \in Runs, start(r) PROVE ShownInv'
  BY <1>2, <1>7, StartIs
<1>8. ASSUME NEW r \in Runs, getEventsSince(r) PROVE ShownInv'
  BY <1>2, <1>8, GetEventsIs DEF history
<1>9. ASSUME NEW r \in Runs, getHiddenProcessIds(r) PROVE ShownInv'
  BY <1>0, <1>9, GetHiddenShown
<1>10. ASSUME NEW r \in Runs, NEW u \in Users, SkipUser(r, u) \/ NotSent(r, u) PROVE ShownInv'
  <2>1. /\ Others(r) /\ log' = log /\ status' = status /\ shown' = shown /\ inbox' = inbox /\ blind' = blind
        /\ job[r].pc \in {"users", "mark"} /\ job'[r].upto = job[r].upto /\ job'[r].gone = job[r].gone
    BY <1>10, SkipUserIs, NotSentIs DEF in, history
  <2> QED
    BY <1>2, <2>1
<1>11. ASSUME NEW r \in Runs, NEW u \in Users, SendEmail(r, u) PROVE ShownInv'
  BY <1>11, SendShown
<1>12. ASSUME NEW r \in Runs, markDigestSent(r) \/ MarkFails(r) PROVE ShownInv'
  <2>1. /\ Others(r) /\ log' = log /\ status' = status /\ shown' = shown /\ inbox' = inbox /\ blind' = blind
        /\ job[r].pc \in {"users", "mark"} /\ job'[r].upto = job[r].upto /\ job'[r].gone = job[r].gone
    BY <1>12, MarkIs, MarkFailsIs DEF in, history
  <2> QED
    BY <1>2, <2>1
<1>13. ASSUME NEW r \in Runs, RunEnds(r) \/ RunDies(r) PROVE ShownInv'
  <2>1. job'[r].pc \notin {"users", "mark"}
    BY <1>13, EndIs, IdleRunIs
  <2> QED
    BY <1>2, <1>13, <2>1, EndIs
<1>14. CASE UNCHANGED vars
  BY <1>1, <1>14 DEF vars, history
<1>15. CASE Next
  <2>1. ASSUME Scheduled PROVE start(Cron)
    BY <2>1 DEF Scheduled
  <2>2. ASSUME NEW r \in ByHand, Forced(r) PROVE start(r)
    BY <2>2 DEF Forced
  <2> QED
    BY <1>3, <1>4, <1>5, <1>6, <1>7, <1>8, <1>9, <1>10, <1>11, <1>12, <1>13, <1>15, <2>1, <2>2,
       RunsAre DEF Next, RunStep
<1> QED
  BY <1>14, <1>15

LEMMA InitShown == Init => ShownInv
<1> SUFFICES ASSUME Init PROVE ShownInv
  OBVIOUS
<1>1. DOMAIN log = {} /\ \A p \in Procs : status[p] = "none"
  BY DEF Init
<1>2. \A r \in Runs : job[r].pc = "idle"
  BY IdleRunIs DEF Init
<1> QED
  BY <1>1, <1>2 DEF ShownInv, UnshownNotMailed

\* What was never public is nobody's mail: a process has no events before it is hidden
\* or public, and a run looks up what is hidden after it read the events.
THEOREM MailsOnlyShown == Spec => []UnshownNotMailed
<1>1. ShownInv => UnshownNotMailed
  BY DEF ShownInv
<1>2. Spec => Init /\ [][Next]_vars
  BY PTL DEF Spec
<1> QED
  BY <1>1, <1>2, TypeAlways, InboxAlways, InitShown, NextShown, PTL

=============================================================================
