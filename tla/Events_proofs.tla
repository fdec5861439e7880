---------------------------- MODULE Events_proofs ----------------------------
(***************************************************************************)
(* Proofs about Events: for any people, requests, limits and ends, in and  *)
(* out of production, whatever requests are in flight together, fail or    *)
(* die half way.                                                           *)
(***************************************************************************)
EXTENDS Events, FiniteSetTheorems, SequenceTheorems, TLAPS

Texts == [words : Nat, layout : {0, 1}]

Rows == [status : Statuses, version : Nat, text : Texts, when : Ends, cap : Limits,
         cancelled : BOOLEAN, early : BOOLEAN, prev : Statuses \cup {"none"}]

Listings == [listed : BOOLEAN, archived : BOOLEAN, text : Texts, when : Ends, cap : Limits \cup {0},
             cancelled : BOOLEAN]

\* What an edit has left to do once it is saved.
AfterSave == {<<"index">>, <<"index", "tell">>, <<"index", "record">>, <<"index", "tell", "record">>}

\* What a request of each kind may have left to do.
Plan(q) ==
    \/ q = Idle
    \/ q.kind \in {"publish", "cancel", "close", "going", "not_going", "announce"} /\ q.todo = <<"attempt">>
    \/ q.kind = "publish" /\ q.todo \in {<<"write", "index">>, <<"index">>}
    \/ q.kind = "cancel" /\ q.todo \in {<<"write", "index", "tell">>, <<"index", "tell">>, <<"tell">>}
    \/ q.kind = "close" /\ q.todo \in {<<"claim", "attempt">>, <<"write">>, <<"append">>}
    \/ q.kind = "going" /\ q.todo \in {<<"add", "append">>, <<"add", "refuse">>, <<"append">>, <<"refuse">>}
    \/ q.kind = "not_going" /\ q.todo \in {<<"remove", "append">>, <<"remove", "refuse">>, <<"append">>, <<"refuse">>}
    \/ q.kind = "announce" /\ q.todo \in {<<"append", "tell">>, <<"tell">>}
    \/ q.kind \in {"archive", "restore"} /\ q.todo \in {<<"write", "flag">>, <<"flag">>}
    \/ q.kind = "edit" /\ q.todo \in {<<"submit">>, <<"tell">>, <<"record">>, <<"tell", "record">>}
    \/ q.kind = "edit" /\ q.todo \in AfterSave
    \/ q.kind = "edit" /\ q.todo \in {<<"save", "index">>, <<"save", "index", "tell">>, <<"save", "index", "record">>,
                                     <<"save", "index", "tell", "record">>}

Todos ==
    {<<>>, <<"attempt">>, <<"write", "index">>, <<"index">>, <<"write", "index", "tell">>, <<"index", "tell">>,
     <<"tell">>, <<"claim", "attempt">>, <<"write">>, <<"append">>, <<"add", "append">>, <<"add", "refuse">>,
     <<"refuse">>, <<"remove", "append">>, <<"remove", "refuse">>, <<"append", "tell">>, <<"write", "flag">>,
     <<"flag">>, <<"submit">>, <<"record">>, <<"tell", "record">>, <<"index", "record">>,
     <<"index", "tell", "record">>, <<"save", "index">>, <<"save", "index", "tell">>,
     <<"save", "index", "record">>, <<"save", "index", "tell", "record">>}

RequestRecords ==
    [todo : Todos, kind : Kinds, caller : {"system", "admin", "resident"}, who : SUBSET People,
     copy : Rows, next : Rows, tries : Nat]

RequestOK(q) ==
    /\ q \in RequestRecords /\ Plan(q)
    /\ q.todo # <<>> /\ q.kind \in {"going", "not_going"} => \E p \in People : q.who = {p}

TypeInv ==
    /\ production \in BOOLEAN /\ row \in Rows /\ cal \in Listings
    /\ going \subseteq People /\ owed \subseteq going
    /\ now \in Nat /\ requests \in Nat
    /\ claim \in BOOLEAN /\ unlisted \in BOOLEAN /\ undeclared \in BOOLEAN /\ broken \in BOOLEAN
    /\ had \in [times : SUBSET Ends, limits : SUBSET Limits, edits : Nat]
    /\ log \in [going : Nat, notGoing : Nat, announced : Nat, edits : Nat]
    /\ told \in [cancelled : SUBSET People, times : SUBSET Ends, announcements : Nat]
    /\ req \in [Requests -> RequestRecords]
    /\ \A t \in Requests : RequestOK(req[t])

\* An archived row knows what it was, and only an archived one does.
PrevInv ==
    /\ row.status = "archived" => row.prev \in Statuses \ {"archived"}
    /\ row.prev # "none" => row.status = "archived" \/ undeclared

\* What a write would make of the row that was read.
Target(q) ==
    CASE q.kind = "publish" -> [q.copy EXCEPT !.status = "active"]
      [] q.kind = "cancel" -> [q.copy EXCEPT !.status = "closed", !.cancelled = TRUE]
      [] q.kind = "close" -> [q.copy EXCEPT !.status = "closed", !.early = q.next.early]
      [] q.kind = "archive" -> [q.copy EXCEPT !.status = "archived", !.prev = q.copy.status]
      [] q.kind = "restore" -> [q.copy EXCEPT !.status = q.copy.prev, !.prev = "none"]

first(q) == IF q.todo = <<>> THEN "none" ELSE Head(q.todo)

\* A request that is about to write knows an earlier version of the row, or the row.
CopyInv ==
    \A t \in Requests :
        /\ first(req[t]) \in {"write", "save"} =>
              req[t].copy.version <= row.version /\ (req[t].copy.version = row.version => req[t].copy = row)
        /\ first(req[t]) = "write" =>
              /\ req[t].next = Target(req[t])
              /\ req[t].kind = "archive" => req[t].copy.status # "archived"
              /\ req[t].kind = "restore" => req[t].copy.status = "archived"
        /\ first(req[t]) = "save" =>
              /\ req[t].next = [req[t].copy EXCEPT !.text = req[t].next.text, !.when = req[t].next.when,
                                                   !.cap = req[t].next.cap]
              /\ req[t].todo = editCalls(req[t])

\* A cancelled event is closed, or was when it was archived.
CancelInv ==
    row.cancelled => undeclared \/ row.status = "closed" \/ (row.status = "archived" /\ row.prev = "closed")

\* What is about to be put on the calendar, or mailed, was written.
SavedInv ==
    /\ row.cap \in had.limits /\ (cal.listed => cal.cap \in had.limits)
    /\ \A t \in Requests :
          /\ first(req[t]) = "index" => req[t].next.cap \in had.limits
          /\ first(req[t]) \in {"index", "tell"} /\ req[t].kind = "edit" => req[t].next.when \in had.times
          /\ first(req[t]) \in {"index", "tell"} /\ req[t].kind = "cancel" => row.cancelled

\* The cancellations whose mail has not been sent.
Telling == {t \in Requests : req[t].kind = "cancel" /\ first(req[t]) \in {"index", "tell"}}

Announcing == {t \in Requests : req[t].kind = "announce" /\ first(req[t]) = "tell"}

ToldInv ==
    /\ broken \/ owed \subseteq told.cancelled \/ Telling # {}
    /\ told.cancelled # {} => row.cancelled
    /\ told.times \subseteq had.times
    /\ told.announcements + Cardinality(Announcing) <= log.announced

\* The joins, the leaves and the edits not yet on record.
Owes(kind) == {t \in Requests : req[t].kind = kind /\ first(req[t]) \in {"append", "refuse"}}
ToRecord == {<<"index", "tell", "record">>, <<"index", "record">>, <<"tell", "record">>, <<"record">>}
Unrecorded == {t \in Requests : req[t].kind = "edit" /\ req[t].todo \in ToRecord}

RecordInv ==
    broken \/ /\ log.going + Cardinality(Owes("going"))
                   = log.notGoing + Cardinality(Owes("not_going")) + Cardinality(going)
              /\ log.edits + Cardinality(Unrecorded) = had.edits

-----------------------------------------------------------------------------
(***************************************************************************)
(* What a request has left to do.                                          *)
(***************************************************************************)
\* The last call of a request.
LEMMA LastCalls ==
    /\ <<"attempt">> # <<>> /\ Head(<<"attempt">>) = "attempt" /\ Tail(<<"attempt">>) = <<>>
    /\ <<"index">> # <<>> /\ Head(<<"index">>) = "index" /\ Tail(<<"index">>) = <<>>
    /\ <<"tell">> # <<>> /\ Head(<<"tell">>) = "tell" /\ Tail(<<"tell">>) = <<>>
    /\ <<"write">> # <<>> /\ Head(<<"write">>) = "write" /\ Tail(<<"write">>) = <<>>
    /\ <<"append">> # <<>> /\ Head(<<"append">>) = "append" /\ Tail(<<"append">>) = <<>>
    /\ <<"refuse">> # <<>> /\ Head(<<"refuse">>) = "refuse" /\ Tail(<<"refuse">>) = <<>>
    /\ <<"flag">> # <<>> /\ Head(<<"flag">>) = "flag" /\ Tail(<<"flag">>) = <<>>
    /\ <<"submit">> # <<>> /\ Head(<<"submit">>) = "submit" /\ Tail(<<"submit">>) = <<>>
    /\ <<"record">> # <<>> /\ Head(<<"record">>) = "record" /\ Tail(<<"record">>) = <<>>
OBVIOUS

\* The first call of a longer list, and what comes after it.
LEMMA FirstCalls ==
    /\ <<"write", "index">> # <<>> /\ Head(<<"write", "index">>) = "write" /\ Tail(<<"write", "index">>) = <<"index">>
    /\ <<"write", "index", "tell">> # <<>> /\ Head(<<"write", "index", "tell">>) = "write" /\ Tail(<<"write", "index", "tell">>) = <<"index", "tell">>
    /\ <<"index", "tell">> # <<>> /\ Head(<<"index", "tell">>) = "index" /\ Tail(<<"index", "tell">>) = <<"tell">>
    /\ <<"claim", "attempt">> # <<>> /\ Head(<<"claim", "attempt">>) = "claim" /\ Tail(<<"claim", "attempt">>) = <<"attempt">>
    /\ <<"add", "append">> # <<>> /\ Head(<<"add", "append">>) = "add" /\ Tail(<<"add", "append">>) = <<"append">>
    /\ <<"add", "refuse">> # <<>> /\ Head(<<"add", "refuse">>) = "add" /\ Tail(<<"add", "refuse">>) = <<"refuse">>
    /\ <<"remove", "append">> # <<>> /\ Head(<<"remove", "append">>) = "remove" /\ Tail(<<"remove", "append">>) = <<"append">>
    /\ <<"remove", "refuse">> # <<>> /\ Head(<<"remove", "refuse">>) = "remove" /\ Tail(<<"remove", "refuse">>) = <<"refuse">>
    /\ <<"append", "tell">> # <<>> /\ Head(<<"append", "tell">>) = "append" /\ Tail(<<"append", "tell">>) = <<"tell">>
    /\ <<"write", "flag">> # <<>> /\ Head(<<"write", "flag">>) = "write" /\ Tail(<<"write", "flag">>) = <<"flag">>
    /\ <<"tell", "record">> # <<>> /\ Head(<<"tell", "record">>) = "tell" /\ Tail(<<"tell", "record">>) = <<"record">>
    /\ <<"index", "record">> # <<>> /\ Head(<<"index", "record">>) = "index" /\ Tail(<<"index", "record">>) = <<"record">>
    /\ <<"index", "tell", "record">> # <<>> /\ Head(<<"index", "tell", "record">>) = "index" /\ Tail(<<"index", "tell", "record">>) = <<"tell", "record">>
    /\ <<"save", "index">> # <<>> /\ Head(<<"save", "index">>) = "save" /\ Tail(<<"save", "index">>) = <<"index">>
    /\ <<"save", "index", "tell">> # <<>> /\ Head(<<"save", "index", "tell">>) = "save" /\ Tail(<<"save", "index", "tell">>) = <<"index", "tell">>
    /\ <<"save", "index", "record">> # <<>> /\ Head(<<"save", "index", "record">>) = "save" /\ Tail(<<"save", "index", "record">>) = <<"index", "record">>
    /\ <<"save", "index", "tell", "record">> # <<>> /\ Head(<<"save", "index", "tell", "record">>) = "save" /\ Tail(<<"save", "index", "tell", "record">>) = <<"index", "tell", "record">>
OBVIOUS

\* Who makes a call, and what it has left to do after it.
LEMMA Calls ==
    ASSUME NEW q, Plan(q), q.todo # <<>>
    PROVE  \/ Head(q.todo) = "claim" /\ q.kind = "close" /\ Tail(q.todo) = <<"attempt">>
           \/ /\ Head(q.todo) = "attempt" /\ Tail(q.todo) = <<>>
              /\ q.kind \in {"publish", "cancel", "close", "going", "not_going", "announce"}
           \/ Head(q.todo) = "write" /\ q.kind = "publish" /\ Tail(q.todo) = <<"index">>
           \/ Head(q.todo) = "write" /\ q.kind = "cancel" /\ Tail(q.todo) = <<"index", "tell">>
           \/ Head(q.todo) = "write" /\ q.kind = "close" /\ Tail(q.todo) = <<>>
           \/ Head(q.todo) = "write" /\ q.kind \in {"archive", "restore"} /\ Tail(q.todo) = <<"flag">>
           \/ Head(q.todo) = "index" /\ q.kind = "publish" /\ Tail(q.todo) = <<>>
           \/ Head(q.todo) = "index" /\ q.kind = "cancel" /\ Tail(q.todo) = <<"tell">>
           \/ Head(q.todo) = "index" /\ q.kind = "edit"
              /\ Tail(q.todo) \in {<<>>, <<"tell">>, <<"record">>, <<"tell", "record">>}
           \/ Head(q.todo) = "tell" /\ q.kind \in {"cancel", "announce"} /\ Tail(q.todo) = <<>>
           \/ Head(q.todo) = "tell" /\ q.kind = "edit" /\ Tail(q.todo) \in {<<>>, <<"record">>}
           \/ Head(q.todo) = "append" /\ q.kind \in {"close", "going", "not_going"} /\ Tail(q.todo) = <<>>
           \/ Head(q.todo) = "append" /\ q.kind = "announce" /\ Tail(q.todo) = <<"tell">>
           \/ Head(q.todo) = "add" /\ q.kind = "going" /\ Tail(q.todo) \in {<<"append">>, <<"refuse">>}
           \/ Head(q.todo) = "remove" /\ q.kind = "not_going" /\ Tail(q.todo) \in {<<"append">>, <<"refuse">>}
           \/ Head(q.todo) = "refuse" /\ q.kind \in {"going", "not_going"} /\ Tail(q.todo) = <<>>
           \/ Head(q.todo) = "flag" /\ q.kind \in {"archive", "restore"} /\ Tail(q.todo) = <<>>
           \/ Head(q.todo) = "submit" /\ q.kind = "edit" /\ Tail(q.todo) = <<>>
           \/ Head(q.todo) = "save" /\ q.kind = "edit" /\ Tail(q.todo) \in AfterSave
           \/ Head(q.todo) = "record" /\ q.kind = "edit" /\ Tail(q.todo) = <<>>
<1>1. CASE q.kind \in {"publish", "cancel", "close", "going", "not_going", "announce"} /\ q.todo = <<"attempt">>
  BY <1>1, LastCalls, FirstCalls
<1>2. CASE q.kind = "publish" /\ q.todo \in {<<"write", "index">>, <<"index">>}
  BY <1>2, LastCalls, FirstCalls
<1>3. CASE q.kind = "cancel" /\ q.todo \in {<<"write", "index", "tell">>, <<"index", "tell">>, <<"tell">>}
  BY <1>3, LastCalls, FirstCalls
<1>4. CASE q.kind = "close" /\ q.todo \in {<<"claim", "attempt">>, <<"write">>, <<"append">>}
  BY <1>4, LastCalls, FirstCalls
<1>5. CASE q.kind = "going" /\ q.todo \in {<<"add", "append">>, <<"add", "refuse">>, <<"append">>, <<"refuse">>}
  BY <1>5, LastCalls, FirstCalls
<1>6. CASE q.kind = "not_going" /\ q.todo \in {<<"remove", "append">>, <<"remove", "refuse">>, <<"append">>, <<"refuse">>}
  BY <1>6, LastCalls, FirstCalls
<1>7. CASE q.kind = "announce" /\ q.todo \in {<<"append", "tell">>, <<"tell">>}
  BY <1>7, LastCalls, FirstCalls
<1>8. CASE q.kind \in {"archive", "restore"} /\ q.todo \in {<<"write", "flag">>, <<"flag">>}
  BY <1>8, LastCalls, FirstCalls
<1>9. CASE q.kind = "edit" /\ q.todo \in {<<"submit">>, <<"tell">>, <<"record">>, <<"tell", "record">>}
  BY <1>9, LastCalls, FirstCalls
<1>10. CASE q.kind = "edit" /\ q.todo \in AfterSave
  BY <1>10, LastCalls, FirstCalls DEF AfterSave
<1>11. CASE q.kind = "edit" /\ q.todo \in {<<"save", "index">>, <<"save", "index", "tell">>, <<"save", "index", "record">>,
                                   <<"save", "index", "tell", "record">>}
  BY <1>11, LastCalls, FirstCalls DEF AfterSave
<1> QED
  BY <1>1, <1>2, <1>3, <1>4, <1>5, <1>6, <1>7, <1>8, <1>9, <1>10, <1>11 DEF Plan, Idle

-----------------------------------------------------------------------------
(***************************************************************************)
(* What a step does to the requests.                                       *)
(***************************************************************************)
\* A row as submitted is a row, and a thread with nothing to do has no request.
LEMMA IdleIs ==
    /\ \A status \in Statuses : initialRow(status) \in Rows
    /\ Idle \in RequestRecords /\ RequestOK(Idle) /\ Idle.todo = <<>>
<1>1. \A status \in Statuses : initialRow(status) \in Rows
  BY EventsAssumption DEF initialRow, Rows, Texts, firstText
<1>2. initialRow("active") \in Rows
  BY <1>1 DEF Statuses
<1>3. Idle \in RequestRecords /\ Idle.todo = <<>>
  BY <1>2 DEF Idle, RequestRecords, Todos, Kinds
<1> QED
  BY <1>1, <1>3 DEF RequestOK, Plan

\* One request's record is replaced; one with nothing left to do is gone.
LEMMA Replaced ==
    ASSUME TypeInv, NEW t \in Requests, NEW q, becomes(t, q)
    PROVE  /\ req'[t] = IF q.todo = <<>> THEN Idle ELSE q
           /\ \A s \in Requests \ {t} : req'[s] = req[s]
           /\ q.todo = <<>> \/ RequestOK(q) =>
                req' \in [Requests -> RequestRecords] /\ \A s \in Requests : RequestOK(req'[s])
<1>1. req'[t] = (IF q.todo = <<>> THEN Idle ELSE q) /\ \A s \in Requests \ {t} : req'[s] = req[s]
  BY DEF TypeInv, becomes
<1>2. ASSUME q.todo = <<>> \/ RequestOK(q)
      PROVE  req' \in [Requests -> RequestRecords] /\ \A s \in Requests : RequestOK(req'[s])
  <2> DEFINE p == IF q.todo = <<>> THEN Idle ELSE q
  <2>1. RequestOK(p) /\ p \in RequestRecords
    BY <1>2, IdleIs DEF RequestOK
  <2>2. req' = [req EXCEPT ![t] = p]
    BY DEF becomes
  <2> HIDE DEF p
  <2> QED
    BY <2>1, <2>2 DEF TypeInv
<1> QED
  BY <1>1, <1>2

LEMMA Ended ==
    ASSUME TypeInv, NEW t \in Requests, ends(t)
    PROVE  /\ req'[t] = Idle /\ \A s \in Requests \ {t} : req'[s] = req[s]
           /\ req' \in [Requests -> RequestRecords] /\ \A s \in Requests : RequestOK(req'[s])
BY Replaced, IdleIs DEF ends

\* A request goes on to its next call, carrying what it carried.
LEMMA Proceeded ==
    ASSUME TypeInv, NEW t \in Requests, ~idle(t), proceeds(t), Head(req[t].todo) \notin {"write", "save"}
    PROVE  /\ \/ Tail(req[t].todo) = <<>> /\ req'[t] = Idle
              \/ /\ Tail(req[t].todo) # <<>> /\ req'[t].todo = Tail(req[t].todo)
                 /\ req'[t].kind = req[t].kind /\ req'[t].who = req[t].who /\ req'[t].tries = req[t].tries
                 /\ req'[t].copy = req[t].copy /\ req'[t].next = req[t].next
           /\ \A s \in Requests \ {t} : req'[s] = req[s]
           /\ req' \in [Requests -> RequestRecords] /\ \A s \in Requests : RequestOK(req'[s])
<1> DEFINE r == Tail(req[t].todo)
           q == [req[t] EXCEPT !.todo = r]
<1>1. req[t] \in RequestRecords /\ RequestOK(req[t]) /\ Plan(req[t]) /\ req[t].todo # <<>>
  BY DEF TypeInv, RequestOK, idle
<1>2. /\ q.todo = r /\ q.kind = req[t].kind /\ q.who = req[t].who /\ q.tries = req[t].tries
      /\ q.copy = req[t].copy /\ q.next = req[t].next
  BY <1>1 DEF RequestRecords
<1>3. becomes(t, q)
  BY DEF proceeds
<1>4. ASSUME r # <<>> PROVE RequestOK(q)
  <2>1. \/ q.kind = "close" /\ r = <<"attempt">>
        \/ q.kind = "cancel" /\ r = <<"tell">>
        \/ q.kind = "edit" /\ r \in {<<"tell">>, <<"record">>, <<"tell", "record">>}
        \/ q.kind = "announce" /\ r = <<"tell">>
        \/ q.kind \in {"going", "not_going"} /\ r \in {<<"append">>, <<"refuse">>}
    BY <1>1, <1>2, <1>4, Calls
  <2> HIDE DEF r, q
  <2>2. Plan(q)
    BY <1>2, <2>1 DEF Plan
  <2>3. r \in Todos
    BY <2>1 DEF Todos
  <2>4. q \in RequestRecords
    BY <1>1, <2>3 DEF q, RequestRecords
  <2> QED
    BY <1>1, <1>2, <2>2, <2>4 DEF RequestOK
<1> HIDE DEF q
<1> QED
  BY <1>2, <1>3, <1>4, Replaced

\* A request whose write went through keeps only what it wrote.
LEMMA Committed ==
    ASSUME TypeInv, NEW t \in Requests, ~idle(t), committed(t), Head(req[t].todo) \in {"write", "save"}
    PROVE  /\ \/ Tail(req[t].todo) = <<>> /\ req'[t] = Idle
              \/ /\ Tail(req[t].todo) # <<>> /\ req'[t].todo = Tail(req[t].todo)
                 /\ req'[t].kind = req[t].kind /\ req'[t].next = req[t].next
           /\ \A s \in Requests \ {t} : req'[s] = req[s]
           /\ req' \in [Requests -> RequestRecords] /\ \A s \in Requests : RequestOK(req'[s])
<1> DEFINE r == Tail(req[t].todo)
           q == [Idle EXCEPT !.todo = r, !.kind = req[t].kind, !.next = req[t].next]
<1>1. req[t] \in RequestRecords /\ RequestOK(req[t]) /\ Plan(req[t]) /\ req[t].todo # <<>>
  BY DEF TypeInv, RequestOK, idle
<1>2. Idle \in RequestRecords
  BY IdleIs
<1>3. q.todo = r /\ q.kind = req[t].kind /\ q.next = req[t].next
  BY <1>2 DEF RequestRecords
<1>4. becomes(t, q)
  BY DEF committed
<1>5. ASSUME r # <<>> PROVE RequestOK(q)
  <2>1. \/ q.kind = "publish" /\ r = <<"index">>
        \/ q.kind = "cancel" /\ r = <<"index", "tell">>
        \/ q.kind \in {"archive", "restore"} /\ r = <<"flag">>
        \/ q.kind = "edit" /\ r \in AfterSave
    BY <1>1, <1>3, <1>5, Calls
  <2> HIDE DEF r, q
  <2>2. Plan(q)
    BY <1>3, <2>1 DEF Plan
  <2>3. r \in Todos
    BY <2>1 DEF Todos, AfterSave
  <2>4. q \in RequestRecords
    BY <1>1, <1>2, <2>3 DEF q, RequestRecords
  <2> QED
    BY <1>3, <2>1, <2>2, <2>4 DEF RequestOK
<1> HIDE DEF q
<1> QED
  BY <1>3, <1>4, <1>5, Replaced

-----------------------------------------------------------------------------
(***************************************************************************)
(* A request begins, and an action or an edit is worked out.               *)
(***************************************************************************)
\* An edit is saved and put on the calendar, then mailed and recorded if need be.
LEMMA EditCalls ==
    ASSUME NEW q
    PROVE  editCalls(q) = IF q.next.when # q.copy.when
                          THEN IF formattingOnly(q) THEN <<"save", "index", "tell">>
                               ELSE <<"save", "index", "tell", "record">>
                          ELSE IF formattingOnly(q) THEN <<"save", "index">> ELSE <<"save", "index", "record">>
<1>1. <<"save", "index">> \o <<>> = <<"save", "index">>
  OBVIOUS
<1>2. <<"save", "index">> \o <<"tell">> = <<"save", "index", "tell">>
  <2> DEFINE s == <<"save", "index">> \o <<"tell">>  u == <<"save", "index", "tell">>
  <2>1. s \in Seq({"save", "index", "tell"}) /\ u \in Seq({"save", "index", "tell"})
    OBVIOUS
  <2>2. Len(s) = 3 /\ Len(u) = 3
    OBVIOUS
  <2>3. s[1] = "save" /\ s[2] = "index" /\ s[3] = "tell"
    OBVIOUS
  <2>4. \A i \in 1..Len(s) : s[i] = u[i]
    BY <2>2, <2>3
  <2> HIDE DEF s, u
  <2>5. s = u
    BY <2>1, <2>2, <2>4, SeqEqual
  <2> QED
    BY <2>5 DEF s, u
<1>3. \A x \in {<<"save", "index">>, <<"save", "index", "tell">>} : x \o <<>> = x
  OBVIOUS
<1>4. <<"save", "index">> \o <<"record">> = <<"save", "index", "record">>
  <2> DEFINE s == <<"save", "index">> \o <<"record">>  u == <<"save", "index", "record">>
  <2>1. s \in Seq({"save", "index", "record"}) /\ u \in Seq({"save", "index", "record"})
    OBVIOUS
  <2>2. Len(s) = 3 /\ Len(u) = 3
    OBVIOUS
  <2>3. s[1] = "save" /\ s[2] = "index" /\ s[3] = "record"
    OBVIOUS
  <2>4. \A i \in 1..Len(s) : s[i] = u[i]
    BY <2>2, <2>3
  <2> HIDE DEF s, u
  <2>5. s = u
    BY <2>1, <2>2, <2>4, SeqEqual
  <2> QED
    BY <2>5 DEF s, u
<1>5. <<"save", "index", "tell">> \o <<"record">> = <<"save", "index", "tell", "record">>
  <2> DEFINE s == <<"save", "index", "tell">> \o <<"record">>  u == <<"save", "index", "tell", "record">>
  <2>1. s \in Seq({"save", "index", "tell", "record"}) /\ u \in Seq({"save", "index", "tell", "record"})
    OBVIOUS
  <2>2. Len(s) = 4 /\ Len(u) = 4
    OBVIOUS
  <2>3. s[1] = "save" /\ s[2] = "index" /\ s[3] = "tell" /\ s[4] = "record"
    OBVIOUS
  <2>4. \A i \in 1..Len(s) : s[i] = u[i]
    BY <2>2, <2>3
  <2> HIDE DEF s, u
  <2>5. s = u
    BY <2>1, <2>2, <2>4, SeqEqual
  <2> QED
    BY <2>5 DEF s, u
<1>6. CASE q.next.when # q.copy.when
  <2>1. editCalls(q) = <<"save", "index", "tell">> \o (IF formattingOnly(q) THEN <<>> ELSE <<"record">>)
    BY <1>2, <1>6 DEF editCalls
  <2> QED
    BY <2>1, <1>3, <1>5, <1>6
<1>7. CASE q.next.when = q.copy.when
  <2>1. editCalls(q) = <<"save", "index">> \o (IF formattingOnly(q) THEN <<>> ELSE <<"record">>)
    BY <1>1, <1>7 DEF editCalls
  <2> QED
    BY <2>1, <1>3, <1>4, <1>7
<1> QED
  BY <1>6, <1>7

\* A request begins with nothing read, but for an admin's takedown and its undoing.
LEMMA Arrived ==
    ASSUME TypeInv, PrevInv, NEW t \in Requests, Ask(t)
    PROVE  /\ idle(t)
           /\ UNCHANGED <<production, row, cal, going, claim, now, log, told, owed, had, unlisted, undeclared, broken>>
           /\ requests' \in Nat
           /\ \A s \in Requests \ {t} : req'[s] = req[s]
           /\ req' \in [Requests -> RequestRecords] /\ \A s \in Requests : RequestOK(req'[s])
           /\ req'[t].todo # <<>>
           /\ \/ Head(req'[t].todo) \in {"attempt", "claim"}
              \/ Head(req'[t].todo) = "submit" /\ req'[t].copy = row
              \/ /\ Head(req'[t].todo) = "write" /\ req'[t].kind \in {"archive", "restore"}
                 /\ req'[t].copy = row /\ req'[t].next = Target(req'[t])
                 /\ req'[t].kind = "archive" => row.status # "archived"
                 /\ req'[t].kind = "restore" => row.status = "archived"
<1> DEFINE begins(q) ==
             \/ Head(q.todo) \in {"attempt", "claim"}
             \/ Head(q.todo) = "submit" /\ q.copy = row
             \/ /\ Head(q.todo) = "write" /\ q.kind \in {"archive", "restore"}
                /\ q.copy = row /\ q.next = Target(q)
                /\ q.kind = "archive" => row.status # "archived"
                /\ q.kind = "restore" => row.status = "archived"
<1>0. Idle \in RequestRecords /\ row \in Rows
  BY IdleIs DEF TypeInv
<1>1. ASSUME NEW q, arrives(t, q), q.todo # <<>>, RequestOK(q), begins(q)
      PROVE  /\ idle(t)
             /\ UNCHANGED <<production, row, cal, going, claim, now, log, told, owed, had, unlisted, undeclared, broken>>
             /\ requests' \in Nat
             /\ \A s \in Requests \ {t} : req'[s] = req[s]
             /\ req' \in [Requests -> RequestRecords] /\ \A s \in Requests : RequestOK(req'[s])
             /\ req'[t].todo # <<>> /\ begins(req'[t])
  <2>1. idle(t) /\ becomes(t, q) /\ requests' = requests + 1
        /\ UNCHANGED <<production, row, cal, going, claim, now, log, told, owed, had, unlisted, undeclared, broken>>
    BY <1>1 DEF arrives
  <2>2. requests' \in Nat
    BY <2>1 DEF TypeInv
  <2>3. req'[t] = q
    BY <1>1, <2>1, Replaced
  <2> HIDE DEF begins
  <2> QED
    BY <1>1, <2>1, <2>2, <2>3, Replaced
<1>2. ASSUME NEW kind, NEW caller \in {"resident", "admin"}, NEW who \in SUBSET People, actOnProcess(t, kind, caller, who),
             kind \in {"going", "not_going", "cancel", "announce", "close"},
             kind \in {"going", "not_going"} => \E p \in People : who = {p}
      PROVE  \E q : arrives(t, q) /\ q.todo # <<>> /\ RequestOK(q) /\ begins(q)
  <2> DEFINE q == [Idle EXCEPT !.todo = <<"attempt">>, !.kind = kind, !.caller = caller, !.who = who]
  <2>1. q.todo = <<"attempt">> /\ q.kind = kind /\ q.who = who /\ q \in RequestRecords
    BY <1>0, <1>2 DEF RequestRecords, Todos, Kinds
  <2>2. arrives(t, q)
    BY <1>2 DEF actOnProcess
  <2> HIDE DEF q
  <2>3. Plan(q)
    BY <1>2, <2>1 DEF Plan
  <2> QED
    BY <1>2, <2>1, <2>2, <2>3, LastCalls DEF RequestOK
<1>3. ASSUME Approve(t)
      PROVE  \E q : arrives(t, q) /\ q.todo # <<>> /\ RequestOK(q) /\ begins(q)
  <2> DEFINE q == [Idle EXCEPT !.todo = <<"attempt">>, !.kind = "publish"]
  <2>1. q.todo = <<"attempt">> /\ q.kind = "publish" /\ q \in RequestRecords
    BY <1>0 DEF RequestRecords, Todos, Kinds
  <2>2. arrives(t, q)
    BY <1>3 DEF Approve
  <2> HIDE DEF q
  <2>3. Plan(q)
    BY <2>1 DEF Plan
  <2> QED
    BY <2>1, <2>2, <2>3, LastCalls DEF RequestOK
<1>4. ASSUME closeIfExpired(t)
      PROVE  \E q : arrives(t, q) /\ q.todo # <<>> /\ RequestOK(q) /\ begins(q)
  <2> DEFINE q == [Idle EXCEPT !.todo = <<"claim", "attempt">>, !.kind = "close", !.copy = row]
  <2>1. q.todo = <<"claim", "attempt">> /\ q.kind = "close" /\ q \in RequestRecords
    BY <1>0 DEF RequestRecords, Todos, Kinds
  <2>2. arrives(t, q)
    BY <1>4 DEF closeIfExpired
  <2> HIDE DEF q
  <2>3. Plan(q)
    BY <2>1 DEF Plan
  <2> QED
    BY <2>1, <2>2, <2>3, FirstCalls DEF RequestOK
<1>5. ASSUME archiveProcess(t)
      PROVE  \E q : arrives(t, q) /\ q.todo # <<>> /\ RequestOK(q) /\ begins(q)
  <2> DEFINE next == [row EXCEPT !.status = "archived", !.prev = row.status]
             q == [Idle EXCEPT !.todo = <<"write", "flag">>, !.kind = "archive", !.caller = "admin", !.copy = row,
                               !.next = next]
  <2>1. next \in Rows
    BY <1>0 DEF Rows, Statuses
  <2>2. calls("archive") = <<"write", "flag">>
    BY DEF calls
  <2>3. arrives(t, q) /\ row.status # "archived"
    BY <1>5, <2>2 DEF archiveProcess
  <2>5. q.todo = <<"write", "flag">> /\ q.kind = "archive" /\ q.copy = row /\ q.next = next
    BY <1>0 DEF RequestRecords
  <2>6. q.next = Target(q)
    BY <2>5 DEF Target
  <2> HIDE DEF next
  <2>7. q \in RequestRecords
    BY <1>0, <2>1 DEF RequestRecords, Todos, Kinds
  <2> HIDE DEF q
  <2>8. Plan(q)
    BY <2>5 DEF Plan
  <2> QED
    BY <2>3, <2>5, <2>6, <2>7, <2>8, FirstCalls DEF RequestOK
<1>6. ASSUME restoreProcess(t)
      PROVE  \E q : arrives(t, q) /\ q.todo # <<>> /\ RequestOK(q) /\ begins(q)
  <2> DEFINE next == [row EXCEPT !.status = row.prev, !.prev = "none"]
             q == [Idle EXCEPT !.todo = <<"write", "flag">>, !.kind = "restore", !.caller = "admin", !.copy = row,
                               !.next = next]
  <2>1. next \in Rows
    BY <1>0, <1>6 DEF Rows, Statuses, PrevInv, restoreProcess
  <2>2. calls("restore") = <<"write", "flag">>
    BY DEF calls
  <2>3. arrives(t, q) /\ row.status = "archived"
    BY <1>6, <2>2 DEF restoreProcess, restored
  <2>5. q.todo = <<"write", "flag">> /\ q.kind = "restore" /\ q.copy = row /\ q.next = next
    BY <1>0 DEF RequestRecords
  <2>6. q.next = Target(q)
    BY <2>5 DEF Target
  <2> HIDE DEF next
  <2>7. q \in RequestRecords
    BY <1>0, <2>1 DEF RequestRecords, Todos, Kinds
  <2> HIDE DEF q
  <2>8. Plan(q)
    BY <2>5 DEF Plan
  <2> QED
    BY <2>3, <2>5, <2>6, <2>7, <2>8, FirstCalls DEF RequestOK
<1>7. ASSUME startEdit(t)
      PROVE  \E q : arrives(t, q) /\ q.todo # <<>> /\ RequestOK(q) /\ begins(q)
  <2> DEFINE q == [Idle EXCEPT !.todo = <<"submit">>, !.kind = "edit", !.copy = row]
  <2>1. q.todo = <<"submit">> /\ q.kind = "edit" /\ q.copy = row /\ q \in RequestRecords
    BY <1>0 DEF RequestRecords, Todos, Kinds
  <2>2. arrives(t, q)
    BY <1>7 DEF startEdit
  <2> HIDE DEF q
  <2>3. Plan(q)
    BY <2>1 DEF Plan
  <2> QED
    BY <2>1, <2>2, <2>3, LastCalls DEF RequestOK
<1>8. \E q : arrives(t, q) /\ q.todo # <<>> /\ RequestOK(q) /\ begins(q)
  <2> HIDE DEF begins
  <2>1. CASE \E caller \in {"resident", "admin"}, kind \in {"going", "not_going"}, p \in People :
                actOnProcess(t, kind, caller, {p})
    <3>1. PICK caller \in {"resident", "admin"}, kind \in {"going", "not_going"}, p \in People :
                  actOnProcess(t, kind, caller, {p})
      BY <2>1
    <3>2. {p} \in SUBSET People
      OBVIOUS
    <3> QED
      BY <3>1, <3>2, <1>2
  <2>2. CASE \E caller \in {"resident", "admin"}, kind \in {"cancel", "announce", "close"} :
                actOnProcess(t, kind, caller, {})
    <3>1. PICK caller \in {"resident", "admin"}, kind \in {"cancel", "announce", "close"} :
                  actOnProcess(t, kind, caller, {})
      BY <2>2
    <3>2. {} \in SUBSET People
      OBVIOUS
    <3>3. kind \notin {"going", "not_going"}
      BY <3>1
    <3> QED
      BY <3>1, <3>2, <3>3, <1>2
  <2> QED
    BY <2>1, <2>2, <1>3, <1>4, <1>5, <1>6, <1>7 DEF Ask
<1> HIDE DEF begins
<1>9. PICK q : arrives(t, q) /\ q.todo # <<>> /\ RequestOK(q) /\ begins(q)
  BY <1>8
<1>10. begins(req'[t])
  BY <1>1, <1>9
<1> QED
  BY <1>1, <1>9, <1>10 DEF begins

\* What each kind of action has to do.
LEMMA CallsAre ==
    /\ calls("publish") = <<"write", "index">>
    /\ calls("cancel") = <<"write", "index", "tell">>
    /\ calls("close") = <<"write">>
    /\ calls("going") = <<"add", "append">>
    /\ calls("not_going") = <<"remove", "append">>
    /\ calls("announce") = <<"append", "tell">>
BY DEF calls, cancelCalls

\* The handler's work: attendance keeps nothing of what was read, a close of what
\* is closed and an announcement leave the row alone, and the others are about to
\* write what the handler made of the row.
LEMMA Attempted ==
    ASSUME TypeInv, NEW t \in Requests, attemptAction(t)
    PROVE  /\ \A s \in Requests \ {t} : req'[s] = req[s]
           /\ req' \in [Requests -> RequestRecords] /\ \A s \in Requests : RequestOK(req'[s])
           /\ \/ req'[t] = Idle
              \/ req'[t].todo # <<>> /\ req'[t].kind = "going" /\ Head(req'[t].todo) = "add"
              \/ req'[t].todo # <<>> /\ req'[t].kind = "not_going" /\ Head(req'[t].todo) = "remove"
              \/ req'[t].todo # <<>> /\ req'[t].kind \in {"close", "announce"} /\ Head(req'[t].todo) = "append"
              \/ /\ req'[t].todo # <<>> /\ Head(req'[t].todo) = "write"
                 /\ req'[t].kind \in {"publish", "cancel", "close"}
                 /\ req'[t].copy = row /\ req'[t].next = Target(req'[t])
<1> DEFINE ok == allows(req[t].kind, row.status)
           next == handled(req[t])
           goes == [Idle EXCEPT !.kind = req[t].kind, !.who = req[t].who,
                                !.todo = IF ok THEN calls(req[t].kind) ELSE <<Head(calls(req[t].kind)), "refuse">>]
           acts == [req[t] EXCEPT !.copy = row, !.next = next,
                                  !.todo = IF req[t].kind = "close" /\ next = row THEN <<"append">> ELSE calls(req[t].kind)]
           begins(q) ==
              \/ q.todo # <<>> /\ q.kind = "going" /\ Head(q.todo) = "add"
              \/ q.todo # <<>> /\ q.kind = "not_going" /\ Head(q.todo) = "remove"
              \/ q.todo # <<>> /\ q.kind \in {"close", "announce"} /\ Head(q.todo) = "append"
              \/ /\ q.todo # <<>> /\ Head(q.todo) = "write"
                 /\ q.kind \in {"publish", "cancel", "close"}
                 /\ q.copy = row /\ q.next = Target(q)
<1>1. /\ req[t] \in RequestRecords /\ RequestOK(req[t]) /\ Plan(req[t]) /\ req[t].todo # <<>>
      /\ Idle \in RequestRecords /\ row \in Rows /\ Head(req[t].todo) = "attempt"
  BY IdleIs DEF TypeInv, RequestOK, attemptAction, at, idle
<1>2. req[t].kind \in {"publish", "cancel", "close", "going", "not_going", "announce"}
  BY <1>1, Calls
<1>3. \/ becomes(t, Idle)
      \/ req[t].kind \in {"going", "not_going"} /\ becomes(t, goes)
      \/ req[t].kind \notin {"going", "not_going"} /\ becomes(t, acts)
  BY DEF attemptAction
<1>4. ASSUME req[t].kind \in {"going", "not_going"} PROVE RequestOK(goes) /\ begins(goes)
  <2> DEFINE plan == IF ok THEN calls(req[t].kind) ELSE <<Head(calls(req[t].kind)), "refuse">>
  <2>1. \/ req[t].kind = "going" /\ plan \in {<<"add", "append">>, <<"add", "refuse">>}
        \/ req[t].kind = "not_going" /\ plan \in {<<"remove", "append">>, <<"remove", "refuse">>}
    BY <1>4, CallsAre, FirstCalls
  <2> HIDE DEF plan
  <2>2. goes = [Idle EXCEPT !.kind = req[t].kind, !.who = req[t].who, !.todo = plan]
    BY DEF plan
  <2> HIDE DEF goes
  <2>3. plan \in Todos
    BY <2>1 DEF Todos
  <2>4. goes \in RequestRecords /\ goes.kind = req[t].kind /\ goes.who = req[t].who /\ goes.todo = plan
    BY <1>1, <2>2, <2>3 DEF RequestRecords
  <2>5. Plan(goes)
    BY <2>1, <2>4 DEF Plan
  <2>6. \E p \in People : req[t].who = {p}
    BY <1>1, <1>4 DEF RequestOK
  <2> QED
    BY <2>1, <2>4, <2>5, <2>6, FirstCalls DEF RequestOK
<1>5. ASSUME req[t].kind \notin {"going", "not_going"} PROVE RequestOK(acts) /\ begins(acts)
  <2> DEFINE plan == IF req[t].kind = "close" /\ next = row THEN <<"append">> ELSE calls(req[t].kind)
  <2>1. \/ req[t].kind = "publish" /\ plan = <<"write", "index">>
        \/ req[t].kind = "cancel" /\ plan = <<"write", "index", "tell">>
        \/ req[t].kind = "close" /\ plan \in {<<"append">>, <<"write">>}
        \/ req[t].kind = "announce" /\ plan = <<"append", "tell">>
    BY <1>2, <1>5, CallsAre
  <2>2. next \in Rows
    <3>1. CASE req[t].kind = "publish"
      BY <1>1, <3>1 DEF handled, Rows, Statuses
    <3>2. CASE req[t].kind = "cancel"
      BY <1>1, <3>2 DEF handled, Rows, Statuses
    <3>3. CASE req[t].kind = "close"
      BY <1>1, <3>3 DEF handled, Rows, Statuses
    <3>4. CASE req[t].kind = "announce"
      BY <1>1, <3>4 DEF handled
    <3> QED
      BY <1>2, <1>5, <3>1, <3>2, <3>3, <3>4
  <2> HIDE DEF plan
  <2>3. acts = [req[t] EXCEPT !.copy = row, !.next = next, !.todo = plan]
    BY DEF plan
  <2>4. next = handled(req[t])
    OBVIOUS
  <2> HIDE DEF next, acts
  <2>5. plan \in Todos
    BY <2>1 DEF Todos
  <2>6. /\ acts \in RequestRecords /\ acts.kind = req[t].kind /\ acts.who = req[t].who /\ acts.todo = plan
        /\ acts.copy = row /\ acts.next = next
    BY <1>1, <2>2, <2>3, <2>5 DEF RequestRecords
  <2>7. Plan(acts)
    BY <2>1, <2>6 DEF Plan
  <2>8. RequestOK(acts)
    BY <1>5, <2>6, <2>7 DEF RequestOK
  <2>9. ASSUME req[t].kind \in {"publish", "cancel", "close"} PROVE acts.next = Target(acts)
    <3>1. CASE req[t].kind = "publish"
      BY <2>4, <2>6, <3>1 DEF handled, Target
    <3>2. CASE req[t].kind = "cancel"
      BY <2>4, <2>6, <3>2 DEF handled, Target
    <3>3. CASE req[t].kind = "close"
      <4>1. next = [row EXCEPT !.status = "closed", !.early = next.early]
        BY <1>1, <2>4, <3>3 DEF handled, Rows
      <4> QED
        BY <2>6, <3>3, <4>1 DEF Target
    <3> QED
      BY <2>9, <3>1, <3>2, <3>3
  <2> QED
    BY <2>1, <2>6, <2>8, <2>9, FirstCalls, LastCalls
<1>6. Idle.todo = <<>>
  BY IdleIs
<1> HIDE DEF goes, acts
<1>7. CASE becomes(t, Idle)
  BY <1>6, <1>7, Replaced
<1>8. ASSUME NEW q, becomes(t, q), RequestOK(q), begins(q)
      PROVE  /\ \A s \in Requests \ {t} : req'[s] = req[s]
             /\ req' \in [Requests -> RequestRecords] /\ \A s \in Requests : RequestOK(req'[s])
             /\ begins(req'[t])
  <2>1. q.todo # <<>>
    BY <1>8
  <2>2. req'[t] = q
    BY <1>8, <2>1, Replaced
  <2> HIDE DEF begins
  <2> QED
    BY <1>8, <2>2, Replaced
<1> QED
  BY <1>3, <1>4, <1>5, <1>7, <1>8

\* The editor's form, compared with the event as it now is.
LEMMA Submitted ==
    ASSUME TypeInv, NEW t \in Requests, submitEdit(t)
    PROVE  /\ \A s \in Requests \ {t} : req'[s] = req[s]
           /\ req' \in [Requests -> RequestRecords] /\ \A s \in Requests : RequestOK(req'[s])
           /\ \/ req'[t] = Idle
              \/ /\ req'[t].todo # <<>> /\ req'[t].kind = "edit" /\ Head(req'[t].todo) = "save"
                 /\ req'[t].copy = row /\ req'[t].todo = editCalls(req'[t])
                 /\ req'[t].next = [row EXCEPT !.text = req'[t].next.text, !.when = req'[t].next.when,
                                               !.cap = req'[t].next.cap]
<1>1. /\ req[t] \in RequestRecords /\ RequestOK(req[t]) /\ Plan(req[t]) /\ req[t].todo # <<>>
      /\ Idle \in RequestRecords /\ row \in Rows /\ Head(req[t].todo) = "submit" /\ had.edits \in Nat
  BY IdleIs DEF TypeInv, RequestOK, submitEdit, at, idle
<1>2. req[t].kind = "edit"
  BY <1>1, Calls
<1>3. PICK input \in inputs(req[t].copy) :
        LET next == [row EXCEPT !.text = input.text, !.when = input.when, !.cap = input.cap]
            q == [req[t] EXCEPT !.copy = row, !.next = next] IN
        becomes(t, [q EXCEPT !.todo = editCalls(q)]) \/ ends(t)
  BY DEF submitEdit
<1> DEFINE next == [row EXCEPT !.text = input.text, !.when = input.when, !.cap = input.cap]
           q == [req[t] EXCEPT !.copy = row, !.next = next]
           p == [q EXCEPT !.todo = editCalls(q)]
<1>4. input \in Rows
  <2>1. req[t].copy \in Rows
    BY <1>1 DEF RequestRecords
  <2>2. \A n \in 1..MaxTexts : [req[t].copy EXCEPT !.text.words = n] \in Rows
    BY <2>1, EventsAssumption DEF Rows, Texts
  <2>3. [req[t].copy EXCEPT !.text.layout = 1 - @] \in Rows
    BY <2>1 DEF Rows, Texts
  <2>4. \A w \in Ends : [req[t].copy EXCEPT !.when = w] \in Rows
    BY <2>1 DEF Rows
  <2>5. \A c \in Limits : [req[t].copy EXCEPT !.cap = c] \in Rows
    BY <2>1 DEF Rows
  <2> QED
    BY <1>3, <2>2, <2>3, <2>4, <2>5 DEF inputs
<1>5. next \in Rows /\ next.text = input.text /\ next.when = input.when /\ next.cap = input.cap
  BY <1>1, <1>4 DEF Rows
<1>6. next = [row EXCEPT !.text = next.text, !.when = next.when, !.cap = next.cap]
  BY <1>5
<1>7. becomes(t, p) \/ ends(t)
  BY <1>3
<1> HIDE DEF next
<1>8. q \in RequestRecords /\ q.kind = "edit" /\ q.copy = row /\ q.next = next /\ q.who = req[t].who
  BY <1>1, <1>2, <1>5 DEF RequestRecords
<1> HIDE DEF q
<1>9. editCalls(q) \in {<<"save", "index">>, <<"save", "index", "tell">>, <<"save", "index", "record">>,
                        <<"save", "index", "tell", "record">>}
  BY EditCalls
<1>10. p \in RequestRecords /\ p.kind = "edit" /\ p.copy = row /\ p.next = next /\ p.todo = editCalls(q)
  <2>1. editCalls(q) \in Todos
    BY <1>9 DEF Todos
  <2> QED
    BY <1>8, <2>1 DEF RequestRecords
<1> HIDE DEF p
<1>11. editCalls(p) = editCalls(q)
  BY <1>8, <1>10 DEF editCalls, formattingOnly, stateChanged
<1>12. Plan(p) /\ p.todo # <<>> /\ Head(p.todo) = "save"
  BY <1>9, <1>10, FirstCalls DEF Plan
<1>13. RequestOK(p)
  BY <1>10, <1>12 DEF RequestOK
<1>14. CASE ends(t)
  BY <1>14, Ended
<1>15. CASE becomes(t, p)
  <2>1. req'[t] = p
    BY <1>12, <1>15, Replaced
  <2> QED
    BY <1>6, <1>10, <1>11, <1>12, <1>13, <1>15, <2>1, Replaced
<1> QED
  BY <1>7, <1>14, <1>15

\* A write goes through, is tried again from the start, or is given up.
LEMMA Wrote ==
    ASSUME TypeInv, NEW t \in Requests, transitionProcess(t)
    PROVE  /\ \A s \in Requests \ {t} : req'[s] = req[s]
           /\ req' \in [Requests -> RequestRecords] /\ \A s \in Requests : RequestOK(req'[s])
           /\ UNCHANGED <<cal, going, claim, log, told, had, unlisted, broken, production, now, requests, overlapped>>
           /\ \/ /\ row.version = req[t].copy.version /\ row.status = req[t].copy.status
                 /\ row' = [req[t].next EXCEPT !.version = row.version + 1]
                 /\ owed' = IF req[t].kind = "cancel" THEN going ELSE owed
                 /\ undeclared' = (undeclared \/ (req[t].kind \in retry_safe /\ req[t].copy.status \notin declaredFrom(req[t].kind)))
                 /\ \/ Tail(req[t].todo) = <<>> /\ req'[t] = Idle
                    \/ /\ Tail(req[t].todo) # <<>> /\ req'[t].todo = Tail(req[t].todo)
                       /\ req'[t].kind = req[t].kind /\ req'[t].next = req[t].next
              \/ /\ UNCHANGED <<row, owed, undeclared>>
                 /\ \/ req'[t] = Idle
                    \/ req'[t].todo # <<>> /\ Head(req'[t].todo) = "attempt" /\ req'[t].kind = req[t].kind
<1>1. /\ req[t] \in RequestRecords /\ RequestOK(req[t]) /\ Plan(req[t]) /\ req[t].todo # <<>> /\ ~idle(t)
      /\ Head(req[t].todo) = "write"
  BY DEF TypeInv, RequestOK, transitionProcess, at, idle
<1>2. UNCHANGED <<cal, going, claim, log, told, had, unlisted, broken, production, now, requests, overlapped>>
  BY DEF transitionProcess, rest
<1>3. CASE sameVersion(req[t])
  <2>1. /\ row' = [req[t].next EXCEPT !.version = row.version + 1] /\ committed(t)
        /\ owed' = IF req[t].kind = "cancel" THEN going ELSE owed
        /\ undeclared' = (undeclared \/ (req[t].kind \in retry_safe /\ req[t].copy.status \notin declaredFrom(req[t].kind)))
    BY <1>3 DEF transitionProcess
  <2>2. row.version = req[t].copy.version /\ row.status = req[t].copy.status
    BY <1>3 DEF sameVersion
  <2> QED
    BY <1>1, <1>2, <2>1, <2>2, Committed
<1>4. CASE ~sameVersion(req[t])
  <2> DEFINE q == [req[t] EXCEPT !.todo = <<"attempt">>, !.tries = @ + 1]
  <2>1. /\ UNCHANGED <<row, owed, undeclared>>
        /\ \/ req[t].kind \in retry_safe /\ becomes(t, q)
           \/ ends(t)
    BY <1>4 DEF transitionProcess
  <2>2. q \in RequestRecords /\ q.todo = <<"attempt">> /\ q.kind = req[t].kind /\ q.who = req[t].who
    <3> DEFINE again == req[t].tries + 1
    <3>1. again \in Nat /\ <<"attempt">> \in Todos
      BY <1>1 DEF RequestRecords, Todos
    <3>2. q = [req[t] EXCEPT !.todo = <<"attempt">>, !.tries = again]
      OBVIOUS
    <3> HIDE DEF again, q
    <3> QED
      BY <1>1, <3>1, <3>2 DEF RequestRecords
  <2> HIDE DEF q
  <2>3. ASSUME req[t].kind \in retry_safe PROVE RequestOK(q)
    <3>1. Plan(q)
      BY <2>2, <2>3 DEF Plan, retry_safe
    <3>2. q.kind \notin {"going", "not_going"}
      BY <2>2, <2>3 DEF retry_safe
    <3> QED
      BY <2>2, <3>1, <3>2 DEF RequestOK
  <2>4. CASE ends(t)
    BY <1>2, <2>1, <2>4, Ended
  <2>5. CASE req[t].kind \in retry_safe /\ becomes(t, q)
    <3>1. q.todo # <<>> /\ Head(q.todo) = "attempt"
      BY <2>2, LastCalls
    <3>2. req'[t] = q
      BY <2>5, <3>1, Replaced
    <3> QED
      BY <1>2, <2>1, <2>2, <2>3, <2>5, <3>1, <3>2, Replaced
  <2> QED
    BY <2>1, <2>4, <2>5
<1> QED
  BY <1>3, <1>4

-----------------------------------------------------------------------------
(***************************************************************************)
(* What a state is made of.                                                *)
(***************************************************************************)
LEMMA InitType == Init => TypeInv /\ PrevInv
<1> SUFFICES ASSUME Init PROVE TypeInv /\ PrevInv
  OBVIOUS
<1>1. production \in BOOLEAN /\ now \in Nat /\ requests \in Nat /\ going \subseteq People /\ owed \subseteq going
  BY EventsAssumption DEF Init
<1>2. row \in Rows /\ PrevInv
  <2>1. row = initialRow("pending_review") \/ row = initialRow("active")
    BY DEF Init
  <2>2. row.prev = "none" /\ row.status # "archived"
    BY <2>1 DEF initialRow
  <2> QED
    BY <2>1, <2>2, IdleIs DEF Statuses, PrevInv
<1>3. cal \in Listings
  <2>1. NotListed \in Listings
    BY EventsAssumption DEF NotListed, Listings, Texts, firstText
  <2>2. cal = NotListed \/ cal = [NotListed EXCEPT !.listed = TRUE, !.cap = FirstLimit]
    BY DEF Init
  <2> QED
    BY <2>1, <2>2, EventsAssumption DEF Listings
<1>4. claim \in BOOLEAN /\ unlisted \in BOOLEAN /\ undeclared \in BOOLEAN /\ broken \in BOOLEAN
  BY DEF Init
<1>5. /\ had \in [times : SUBSET Ends, limits : SUBSET Limits, edits : Nat]
      /\ log \in [going : Nat, notGoing : Nat, announced : Nat, edits : Nat]
      /\ told \in [cancelled : SUBSET People, times : SUBSET Ends, announcements : Nat]
  BY EventsAssumption DEF Init
<1>6. req = [t \in Requests |-> Idle]
  BY DEF Init
<1>7. req \in [Requests -> RequestRecords] /\ \A t \in Requests : RequestOK(req[t])
  BY <1>6, IdleIs
<1> QED
  BY <1>1, <1>2, <1>3, <1>4, <1>5, <1>7 DEF TypeInv

LEMMA NextType ==
    ASSUME TypeInv, PrevInv, [Next]_vars
    PROVE  TypeInv'
<1> DEFINE requestsOK == req' \in [Requests -> RequestRecords] /\ \A t \in Requests : RequestOK(req'[t])
<1>1. ASSUME NEW t \in Requests, Ask(t) PROVE TypeInv'
  BY <1>1, Arrived DEF TypeInv
<1>2. ASSUME NEW t \in Requests, claimClose(t) PROVE TypeInv'
  <2>1. requestsOK
    <3>1. ~idle(t) /\ Head(req[t].todo) = "claim" /\ (proceeds(t) \/ ends(t))
      BY <1>2 DEF claimClose, at
    <3> QED
      BY <3>1, Proceeded, Ended
  <2>2. claim' \in BOOLEAN /\ row' \in Rows
    <3>1. row \in Rows /\ row.version + 1 \in Nat /\ claim \in BOOLEAN
      BY DEF TypeInv, Rows
    <3>2. UNCHANGED <<claim, row>> \/ (claim' = TRUE /\ row' = [row EXCEPT !.version = row.version + 1])
      BY <1>2 DEF claimClose
    <3> QED
      BY <3>1, <3>2 DEF Rows
  <2>3. UNCHANGED <<cal, going, log, broken, told, owed, had, unlisted, undeclared, production, now, requests>>
    BY <1>2 DEF claimClose, histories, rest
  <2> QED
    BY <2>1, <2>2, <2>3 DEF TypeInv
<1>3. ASSUME NEW t \in Requests, attemptAction(t) PROVE TypeInv'
  <2>1. UNCHANGED <<row, cal, going, claim, log, broken, told, owed, had, unlisted, undeclared, production, now, requests>>
    BY <1>3 DEF attemptAction, histories, rest
  <2> QED
    BY <1>3, <2>1, Attempted DEF TypeInv
<1>4. ASSUME NEW t \in Requests, transitionProcess(t) PROVE TypeInv'
  <2>1. requestsOK
    BY <1>4, Wrote
  <2>2. UNCHANGED <<cal, going, claim, log, told, had, unlisted, broken, production, now, requests, overlapped>>
    BY <1>4, Wrote
  <2>3. row' \in Rows
    <3>1. req[t].next \in Rows /\ row \in Rows
      BY DEF TypeInv, RequestRecords
    <3>2. row' = row \/ row' = [req[t].next EXCEPT !.version = row.version + 1]
      BY <1>4, Wrote
    <3> QED
      BY <3>1, <3>2 DEF Rows
  <2>4. owed' = owed \/ owed' = going
    BY <1>4, Wrote
  <2>5. undeclared' \in BOOLEAN
    BY <1>4, Wrote DEF TypeInv
  <2> QED
    BY <2>1, <2>2, <2>3, <2>4, <2>5 DEF TypeInv
<1>5. ASSUME NEW t \in Requests, appendEvent(t) PROVE TypeInv'
  <2>1. requestsOK
    <3>1. ~idle(t) /\ Head(req[t].todo) = "append" /\ proceeds(t)
      BY <1>5 DEF appendEvent, at
    <3> QED
      BY <3>1, Proceeded
  <2>2. UNCHANGED <<row, cal, going, claim, broken, told, owed, had, unlisted, undeclared, production, now, requests>>
    BY <1>5 DEF appendEvent, histories, rest
  <2>3. log' \in [going : Nat, notGoing : Nat, announced : Nat, edits : Nat]
    BY <1>5 DEF appendEvent, TypeInv
  <2> QED
    BY <2>1, <2>2, <2>3 DEF TypeInv
<1>6. ASSUME NEW t \in Requests, addGoing(t) PROVE TypeInv'
  <2>1. requestsOK
    <3>1. ~idle(t) /\ Head(req[t].todo) = "add" /\ (proceeds(t) \/ ends(t))
      BY <1>6 DEF addGoing, at
    <3> QED
      BY <3>1, Proceeded, Ended
  <2>2. UNCHANGED <<row, cal, claim, log, told, owed, had, undeclared, broken, production, now, requests>>
    BY <1>6 DEF addGoing, rest
  <2>3. req[t].who \subseteq People
    BY DEF TypeInv, RequestRecords
  <2>4. (going' = going \/ going' = going \cup req[t].who) /\ unlisted' \in BOOLEAN
    BY <1>6 DEF addGoing, TypeInv
  <2> QED
    BY <2>1, <2>2, <2>3, <2>4 DEF TypeInv
<1>7. ASSUME NEW t \in Requests, removeGoing(t) PROVE TypeInv'
  <2>1. requestsOK
    <3>1. ~idle(t) /\ Head(req[t].todo) = "remove" /\ (proceeds(t) \/ ends(t))
      BY <1>7 DEF removeGoing, at
    <3> QED
      BY <3>1, Proceeded, Ended
  <2>2. UNCHANGED <<row, cal, claim, log, told, had, unlisted, undeclared, broken, production, now, requests>>
    BY <1>7 DEF removeGoing, rest
  <2>3. \/ going' = going /\ owed' = owed
        \/ going' = going \ req[t].who /\ owed' = owed \ req[t].who
    BY <1>7 DEF removeGoing
  <2> QED
    BY <2>1, <2>2, <2>3 DEF TypeInv
<1>8. ASSUME NEW t \in Requests, checkAgainstDescriptor(t) PROVE TypeInv'
  <2>1. requestsOK
    BY <1>8, Ended DEF checkAgainstDescriptor
  <2>2. UNCHANGED <<row, cal, going, claim, log, told, owed, had, unlisted, undeclared, production, now, requests>>
    BY <1>8 DEF checkAgainstDescriptor, histories, rest
  <2>3. broken' = TRUE
    BY <1>8 DEF checkAgainstDescriptor
  <2> QED
    BY <2>1, <2>2, <2>3 DEF TypeInv
<1>9. ASSUME NEW t \in Requests, writeIndex(t) PROVE TypeInv'
  <2>1. requestsOK
    <3>1. ~idle(t) /\ Head(req[t].todo) = "index" /\ proceeds(t)
      BY <1>9 DEF writeIndex, at
    <3> QED
      BY <3>1, Proceeded
  <2>2. UNCHANGED <<row, going, claim, log, broken, told, owed, had, unlisted, undeclared, production, now, requests>>
    BY <1>9 DEF writeIndex, histories, rest
  <2>3. req[t].next \in Rows
    BY DEF TypeInv, RequestRecords
  <2>4. cal' \in Listings
    BY <1>9, <2>3 DEF writeIndex, upsert, TypeInv, Listings, Rows
  <2> QED
    BY <2>1, <2>2, <2>4 DEF TypeInv
<1>10. ASSUME NEW t \in Requests, tellGoing(t) PROVE TypeInv'
  <2>1. requestsOK
    <3>1. ~idle(t) /\ Head(req[t].todo) = "tell" /\ proceeds(t)
      BY <1>10 DEF tellGoing, at
    <3> QED
      BY <3>1, Proceeded
  <2>2. UNCHANGED <<production, row, cal, going, claim, now, log, owed, had, unlisted, undeclared>>
    BY <1>10 DEF tellGoing
  <2>3. req[t].next.when \in Ends
    BY DEF TypeInv, RequestRecords, Rows
  <2>4. /\ told' \in [cancelled : SUBSET People, times : SUBSET Ends, announcements : Nat]
        /\ broken' \in BOOLEAN /\ requests' \in Nat
    <3>1. /\ told \in [cancelled : SUBSET People, times : SUBSET Ends, announcements : Nat]
          /\ going \subseteq People /\ requests \in Nat /\ broken \in BOOLEAN
      BY DEF TypeInv
    <3>2. \/ told' = [told EXCEPT !.cancelled = told.cancelled \cup going]
          \/ told' = [told EXCEPT !.times = told.times \cup {req[t].next.when}]
          \/ told' = [told EXCEPT !.announcements = told.announcements + 1]
          \/ told' = told
      BY <1>10 DEF tellGoing
    <3>3. told.announcements + 1 \in Nat
      BY <3>1
    <3>4. (broken' = broken \/ broken' = TRUE) /\ (requests' = requests \/ requests' = requests + 1)
      BY <1>10 DEF tellGoing, fails
    <3>5. broken' \in BOOLEAN
      BY <3>1, <3>4
    <3>8. requests' \in Nat
      BY <3>1, <3>4
    <3>6. told.times \cup {req[t].next.when} \in SUBSET Ends /\ told.cancelled \cup going \in SUBSET People
      BY <2>3, <3>1
    <3>7. told' \in [cancelled : SUBSET People, times : SUBSET Ends, announcements : Nat]
      BY <3>1, <3>2, <3>3, <3>6
    <3> QED
      BY <3>5, <3>7, <3>8
  <2> QED
    BY <2>1, <2>2, <2>4 DEF TypeInv
<1>11. ASSUME NEW t \in Requests, setArchived(t) PROVE TypeInv'
  <2>1. requestsOK
    <3>1. ~idle(t) /\ Head(req[t].todo) = "flag" /\ proceeds(t)
      BY <1>11 DEF setArchived, at
    <3> QED
      BY <3>1, Proceeded
  <2>2. UNCHANGED <<row, going, claim, log, broken, told, owed, had, unlisted, undeclared, production, now, requests>>
    BY <1>11 DEF setArchived, histories, rest
  <2>3. cal' \in Listings
    BY <1>11 DEF setArchived, TypeInv, Listings
  <2> QED
    BY <2>1, <2>2, <2>3 DEF TypeInv
<1>12. ASSUME NEW t \in Requests, submitEdit(t) PROVE TypeInv'
  <2>1. UNCHANGED <<production, row, cal, going, claim, now, log, broken, requests, told, owed, had, unlisted, undeclared>>
    BY <1>12 DEF submitEdit, histories
  <2> QED
    BY <1>12, <2>1, Submitted DEF TypeInv
<1>13. ASSUME NEW t \in Requests, applyEdit(t) PROVE TypeInv'
  <2>1. ~idle(t) /\ Head(req[t].todo) = "save"
    BY <1>13 DEF applyEdit, at
  <2>2. UNCHANGED <<cal, going, claim, log, told, owed, unlisted, undeclared, broken, production, now, requests>>
    BY <1>13 DEF applyEdit, rest
  <2>3. CASE writable(req[t])
    <3>1. committed(t) /\ row' = columns(req[t])
      BY <1>13, <2>3 DEF applyEdit
    <3>2. had' = [times |-> had.times \cup {req[t].next.when}, limits |-> had.limits \cup {req[t].next.cap},
                  edits |-> had.edits + (IF formattingOnly(req[t]) THEN 0 ELSE 1)]
      BY <1>13, <2>3 DEF applyEdit
    <3>3. req[t].next \in Rows
      BY DEF TypeInv, RequestRecords
    <3>4. row' \in Rows
      <4>1. row \in Rows /\ row.version + 1 \in Nat
        BY DEF TypeInv, Rows
      <4>2. \/ row' = [req[t].next EXCEPT !.status = row.status, !.version = row.version + 1]
            \/ row' = [row EXCEPT !.text = req[t].next.text, !.version = row.version + 1]
        BY <3>1 DEF columns
      <4> QED
        BY <3>3, <4>1, <4>2 DEF Rows
    <3>5. had' \in [times : SUBSET Ends, limits : SUBSET Limits, edits : Nat]
      BY <3>2, <3>3 DEF TypeInv, Rows
    <3>6. requestsOK
      BY <2>1, <3>1, Committed
    <3> QED
      BY <2>2, <3>4, <3>5, <3>6 DEF TypeInv
  <2>4. CASE ~writable(req[t])
    <3>1. ends(t) /\ UNCHANGED <<row, had>>
      BY <1>13, <2>4 DEF applyEdit
    <3>2. requestsOK
      BY <3>1, Ended
    <3> QED
      BY <2>2, <3>1, <3>2 DEF TypeInv
  <2> QED
    BY <2>3, <2>4
<1>14. ASSUME NEW t \in Requests, recordEdit(t) PROVE TypeInv'
  <2>1. requestsOK
    <3>1. ~idle(t) /\ Head(req[t].todo) = "record" /\ proceeds(t)
      BY <1>14 DEF recordEdit, at
    <3> QED
      BY <3>1, Proceeded
  <2>2. UNCHANGED <<row, cal, going, claim, broken, told, owed, had, unlisted, undeclared, production, now, requests>>
    BY <1>14 DEF recordEdit, histories, rest
  <2>3. log' \in [going : Nat, notGoing : Nat, announced : Nat, edits : Nat]
    BY <1>14 DEF recordEdit, TypeInv
  <2> QED
    BY <2>1, <2>2, <2>3 DEF TypeInv
<1>15. ASSUME NEW t \in Requests, Stops(t) PROVE TypeInv'
  <2>1. requestsOK
    BY <1>15, Ended DEF Stops
  <2>2. UNCHANGED <<production, row, cal, going, claim, now, log, told, owed, had, unlisted, undeclared>>
    BY <1>15 DEF Stops, histories
  <2>3. broken' = TRUE /\ requests' = requests + 1
    BY <1>15 DEF Stops, fails
  <2> QED
    BY <2>1, <2>2, <2>3 DEF TypeInv
<1>16. CASE Tick
  BY <1>16 DEF Tick, TypeInv, histories
<1>17. CASE ClaimLapses
  BY <1>17 DEF ClaimLapses, TypeInv, histories
<1>18. CASE UNCHANGED vars
  BY <1>18 DEF vars, TypeInv
<1> QED
  BY <1>1, <1>2, <1>3, <1>4, <1>5, <1>6, <1>7, <1>8, <1>9, <1>10, <1>11, <1>12, <1>13, <1>14, <1>15, <1>16, <1>17, <1>18
     DEF Next, Step

-----------------------------------------------------------------------------
(***************************************************************************)
(* What a write makes of the row.                                          *)
(***************************************************************************)
\* What comes after a call.
LEMMA Follows ==
    ASSUME NEW q, Plan(q), q.todo # <<>>, Tail(q.todo) # <<>>
    PROVE  \/ Head(q.todo) = "claim" /\ Head(Tail(q.todo)) = "attempt"
           \/ Head(q.todo) = "write" /\ q.kind \in {"publish", "cancel"} /\ Head(Tail(q.todo)) = "index"
           \/ Head(q.todo) = "write" /\ q.kind \in {"archive", "restore"} /\ Head(Tail(q.todo)) = "flag"
           \/ Head(q.todo) = "save" /\ q.kind = "edit" /\ Head(Tail(q.todo)) = "index"
           \/ Head(q.todo) = "index" /\ q.kind = "cancel" /\ Head(Tail(q.todo)) = "tell"
           \/ Head(q.todo) = "index" /\ q.kind = "edit" /\ Head(Tail(q.todo)) \in {"tell", "record"}
           \/ Head(q.todo) = "tell" /\ q.kind = "edit" /\ Head(Tail(q.todo)) = "record"
           \/ Head(q.todo) = "append" /\ q.kind = "announce" /\ Head(Tail(q.todo)) = "tell"
           \/ Head(q.todo) = "add" /\ q.kind = "going" /\ Head(Tail(q.todo)) \in {"append", "refuse"}
           \/ Head(q.todo) = "remove" /\ q.kind = "not_going" /\ Head(Tail(q.todo)) \in {"append", "refuse"}
<1>1. \A r \in AfterSave : Head(r) = "index"
  BY LastCalls, FirstCalls DEF AfterSave
<1> DEFINE c == Head(q.todo)  r == Tail(q.todo)
<1>2. \/ c = "claim" /\ r = <<"attempt">>
      \/ c = "write" /\ q.kind = "publish" /\ r = <<"index">>
      \/ c = "write" /\ q.kind = "cancel" /\ r = <<"index", "tell">>
      \/ c = "write" /\ q.kind \in {"archive", "restore"} /\ r = <<"flag">>
      \/ c = "index" /\ q.kind = "cancel" /\ r = <<"tell">>
      \/ c = "index" /\ q.kind = "edit" /\ r \in {<<"tell">>, <<"record">>, <<"tell", "record">>}
      \/ c = "tell" /\ q.kind = "edit" /\ r = <<"record">>
      \/ c = "append" /\ q.kind = "announce" /\ r = <<"tell">>
      \/ c = "add" /\ q.kind = "going" /\ r \in {<<"append">>, <<"refuse">>}
      \/ c = "remove" /\ q.kind = "not_going" /\ r \in {<<"append">>, <<"refuse">>}
      \/ c = "save" /\ q.kind = "edit" /\ r \in AfterSave
  BY Calls
<1> HIDE DEF c, r
<1>3. \/ c = "claim" /\ Head(r) = "attempt"
      \/ c = "write" /\ q.kind \in {"publish", "cancel"} /\ Head(r) = "index"
      \/ c = "write" /\ q.kind \in {"archive", "restore"} /\ Head(r) = "flag"
      \/ c = "save" /\ q.kind = "edit" /\ Head(r) = "index"
      \/ c = "index" /\ q.kind = "cancel" /\ Head(r) = "tell"
      \/ c = "index" /\ q.kind = "edit" /\ Head(r) \in {"tell", "record"}
      \/ c = "tell" /\ q.kind = "edit" /\ Head(r) = "record"
      \/ c = "append" /\ q.kind = "announce" /\ Head(r) = "tell"
      \/ c = "add" /\ q.kind = "going" /\ Head(r) \in {"append", "refuse"}
      \/ c = "remove" /\ q.kind = "not_going" /\ Head(r) \in {"append", "refuse"}
  BY <1>1, <1>2, LastCalls, FirstCalls
<1> QED
  BY <1>3 DEF c, r

\* A request is left alone, or makes no write next, or has just read the row.
LEMMA Worked ==
    ASSUME TypeInv, PrevInv, [Next]_vars, NEW s \in Requests
    PROVE  \/ req'[s] = req[s]
           \/ first(req'[s]) \notin {"write", "save"}
           \/ /\ first(req'[s]) = "write" /\ row' = row /\ req'[s].copy = row /\ req'[s].next = Target(req'[s])
              /\ req'[s].kind = "archive" => row.status # "archived"
              /\ req'[s].kind = "restore" => row.status = "archived"
           \/ /\ first(req'[s]) = "save" /\ row' = row /\ req'[s].copy = row /\ req'[s].todo = editCalls(req'[s])
              /\ req'[s].next = [row EXCEPT !.text = req'[s].next.text, !.when = req'[s].next.when,
                                            !.cap = req'[s].next.cap]
<1> DEFINE worked ==
           \/ req'[s] = req[s]
           \/ first(req'[s]) \notin {"write", "save"}
           \/ /\ first(req'[s]) = "write" /\ row' = row /\ req'[s].copy = row /\ req'[s].next = Target(req'[s])
              /\ req'[s].kind = "archive" => row.status # "archived"
              /\ req'[s].kind = "restore" => row.status = "archived"
           \/ /\ first(req'[s]) = "save" /\ row' = row /\ req'[s].copy = row /\ req'[s].todo = editCalls(req'[s])
              /\ req'[s].next = [row EXCEPT !.text = req'[s].next.text, !.when = req'[s].next.when,
                                            !.cap = req'[s].next.cap]
<1>0. first(Idle) = "none"
  BY IdleIs DEF first
<1>1. ASSUME NEW t \in Requests, Ask(t) PROVE worked
  <2>1. CASE s # t
    BY <1>1, <2>1, Arrived
  <2>2. CASE s = t
    BY <1>1, <2>2, Arrived DEF first
  <2> QED
    BY <2>1, <2>2
<1>2. ASSUME NEW t \in Requests, attemptAction(t) PROVE worked
  <2>1. CASE s # t
    BY <1>2, <2>1, Attempted
  <2>2. CASE s = t
    <3>1. row' = row
      BY <1>2 DEF attemptAction
    <3> QED
      BY <1>0, <1>2, <2>2, <3>1, Attempted DEF first
  <2> QED
    BY <2>1, <2>2
<1>3. ASSUME NEW t \in Requests, submitEdit(t) PROVE worked
  <2>1. CASE s # t
    BY <1>3, <2>1, Submitted
  <2>2. CASE s = t
    <3>1. row' = row
      BY <1>3 DEF submitEdit
    <3> QED
      BY <1>0, <1>3, <2>2, <3>1, Submitted DEF first
  <2> QED
    BY <2>1, <2>2
<1>4. ASSUME NEW t \in Requests, ~idle(t), Head(req[t].todo) \notin {"write", "save"}, proceeds(t) PROVE worked
  <2>1. CASE s # t
    BY <1>4, <2>1, Proceeded
  <2>2. CASE s = t
    <3>1. Plan(req[t]) /\ req[t].todo # <<>>
      BY <1>4 DEF TypeInv, RequestOK, idle
    <3>2. Tail(req[t].todo) = <<>> \/ Head(Tail(req[t].todo)) \notin {"write", "save"}
      BY <3>1, Follows
    <3> QED
      BY <1>0, <1>4, <2>2, <3>2, Proceeded DEF first
  <2> QED
    BY <2>1, <2>2
<1>5. ASSUME NEW t \in Requests, ~idle(t), Head(req[t].todo) \in {"write", "save"}, committed(t) PROVE worked
  <2>1. CASE s # t
    BY <1>5, <2>1, Committed
  <2>2. CASE s = t
    <3>1. Plan(req[t]) /\ req[t].todo # <<>>
      BY <1>5 DEF TypeInv, RequestOK, idle
    <3>2. Tail(req[t].todo) = <<>> \/ Head(Tail(req[t].todo)) \notin {"write", "save"}
      BY <3>1, Follows
    <3> QED
      BY <1>0, <1>5, <2>2, <3>2, Committed DEF first
  <2> QED
    BY <2>1, <2>2
<1>6. ASSUME NEW t \in Requests, ends(t) PROVE worked
  BY <1>0, <1>6, Ended
<1>7. ASSUME NEW t \in Requests, transitionProcess(t) PROVE worked
  <2>1. CASE s # t
    BY <1>7, <2>1, Wrote
  <2>2. CASE s = t
    <3>1. Plan(req[t]) /\ req[t].todo # <<>> /\ Head(req[t].todo) = "write"
      BY <1>7 DEF transitionProcess, at, idle, TypeInv, RequestOK
    <3>2. Tail(req[t].todo) = <<>> \/ Head(Tail(req[t].todo)) \notin {"write", "save"}
      BY <3>1, Follows
    <3> QED
      BY <1>0, <1>7, <2>2, <3>2, Wrote DEF first
  <2> QED
    BY <2>1, <2>2
<1>8. ASSUME UNCHANGED req PROVE worked
  BY <1>8
<1> HIDE DEF worked
<1>9. ASSUME NEW t \in Requests, Step(t) PROVE worked
  <2>1. CASE claimClose(t)
    BY <2>1, <1>4, <1>6 DEF claimClose, at
  <2>2. CASE appendEvent(t)
    BY <2>2, <1>4 DEF appendEvent, at
  <2>3. CASE addGoing(t)
    BY <2>3, <1>4, <1>6 DEF addGoing, at
  <2>4. CASE removeGoing(t)
    BY <2>4, <1>4, <1>6 DEF removeGoing, at
  <2>5. CASE checkAgainstDescriptor(t)
    BY <2>5, <1>6 DEF checkAgainstDescriptor
  <2>6. CASE writeIndex(t)
    BY <2>6, <1>4 DEF writeIndex, at
  <2>7. CASE tellGoing(t)
    BY <2>7, <1>4 DEF tellGoing, at
  <2>8. CASE setArchived(t)
    BY <2>8, <1>4 DEF setArchived, at
  <2>9. CASE applyEdit(t)
    BY <2>9, <1>5, <1>6 DEF applyEdit, at
  <2>10. CASE recordEdit(t)
    BY <2>10, <1>4 DEF recordEdit, at
  <2> QED
    BY <1>9, <1>2, <1>3, <1>7, <2>1, <2>2, <2>3, <2>4, <2>5, <2>6, <2>7, <2>8, <2>9, <2>10 DEF Step
<1>10. ASSUME NEW t \in Requests, Stops(t) PROVE worked
  BY <1>6, <1>10 DEF Stops
<1>11. ASSUME Tick \/ ClaimLapses \/ UNCHANGED vars PROVE worked
  BY <1>8, <1>11 DEF Tick, ClaimLapses, vars
<1>12. ASSUME \E t \in Requests : Ask(t) \/ Step(t) \/ Stops(t) PROVE worked
  BY <1>1, <1>9, <1>10, <1>12
<1>13. worked
  BY <1>11, <1>12 DEF Next
<1> QED
  BY <1>13 DEF worked

\* The row is left alone, moves by a version with what it says, takes an edit, or
\* takes a write made from what it still is.
LEMMA RowChanges ==
    ASSUME TypeInv, PrevInv, CopyInv, [Next]_vars
    PROVE  \/ row' = row /\ undeclared' = undeclared
           \/ row' = [row EXCEPT !.version = row.version + 1] /\ undeclared' = undeclared
           \/ /\ row'.version = row.version + 1 /\ undeclared' = undeclared
              /\ row'.status = row.status /\ row'.cancelled = row.cancelled /\ row'.prev = row.prev
              /\ \E t \in Requests : applyEdit(t)
           \/ \E t \in Requests :
                /\ transitionProcess(t)
                /\ first(req[t]) = "write" /\ req[t].copy = row /\ req[t].next = Target(req[t])
                /\ req[t].kind = "archive" => row.status # "archived"
                /\ req[t].kind = "restore" => row.status = "archived"
                /\ row' = [Target(req[t]) EXCEPT !.version = row.version + 1]
                /\ undeclared' = (undeclared \/ (req[t].kind \in retry_safe /\ row.status \notin declaredFrom(req[t].kind)))
<1> DEFINE goal ==
           \/ row' = row /\ undeclared' = undeclared
           \/ row' = [row EXCEPT !.version = row.version + 1] /\ undeclared' = undeclared
           \/ /\ row'.version = row.version + 1 /\ undeclared' = undeclared
              /\ row'.status = row.status /\ row'.cancelled = row.cancelled /\ row'.prev = row.prev
              /\ \E t \in Requests : applyEdit(t)
           \/ \E t \in Requests :
                /\ transitionProcess(t)
                /\ first(req[t]) = "write" /\ req[t].copy = row /\ req[t].next = Target(req[t])
                /\ req[t].kind = "archive" => row.status # "archived"
                /\ req[t].kind = "restore" => row.status = "archived"
                /\ row' = [Target(req[t]) EXCEPT !.version = row.version + 1]
                /\ undeclared' = (undeclared \/ (req[t].kind \in retry_safe /\ row.status \notin declaredFrom(req[t].kind)))
<1>1. CASE row' = row /\ undeclared' = undeclared
  BY <1>1
<1>2. ASSUME NEW t \in Requests, claimClose(t) PROVE goal
  <2>1. UNCHANGED row \/ row' = [row EXCEPT !.version = row.version + 1]
    BY <1>2 DEF claimClose
  <2>2. undeclared' = undeclared
    BY <1>2 DEF claimClose, histories
  <2> QED
    BY <2>1, <2>2
<1>3. ASSUME NEW t \in Requests, applyEdit(t) PROVE goal
  <2>1. undeclared' = undeclared
    BY <1>3 DEF applyEdit
  <2>2. CASE ~writable(req[t])
    BY <1>3, <2>1, <2>2 DEF applyEdit
  <2>3. CASE writable(req[t])
    <3>1. row' = columns(req[t]) /\ first(req[t]) = "save"
      BY <1>3, <2>3 DEF applyEdit, at, idle, first
    <3>2. row \in Rows /\ req[t].next \in Rows
      BY DEF TypeInv, RequestRecords
    <3>3. CASE stateChanged(req[t])
      <4>1. req[t].copy = row
        BY <2>3, <3>1, <3>3 DEF writable, CopyInv
      <4>2. req[t].next.cancelled = row.cancelled /\ req[t].next.prev = row.prev
        <5>1. req[t].next = [row EXCEPT !.text = req[t].next.text, !.when = req[t].next.when, !.cap = req[t].next.cap]
          BY <3>1, <4>1 DEF CopyInv
        <5> QED
          BY <3>2, <5>1 DEF Rows
      <4>3. row' = [req[t].next EXCEPT !.status = row.status, !.version = row.version + 1]
        BY <3>1, <3>3 DEF columns
      <4>4. row'.version = row.version + 1 /\ row'.status = row.status /\ row'.cancelled = row.cancelled /\ row'.prev = row.prev
        BY <3>2, <4>2, <4>3 DEF Rows
      <4> QED
        BY <1>3, <2>1, <4>4
    <3>4. CASE ~stateChanged(req[t])
      <4>1. row' = [row EXCEPT !.text = req[t].next.text, !.version = row.version + 1]
        BY <3>1, <3>4 DEF columns
      <4>2. row'.version = row.version + 1 /\ row'.status = row.status /\ row'.cancelled = row.cancelled /\ row'.prev = row.prev
        BY <3>2, <4>1 DEF Rows
      <4> QED
        BY <1>3, <2>1, <4>2
    <3> QED
      BY <3>3, <3>4
  <2> QED
    BY <2>2, <2>3
<1>4. ASSUME NEW t \in Requests, transitionProcess(t) PROVE goal
  <2>1. first(req[t]) = "write"
    BY <1>4 DEF transitionProcess, at, idle, first
  <2>2. CASE UNCHANGED <<row, undeclared>>
    BY <2>2
  <2>3. CASE /\ row.version = req[t].copy.version
             /\ row' = [req[t].next EXCEPT !.version = row.version + 1]
             /\ undeclared' = (undeclared \/ (req[t].kind \in retry_safe /\ req[t].copy.status \notin declaredFrom(req[t].kind)))
    <3>1. /\ req[t].copy = row /\ req[t].next = Target(req[t])
          /\ req[t].kind = "archive" => row.status # "archived"
          /\ req[t].kind = "restore" => row.status = "archived"
      BY <2>1, <2>3 DEF CopyInv
    <3>2. row' = [Target(req[t]) EXCEPT !.version = row.version + 1]
      BY <2>3, <3>1
    <3>3. undeclared' = (undeclared \/ (req[t].kind \in retry_safe /\ row.status \notin declaredFrom(req[t].kind)))
      BY <2>3, <3>1
    <3> QED
      BY <1>4, <2>1, <3>1, <3>2, <3>3
  <2> QED
    BY <1>4, <2>2, <2>3, Wrote
<1>5. ASSUME NEW t \in Requests, Ask(t) PROVE row' = row /\ undeclared' = undeclared
  BY <1>5, Arrived
<1>6. ASSUME NEW t \in Requests, Step(t), ~claimClose(t), ~applyEdit(t), ~transitionProcess(t)
      PROVE  row' = row /\ undeclared' = undeclared
  BY <1>6 DEF Step, attemptAction, appendEvent, addGoing, removeGoing, checkAgainstDescriptor, writeIndex, tellGoing,
             setArchived, submitEdit, recordEdit, histories
<1>7. ASSUME NEW t \in Requests, Stops(t) PROVE row' = row /\ undeclared' = undeclared
  BY <1>7 DEF Stops, histories
<1>8. CASE Tick \/ ClaimLapses \/ UNCHANGED vars
  BY <1>8 DEF Tick, ClaimLapses, vars, histories
<1> HIDE DEF goal
<1>9. goal
  BY <1>1, <1>2, <1>3, <1>4, <1>5, <1>6, <1>7, <1>8 DEF Next, goal
<1> QED
  BY <1>9 DEF goal

-----------------------------------------------------------------------------
(***************************************************************************)
(* What was read, and a cancellation that stays.                           *)
(***************************************************************************)
LEMMA InitCopies == Init => CopyInv /\ CancelInv
<1> SUFFICES ASSUME Init PROVE CopyInv /\ CancelInv
  OBVIOUS
<1>1. \A t \in Requests : first(req[t]) = "none"
  BY IdleIs DEF Init, first
<1>2. row.cancelled = FALSE
  BY DEF Init, initialRow
<1> QED
  BY <1>1, <1>2 DEF CopyInv, CancelInv

LEMMA NextCopies ==
    ASSUME TypeInv, PrevInv, CopyInv, [Next]_vars
    PROVE  CopyInv'
<1> DEFINE knows(q, r) ==
        /\ first(q) \in {"write", "save"} => q.copy.version <= r.version /\ (q.copy.version = r.version => q.copy = r)
        /\ first(q) = "write" =>
              /\ q.next = Target(q)
              /\ q.kind = "archive" => q.copy.status # "archived"
              /\ q.kind = "restore" => q.copy.status = "archived"
        /\ first(q) = "save" =>
              /\ q.next = [q.copy EXCEPT !.text = q.next.text, !.when = q.next.when, !.cap = q.next.cap]
              /\ q.todo = editCalls(q)
<1>1. row' = row \/ row'.version = row.version + 1
  <2>1. row \in Rows
    BY DEF TypeInv
  <2>2. \A t \in Requests : req[t].next \in Rows
    BY DEF TypeInv, RequestRecords
  <2>3. row' = [row EXCEPT !.version = row.version + 1] => row'.version = row.version + 1
    BY <2>1 DEF Rows
  <2>4. ASSUME NEW t \in Requests, req[t].next = Target(req[t]), row' = [Target(req[t]) EXCEPT !.version = row.version + 1]
        PROVE  row'.version = row.version + 1
    <3>1. Target(req[t]) \in Rows
      BY <2>2, <2>4
    <3> HIDE DEF Target
    <3> QED
      BY <2>4, <3>1 DEF Rows
  <2> QED
    BY <2>3, <2>4, RowChanges
<1>2. ASSUME NEW s \in Requests PROVE knows(req'[s], row')
  <2>1. knows(req[s], row)
    BY DEF CopyInv
  <2>2. CASE req'[s] = req[s]
    <3>1. CASE row' = row
      BY <2>1, <2>2, <3>1
    <3>2. CASE row'.version = row.version + 1
      <4>1. req[s].copy.version \in Nat /\ row.version \in Nat
        BY DEF TypeInv, RequestRecords, Rows
      <4>2. first(req[s]) \in {"write", "save"} => req[s].copy.version <= row.version
        BY <2>1
      <4>3. first(req[s]) \in {"write", "save"} => req[s].copy.version <= row'.version /\ req[s].copy.version # row'.version
        BY <3>2, <4>1, <4>2
      <4> QED
        BY <2>1, <2>2, <4>3
    <3> QED
      BY <1>1, <3>1, <3>2
  <2>3. CASE first(req'[s]) \notin {"write", "save"}
    BY <2>3
  <2>4. CASE /\ first(req'[s]) = "write" /\ row' = row /\ req'[s].copy = row /\ req'[s].next = Target(req'[s])
             /\ req'[s].kind = "archive" => row.status # "archived"
             /\ req'[s].kind = "restore" => row.status = "archived"
    <3>1. row.version <= row.version
      BY DEF TypeInv, Rows
    <3> QED
      BY <2>4, <3>1
  <2>5. CASE /\ first(req'[s]) = "save" /\ row' = row /\ req'[s].copy = row /\ req'[s].todo = editCalls(req'[s])
             /\ req'[s].next = [row EXCEPT !.text = req'[s].next.text, !.when = req'[s].next.when,
                                           !.cap = req'[s].next.cap]
    <3>1. row.version <= row.version
      BY DEF TypeInv, Rows
    <3> QED
      BY <2>5, <3>1
  <2> HIDE DEF knows
  <2> QED
    BY <2>2, <2>3, <2>4, <2>5, Worked
<1>3. \A s \in Requests : knows(req'[s], row')
  BY <1>2
<1> QED
  BY <1>3 DEF CopyInv

\* What a write made from the row makes of its status.
LEMMA Targets ==
    ASSUME NEW q, NEW r \in Rows, q.copy = r,
           q.kind \in {"publish", "cancel", "close", "archive", "restore"}
    PROVE  /\ q.kind = "publish" => Target(q).status = "active" /\ Target(q).prev = r.prev /\ Target(q).cancelled = r.cancelled
           /\ q.kind = "cancel" => Target(q).status = "closed" /\ Target(q).prev = r.prev /\ Target(q).cancelled = TRUE
           /\ q.kind = "close" => Target(q).status = "closed" /\ Target(q).prev = r.prev /\ Target(q).cancelled = r.cancelled
           /\ q.kind = "archive" => Target(q).status = "archived" /\ Target(q).prev = r.status /\ Target(q).cancelled = r.cancelled
           /\ q.kind = "restore" => Target(q).status = r.prev /\ Target(q).prev = "none" /\ Target(q).cancelled = r.cancelled
           /\ Target(q).cap = r.cap /\ Target(q).when = r.when
<1>1. CASE q.kind = "publish"
  BY <1>1 DEF Target, Rows
<1>2. CASE q.kind = "cancel"
  BY <1>2 DEF Target, Rows
<1>3. CASE q.kind = "close"
  BY <1>3 DEF Target, Rows
<1>4. CASE q.kind = "archive"
  BY <1>4 DEF Target, Rows
<1>5. CASE q.kind = "restore"
  BY <1>5 DEF Target, Rows
<1> QED
  BY <1>1, <1>2, <1>3, <1>4, <1>5

\* A row moved by a version says what it said.
LEMMA Claimed ==
    ASSUME TypeInv, row' = [row EXCEPT !.version = row.version + 1]
    PROVE  /\ row'.status = row.status /\ row'.prev = row.prev /\ row'.cancelled = row.cancelled
           /\ row'.cap = row.cap /\ row'.when = row.when
BY DEF TypeInv, Rows

LEMMA NextPrev ==
    ASSUME TypeInv, PrevInv, CopyInv, CancelInv, [Next]_vars
    PROVE  PrevInv' /\ CancelInv' /\ (row.cancelled => row'.cancelled)
<1>1. row \in Rows /\ row.version + 1 \in Nat /\ undeclared \in BOOLEAN
  BY DEF TypeInv, Rows
<1>2. CASE row' = row /\ undeclared' = undeclared
  BY <1>2 DEF PrevInv, CancelInv
<1>3. CASE row' = [row EXCEPT !.version = row.version + 1] /\ undeclared' = undeclared
  BY <1>3, Claimed DEF PrevInv, CancelInv
<1>4. CASE /\ undeclared' = undeclared
           /\ row'.status = row.status /\ row'.cancelled = row.cancelled /\ row'.prev = row.prev
  BY <1>4 DEF PrevInv, CancelInv
<1>5. ASSUME NEW t \in Requests, transitionProcess(t),
             first(req[t]) = "write", req[t].copy = row, req[t].next = Target(req[t]),
             req[t].kind = "archive" => row.status # "archived",
             req[t].kind = "restore" => row.status = "archived",
             row' = [Target(req[t]) EXCEPT !.version = row.version + 1],
             undeclared' = (undeclared \/ (req[t].kind \in retry_safe /\ row.status \notin declaredFrom(req[t].kind)))
      PROVE  PrevInv' /\ CancelInv' /\ (row.cancelled => row'.cancelled)
  <2>1. req[t].kind \in {"publish", "cancel", "close", "archive", "restore"}
    <3>1. Plan(req[t]) /\ req[t].todo # <<>> /\ Head(req[t].todo) = "write"
      BY <1>5 DEF transitionProcess, at, idle, TypeInv, RequestOK
    <3> QED
      BY <3>1, Calls
  <2> DEFINE kind == req[t].kind  v == row.version + 1
  <2>2. /\ kind = "publish" => row'.status = "active" /\ row'.prev = row.prev /\ row'.cancelled = row.cancelled
        /\ kind = "cancel" => row'.status = "closed" /\ row'.prev = row.prev /\ row'.cancelled = TRUE
        /\ kind = "close" => row'.status = "closed" /\ row'.prev = row.prev /\ row'.cancelled = row.cancelled
        /\ kind = "archive" => row'.status = "archived" /\ row'.prev = row.status /\ row'.cancelled = row.cancelled
        /\ kind = "restore" => row'.status = row.prev /\ row'.prev = "none" /\ row'.cancelled = row.cancelled
    <3>1. row' = [Target(req[t]) EXCEPT !.version = v] /\ v \in Nat
      BY <1>1, <1>5
    <3>2. req[t].copy = row
      BY <1>5
    <3> DEFINE w == Target(req[t])
    <3>3. w \in Rows
      BY <1>5 DEF TypeInv, RequestRecords
    <3> HIDE DEF v
    <3>4. /\ kind = "publish" => w.status = "active" /\ w.prev = row.prev /\ w.cancelled = row.cancelled
          /\ kind = "cancel" => w.status = "closed" /\ w.prev = row.prev /\ w.cancelled = TRUE
          /\ kind = "close" => w.status = "closed" /\ w.prev = row.prev /\ w.cancelled = row.cancelled
          /\ kind = "archive" => w.status = "archived" /\ w.prev = row.status /\ w.cancelled = row.cancelled
          /\ kind = "restore" => w.status = row.prev /\ w.prev = "none" /\ w.cancelled = row.cancelled
      BY <1>1, <2>1, <3>2, Targets
    <3> HIDE DEF w
    <3>5. row' = [w EXCEPT !.version = v]
      BY <3>1 DEF w
    <3>6. row'.status = w.status /\ row'.prev = w.prev /\ row'.cancelled = w.cancelled
      BY <3>3, <3>5 DEF Rows
    <3> QED
      BY <3>4, <3>6
  <2>3. CASE kind = "publish"
    <3>1. row.status # "pending_review" => undeclared'
      BY <1>5, <2>3 DEF retry_safe, declaredFrom
    <3>2. undeclared => undeclared'
      BY <1>5
    <3> QED
      BY <2>2, <2>3, <3>1, <3>2 DEF PrevInv, CancelInv
  <2>4. CASE kind \in {"cancel", "close"}
    <3>1. row.status # "active" => undeclared'
      BY <1>5, <2>4 DEF retry_safe, declaredFrom
    <3>2. undeclared => undeclared'
      BY <1>5
    <3> QED
      BY <2>2, <2>4, <3>1, <3>2 DEF PrevInv, CancelInv
  <2>5. CASE kind = "archive"
    <3>1. undeclared => undeclared'
      BY <1>5
    <3>2. row.status # "archived" /\ row.status \in Statuses
      BY <1>1, <1>5, <2>5 DEF Rows
    <3> QED
      BY <2>2, <2>5, <3>1, <3>2 DEF PrevInv, CancelInv
  <2>6. CASE kind = "restore"
    <3>1. undeclared => undeclared'
      BY <1>5
    <3>2. row.status = "archived"
      BY <1>5, <2>6
    <3> QED
      BY <2>2, <2>6, <3>1, <3>2 DEF PrevInv, CancelInv
  <2> QED
    BY <2>1, <2>3, <2>4, <2>5, <2>6
<1>6. \/ row' = row /\ undeclared' = undeclared
      \/ row' = [row EXCEPT !.version = row.version + 1] /\ undeclared' = undeclared
      \/ /\ undeclared' = undeclared
         /\ row'.status = row.status /\ row'.cancelled = row.cancelled /\ row'.prev = row.prev
      \/ \E t \in Requests :
           /\ transitionProcess(t)
           /\ first(req[t]) = "write" /\ req[t].copy = row /\ req[t].next = Target(req[t])
           /\ req[t].kind = "archive" => row.status # "archived"
           /\ req[t].kind = "restore" => row.status = "archived"
           /\ row' = [Target(req[t]) EXCEPT !.version = row.version + 1]
           /\ undeclared' = (undeclared \/ (req[t].kind \in retry_safe /\ row.status \notin declaredFrom(req[t].kind)))
  BY RowChanges
<1> QED
  BY <1>2, <1>3, <1>4, <1>5, <1>6

LEMMA AlwaysCopies == Spec => [](TypeInv /\ PrevInv /\ CopyInv /\ CancelInv)
<1>1. Init => TypeInv /\ PrevInv /\ CopyInv /\ CancelInv
  BY InitType, InitCopies
<1>2. TypeInv /\ PrevInv /\ CopyInv /\ CancelInv /\ [Next]_vars => (TypeInv /\ PrevInv /\ CopyInv /\ CancelInv)'
  BY NextType, NextCopies, NextPrev
<1> QED
  BY <1>1, <1>2, PTL DEF Spec

\* Type correctness; an archived row knows what it was, and only an archived one
\* does, but for one an undeclared action took out of the archive.
THEOREM EventTypeCorrect == Spec => []TypeOK
<1>1. TypeInv /\ PrevInv => TypeOK
  <2> SUFFICES ASSUME TypeInv, PrevInv PROVE TypeOK
    OBVIOUS
  <2>1. row.status \in Statuses /\ row.when \in Ends /\ row.cap \in Limits
    BY DEF TypeInv, Rows
  <2>2. going \subseteq People /\ owed \subseteq going
    BY DEF TypeInv
  <2>3. \A t \in Requests : req[t].kind \in Kinds /\ req[t].who \subseteq People
    BY DEF TypeInv, RequestRecords
  <2> QED
    BY <2>1, <2>2, <2>3 DEF TypeOK, PrevInv
<1> QED
  BY <1>1, AlwaysCopies, PTL

\* A cancelled event stays cancelled, and only an action written from a status its
\* descriptor does not name makes it active again: no edit, close, takedown or
\* restore that read it earlier does (transition_process, updateProcessColumnsAtVersion).
THEOREM CancelledStays == Spec => CancellationFinal
<1>1. TypeInv /\ PrevInv /\ CopyInv /\ CancelInv /\ [Next]_vars
        => [row.cancelled => row'.cancelled /\ (undeclared' \/ row'.status # "active")]_vars
  BY NextPrev DEF CancelInv
<1> QED
  BY <1>1, AlwaysCopies, PTL DEF Spec, CancellationFinal

-----------------------------------------------------------------------------
(***************************************************************************)
(* What was written before it is shown or mailed, and how many may go.     *)
(***************************************************************************)
\* Who comes to put something on the calendar or to mail it.
LEMMA Mails ==
    ASSUME TypeInv, PrevInv, CopyInv, [Next]_vars, NEW s \in Requests
    PROVE  \/ req'[s] = req[s]
           \/ first(req'[s]) \notin {"index", "tell"}
           \/ /\ first(req[s]) = "index" /\ first(req'[s]) = "tell"
              /\ req'[s].kind = req[s].kind /\ req'[s].next = req[s].next
           \/ req'[s].kind = "announce"
           \/ /\ first(req[s]) = "write" /\ first(req'[s]) = "index" /\ req[s].kind \in {"publish", "cancel"}
              /\ req'[s].kind = req[s].kind /\ req'[s].next = req[s].next
              /\ req[s].copy = row /\ req[s].next = Target(req[s])
              /\ row' = [req[s].next EXCEPT !.version = row.version + 1]
           \/ /\ first(req[s]) = "save" /\ first(req'[s]) = "index" /\ req'[s].kind = "edit"
              /\ req'[s].next = req[s].next /\ applyEdit(s) /\ writable(req[s])
<1> DEFINE mails ==
           \/ req'[s] = req[s]
           \/ first(req'[s]) \notin {"index", "tell"}
           \/ /\ first(req[s]) = "index" /\ first(req'[s]) = "tell"
              /\ req'[s].kind = req[s].kind /\ req'[s].next = req[s].next
           \/ req'[s].kind = "announce"
           \/ /\ first(req[s]) = "write" /\ first(req'[s]) = "index" /\ req[s].kind \in {"publish", "cancel"}
              /\ req'[s].kind = req[s].kind /\ req'[s].next = req[s].next
              /\ req[s].copy = row /\ req[s].next = Target(req[s])
              /\ row' = [req[s].next EXCEPT !.version = row.version + 1]
           \/ /\ first(req[s]) = "save" /\ first(req'[s]) = "index" /\ req'[s].kind = "edit"
              /\ req'[s].next = req[s].next /\ applyEdit(s) /\ writable(req[s])
<1>0. first(Idle) = "none"
  BY IdleIs DEF first
<1>1. ASSUME NEW t \in Requests, Ask(t) PROVE mails
  <2>1. CASE s # t
    BY <1>1, <2>1, Arrived
  <2>2. CASE s = t
    <3>1. first(req'[s]) \in {"attempt", "claim", "submit", "write"}
      BY <1>1, <2>2, Arrived DEF first
    <3> QED
      BY <3>1
  <2> QED
    BY <2>1, <2>2
<1>2. ASSUME NEW t \in Requests, attemptAction(t) PROVE mails
  <2>1. CASE s # t
    BY <1>2, <2>1, Attempted
  <2>2. CASE s = t
    <3>1. first(req'[s]) \in {"none", "add", "remove", "append", "write"}
      BY <1>0, <1>2, <2>2, Attempted DEF first
    <3> QED
      BY <3>1
  <2> QED
    BY <2>1, <2>2
<1>3. ASSUME NEW t \in Requests, submitEdit(t) PROVE mails
  <2>1. CASE s # t
    BY <1>3, <2>1, Submitted
  <2>2. CASE s = t
    <3>1. first(req'[s]) \in {"none", "save"}
      BY <1>0, <1>3, <2>2, Submitted DEF first
    <3> QED
      BY <3>1
  <2> QED
    BY <2>1, <2>2
<1>4. ASSUME NEW t \in Requests, ~idle(t), Head(req[t].todo) \notin {"write", "save"}, proceeds(t) PROVE mails
  <2>1. CASE s # t
    BY <1>4, <2>1, Proceeded
  <2>2. CASE s = t
    <3>1. Plan(req[t]) /\ req[t].todo # <<>>
      BY <1>4 DEF TypeInv, RequestOK, idle
    <3>2. CASE Tail(req[t].todo) = <<>>
      BY <1>0, <1>4, <2>2, <3>2, Proceeded
    <3>3. CASE Tail(req[t].todo) # <<>>
      <4>1. \/ Head(Tail(req[t].todo)) \notin {"index", "tell"}
            \/ Head(req[t].todo) = "index" /\ Head(Tail(req[t].todo)) = "tell"
            \/ req[t].kind = "announce"
        BY <1>4, <3>1, <3>3, Follows
      <4>2. first(req[s]) = Head(req[t].todo)
        BY <2>2, <3>1 DEF first
      <4>3. first(req'[s]) = Head(Tail(req[t].todo)) /\ req'[s].kind = req[s].kind /\ req'[s].next = req[s].next
        BY <1>4, <2>2, <3>3, Proceeded DEF first
      <4> QED
        BY <2>2, <4>1, <4>2, <4>3
    <3> QED
      BY <3>2, <3>3
  <2> QED
    BY <2>1, <2>2
<1>5. ASSUME NEW t \in Requests, applyEdit(t) PROVE mails
  <2>0. ~idle(t) /\ Head(req[t].todo) = "save" /\ Plan(req[t]) /\ req[t].todo # <<>>
    BY <1>5 DEF applyEdit, at, idle, TypeInv, RequestOK
  <2>1. CASE ~writable(req[t])
    <3>1. ends(t)
      BY <1>5, <2>1 DEF applyEdit
    <3> QED
      BY <1>0, <3>1, Ended
  <2>2. CASE writable(req[t])
    <3>1. committed(t)
      BY <1>5, <2>2 DEF applyEdit
    <3>2. CASE s # t
      BY <2>0, <3>1, <3>2, Committed
    <3>3. CASE s = t
      <4>1. req'[s] = Idle \/ (req'[s].todo # <<>> /\ req'[s].todo = Tail(req[t].todo)
                               /\ req'[s].kind = req[t].kind /\ req'[s].next = req[t].next)
        BY <2>0, <3>1, <3>3, Committed
      <4>2. req[t].kind = "edit"
        BY <2>0, Calls
      <4>3. Tail(req[t].todo) # <<>> => Head(Tail(req[t].todo)) = "index"
        BY <2>0, Follows
      <4>4. first(req[s]) = "save"
        BY <2>0, <3>3 DEF first
      <4>5. req'[s] = Idle \/ (first(req'[s]) = "index" /\ req'[s].kind = "edit" /\ req'[s].next = req[s].next)
        BY <3>3, <4>1, <4>2, <4>3 DEF first
      <4> QED
        BY <1>0, <1>5, <2>2, <3>3, <4>4, <4>5
    <3> QED
      BY <3>2, <3>3
  <2> QED
    BY <2>1, <2>2
<1>6. ASSUME NEW t \in Requests, ends(t) PROVE mails
  BY <1>0, <1>6, Ended
<1>7. ASSUME NEW t \in Requests, transitionProcess(t) PROVE mails
  <2>0. Head(req[t].todo) = "write" /\ Plan(req[t]) /\ req[t].todo # <<>>
    BY <1>7 DEF transitionProcess, at, idle, TypeInv, RequestOK
  <2>1. CASE s # t
    BY <1>7, <2>1, Wrote
  <2>2. CASE s = t /\ first(req'[s]) \in {"index", "tell"}
    <3>1. first(req[t]) = "write"
      BY <2>0 DEF first
    <3>2. /\ row.version = req[t].copy.version
          /\ row' = [req[t].next EXCEPT !.version = row.version + 1]
          /\ Tail(req[t].todo) # <<>> /\ req'[t].todo = Tail(req[t].todo)
          /\ req'[t].kind = req[t].kind /\ req'[t].next = req[t].next
      BY <1>0, <1>7, <2>2, Wrote DEF first
    <3>3. req[t].copy = row /\ req[t].next = Target(req[t])
      BY <3>1, <3>2 DEF CopyInv
    <3>4. first(req'[t]) = Head(Tail(req[t].todo))
      BY <3>2 DEF first
    <3>5. first(req'[t]) = "index" /\ req[t].kind \in {"publish", "cancel"}
      BY <2>0, <2>2, <3>2, <3>4, Follows
    <3> QED
      BY <2>2, <3>1, <3>2, <3>3, <3>5
  <2> QED
    BY <2>1, <2>2
<1>8. ASSUME UNCHANGED req PROVE mails
  BY <1>8
<1> HIDE DEF mails
<1>9. ASSUME NEW t \in Requests, Step(t) PROVE mails
  <2>1. CASE claimClose(t)
    BY <2>1, <1>4, <1>6 DEF claimClose, at
  <2>2. CASE appendEvent(t)
    BY <2>2, <1>4 DEF appendEvent, at
  <2>3. CASE addGoing(t)
    BY <2>3, <1>4, <1>6 DEF addGoing, at
  <2>4. CASE removeGoing(t)
    BY <2>4, <1>4, <1>6 DEF removeGoing, at
  <2>5. CASE checkAgainstDescriptor(t)
    BY <2>5, <1>6 DEF checkAgainstDescriptor
  <2>6. CASE writeIndex(t)
    BY <2>6, <1>4 DEF writeIndex, at
  <2>7. CASE tellGoing(t)
    BY <2>7, <1>4 DEF tellGoing, at
  <2>8. CASE setArchived(t)
    BY <2>8, <1>4 DEF setArchived, at
  <2>9. CASE recordEdit(t)
    BY <2>9, <1>4 DEF recordEdit, at
  <2> QED
    BY <1>9, <1>2, <1>3, <1>5, <1>7, <2>1, <2>2, <2>3, <2>4, <2>5, <2>6, <2>7, <2>8, <2>9 DEF Step
<1>10. ASSUME NEW t \in Requests, Stops(t) PROVE mails
  BY <1>6, <1>10 DEF Stops
<1>11. ASSUME Tick \/ ClaimLapses \/ UNCHANGED vars PROVE mails
  BY <1>8, <1>11 DEF Tick, ClaimLapses, vars
<1>12. ASSUME \E t \in Requests : Ask(t) \/ Step(t) \/ Stops(t) PROVE mails
  BY <1>1, <1>9, <1>10, <1>12
<1>13. mails
  BY <1>11, <1>12 DEF Next
<1> QED
  BY <1>13 DEF mails

\* The limits and the times a row has had, and what the calendar says.
LEMMA Recorded ==
    ASSUME TypeInv, [Next]_vars
    PROVE  /\ had' = had \/ \E t \in Requests :
                 /\ applyEdit(t) /\ writable(req[t]) /\ row' = columns(req[t])
                 /\ had' = [times |-> had.times \cup {req[t].next.when}, limits |-> had.limits \cup {req[t].next.cap},
                            edits |-> had.edits + (IF formattingOnly(req[t]) THEN 0 ELSE 1)]
           /\ \/ cal' = cal
              \/ \E t \in Requests : first(req[t]) = "index" /\ cal' = upsert(req[t].next)
              \/ cal'.listed = cal.listed /\ cal'.cap = cal.cap
<1>1. ASSUME NEW t \in Requests, applyEdit(t)
      PROVE  had' = had \/ (/\ writable(req[t]) /\ row' = columns(req[t])
                            /\ had' = [times |-> had.times \cup {req[t].next.when}, limits |-> had.limits \cup {req[t].next.cap},
                                       edits |-> had.edits + (IF formattingOnly(req[t]) THEN 0 ELSE 1)])
  BY <1>1 DEF applyEdit
<1>2. ASSUME NEW t \in Requests, Step(t), ~applyEdit(t) PROVE had' = had
  BY <1>2 DEF Step, claimClose, attemptAction, transitionProcess, appendEvent, addGoing, removeGoing,
             checkAgainstDescriptor, writeIndex, tellGoing, setArchived, submitEdit, recordEdit, histories
<1>3. ASSUME NEW t \in Requests, Step(t), ~writeIndex(t), ~setArchived(t) PROVE cal' = cal
  BY <1>3 DEF Step, claimClose, attemptAction, transitionProcess, appendEvent, addGoing, removeGoing,
             checkAgainstDescriptor, tellGoing, submitEdit, applyEdit, recordEdit
<1>4. ASSUME NEW t \in Requests, writeIndex(t) PROVE first(req[t]) = "index" /\ cal' = upsert(req[t].next)
  BY <1>4 DEF writeIndex, at, idle, first
<1>5. ASSUME NEW t \in Requests, setArchived(t) PROVE cal'.listed = cal.listed /\ cal'.cap = cal.cap
  BY <1>5 DEF setArchived, TypeInv, Listings
<1>6. ASSUME NEW t \in Requests, Ask(t) PROVE UNCHANGED <<had, cal>>
  <2> USE DEF arrives
  <2> QED
    BY <1>6 DEF Ask, actOnProcess, Approve, closeIfExpired, archiveProcess, restoreProcess, startEdit
<1>7. ASSUME NEW t \in Requests, Stops(t) PROVE UNCHANGED <<had, cal>>
  BY <1>7 DEF Stops, histories
<1>8. ASSUME Tick \/ ClaimLapses \/ UNCHANGED vars PROVE UNCHANGED <<had, cal>>
  BY <1>8 DEF Tick, ClaimLapses, vars, histories
<1>9. CASE Tick \/ ClaimLapses \/ UNCHANGED vars
  BY <1>8, <1>9
<1>10. CASE \E t \in Requests : Ask(t) \/ Step(t) \/ Stops(t)
  BY <1>1, <1>2, <1>3, <1>4, <1>5, <1>6, <1>7, <1>10
<1> QED
  BY <1>9, <1>10 DEF Next

LEMMA InitSaved == Init => SavedInv /\ WithinLimit
<1> SUFFICES ASSUME Init PROVE SavedInv /\ WithinLimit
  OBVIOUS
<1>1. \A t \in Requests : first(req[t]) = "none"
  BY IdleIs DEF Init, first
<1>2. had = [times |-> {FirstEnd}, limits |-> {FirstLimit}, edits |-> 0] /\ row.cap = FirstLimit
  BY DEF Init, initialRow
<1>3. cal.listed => cal.cap = FirstLimit
  <2>1. CASE cal = NotListed
    <3>1. ~cal.listed
      BY <2>1 DEF NotListed
    <3> QED
      BY <3>1
  <2>2. CASE cal = [NotListed EXCEPT !.listed = TRUE, !.cap = FirstLimit]
    <3>1. cal.cap = FirstLimit
      BY <2>2 DEF NotListed
    <3> QED
      BY <3>1
  <2> QED
    BY <2>1, <2>2 DEF Init
<1>4. going = {}
  BY DEF Init
<1>5. Cardinality(going) = 0
  BY <1>4, FS_EmptySet
<1>6. FirstLimit \in had.limits /\ 0 <= FirstLimit
  BY <1>2, EventsAssumption
<1> QED
  BY <1>1, <1>2, <1>3, <1>5, <1>6 DEF SavedInv, WithinLimit

\* A cap or a time the row takes on has been saved.
LEMMA NextCap ==
    ASSUME TypeInv, PrevInv, CopyInv, SavedInv, [Next]_vars
    PROVE  /\ had.limits \subseteq had'.limits /\ had.times \subseteq had'.times
           /\ row'.cap \in had'.limits
<1>0. row \in Rows /\ \A t \in Requests : req[t].next \in Rows
  BY DEF TypeInv, RequestRecords
<1>1. had.limits \subseteq had'.limits /\ had.times \subseteq had'.times
  BY Recorded
<1>2. CASE row' = row
  BY <1>1, <1>2 DEF SavedInv
<1>3. CASE row' = [row EXCEPT !.version = row.version + 1]
  BY <1>1, <1>3, Claimed DEF SavedInv
<1>4. ASSUME NEW t \in Requests, applyEdit(t) PROVE row'.cap \in had'.limits
  <2>1. CASE ~writable(req[t])
    BY <1>2, <1>4, <2>1 DEF applyEdit
  <2>2. CASE writable(req[t])
    <3>1. /\ row' = columns(req[t])
          /\ had'.limits = had.limits \cup {req[t].next.cap}
      BY <1>4, <2>2 DEF applyEdit
    <3>2. row'.cap = req[t].next.cap \/ row'.cap = row.cap
      <4>1. \/ row' = [req[t].next EXCEPT !.status = row.status, !.version = row.version + 1]
            \/ row' = [row EXCEPT !.text = req[t].next.text, !.version = row.version + 1]
        BY <3>1 DEF columns
      <4> QED
        BY <1>0, <4>1 DEF Rows
    <3> QED
      BY <3>1, <3>2 DEF SavedInv
  <2> QED
    BY <2>1, <2>2
<1>5. ASSUME NEW t \in Requests, transitionProcess(t), req[t].copy = row, req[t].next = Target(req[t]),
             row' = [Target(req[t]) EXCEPT !.version = row.version + 1]
      PROVE  row'.cap = row.cap
  <2>1. req[t].kind \in {"publish", "cancel", "close", "archive", "restore"}
    <3>1. Plan(req[t]) /\ req[t].todo # <<>> /\ Head(req[t].todo) = "write"
      BY <1>5 DEF transitionProcess, at, idle, TypeInv, RequestOK
    <3> QED
      BY <3>1, Calls
  <2> DEFINE w == Target(req[t])  v == row.version + 1
  <2>2. w.cap = row.cap
    BY <1>0, <1>5, <2>1, Targets
  <2>3. w \in Rows /\ row' = [w EXCEPT !.version = v]
    BY <1>0, <1>5
  <2> HIDE DEF w, v
  <2> QED
    BY <2>2, <2>3 DEF Rows
<1>6. ASSUME NEW t \in Requests, transitionProcess(t), req[t].copy = row, req[t].next = Target(req[t]),
             row' = [Target(req[t]) EXCEPT !.version = row.version + 1]
      PROVE  row'.cap \in had'.limits
  BY <1>1, <1>5, <1>6 DEF SavedInv
<1> QED
  BY <1>1, <1>2, <1>3, <1>4, <1>6, RowChanges

LEMMA NextSaved ==
    ASSUME TypeInv, PrevInv, CopyInv, CancelInv, SavedInv, [Next]_vars
    PROVE  SavedInv'
<1> DEFINE saved(q) ==
        /\ first(q) = "index" => q.next.cap \in had.limits
        /\ first(q) \in {"index", "tell"} /\ q.kind = "edit" => q.next.when \in had.times
        /\ first(q) \in {"index", "tell"} /\ q.kind = "cancel" => row.cancelled
<1>0. row \in Rows /\ \A t \in Requests : req[t].next \in Rows
  BY DEF TypeInv, RequestRecords
<1>1. had.limits \subseteq had'.limits /\ had.times \subseteq had'.times /\ (row.cancelled => row'.cancelled)
  BY NextCap, NextPrev
<1>2. cal'.listed => cal'.cap \in had'.limits
  <2>1. CASE cal'.listed = cal.listed /\ cal'.cap = cal.cap
    BY <1>1, <2>1 DEF SavedInv
  <2>2. ASSUME NEW t \in Requests, first(req[t]) = "index", cal' = upsert(req[t].next) PROVE cal'.cap \in had'.limits
    BY <1>1, <2>2 DEF upsert, SavedInv
  <2> QED
    BY <2>1, <2>2, Recorded
<1>3. ASSUME NEW s \in Requests
      PROVE  /\ first(req'[s]) = "index" => req'[s].next.cap \in had'.limits
             /\ first(req'[s]) \in {"index", "tell"} /\ req'[s].kind = "edit" => req'[s].next.when \in had'.times
             /\ first(req'[s]) \in {"index", "tell"} /\ req'[s].kind = "cancel" => row'.cancelled
  <2>0. saved(req[s])
    BY DEF SavedInv
  <2>1. CASE req'[s] = req[s]
    BY <1>1, <2>0, <2>1
  <2>2. CASE first(req'[s]) \notin {"index", "tell"}
    BY <2>2
  <2>3. CASE /\ first(req[s]) = "index" /\ first(req'[s]) = "tell"
             /\ req'[s].kind = req[s].kind /\ req'[s].next = req[s].next
    BY <1>1, <2>0, <2>3
  <2>4. CASE req'[s].kind = "announce"
    <3>1. s \in Requests /\ RequestOK(req'[s])
      BY NextType DEF TypeInv
    <3>2. first(req'[s]) # "index"
      <4>1. req'[s].todo # <<>> => Head(req'[s].todo) # "index"
        BY <2>4, <3>1, Calls DEF RequestOK
      <4> QED
        BY <4>1 DEF first
    <3> QED
      BY <2>4, <3>2
  <2>5. CASE /\ first(req[s]) = "write" /\ first(req'[s]) = "index" /\ req[s].kind \in {"publish", "cancel"}
             /\ req'[s].kind = req[s].kind /\ req'[s].next = req[s].next
             /\ req[s].copy = row /\ req[s].next = Target(req[s])
             /\ row' = [req[s].next EXCEPT !.version = row.version + 1]
    <3> DEFINE w == Target(req[s])  v == row.version + 1
    <3>1. w.cap = row.cap /\ (req[s].kind = "cancel" => w.cancelled)
      BY <1>0, <2>5, Targets
    <3>2. w \in Rows /\ row' = [w EXCEPT !.version = v] /\ req[s].next = w
      BY <1>0, <2>5
    <3> HIDE DEF w, v
    <3>3. row'.cap = w.cap /\ row'.cancelled = w.cancelled
      BY <3>2 DEF Rows
    <3>4. req'[s].next.cap \in had'.limits
      BY <1>1, <2>5, <3>1, <3>2 DEF SavedInv
    <3>5. req'[s].kind = "cancel" => row'.cancelled
      BY <2>5, <3>1, <3>3
    <3> QED
      BY <2>5, <3>4, <3>5
  <2>6. CASE /\ first(req[s]) = "save" /\ first(req'[s]) = "index" /\ req'[s].kind = "edit"
             /\ req'[s].next = req[s].next /\ applyEdit(s) /\ writable(req[s])
    <3>1. had' = [times |-> had.times \cup {req[s].next.when}, limits |-> had.limits \cup {req[s].next.cap},
                  edits |-> had.edits + (IF formattingOnly(req[s]) THEN 0 ELSE 1)]
      BY <2>6 DEF applyEdit
    <3>2. req[s].next.when \in had'.times /\ req[s].next.cap \in had'.limits
      BY <3>1
    <3> QED
      BY <2>6, <3>2
  <2> QED
    BY <2>1, <2>2, <2>3, <2>4, <2>5, <2>6, Mails
<1> QED
  BY <1>2, <1>3, NextCap DEF SavedInv

\* Only one who comes while there is room raises how many are going.
LEMMA NextLimit ==
    ASSUME TypeInv, PrevInv, CopyInv, SavedInv, WithinLimit, [Next]_vars
    PROVE  WithinLimit'
<1>0. /\ had.limits \subseteq had'.limits /\ had.limits \subseteq Nat /\ had'.limits \subseteq Nat /\ IsFiniteSet(going)
      /\ unlisted \in BOOLEAN /\ unlisted' \in BOOLEAN
  <2>1. had.limits \subseteq Limits /\ had'.limits \subseteq Limits /\ going \subseteq People /\ unlisted \in BOOLEAN /\ unlisted' \in BOOLEAN
    BY NextType DEF TypeInv
  <2> QED
    BY <2>1, NextCap, FS_Subset, EventsAssumption
<1>1. ASSUME going' \subseteq going, unlisted' = unlisted PROVE WithinLimit'
  <2>1. Cardinality(going') <= Cardinality(going) /\ Cardinality(going') \in Nat /\ Cardinality(going) \in Nat
    BY <1>0, <1>1, FS_Subset, FS_CardinalityType
  <2>2. ASSUME NEW limit \in had.limits, Cardinality(going) <= limit PROVE limit \in had'.limits /\ Cardinality(going') <= limit
    BY <1>0, <2>1, <2>2
  <2>3. CASE unlisted
    BY <1>1, <2>3 DEF WithinLimit
  <2>4. CASE 0 \in had.limits
    BY <1>0, <2>4 DEF WithinLimit
  <2> QED
    BY <2>2, <2>3, <2>4 DEF WithinLimit
<1>2. ASSUME NEW t \in Requests, addGoing(t) PROVE WithinLimit'
  <2>1. CASE already(t) \/ full
    BY <1>1, <1>2, <2>1 DEF addGoing
  <2>2. CASE ~(already(t) \/ full)
    <3>1. /\ going' = going \cup req[t].who /\ unlisted' = (unlisted \/ ~cal.listed)
          /\ req[t].todo # <<>> /\ Head(req[t].todo) = "add"
      BY <1>2, <2>2 DEF addGoing, at, idle
    <3>2. CASE unlisted'
      BY <3>2 DEF WithinLimit
    <3>3. CASE ~unlisted'
      <4>1. cal.listed
        BY <3>1, <3>3
      <4>2. cal.cap \in had.limits /\ cal.cap \in had'.limits
        BY <1>0, <4>1 DEF SavedInv
      <4>3. CASE cal.cap = 0
        BY <4>2, <4>3 DEF WithinLimit
      <4>4. CASE cal.cap # 0
        <5>1. RequestOK(req[t]) /\ req[t].kind = "going"
          BY <3>1, Calls DEF TypeInv, RequestOK
        <5>2. PICK p \in People : req[t].who = {p}
          BY <3>1, <5>1 DEF RequestOK
        <5>3. p \notin going
          BY <2>2, <5>2 DEF already
        <5>4. Cardinality(going') = Cardinality(going) + 1
          BY <1>0, <3>1, <5>2, <5>3, FS_AddElement
        <5>5. ~(Cardinality(going) >= cal.cap)
          BY <2>2, <4>4 DEF full
        <5>6. Cardinality(going) \in Nat /\ cal.cap \in Nat
          BY <1>0, <4>2, FS_CardinalityType
        <5>7. Cardinality(going') <= cal.cap
          BY <5>4, <5>5, <5>6
        <5> QED
          BY <4>2, <5>7 DEF WithinLimit
      <4> QED
        BY <4>3, <4>4
    <3> QED
      BY <3>2, <3>3
  <2> QED
    BY <2>1, <2>2
<1>3. ASSUME NEW t \in Requests, Step(t), ~addGoing(t) PROVE going' \subseteq going /\ unlisted' = unlisted
  BY <1>3 DEF Step, claimClose, attemptAction, transitionProcess, appendEvent, removeGoing,
             checkAgainstDescriptor, writeIndex, tellGoing, setArchived, submitEdit, applyEdit, recordEdit, histories
<1>4. ASSUME NEW t \in Requests, Ask(t) PROVE going' \subseteq going /\ unlisted' = unlisted
  BY <1>4, Arrived
<1>5. ASSUME NEW t \in Requests, Stops(t) PROVE going' \subseteq going /\ unlisted' = unlisted
  BY <1>5 DEF Stops, histories
<1>6. ASSUME Tick \/ ClaimLapses \/ UNCHANGED vars PROVE going' \subseteq going /\ unlisted' = unlisted
  BY <1>6 DEF Tick, ClaimLapses, vars, histories
<1>7. CASE Tick \/ ClaimLapses \/ UNCHANGED vars
  BY <1>1, <1>6, <1>7
<1>8. CASE \E t \in Requests : Ask(t) \/ Step(t) \/ Stops(t)
  BY <1>1, <1>2, <1>3, <1>4, <1>5, <1>8
<1> QED
  BY <1>7, <1>8 DEF Next

LEMMA AlwaysSaved == Spec => [](SavedInv /\ WithinLimit)
<1>1. Init => SavedInv /\ WithinLimit
  BY InitSaved
<1>2. TypeInv /\ PrevInv /\ CopyInv /\ CancelInv /\ SavedInv /\ WithinLimit /\ [Next]_vars => (SavedInv /\ WithinLimit)'
  BY NextSaved, NextLimit
<1> QED
  BY <1>1, <1>2, AlwaysCopies, PTL DEF Spec

\* "Two people never take the last place at once": no more are going than the event
\* ever allowed, whatever edits of the limit, takedowns and failures are under way,
\* unless someone came before it was on the calendar (calendar_attendance_capacity).
THEOREM LimitHolds == Spec => []WithinLimit
BY AlwaysSaved, PTL

-----------------------------------------------------------------------------
(***************************************************************************)
(* What was mailed.                                                        *)
(***************************************************************************)
\* One member more, one less, or the same set.
LEMMA SizeMoves ==
    ASSUME NEW t \in Requests, NEW S \in SUBSET Requests, NEW Z \in SUBSET Requests,
           \A s \in Requests \ {t} : s \in S <=> s \in Z
    PROVE  /\ Cardinality(S) \in Nat /\ Cardinality(Z) \in Nat
           /\ (t \in S <=> t \in Z) => Z = S
           /\ t \in Z /\ t \notin S => Cardinality(Z) = Cardinality(S) + 1
           /\ t \in S /\ t \notin Z => Cardinality(S) = Cardinality(Z) + 1
<1>1. IsFiniteSet(S) /\ IsFiniteSet(Z)
  BY FS_Subset, EventsAssumption
<1>2. Cardinality(S) \in Nat /\ Cardinality(Z) \in Nat
  BY <1>1, FS_CardinalityType
<1>3. ASSUME t \in S <=> t \in Z PROVE Z = S
  BY <1>3
<1>4. ASSUME t \in Z, t \notin S PROVE Cardinality(Z) = Cardinality(S) + 1
  <2>1. Z = S \cup {t}
    BY <1>4
  <2> QED
    BY <1>1, <1>4, <2>1, FS_AddElement
<1>5. ASSUME t \in S, t \notin Z PROVE Cardinality(S) = Cardinality(Z) + 1
  <2>1. S = Z \cup {t}
    BY <1>5
  <2> QED
    BY <1>1, <1>5, <2>1, FS_AddElement
<1> QED
  BY <1>2, <1>3, <1>4, <1>5

\* One request acts at a time.
LEMMA OthersWait ==
    ASSUME TypeInv, PrevInv, NEW t \in Requests, Ask(t) \/ Step(t) \/ Stops(t)
    PROVE  \A s \in Requests \ {t} : req'[s] = req[s]
<1>1. ASSUME NEW q, becomes(t, q) PROVE \A s \in Requests \ {t} : req'[s] = req[s]
  BY <1>1, Replaced
<1>2. ASSUME ends(t) \/ proceeds(t) \/ committed(t) PROVE \A s \in Requests \ {t} : req'[s] = req[s]
  BY <1>1, <1>2 DEF ends, proceeds, committed
<1>3. CASE Ask(t)
  BY <1>3, Arrived
<1>4. CASE Stops(t)
  BY <1>2, <1>4 DEF Stops
<1>5. CASE attemptAction(t)
  BY <1>5, Attempted
<1>6. CASE submitEdit(t)
  BY <1>6, Submitted
<1>7. CASE transitionProcess(t)
  BY <1>7, Wrote
<1>8. ASSUME Step(t), ~attemptAction(t), ~submitEdit(t), ~transitionProcess(t) PROVE ends(t) \/ proceeds(t) \/ committed(t)
  BY <1>8 DEF Step, claimClose, appendEvent, addGoing, removeGoing, checkAgainstDescriptor, writeIndex, tellGoing,
             setArchived, applyEdit, recordEdit
<1> QED
  BY <1>2, <1>3, <1>4, <1>5, <1>6, <1>7, <1>8

\* Where a request that acts was, and where it is after.
LEMMA Acts ==
    ASSUME TypeInv, PrevInv, NEW t \in Requests, Ask(t) \/ Step(t) \/ Stops(t)
    PROVE  \/ Ask(t) /\ first(req[t]) = "none" /\ first(req'[t]) \in {"attempt", "claim", "submit", "write"}
           \/ Stops(t) /\ first(req'[t]) = "none"
           \/ attemptAction(t) /\ first(req[t]) = "attempt" /\ first(req'[t]) \in {"none", "add", "remove", "append", "write"}
              /\ (first(req'[t]) = "append" => req'[t].kind \in {"close", "announce"})
           \/ submitEdit(t) /\ first(req[t]) = "submit" /\ first(req'[t]) \in {"none", "save"}
           \/ transitionProcess(t) /\ first(req[t]) = "write" /\ first(req'[t]) \in {"none", "attempt", "flag"}
           \/ transitionProcess(t) /\ first(req[t]) = "write" /\ first(req'[t]) = "index"
              /\ req'[t].kind = req[t].kind /\ req[t].kind \in {"publish", "cancel"}
           \/ claimClose(t) /\ first(req[t]) = "claim" /\ first(req'[t]) \in {"none", "attempt"}
           \/ appendEvent(t) /\ first(req[t]) = "append" /\ req[t].kind # "announce" /\ first(req'[t]) = "none"
           \/ appendEvent(t) /\ first(req[t]) = "append" /\ req[t].kind = "announce" /\ first(req'[t]) = "tell"
              /\ req'[t].kind = "announce"
           \/ addGoing(t) /\ first(req[t]) = "add" /\ (already(t) \/ full) /\ first(req'[t]) = "none"
           \/ addGoing(t) /\ first(req[t]) = "add" /\ ~(already(t) \/ full) /\ req[t].kind = "going"
              /\ req'[t].kind = "going" /\ first(req'[t]) \in {"append", "refuse"}
           \/ removeGoing(t) /\ first(req[t]) = "remove" /\ ~already(t) /\ first(req'[t]) = "none"
           \/ removeGoing(t) /\ first(req[t]) = "remove" /\ already(t) /\ req[t].kind = "not_going"
              /\ req'[t].kind = "not_going" /\ first(req'[t]) \in {"append", "refuse"}
           \/ checkAgainstDescriptor(t) /\ first(req[t]) = "refuse" /\ first(req'[t]) = "none"
           \/ writeIndex(t) /\ first(req[t]) = "index" /\ req[t].kind = "publish" /\ first(req'[t]) = "none"
           \/ writeIndex(t) /\ first(req[t]) = "index" /\ req[t].kind = "cancel" /\ req'[t].kind = "cancel"
              /\ first(req'[t]) = "tell"
           \/ writeIndex(t) /\ first(req[t]) = "index" /\ req[t].kind = "edit"
              /\ first(req'[t]) \in {"none", "tell", "record"}
              /\ (first(req'[t]) # "none" => req'[t].kind = "edit")
           \/ tellGoing(t) /\ first(req[t]) = "tell" /\ first(req'[t]) \in {"none", "record"}
              /\ (req[t].kind # "edit" => first(req'[t]) = "none")
              /\ (first(req'[t]) = "record" => req'[t].kind = "edit")
           \/ setArchived(t) /\ first(req[t]) = "flag" /\ first(req'[t]) = "none"
           \/ applyEdit(t) /\ first(req[t]) = "save" /\ req[t].kind = "edit"
              /\ (first(req'[t]) = "none" \/ (first(req'[t]) = "index" /\ req'[t].kind = "edit"))
           \/ recordEdit(t) /\ first(req[t]) = "record" /\ first(req'[t]) = "none"
<1>0. first(Idle) = "none"
  BY IdleIs DEF first
<1> DEFINE c == Head(req[t].todo)  r == Tail(req[t].todo)
<1>1. ASSUME ~idle(t) PROVE Plan(req[t]) /\ req[t].todo # <<>> /\ first(req[t]) = c
  BY <1>1 DEF idle, TypeInv, RequestOK, first
<1>2. ASSUME ends(t) PROVE first(req'[t]) = "none"
  BY <1>0, <1>2, Ended
<1>3. ASSUME proceeds(t), ~idle(t), c \notin {"write", "save"}
      PROVE  \/ r = <<>> /\ first(req'[t]) = "none"
             \/ r # <<>> /\ first(req'[t]) = Head(r) /\ req'[t].kind = req[t].kind
  BY <1>0, <1>3, Proceeded DEF first
<1>4. CASE Ask(t)
  <2>1. first(req[t]) = "none" /\ first(req'[t]) \in {"attempt", "claim", "submit", "write"}
    BY <1>4, Arrived DEF first, idle
  <2> QED
    BY <1>4, <2>1
<1>5. CASE Stops(t)
  BY <1>2, <1>5 DEF Stops
<1>6. CASE attemptAction(t)
  <2>1. first(req[t]) = "attempt"
    BY <1>1, <1>6 DEF attemptAction, at
  <2>2. /\ first(req'[t]) \in {"none", "add", "remove", "append", "write"}
        /\ first(req'[t]) = "append" => req'[t].kind \in {"close", "announce"}
    BY <1>0, <1>6, Attempted DEF first
  <2> QED
    BY <1>6, <2>1, <2>2
<1>7. CASE submitEdit(t)
  <2>1. first(req[t]) = "submit"
    BY <1>1, <1>7 DEF submitEdit, at
  <2>2. first(req'[t]) \in {"none", "save"}
    BY <1>0, <1>7, Submitted DEF first
  <2> QED
    BY <1>7, <2>1, <2>2
<1>8. CASE transitionProcess(t)
  <2>1. ~idle(t) /\ c = "write"
    BY <1>8 DEF transitionProcess, at
  <2>2. \/ first(req'[t]) \in {"none", "attempt"}
        \/ r # <<>> /\ first(req'[t]) = Head(r) /\ req'[t].kind = req[t].kind
    BY <1>0, <1>8, Wrote DEF first
  <2>3. r # <<>> => \/ req[t].kind \in {"publish", "cancel"} /\ Head(r) = "index"
                    \/ Head(r) = "flag"
    BY <1>1, <2>1, Follows
  <2> HIDE DEF c, r
  <2> QED
    BY <1>1, <1>8, <2>1, <2>2, <2>3
<1>9. CASE claimClose(t)
  <2>1. ~idle(t) /\ c = "claim" /\ (proceeds(t) \/ ends(t))
    BY <1>9 DEF claimClose, at
  <2>2. r = <<"attempt">>
    BY <1>1, <2>1, Calls
  <2>3. first(req'[t]) \in {"none", "attempt"}
    BY <1>2, <1>3, <2>1, <2>2, LastCalls
  <2> QED
    BY <1>1, <1>9, <2>1, <2>3
<1>10. CASE appendEvent(t)
  <2>1. ~idle(t) /\ c = "append" /\ proceeds(t)
    BY <1>10 DEF appendEvent, at
  <2>2. \/ req[t].kind # "announce" /\ r = <<>>
        \/ req[t].kind = "announce" /\ r = <<"tell">>
    BY <1>1, <2>1, Calls
  <2>3. CASE req[t].kind # "announce"
    <3>1. first(req'[t]) = "none"
      BY <1>3, <2>1, <2>2, <2>3
    <3> QED
      BY <1>1, <1>10, <2>1, <2>3, <3>1
  <2>4. CASE req[t].kind = "announce"
    <3>1. first(req'[t]) = "tell" /\ req'[t].kind = "announce"
      BY <1>3, <2>1, <2>2, <2>4, LastCalls
    <3> QED
      BY <1>1, <1>10, <2>1, <2>4, <3>1
  <2> QED
    BY <2>3, <2>4
<1>11. CASE addGoing(t)
  <2>1. ~idle(t) /\ c = "add"
    BY <1>11 DEF addGoing, at
  <2>2. req[t].kind = "going" /\ r \in {<<"append">>, <<"refuse">>}
    BY <1>1, <2>1, Calls
  <2>3. CASE already(t) \/ full
    <3>1. first(req'[t]) = "none"
      BY <1>2, <1>11, <2>3 DEF addGoing
    <3> QED
      BY <1>1, <1>11, <2>1, <2>3, <3>1
  <2>4. CASE ~(already(t) \/ full)
    <3>1. proceeds(t)
      BY <1>11, <2>4 DEF addGoing
    <3>2. first(req'[t]) \in {"append", "refuse"} /\ req'[t].kind = "going"
      BY <1>3, <2>1, <2>2, <3>1, LastCalls
    <3> QED
      BY <1>1, <1>11, <2>1, <2>2, <2>4, <3>2
  <2> QED
    BY <2>3, <2>4
<1>12. CASE removeGoing(t)
  <2>1. ~idle(t) /\ c = "remove"
    BY <1>12 DEF removeGoing, at
  <2>2. req[t].kind = "not_going" /\ r \in {<<"append">>, <<"refuse">>}
    BY <1>1, <2>1, Calls
  <2>3. CASE ~already(t)
    <3>1. first(req'[t]) = "none"
      BY <1>2, <1>12, <2>3 DEF removeGoing
    <3> QED
      BY <1>1, <1>12, <2>1, <2>3, <3>1
  <2>4. CASE already(t)
    <3>1. proceeds(t)
      BY <1>12, <2>4 DEF removeGoing
    <3>2. first(req'[t]) \in {"append", "refuse"} /\ req'[t].kind = "not_going"
      BY <1>3, <2>1, <2>2, <3>1, LastCalls
    <3> QED
      BY <1>1, <1>12, <2>1, <2>2, <2>4, <3>2
  <2> QED
    BY <2>3, <2>4
<1>13. CASE checkAgainstDescriptor(t)
  BY <1>1, <1>2, <1>13 DEF checkAgainstDescriptor, at
<1>14. CASE writeIndex(t)
  <2>1. ~idle(t) /\ c = "index" /\ proceeds(t)
    BY <1>14 DEF writeIndex, at
  <2>2. \/ req[t].kind = "publish" /\ r = <<>>
        \/ req[t].kind = "cancel" /\ r = <<"tell">>
        \/ req[t].kind = "edit" /\ r \in {<<>>, <<"tell">>, <<"record">>, <<"tell", "record">>}
    BY <1>1, <2>1, Calls
  <2>3. CASE req[t].kind = "publish"
    <3>1. first(req'[t]) = "none"
      BY <1>3, <2>1, <2>2, <2>3
    <3> QED
      BY <1>1, <1>14, <2>1, <2>3, <3>1
  <2>4. CASE req[t].kind = "cancel"
    <3>1. first(req'[t]) = "tell" /\ req'[t].kind = "cancel"
      BY <1>3, <2>1, <2>2, <2>4, LastCalls
    <3> QED
      BY <1>1, <1>14, <2>1, <2>4, <3>1
  <2>5. CASE req[t].kind = "edit"
    <3>1. first(req'[t]) \in {"none", "tell", "record"} /\ (first(req'[t]) # "none" => req'[t].kind = "edit")
      BY <1>3, <2>1, <2>2, <2>5, LastCalls, FirstCalls
    <3> QED
      BY <1>1, <1>14, <2>1, <2>5, <3>1
  <2> QED
    BY <2>2, <2>3, <2>4, <2>5
<1>15. CASE tellGoing(t)
  <2>1. ~idle(t) /\ c = "tell" /\ proceeds(t)
    BY <1>15 DEF tellGoing, at
  <2>2. \/ req[t].kind # "edit" /\ r = <<>>
        \/ req[t].kind = "edit" /\ r \in {<<>>, <<"record">>}
    BY <1>1, <2>1, Calls
  <2>3. /\ first(req'[t]) \in {"none", "record"}
        /\ req[t].kind # "edit" => first(req'[t]) = "none"
        /\ first(req'[t]) = "record" => req'[t].kind = "edit"
    BY <1>3, <2>1, <2>2, LastCalls
  <2> QED
    BY <1>1, <1>15, <2>1, <2>3
<1>16. CASE setArchived(t)
  <2>1. ~idle(t) /\ c = "flag" /\ proceeds(t)
    BY <1>16 DEF setArchived, at
  <2>2. r = <<>>
    BY <1>1, <2>1, Calls
  <2>3. first(req'[t]) = "none"
    BY <1>3, <2>1, <2>2
  <2> QED
    BY <1>1, <1>16, <2>1, <2>3
<1>17. CASE applyEdit(t)
  <2>1. ~idle(t) /\ c = "save"
    BY <1>17 DEF applyEdit, at
  <2>2. req[t].kind = "edit" /\ (r # <<>> => Head(r) = "index")
    BY <1>1, <2>1, Calls, Follows
  <2>3. committed(t) \/ ends(t)
    BY <1>17 DEF applyEdit
  <2>4. CASE committed(t)
    <3>1. first(req'[t]) = "none" \/ (first(req'[t]) = "index" /\ req'[t].kind = "edit")
      BY <1>0, <2>1, <2>2, <2>4, Committed DEF first
    <3> QED
      BY <1>1, <1>17, <2>1, <2>2, <3>1
  <2>5. CASE ends(t)
    BY <1>1, <1>2, <1>17, <2>1, <2>2, <2>5
  <2> QED
    BY <2>3, <2>4, <2>5
<1>18. CASE recordEdit(t)
  <2>1. ~idle(t) /\ c = "record" /\ proceeds(t)
    BY <1>18 DEF recordEdit, at
  <2>2. r = <<>>
    BY <1>1, <2>1, Calls
  <2>3. first(req'[t]) = "none"
    BY <1>3, <2>1, <2>2
  <2> QED
    BY <1>1, <1>18, <2>1, <2>3
<1>19. CASE Step(t)
  <2> HIDE DEF c, r
  <2> QED
    BY <1>6, <1>7, <1>8, <1>9, <1>10, <1>11, <1>12, <1>13, <1>14, <1>15, <1>16, <1>17, <1>18, <1>19 DEF Step
<1> QED
  BY <1>4, <1>5, <1>19

\* Who owes the people going a mail, and who is about to announce.
LEMMA Tellers ==
    ASSUME TypeInv, PrevInv, NEW t \in Requests, Ask(t) \/ Step(t) \/ Stops(t)
    PROVE  /\ t \in Telling => t \in Telling' \/ (tellGoing(t) /\ req[t].kind = "cancel") \/ Stops(t)
           /\ t \in Announcing' => appendEvent(t) /\ req[t].kind = "announce" /\ t \notin Announcing
           /\ t \in Announcing => (tellGoing(t) /\ req[t].kind = "announce") \/ Stops(t)
           /\ appendEvent(t) /\ req[t].kind = "announce" => t \in Announcing' /\ t \notin Announcing
           /\ tellGoing(t) /\ req[t].kind = "announce" => t \in Announcing /\ t \notin Announcing'
<1> DEFINE telling(q) == q.kind = "cancel" /\ first(q) \in {"index", "tell"}
           announcing(q) == q.kind = "announce" /\ first(q) = "tell"
<1>1. telling(req[t]) => telling(req'[t]) \/ (tellGoing(t) /\ req[t].kind = "cancel") \/ Stops(t)
  BY Acts
<1>2. RequestOK(req'[t]) /\ RequestOK(req[t])
  BY NextType DEF TypeInv, Next
<1>3. first(req[t]) = "index" => req[t].kind # "announce"
  BY <1>2, Calls DEF RequestOK, first
<1>4. announcing(req'[t]) => appendEvent(t) /\ req[t].kind = "announce" /\ ~announcing(req[t])
  BY <1>3, Acts
<1>5. announcing(req[t]) => (tellGoing(t) /\ req[t].kind = "announce") \/ Stops(t)
  BY Acts
<1>6. appendEvent(t) => ~idle(t) /\ Head(req[t].todo) = "append" /\ proceeds(t)
  BY DEF appendEvent, at
<1>7. tellGoing(t) => ~idle(t) /\ Head(req[t].todo) = "tell" /\ proceeds(t)
  BY DEF tellGoing, at
<1>8. ASSUME appendEvent(t), req[t].kind = "announce" PROVE announcing(req'[t]) /\ ~announcing(req[t])
  <2>1. Tail(req[t].todo) = <<"tell">>
    BY <1>2, <1>6, <1>8, Calls DEF RequestOK, idle
  <2>2. req'[t].kind = "announce" /\ first(req'[t]) = "tell"
    BY <1>6, <1>8, <2>1, Proceeded, LastCalls DEF first
  <2>3. first(req[t]) = "append"
    BY <1>6, <1>8 DEF first, idle
  <2> QED
    BY <2>2, <2>3
<1>9. ASSUME tellGoing(t), req[t].kind = "announce" PROVE announcing(req[t]) /\ ~announcing(req'[t])
  <2>1. Tail(req[t].todo) = <<>>
    BY <1>2, <1>7, <1>9, Calls DEF RequestOK, idle
  <2>2. first(req'[t]) = "none"
    BY <1>7, <1>9, <2>1, Proceeded, IdleIs DEF first
  <2>3. first(req[t]) = "tell"
    BY <1>7, <1>9 DEF first, idle
  <2> QED
    BY <1>9, <2>2, <2>3
<1> QED
  BY <1>1, <1>4, <1>5, <1>8, <1>9 DEF Telling, Announcing

LEMMA InitTold == Init => ToldInv
<1> SUFFICES ASSUME Init PROVE ToldInv
  OBVIOUS
<1>1. owed = {} /\ told = [cancelled |-> {}, times |-> {}, announcements |-> 0] /\ log.announced = 0
  BY DEF Init
<1>2. \A t \in Requests : first(req[t]) = "none"
  BY IdleIs DEF Init, first
<1>3. Announcing = {}
  BY <1>2 DEF Announcing
<1>4. Cardinality(Announcing) = 0
  BY <1>3, FS_EmptySet
<1> QED
  BY <1>1, <1>4 DEF ToldInv

\* What a step does to what was mailed, owed and put on record.
LEMMA Mailed ==
    ASSUME NEW t \in Requests, Ask(t) \/ Step(t) \/ Stops(t)
    PROVE  /\ told' = told \/ tellGoing(t)
           /\ owed' \subseteq owed \/ transitionProcess(t)
           /\ broken => broken'
           /\ log' = log \/ appendEvent(t) \/ recordEdit(t)
           /\ going' = going \/ addGoing(t) \/ removeGoing(t)
           /\ had' = had \/ applyEdit(t)
           /\ Stops(t) => broken' /\ log' = log
<1>1. CASE Ask(t)
  <2>1. \E q : arrives(t, q)
    BY <1>1 DEF Ask, actOnProcess, Approve, closeIfExpired, archiveProcess, restoreProcess, startEdit
  <2>2. UNCHANGED <<told, owed, broken, log, going, had>>
    BY <2>1 DEF arrives
  <2>3. Stops(t) => broken' /\ log' = log
    BY DEF Stops, fails
  <2> QED
    BY <2>2, <2>3
<1>2. CASE Stops(t)
  <2>1. UNCHANGED <<told, owed, log, going, had>> /\ broken'
    BY <1>2 DEF Stops, fails, histories
  <2> QED
    BY <2>1
<1>3. CASE Step(t)
  <2>1. told' = told \/ tellGoing(t)
    BY <1>3 DEF Step, claimClose, attemptAction, transitionProcess, appendEvent, addGoing, removeGoing,
             checkAgainstDescriptor, writeIndex, setArchived, submitEdit, applyEdit, recordEdit, histories
  <2>2. owed' \subseteq owed \/ transitionProcess(t)
    BY <1>3 DEF Step, claimClose, attemptAction, appendEvent, addGoing, removeGoing,
             checkAgainstDescriptor, writeIndex, tellGoing, setArchived, submitEdit, applyEdit, recordEdit, histories
  <2>3. broken' = broken \/ broken'
    BY <1>3 DEF Step, claimClose, attemptAction, transitionProcess, appendEvent, addGoing, removeGoing, fails,
             checkAgainstDescriptor, writeIndex, tellGoing, setArchived, submitEdit, applyEdit, recordEdit, histories
  <2>4. log' = log \/ appendEvent(t) \/ recordEdit(t)
    BY <1>3 DEF Step, claimClose, attemptAction, transitionProcess, addGoing, removeGoing,
             checkAgainstDescriptor, writeIndex, tellGoing, setArchived, submitEdit, applyEdit, histories
  <2>5. going' = going \/ addGoing(t) \/ removeGoing(t)
    BY <1>3 DEF Step, claimClose, attemptAction, transitionProcess, appendEvent,
             checkAgainstDescriptor, writeIndex, tellGoing, setArchived, submitEdit, applyEdit, recordEdit, histories
  <2>6. had' = had \/ applyEdit(t)
    BY <1>3 DEF Step, claimClose, attemptAction, transitionProcess, appendEvent, addGoing, removeGoing,
             checkAgainstDescriptor, writeIndex, tellGoing, setArchived, submitEdit, recordEdit, histories
  <2>7. Stops(t) => broken' /\ log' = log
    BY DEF Stops, fails
  <2> QED
    BY <2>1, <2>2, <2>3, <2>4, <2>5, <2>6, <2>7
<1> QED
  BY <1>1, <1>2, <1>3

LEMMA NextTold ==
    ASSUME TypeInv, PrevInv, CopyInv, CancelInv, SavedInv, ToldInv, [Next]_vars
    PROVE  ToldInv'
<1>0. /\ told \in [cancelled : SUBSET People, times : SUBSET Ends, announcements : Nat]
      /\ log \in [going : Nat, notGoing : Nat, announced : Nat, edits : Nat]
      /\ owed \subseteq going /\ owed' \subseteq going'
      /\ broken \in BOOLEAN /\ broken' \in BOOLEAN
  BY NextType DEF TypeInv
<1>1. had.times \subseteq had'.times /\ (row.cancelled => row'.cancelled)
  BY NextCap, NextPrev
<1>2. ASSUME NEW t \in Requests, Ask(t) \/ Step(t) \/ Stops(t) PROVE ToldInv'
  <2>1. \A s \in Requests \ {t} : req'[s] = req[s]
    BY <1>2, OthersWait
  <2>2. \A s \in Requests \ {t} : s \in Telling <=> s \in Telling'
    BY <2>1 DEF Telling
  <2>3. \A s \in Requests \ {t} : s \in Announcing <=> s \in Announcing'
    BY <2>1 DEF Announcing
  <2>4. broken' \/ owed' \subseteq told'.cancelled \/ Telling' # {}
    <3>1. CASE transitionProcess(t) /\ req[t].kind = "cancel" /\ owed' # owed
      <4>1. req[t].todo # <<>> /\ Head(req[t].todo) = "write" /\ Plan(req[t])
        BY <3>1 DEF transitionProcess, at, idle, TypeInv, RequestOK
      <4>2. Tail(req[t].todo) = <<"index", "tell">>
        BY <3>1, <4>1, Calls
      <4>3. req'[t].todo = <<"index", "tell">> /\ req'[t].kind = "cancel"
        BY <3>1, <4>2, FirstCalls, Wrote
      <4>4. first(req'[t]) = "index"
        BY <4>3, FirstCalls DEF first
      <4>5. t \in Telling'
        BY <4>3, <4>4 DEF Telling
      <4> QED
        BY <4>5
    <3>2. CASE tellGoing(t) /\ req[t].kind = "cancel"
      <4>1. CASE told' = [told EXCEPT !.cancelled = told.cancelled \cup going]
        <5>1. owed' = owed
          BY <3>2 DEF tellGoing
        <5> QED
          BY <1>0, <4>1, <5>1
      <4>2. CASE broken'
        BY <4>2
      <4> QED
        BY <3>2, <4>1, <4>2 DEF tellGoing, fails
    <3>3. CASE Stops(t)
      BY <1>2, <3>3, Mailed
    <3>4. CASE ~Stops(t) /\ ~(tellGoing(t) /\ req[t].kind = "cancel")
               /\ ~(transitionProcess(t) /\ req[t].kind = "cancel" /\ owed' # owed)
      <4>1. Telling \subseteq Telling'
        <5>1. t \in Telling => t \in Telling'
          BY <1>2, <3>4, Tellers
        <5> QED
          BY <2>2, <5>1 DEF Telling
      <4>2. owed' \subseteq owed
        <5>1. transitionProcess(t) => owed' = owed
          BY <3>4, Wrote
        <5> QED
          BY <1>2, <5>1, Mailed
      <4>3. told.cancelled \subseteq told'.cancelled
        <5>1. CASE tellGoing(t)
          BY <1>0, <3>4, <5>1 DEF tellGoing
        <5> QED
          BY <1>2, <5>1, Mailed
      <4>4. broken => broken'
        BY <1>2, Mailed
      <4> QED
        BY <4>1, <4>2, <4>3, <4>4 DEF ToldInv
    <3> QED
      BY <3>1, <3>2, <3>3, <3>4
  <2>5. /\ told'.cancelled # {} => row'.cancelled
        /\ told'.times \subseteq had'.times
    <3>1. CASE told' = told
      BY <1>1, <3>1 DEF ToldInv
    <3>2. CASE tellGoing(t) /\ told' # told
      <4>1. first(req[t]) = "tell"
        BY <3>2 DEF tellGoing, at, idle, first
      <4>2. \/ req[t].kind = "cancel" /\ told' = [told EXCEPT !.cancelled = told.cancelled \cup going]
            \/ req[t].kind = "edit" /\ told' = [told EXCEPT !.times = told.times \cup {req[t].next.when}]
            \/ told' = [told EXCEPT !.announcements = told.announcements + 1]
        BY <3>2 DEF tellGoing
      <4>3. CASE req[t].kind = "cancel" /\ told' = [told EXCEPT !.cancelled = told.cancelled \cup going]
        <5>1. row.cancelled
          BY <4>1, <4>3 DEF SavedInv
        <5>2. told'.times = told.times
          BY <1>0, <4>3
        <5> QED
          BY <1>1, <5>1, <5>2 DEF ToldInv
      <4>4. CASE req[t].kind = "edit" /\ told' = [told EXCEPT !.times = told.times \cup {req[t].next.when}]
        <5>1. req[t].next.when \in had.times
          BY <4>1, <4>4 DEF SavedInv
        <5>2. told'.times = told.times \cup {req[t].next.when} /\ told'.cancelled = told.cancelled
          BY <1>0, <4>4
        <5> QED
          BY <1>1, <5>1, <5>2 DEF ToldInv
      <4>5. CASE told' = [told EXCEPT !.announcements = told.announcements + 1]
        <5>1. told'.times = told.times /\ told'.cancelled = told.cancelled
          BY <1>0, <4>5
        <5> QED
          BY <1>1, <5>1 DEF ToldInv
      <4> QED
        BY <4>2, <4>3, <4>4, <4>5
    <3> QED
      BY <1>2, <3>1, <3>2, Mailed
  <2>6. told'.announcements + Cardinality(Announcing') <= log'.announced
    <3> DEFINE A == Announcing  B == Announcing'
    <3>1. A \in SUBSET Requests /\ B \in SUBSET Requests
      BY DEF Announcing
    <3>2. \A s \in Requests \ {t} : s \in A <=> s \in B
      BY <2>3
    <3>3. told.announcements + Cardinality(A) <= log.announced
      BY DEF ToldInv
    <3> HIDE DEF A, B
    <3>4. /\ Cardinality(A) \in Nat /\ Cardinality(B) \in Nat
          /\ (t \in A <=> t \in B) => B = A
          /\ t \in B /\ t \notin A => Cardinality(B) = Cardinality(A) + 1
          /\ t \in A /\ t \notin B => Cardinality(A) = Cardinality(B) + 1
      BY <3>1, <3>2, SizeMoves
    <3>5. told.announcements \in Nat /\ log.announced \in Nat
      BY <1>0
    <3>6. CASE appendEvent(t) /\ req[t].kind = "announce"
      <4>1. t \in B /\ t \notin A
        BY <1>2, <3>6, Tellers DEF A, B
      <4>2. log' = [log EXCEPT !.announced = log.announced + 1] /\ told' = told
        BY <3>6 DEF appendEvent, histories
      <4>3. log'.announced = log.announced + 1
        BY <1>0, <4>2
      <4> QED
        BY <3>3, <3>4, <3>5, <4>1, <4>2, <4>3 DEF B
    <3>7. CASE tellGoing(t) /\ req[t].kind = "announce"
      <4>1. t \in A /\ t \notin B
        BY <1>2, <3>7, Tellers DEF A, B
      <4>2. log' = log /\ (told' = told \/ told' = [told EXCEPT !.announcements = told.announcements + 1])
        BY <3>7 DEF tellGoing
      <4>3. told'.announcements = told.announcements \/ told'.announcements = told.announcements + 1
        BY <1>0, <4>2
      <4> QED
        BY <3>3, <3>4, <3>5, <4>1, <4>2, <4>3 DEF B
    <3>8. CASE ~(appendEvent(t) /\ req[t].kind = "announce") /\ ~(tellGoing(t) /\ req[t].kind = "announce")
      <4>1. t \notin B /\ (t \in A => Stops(t))
        BY <1>2, <3>8, Tellers DEF A, B
      <4>2. Cardinality(B) <= Cardinality(A)
        BY <3>4, <4>1
      <4>3. told'.announcements = told.announcements
        <5>1. CASE told' = told
          BY <5>1
        <5>2. CASE tellGoing(t) /\ told' # told
          <6>1. \/ told' = [told EXCEPT !.cancelled = told.cancelled \cup going]
                \/ told' = [told EXCEPT !.times = told.times \cup {req[t].next.when}]
                \/ req[t].kind \notin {"cancel", "edit"}
            BY <5>2 DEF tellGoing
          <6>2. req[t].kind \in {"cancel", "edit", "announce"}
            <7>1. Plan(req[t]) /\ req[t].todo # <<>> /\ Head(req[t].todo) = "tell"
              BY <5>2 DEF tellGoing, at, idle, TypeInv, RequestOK
            <7> QED
              BY <7>1, Calls
          <6> QED
            BY <1>0, <3>8, <5>2, <6>1, <6>2
        <5> QED
          BY <1>2, <5>1, <5>2, Mailed
      <4>4. log'.announced = log.announced
        <5>1. CASE log' = log
          BY <5>1
        <5>2. CASE appendEvent(t)
          BY <1>0, <3>8, <5>2 DEF appendEvent
        <5>3. CASE recordEdit(t)
          BY <1>0, <5>3 DEF recordEdit
        <5> QED
          BY <1>2, <5>1, <5>2, <5>3, Mailed
      <4> QED
        BY <3>3, <3>4, <3>5, <4>2, <4>3, <4>4 DEF B
    <3> QED
      BY <3>6, <3>7, <3>8
  <2> QED
    BY <2>4, <2>5, <2>6 DEF ToldInv
<1>3. CASE Tick \/ ClaimLapses \/ UNCHANGED vars
  <2>1. UNCHANGED <<broken, owed, told, row, had, log, req>>
    BY <1>3 DEF Tick, ClaimLapses, vars, histories
  <2>2. Telling' = Telling /\ Announcing' = Announcing
    BY <2>1 DEF Telling, Announcing
  <2> QED
    BY <2>1, <2>2 DEF ToldInv
<1> QED
  BY <1>2, <1>3 DEF Next

LEMMA AlwaysTold == Spec => []ToldInv
<1>1. Init => ToldInv
  BY InitTold
<1>2. TypeInv /\ PrevInv /\ CopyInv /\ CancelInv /\ SavedInv /\ ToldInv /\ [Next]_vars => ToldInv'
  BY NextTold
<1> QED
  BY <1>1, <1>2, AlwaysCopies, AlwaysSaved, PTL DEF Spec

\* Everyone who was going when the event was cancelled, and still is, has been told
\* once requests are done, unless one ended half way; a cancellation or a new time
\* that was mailed was written, and an announcement that was mailed is on record
\* (tellGoing, after the commit).
THEOREM PeopleAreTold == Spec => []ToldWhatHappened
<1>1. TypeInv /\ ToldInv => ToldWhatHappened
  <2> SUFFICES ASSUME TypeInv, ToldInv PROVE ToldWhatHappened
    OBVIOUS
  <2>1. ASSUME quiet PROVE Telling = {}
    <3>1. \A t \in Requests : first(req[t]) \in {"none", "submit"}
      BY <2>1 DEF quiet, idle, at, first
    <3> QED
      BY <3>1 DEF Telling
  <2>2. told.announcements <= log.announced
    <3>1. Announcing \in SUBSET Requests
      BY DEF Announcing
    <3>2. Cardinality(Announcing) \in Nat
      BY <3>1, FS_Subset, FS_CardinalityType, EventsAssumption
    <3>3. told.announcements \in Nat /\ log.announced \in Nat
      BY DEF TypeInv
    <3>4. told.announcements + Cardinality(Announcing) <= log.announced
      BY DEF ToldInv
    <3> QED
      BY <3>2, <3>3, <3>4
  <2> QED
    BY <2>1, <2>2 DEF ToldInv, ToldWhatHappened
<1> QED
  BY <1>1, AlwaysCopies, AlwaysTold, PTL

-----------------------------------------------------------------------------
(***************************************************************************)
(* What is on record.                                                      *)
(***************************************************************************)
\* Who has come or gone and is not on record.
LEMMA Owing ==
    ASSUME TypeInv, PrevInv, NEW t \in Requests, Ask(t) \/ Step(t) \/ Stops(t), ~Stops(t),
           NEW kind \in {"going", "not_going"}
    PROVE  /\ t \in Owes(kind) => (appendEvent(t) \/ checkAgainstDescriptor(t)) /\ req[t].kind = kind /\ t \notin Owes(kind)'
           /\ t \in Owes(kind)' => \/ kind = "going" /\ addGoing(t) /\ ~(already(t) \/ full)
                                   \/ kind = "not_going" /\ removeGoing(t) /\ already(t)
           /\ addGoing(t) /\ ~(already(t) \/ full) => t \in Owes("going")'
           /\ removeGoing(t) /\ already(t) => t \in Owes("not_going")'
           /\ appendEvent(t) /\ req[t].kind = kind => t \in Owes(kind)
<1> DEFINE owes(q) == q.kind = kind /\ first(q) \in {"append", "refuse"}
<1>1. /\ addGoing(t) => first(req[t]) = "add"
      /\ removeGoing(t) => first(req[t]) = "remove"
      /\ appendEvent(t) => first(req[t]) = "append"
  BY DEF addGoing, removeGoing, appendEvent, at, idle, first
<1>2. owes(req[t]) => (appendEvent(t) \/ checkAgainstDescriptor(t)) /\ ~owes(req'[t])
  BY Acts
<1>3. owes(req'[t]) => \/ kind = "going" /\ addGoing(t) /\ ~(already(t) \/ full)
                       \/ kind = "not_going" /\ removeGoing(t) /\ already(t)
  BY Acts
<1>4. addGoing(t) /\ ~(already(t) \/ full) => req'[t].kind = "going" /\ first(req'[t]) \in {"append", "refuse"}
  BY <1>1, Acts
<1>5. removeGoing(t) /\ already(t) => req'[t].kind = "not_going" /\ first(req'[t]) \in {"append", "refuse"}
  BY <1>1, Acts
<1> QED
  BY <1>1, <1>2, <1>3, <1>4, <1>5 DEF Owes

\* The lists an edit goes through, apart.
LEMMA ToRecordIs ==
    /\ \A c \in ToRecord : c # <<>> /\ Head(c) \in {"index", "tell", "record"}
    /\ {<<>>, <<"index">>, <<"tell">>, <<"index", "tell">>} \cap ToRecord = {}
<1>1. /\ Len(<<"index">>) = 1 /\ Len(<<"tell">>) = 1 /\ Len(<<"index", "tell">>) = 2 /\ Len(<<"record">>) = 1
      /\ Len(<<"index", "record">>) = 2 /\ Len(<<"tell", "record">>) = 2 /\ Len(<<"index", "tell", "record">>) = 3
  OBVIOUS
<1>2. <<"index">>[1] = "index" /\ <<"tell">>[1] = "tell" /\ <<"record">>[1] = "record"
  OBVIOUS
<1>3. <<"index", "tell">>[2] = "tell" /\ <<"index", "record">>[2] = "record" /\ <<"tell", "record">>[2] = "record"
  OBVIOUS
<1>4. <<"index">> \notin ToRecord /\ <<"tell">> \notin ToRecord
  BY <1>1, <1>2 DEF ToRecord
<1>5. <<"index", "tell">> \notin ToRecord
  BY <1>1, <1>3 DEF ToRecord
<1> QED
  BY <1>4, <1>5, LastCalls, FirstCalls DEF ToRecord

\* What an edit that is saved has left to do.
LEMMA EditPlans ==
    ASSUME NEW q, Plan(q), q.kind = "edit", q.todo # <<>>
    PROVE  /\ Head(q.todo) = "index" => q.todo \in AfterSave
           /\ Head(q.todo) = "tell" => q.todo \in {<<"tell">>, <<"tell", "record">>}
           /\ Head(q.todo) = "record" => q.todo = <<"record">>
<1>1. \/ q.todo \in {<<"submit">>, <<"tell">>, <<"record">>, <<"tell", "record">>}
      \/ q.todo \in AfterSave
      \/ q.todo \in {<<"save", "index">>, <<"save", "index", "tell">>, <<"save", "index", "record">>,
                     <<"save", "index", "tell", "record">>}
  BY DEF Plan, Idle
<1>2. CASE q.todo \in {<<"submit">>, <<"tell">>, <<"record">>, <<"tell", "record">>}
  BY <1>2, LastCalls, FirstCalls
<1>3. CASE q.todo \in AfterSave
  BY <1>3, LastCalls, FirstCalls DEF AfterSave
<1>4. CASE q.todo \in {<<"save", "index">>, <<"save", "index", "tell">>, <<"save", "index", "record">>,
                       <<"save", "index", "tell", "record">>}
  BY <1>4, LastCalls, FirstCalls
<1> QED
  BY <1>1, <1>2, <1>3, <1>4

\* Which edits are saved and not on record.
LEMMA Recording ==
    ASSUME TypeInv, PrevInv, CopyInv, NEW t \in Requests, Ask(t) \/ Step(t) \/ Stops(t), ~Stops(t)
    PROVE  /\ recordEdit(t) => t \in Unrecorded /\ t \notin Unrecorded'
           /\ applyEdit(t) => t \notin Unrecorded
           /\ applyEdit(t) /\ writable(req[t]) => (t \in Unrecorded' <=> ~formattingOnly(req[t]))
           /\ applyEdit(t) /\ ~writable(req[t]) => t \notin Unrecorded'
           /\ ~recordEdit(t) /\ ~applyEdit(t) => (t \in Unrecorded <=> t \in Unrecorded')
<1> DEFINE open(q) == q.kind = "edit" /\ q.todo \in ToRecord
           c == Head(req[t].todo)
           r == Tail(req[t].todo)
<1>0. first(Idle) = "none" /\ ~open(Idle)
  BY IdleIs, ToRecordIs DEF first
<1>1. RequestOK(req'[t]) /\ RequestOK(req[t])
  BY NextType DEF TypeInv, Next
<1>2. \A q : open(q) => first(q) \in {"index", "tell", "record"}
  BY ToRecordIs DEF first
<1>3. ASSUME proceeds(t), ~idle(t), c \notin {"write", "save"}
      PROVE  req'[t].todo = r /\ (r # <<>> => req'[t].kind = req[t].kind)
  BY <1>3, Proceeded, IdleIs
<1>4. ASSUME recordEdit(t) PROVE open(req[t]) /\ ~open(req'[t])
  <2>1. ~idle(t) /\ c = "record" /\ proceeds(t) /\ Plan(req[t]) /\ req[t].todo # <<>>
    BY <1>1, <1>4 DEF recordEdit, at, idle, RequestOK
  <2>2. req[t].kind = "edit" /\ r = <<>>
    BY <2>1, Calls
  <2>3. req[t].todo = <<"record">>
    BY <2>1, <2>2, EditPlans
  <2> QED
    BY <1>3, <2>1, <2>2, <2>3, ToRecordIs DEF ToRecord
<1>5. ASSUME applyEdit(t)
      PROVE  /\ ~open(req[t])
             /\ writable(req[t]) => (open(req'[t]) <=> ~formattingOnly(req[t]))
             /\ ~writable(req[t]) => ~open(req'[t])
  <2>1. ~idle(t) /\ c = "save" /\ Plan(req[t]) /\ req[t].todo # <<>> /\ first(req[t]) = "save"
    BY <1>1, <1>5 DEF applyEdit, at, idle, RequestOK, first
  <2>2. ~open(req[t])
    BY <1>2, <2>1
  <2>3. ASSUME ~writable(req[t]) PROVE ~open(req'[t])
    <3>1. ends(t)
      BY <1>5, <2>3 DEF applyEdit
    <3> QED
      BY <1>0, <3>1, Ended
  <2>4. ASSUME writable(req[t]) PROVE open(req'[t]) <=> ~formattingOnly(req[t])
    <3>1. committed(t) /\ req[t].kind = "edit" /\ r # <<>>
      <4>1. committed(t)
        BY <1>5, <2>4 DEF applyEdit
      <4>2. req[t].kind = "edit" /\ r \in AfterSave
        BY <2>1, Calls
      <4> QED
        BY <4>1, <4>2, LastCalls, FirstCalls DEF AfterSave
    <3>2. req'[t].kind = "edit" /\ req'[t].todo = r
      BY <2>1, <3>1, Committed
    <3>3. req[t].todo = editCalls(req[t])
      BY <2>1 DEF CopyInv
    <3>4. CASE formattingOnly(req[t])
      <4>1. req[t].todo \in {<<"save", "index", "tell">>, <<"save", "index">>}
        BY <3>3, <3>4, EditCalls
      <4>2. r \in {<<"index">>, <<"index", "tell">>}
        BY <4>1, FirstCalls
      <4> QED
        BY <3>2, <3>4, <4>2, ToRecordIs
    <3>5. CASE ~formattingOnly(req[t])
      <4>1. req[t].todo \in {<<"save", "index", "tell", "record">>, <<"save", "index", "record">>}
        BY <3>3, <3>5, EditCalls
      <4>2. r \in {<<"index", "record">>, <<"index", "tell", "record">>}
        BY <4>1, FirstCalls
      <4> QED
        BY <3>2, <3>5, <4>2 DEF ToRecord
    <3> QED
      BY <3>4, <3>5
  <2> QED
    BY <2>2, <2>3, <2>4
<1>6. ASSUME writeIndex(t) PROVE open(req[t]) <=> open(req'[t])
  <2>1. ~idle(t) /\ c = "index" /\ proceeds(t) /\ Plan(req[t]) /\ req[t].todo # <<>>
    BY <1>1, <1>6 DEF writeIndex, at, idle, RequestOK
  <2>2. CASE req[t].kind # "edit"
    BY <1>3, <2>1, <2>2, ToRecordIs
  <2>3. CASE req[t].kind = "edit"
    <3>1. req[t].todo \in AfterSave
      BY <2>1, <2>3, EditPlans
    <3>2. \/ req[t].todo = <<"index">> /\ r = <<>>
          \/ req[t].todo = <<"index", "tell">> /\ r = <<"tell">>
          \/ req[t].todo = <<"index", "record">> /\ r = <<"record">>
          \/ req[t].todo = <<"index", "tell", "record">> /\ r = <<"tell", "record">>
      BY <3>1, LastCalls, FirstCalls DEF AfterSave
    <3>3. req[t].todo \in ToRecord <=> r \in ToRecord
      BY <3>2, ToRecordIs DEF ToRecord
    <3> QED
      BY <1>3, <2>1, <2>3, <3>3, ToRecordIs
  <2> QED
    BY <2>2, <2>3
<1>7. ASSUME tellGoing(t) PROVE open(req[t]) <=> open(req'[t])
  <2>1. ~idle(t) /\ c = "tell" /\ proceeds(t) /\ Plan(req[t]) /\ req[t].todo # <<>>
    BY <1>1, <1>7 DEF tellGoing, at, idle, RequestOK
  <2>2. CASE req[t].kind # "edit"
    BY <1>3, <2>1, <2>2, ToRecordIs
  <2>3. CASE req[t].kind = "edit"
    <3>1. req[t].todo \in {<<"tell">>, <<"tell", "record">>}
      BY <2>1, <2>3, EditPlans
    <3>2. \/ req[t].todo = <<"tell">> /\ r = <<>>
          \/ req[t].todo = <<"tell", "record">> /\ r = <<"record">>
      BY <3>1, LastCalls, FirstCalls
    <3>3. req[t].todo \in ToRecord <=> r \in ToRecord
      BY <3>2, ToRecordIs DEF ToRecord
    <3> QED
      BY <1>3, <2>1, <2>3, <3>3, ToRecordIs
  <2> QED
    BY <2>2, <2>3
<1>8. ASSUME ~recordEdit(t), ~applyEdit(t), ~writeIndex(t), ~tellGoing(t) PROVE ~open(req[t]) /\ ~open(req'[t])
  <2>1. first(req[t]) \notin {"index", "tell", "record"}
    BY <1>8, Acts
  <2>2. first(req'[t]) \notin {"index", "tell", "record"} \/ req'[t].kind # "edit"
    BY <1>8, Acts
  <2> QED
    BY <1>2, <2>1, <2>2
<1>9. /\ t \in Unrecorded <=> open(req[t])
      /\ t \in Unrecorded' <=> open(req'[t])
  BY DEF Unrecorded
<1> HIDE DEF open
<1> QED
  BY <1>4, <1>5, <1>6, <1>7, <1>8, <1>9

LEMMA InitRecord == Init => RecordInv
<1> SUFFICES ASSUME Init PROVE RecordInv
  OBVIOUS
<1>1. going = {} /\ log = [going |-> 0, notGoing |-> 0, announced |-> 0, edits |-> 0] /\ had.edits = 0
  BY DEF Init
<1>2. \A t \in Requests : req[t] = Idle /\ first(Idle) = "none" /\ Idle.todo = <<>>
  BY IdleIs DEF Init, first
<1>3. Owes("going") = {} /\ Owes("not_going") = {} /\ Unrecorded = {}
  BY <1>2, ToRecordIs DEF Owes, Unrecorded
<1> QED
  BY <1>1, <1>3, FS_EmptySet DEF RecordInv

\* The joins and the leaves balance.
LEMMA NextJoins ==
    ASSUME TypeInv, PrevInv, CopyInv, NEW t \in Requests, Ask(t) \/ Step(t) \/ Stops(t), ~broken',
           log.going + Cardinality(Owes("going")) = log.notGoing + Cardinality(Owes("not_going")) + Cardinality(going)
    PROVE  log'.going + Cardinality(Owes("going")')
             = log'.notGoing + Cardinality(Owes("not_going")') + Cardinality(going')
<1> DEFINE J == Owes("going")  K == Owes("going")'  L == Owes("not_going")  M == Owes("not_going")'
<1>1. /\ log \in [going : Nat, notGoing : Nat, announced : Nat, edits : Nat]
      /\ broken \in BOOLEAN /\ IsFiniteSet(going) /\ RequestOK(req[t])
  BY FS_Subset, EventsAssumption DEF TypeInv
<1>2. ~Stops(t) /\ ~checkAgainstDescriptor(t)
  <2>1. Stops(t) => broken'
    BY Mailed
  <2>2. checkAgainstDescriptor(t) => broken'
    BY DEF checkAgainstDescriptor
  <2> QED
    BY <2>1, <2>2
<1>3. \A s \in Requests \ {t} : req'[s] = req[s]
  BY OthersWait
<1>4. /\ J \in SUBSET Requests /\ K \in SUBSET Requests /\ L \in SUBSET Requests /\ M \in SUBSET Requests
      /\ \A s \in Requests \ {t} : (s \in J <=> s \in K) /\ (s \in L <=> s \in M)
  BY <1>3 DEF Owes
<1>5. /\ t \in J => appendEvent(t) /\ req[t].kind = "going" /\ t \notin K
      /\ t \in K => addGoing(t) /\ ~(already(t) \/ full)
      /\ addGoing(t) /\ ~(already(t) \/ full) => t \in K
      /\ appendEvent(t) /\ req[t].kind = "going" => t \in J
  BY <1>2, Owing
<1>6. /\ t \in L => appendEvent(t) /\ req[t].kind = "not_going" /\ t \notin M
      /\ t \in M => removeGoing(t) /\ already(t)
      /\ removeGoing(t) /\ already(t) => t \in M
      /\ appendEvent(t) /\ req[t].kind = "not_going" => t \in L
  BY <1>2, Owing
<1>7. log.going + Cardinality(J) = log.notGoing + Cardinality(L) + Cardinality(going)
  OBVIOUS
<1> HIDE DEF J, K, L, M
<1>8. /\ Cardinality(J) \in Nat /\ Cardinality(K) \in Nat
      /\ (t \in J <=> t \in K) => K = J
      /\ t \in K /\ t \notin J => Cardinality(K) = Cardinality(J) + 1
      /\ t \in J /\ t \notin K => Cardinality(J) = Cardinality(K) + 1
  BY <1>4, SizeMoves
<1>9. /\ Cardinality(L) \in Nat /\ Cardinality(M) \in Nat
      /\ (t \in L <=> t \in M) => M = L
      /\ t \in M /\ t \notin L => Cardinality(M) = Cardinality(L) + 1
      /\ t \in L /\ t \notin M => Cardinality(L) = Cardinality(M) + 1
  BY <1>4, SizeMoves
<1>10. Cardinality(going) \in Nat /\ log.going \in Nat /\ log.notGoing \in Nat
  BY <1>1, FS_CardinalityType
<1> DEFINE balances == log'.going + Cardinality(K) = log'.notGoing + Cardinality(M) + Cardinality(going')
<1>11. /\ addGoing(t) => ~appendEvent(t) /\ ~removeGoing(t)
       /\ removeGoing(t) => ~appendEvent(t)
  BY DEF addGoing, removeGoing, appendEvent, at
<1>12. CASE addGoing(t) /\ ~(already(t) \/ full)
  <2>1. going' = going \cup req[t].who /\ log' = log /\ req[t].todo # <<>> /\ Head(req[t].todo) = "add"
    BY <1>12 DEF addGoing, at, idle
  <2>2. req[t].kind = "going"
    BY <1>1, <2>1, Calls DEF RequestOK
  <2>3. PICK p \in People : req[t].who = {p}
    BY <1>1, <2>1, <2>2 DEF RequestOK
  <2>4. p \notin going
    BY <1>12, <2>3 DEF already
  <2>5. Cardinality(going') = Cardinality(going) + 1
    BY <1>1, <2>1, <2>3, <2>4, FS_AddElement
  <2>6. t \in K /\ t \notin J /\ t \notin L /\ t \notin M
    BY <1>5, <1>6, <1>11, <1>12
  <2>7. M = L /\ Cardinality(K) = Cardinality(J) + 1
    BY <1>8, <1>9, <2>6
  <2>8. balances
    BY <1>7, <1>8, <1>9, <1>10, <2>1, <2>5, <2>7
  <2> QED
    BY <2>8 DEF K, M
<1>13. CASE removeGoing(t) /\ already(t)
  <2>1. going' = going \ req[t].who /\ log' = log /\ req[t].todo # <<>> /\ Head(req[t].todo) = "remove"
    BY <1>13 DEF removeGoing, at, idle
  <2>2. req[t].kind = "not_going"
    BY <1>1, <2>1, Calls DEF RequestOK
  <2>3. PICK p \in People : req[t].who = {p}
    BY <1>1, <2>1, <2>2 DEF RequestOK
  <2>4. p \in going /\ going' = going \ {p}
    BY <1>13, <2>1, <2>3 DEF already
  <2>5. Cardinality(going') = Cardinality(going) - 1
    BY <1>1, <2>4, FS_RemoveElement
  <2>6. t \in M /\ t \notin J /\ t \notin K /\ t \notin L
    BY <1>5, <1>6, <1>11, <1>13
  <2>7. K = J /\ Cardinality(M) = Cardinality(L) + 1
    BY <1>8, <1>9, <2>6
  <2>8. balances
    BY <1>7, <1>8, <1>9, <1>10, <2>1, <2>5, <2>7
  <2> QED
    BY <2>8 DEF K, M
<1>14. CASE appendEvent(t)
  <2>1. going' = going
    BY <1>14 DEF appendEvent
  <2>2. CASE req[t].kind = "going"
    <3>1. log' = [log EXCEPT !.going = log.going + 1]
      BY <1>14, <2>2 DEF appendEvent
    <3>2. log'.going = log.going + 1 /\ log'.notGoing = log.notGoing
      BY <1>1, <3>1
    <3>3. t \in J /\ t \notin K /\ t \notin L /\ t \notin M
      BY <1>5, <1>6, <1>11, <1>14, <2>2
    <3>4. M = L /\ Cardinality(J) = Cardinality(K) + 1
      BY <1>8, <1>9, <3>3
    <3>5. balances
      BY <1>7, <1>8, <1>9, <1>10, <2>1, <3>2, <3>4
    <3> QED
      BY <3>5 DEF K, M
  <2>3. CASE req[t].kind = "not_going"
    <3>1. log' = [log EXCEPT !.notGoing = log.notGoing + 1]
      BY <1>14, <2>3 DEF appendEvent
    <3>2. log'.going = log.going /\ log'.notGoing = log.notGoing + 1
      BY <1>1, <3>1
    <3>3. t \in L /\ t \notin M /\ t \notin J /\ t \notin K
      BY <1>5, <1>6, <1>11, <1>14, <2>3
    <3>4. K = J /\ Cardinality(L) = Cardinality(M) + 1
      BY <1>8, <1>9, <3>3
    <3>5. balances
      BY <1>7, <1>8, <1>9, <1>10, <2>1, <3>2, <3>4
    <3> QED
      BY <3>5 DEF K, M
  <2>4. CASE req[t].kind \notin {"going", "not_going"}
    <3>1. log' = log \/ log' = [log EXCEPT !.announced = log.announced + 1]
      BY <1>14, <2>4 DEF appendEvent
    <3>2. log'.going = log.going /\ log'.notGoing = log.notGoing
      BY <1>1, <3>1
    <3>3. t \notin L /\ t \notin M /\ t \notin J /\ t \notin K
      BY <1>5, <1>6, <1>11, <1>14, <2>4
    <3>4. K = J /\ M = L
      BY <1>8, <1>9, <3>3
    <3>5. balances
      BY <1>7, <2>1, <3>2, <3>4
    <3> QED
      BY <3>5 DEF K, M
  <2> QED
    BY <2>2, <2>3, <2>4
<1>15. CASE ~(addGoing(t) /\ ~(already(t) \/ full)) /\ ~(removeGoing(t) /\ already(t)) /\ ~appendEvent(t)
  <2>1. going' = going
    <3>1. addGoing(t) => going' = going
      BY <1>15 DEF addGoing
    <3>2. removeGoing(t) => going' = going
      BY <1>15 DEF removeGoing
    <3> QED
      BY <3>1, <3>2, Mailed
  <2>2. log'.going = log.going /\ log'.notGoing = log.notGoing
    <3>1. CASE log' = log
      BY <3>1
    <3>2. CASE recordEdit(t)
      BY <1>1, <3>2 DEF recordEdit
    <3> QED
      BY <1>15, <3>1, <3>2, Mailed
  <2>3. t \notin L /\ t \notin M /\ t \notin J /\ t \notin K
    BY <1>5, <1>6, <1>15
  <2>4. K = J /\ M = L
    BY <1>8, <1>9, <2>3
  <2>5. balances
    BY <1>7, <2>1, <2>2, <2>4
  <2> QED
    BY <2>5 DEF K, M
<1> QED
  BY <1>12, <1>13, <1>14, <1>15

\* The edits saved and those on record.
LEMMA NextEdits ==
    ASSUME TypeInv, PrevInv, CopyInv, NEW t \in Requests, Ask(t) \/ Step(t) \/ Stops(t), ~broken',
           log.edits + Cardinality(Unrecorded) = had.edits
    PROVE  log'.edits + Cardinality(Unrecorded') = had'.edits
<1> DEFINE U == Unrecorded  V == Unrecorded'
<1>1. /\ log \in [going : Nat, notGoing : Nat, announced : Nat, edits : Nat]
      /\ had \in [times : SUBSET Ends, limits : SUBSET Limits, edits : Nat]
  BY DEF TypeInv
<1>2. ~Stops(t)
  BY Mailed
<1>3. U \in SUBSET Requests /\ V \in SUBSET Requests /\ \A s \in Requests \ {t} : s \in U <=> s \in V
  BY OthersWait DEF Unrecorded
<1>4. /\ recordEdit(t) => t \in U /\ t \notin V
      /\ applyEdit(t) => t \notin U
      /\ applyEdit(t) /\ writable(req[t]) => (t \in V <=> ~formattingOnly(req[t]))
      /\ applyEdit(t) /\ ~writable(req[t]) => t \notin V
      /\ ~recordEdit(t) /\ ~applyEdit(t) => (t \in U <=> t \in V)
  BY <1>2, Recording
<1>5. log.edits + Cardinality(U) = had.edits
  OBVIOUS
<1> HIDE DEF U, V
<1>6. /\ Cardinality(U) \in Nat /\ Cardinality(V) \in Nat
      /\ (t \in U <=> t \in V) => V = U
      /\ t \in V /\ t \notin U => Cardinality(V) = Cardinality(U) + 1
      /\ t \in U /\ t \notin V => Cardinality(U) = Cardinality(V) + 1
  BY <1>3, SizeMoves
<1>7. log.edits \in Nat /\ had.edits \in Nat
  BY <1>1
<1> DEFINE balances == log'.edits + Cardinality(V) = had'.edits
<1>8. CASE recordEdit(t)
  <2>1. log' = [log EXCEPT !.edits = log.edits + 1] /\ had' = had
    BY <1>8 DEF recordEdit, histories
  <2>2. log'.edits = log.edits + 1
    BY <1>1, <2>1
  <2>3. balances
    BY <1>4, <1>5, <1>6, <1>7, <1>8, <2>1, <2>2
  <2> QED
    BY <2>3 DEF V
<1>9. CASE applyEdit(t)
  <2>1. log' = log
    BY <1>9 DEF applyEdit
  <2>2. CASE ~writable(req[t])
    <3>1. had' = had
      BY <1>9, <2>2 DEF applyEdit
    <3>2. V = U
      BY <1>4, <1>6, <1>9, <2>2
    <3>3. balances
      BY <1>5, <2>1, <3>1, <3>2
    <3> QED
      BY <3>3 DEF V
  <2>3. CASE writable(req[t])
    <3>1. had' = [times |-> had.times \cup {req[t].next.when}, limits |-> had.limits \cup {req[t].next.cap},
                  edits |-> had.edits + (IF formattingOnly(req[t]) THEN 0 ELSE 1)]
      BY <1>9, <2>3 DEF applyEdit
    <3>2. had'.edits = had.edits + (IF formattingOnly(req[t]) THEN 0 ELSE 1)
      BY <3>1
    <3>3. CASE formattingOnly(req[t])
      <4>1. V = U /\ had'.edits = had.edits
        BY <1>4, <1>6, <1>7, <1>9, <2>3, <3>2, <3>3
      <4>2. balances
        BY <1>5, <2>1, <4>1
      <4> QED
        BY <4>2 DEF V
    <3>4. CASE ~formattingOnly(req[t])
      <4>1. Cardinality(V) = Cardinality(U) + 1 /\ had'.edits = had.edits + 1
        BY <1>4, <1>6, <1>9, <2>3, <3>2, <3>4
      <4>2. balances
        BY <1>5, <1>6, <1>7, <2>1, <4>1
      <4> QED
        BY <4>2 DEF V
    <3> QED
      BY <3>3, <3>4
  <2> QED
    BY <2>2, <2>3
<1>10. CASE ~recordEdit(t) /\ ~applyEdit(t)
  <2>1. had' = had
    BY <1>10, Mailed
  <2>2. log'.edits = log.edits
    <3>1. CASE log' = log
      BY <3>1
    <3>2. CASE appendEvent(t)
      BY <1>1, <3>2 DEF appendEvent
    <3> QED
      BY <1>10, <3>1, <3>2, Mailed
  <2>3. V = U
    BY <1>4, <1>6, <1>10
  <2>4. balances
    BY <1>5, <2>1, <2>2, <2>3
  <2> QED
    BY <2>4 DEF V
<1> QED
  BY <1>8, <1>9, <1>10

LEMMA NextRecord ==
    ASSUME TypeInv, PrevInv, CopyInv, RecordInv, [Next]_vars
    PROVE  RecordInv'
<1>1. ASSUME NEW t \in Requests, Ask(t) \/ Step(t) \/ Stops(t), ~broken' PROVE RecordInv'
  <2>1. ~broken
    BY <1>1, Mailed
  <2>2. /\ log.going + Cardinality(Owes("going")) = log.notGoing + Cardinality(Owes("not_going")) + Cardinality(going)
        /\ log.edits + Cardinality(Unrecorded) = had.edits
    BY <2>1 DEF RecordInv
  <2>3. log'.going + Cardinality(Owes("going")') = log'.notGoing + Cardinality(Owes("not_going")') + Cardinality(going')
    BY <1>1, <2>2, NextJoins
  <2>4. log'.edits + Cardinality(Unrecorded') = had'.edits
    BY <1>1, <2>2, NextEdits
  <2> QED
    BY <2>3, <2>4 DEF RecordInv
<1>2. CASE broken'
  BY <1>2 DEF RecordInv
<1>3. CASE Tick \/ ClaimLapses \/ UNCHANGED vars
  <2>1. UNCHANGED <<broken, going, had, log, req>>
    BY <1>3 DEF Tick, ClaimLapses, vars, histories
  <2>2. Owes("going")' = Owes("going") /\ Owes("not_going")' = Owes("not_going") /\ Unrecorded' = Unrecorded
    BY <2>1 DEF Owes, Unrecorded
  <2> QED
    BY <2>1, <2>2 DEF RecordInv
<1> QED
  BY <1>1, <1>2, <1>3 DEF Next

LEMMA AlwaysRecorded == Spec => []RecordInv
<1>1. Init => RecordInv
  BY InitRecord
<1>2. TypeInv /\ PrevInv /\ CopyInv /\ CancelInv /\ RecordInv /\ [Next]_vars => RecordInv'
  BY NextRecord
<1> QED
  BY <1>1, <1>2, AlwaysCopies, PTL DEF Spec

\* The log has one Join more than Leaves for each one going, and one entry for each
\* edit but those of the layout, once requests are done and unless one ended half
\* way (addGoing and removeGoing, civic.process.updated).
THEOREM LogCounts == Spec => []OnRecord
<1>1. TypeInv /\ RecordInv => OnRecord
  <2> SUFFICES ASSUME TypeInv, RecordInv, quiet, ~broken
               PROVE  log.going = log.notGoing + Cardinality(going) /\ log.edits = had.edits
    BY DEF OnRecord
  <2>1. \A t \in Requests : first(req[t]) \in {"none", "submit"}
    BY DEF quiet, idle, at, first
  <2>2. Owes("going") = {} /\ Owes("not_going") = {}
    BY <2>1 DEF Owes
  <2>3. Unrecorded = {}
    <3>1. \A t \in Requests : req[t].todo \notin ToRecord
      BY <2>1, ToRecordIs DEF first
    <3> QED
      BY <3>1 DEF Unrecorded
  <2>4. IsFiniteSet(going)
    BY FS_Subset, EventsAssumption DEF TypeInv
  <2>5. Cardinality(going) \in Nat /\ log.going \in Nat /\ log.notGoing \in Nat /\ log.edits \in Nat /\ had.edits \in Nat
    BY <2>4, FS_CardinalityType DEF TypeInv
  <2>6. Cardinality({}) = 0
    BY FS_EmptySet
  <2>7. /\ log.going + 0 = log.notGoing + 0 + Cardinality(going)
        /\ log.edits + 0 = had.edits
    BY <2>2, <2>3, <2>6 DEF RecordInv
  <2> QED
    BY <2>5, <2>7
<1> QED
  BY <1>1, AlwaysCopies, AlwaysRecorded, PTL

-----------------------------------------------------------------------------
(***************************************************************************)
(* The calendar.                                                           *)
(***************************************************************************)
Changers == {"publish", "cancel", "edit", "archive", "restore"}

\* A request under way; a form that is open is not.
Active(q) == first(q) \notin {"none", "submit"}

Clean == ~broken /\ ~undeclared

Agrees(a, b) == a.text = b.text /\ a.when = b.when /\ a.cap = b.cap /\ a.cancelled = b.cancelled

\* An event that is not on the calendar waits for its approval, or is about to be put there.
ListInv ==
    /\ cal.archived => cal.listed
    /\ Clean => \/ cal.listed
                \/ "pending_review" \in {row.status, row.prev}
                \/ \E t \in Requests : req[t].kind = "publish" /\ first(req[t]) = "index"

\* Requests that have not met do not conflict.
AloneInv ==
    \A t, u \in Requests : t # u /\ Active(req[t]) /\ Active(req[u]) =>
        /\ "calendar" \notin overlapped => ~(req[t].kind \in Changers /\ req[u].kind \in Changers)
        /\ "shown" \notin overlapped /\ req[t].kind \in {"publish", "restore"} => req[u].kind \notin Changers \cup {"close"}

\* While nothing else changes the event, the calendar follows the row.
FollowInv ==
    Clean /\ "calendar" \notin overlapped =>
        /\ cal.listed => Agrees(cal, row) \/ \E t \in Requests : first(req[t]) = "index"
        /\ cal.listed => cal.archived = (row.status = "archived") \/ \E t \in Requests : first(req[t]) = "flag"
        /\ \A t \in Requests :
              /\ first(req[t]) = "index" => Agrees(req[t].next, row) /\ row.status \in {"active", "closed"}
              /\ first(req[t]) = "save" =>
                    /\ row.status \in {"active", "closed"} /\ req[t].copy.when = row.when
                    /\ req[t].copy.cap = row.cap /\ req[t].copy.cancelled = row.cancelled
              /\ first(req[t]) = "flag" => (req[t].kind = "archive") = (row.status = "archived")

\* While nothing brings the event back, the calendar does not show what was archived.
DownInv ==
    Clean /\ "shown" \notin overlapped =>
        /\ row.status = "archived" =>
              ~cal.listed \/ cal.archived \/ \E t \in Requests : req[t].kind = "archive" /\ first(req[t]) = "flag"
        /\ \A t \in Requests :
              /\ first(req[t]) = "save" \/ (first(req[t]) = "index" /\ req[t].kind \in {"cancel", "edit"}) => cal.listed
              /\ (first(req[t]) = "flag" /\ req[t].kind = "restore")
                    \/ (first(req[t]) = "index" /\ req[t].kind = "publish") => row.status # "archived"

-----------------------------------------------------------------------------
\* What a request's step changes of the row and the calendar: nothing but the
\* row's version, or what an edit or an action changes, or the calendar's row.
Same(a, b) == Agrees(a, b) /\ a.status = b.status /\ a.prev = b.prev

Untold == overlapped \subseteq overlapped' /\ broken' = broken

Calm(t) ==
    /\ Untold /\ undeclared' = undeclared /\ cal' = cal /\ Same(row', row)
    /\ first(req[t]) \notin {"index", "flag"} /\ first(req'[t]) \notin {"index", "flag", "save"}

Opens(t) ==
    /\ Untold /\ undeclared' = undeclared /\ cal' = cal /\ row' = row
    /\ first(req[t]) = "submit" /\ first(req'[t]) = "save" /\ req'[t].kind = "edit"
    /\ req'[t].copy = row /\ row.status = "active"

Writes(t) ==
    /\ Untold /\ cal' = cal /\ first(req[t]) = "write" /\ row'.text = row.text /\ row'.when = row.when /\ row'.cap = row.cap
    /\ undeclared' = (undeclared \/ (req[t].kind \in retry_safe /\ row.status \notin declaredFrom(req[t].kind)))
    /\ \/ /\ req[t].kind = "publish" /\ row'.status = "active" /\ row'.prev = row.prev /\ row'.cancelled = row.cancelled
          /\ first(req'[t]) = "index" /\ req'[t].kind = "publish" /\ Agrees(req'[t].next, row')
       \/ /\ req[t].kind = "cancel" /\ row'.status = "closed" /\ row'.prev = row.prev
          /\ first(req'[t]) = "index" /\ req'[t].kind = "cancel" /\ Agrees(req'[t].next, row')
       \/ /\ req[t].kind = "close" /\ row'.status = "closed" /\ row'.prev = row.prev /\ row'.cancelled = row.cancelled
          /\ first(req'[t]) = "none"
       \/ /\ req[t].kind = "archive" /\ row.status # "archived" /\ row'.status = "archived" /\ row'.prev = row.status
          /\ row'.cancelled = row.cancelled /\ first(req'[t]) = "flag" /\ req'[t].kind = "archive"
       \/ /\ req[t].kind = "restore" /\ row.status = "archived" /\ row'.status = row.prev /\ row'.prev = "none"
          /\ row'.cancelled = row.cancelled /\ first(req'[t]) = "flag" /\ req'[t].kind = "restore"

Saves(t) ==
    /\ Untold /\ undeclared' = undeclared /\ cal' = cal
    /\ row'.status = row.status /\ row'.prev = row.prev /\ row'.cancelled = row.cancelled
    /\ first(req[t]) = "save" /\ first(req'[t]) = "index" /\ req[t].kind = "edit" /\ req'[t].kind = "edit"
    /\ req'[t].next = req[t].next /\ req[t].next.cancelled = req[t].copy.cancelled
    /\ row'.text = req[t].next.text
    /\ \/ row'.when = req[t].next.when /\ row'.cap = req[t].next.cap
       \/ /\ row'.when = row.when /\ row'.cap = row.cap
          /\ req[t].next.when = req[t].copy.when /\ req[t].next.cap = req[t].copy.cap

Indexes(t) ==
    /\ Untold /\ undeclared' = undeclared /\ row' = row /\ cal' = upsert(req[t].next)
    /\ first(req[t]) = "index" /\ first(req'[t]) \notin {"index", "flag", "save"}

Flags(t) ==
    /\ Untold /\ undeclared' = undeclared /\ row' = row
    /\ cal'.listed = cal.listed /\ Agrees(cal', cal) /\ cal'.archived = (cal.listed /\ req[t].kind = "archive")
    /\ first(req[t]) = "flag" /\ first(req'[t]) \notin {"index", "flag", "save"}

\* Which calls are a change's.
LEMMA Changing ==
    ASSUME TypeInv, NEW t \in Requests
    PROVE  /\ first(req[t]) = "submit" => req[t].kind = "edit"
           /\ first(req[t]) = "save" => req[t].kind = "edit"
           /\ first(req[t]) = "index" => req[t].kind \in {"publish", "cancel", "edit"}
           /\ first(req[t]) = "flag" => req[t].kind \in {"archive", "restore"}
           /\ first(req[t]) = "write" => req[t].kind \in {"publish", "cancel", "close", "archive", "restore"}
<1>1. CASE req[t].todo = <<>>
  BY <1>1 DEF first
<1>2. CASE req[t].todo # <<>>
  <2>1. first(req[t]) = Head(req[t].todo) /\ Plan(req[t])
    BY <1>2 DEF first, TypeInv, RequestOK
  <2> QED
    BY <1>2, <2>1, Calls
<1> QED
  BY <1>1, <1>2

\* The row as an action's write leaves it.
LEMMA Written ==
    ASSUME TypeInv, NEW q, q.copy = row, q.next = Target(q),
           q.kind \in {"publish", "cancel", "close", "archive", "restore"},
           row' = [q.next EXCEPT !.version = row.version + 1], q.next \in Rows
    PROVE  /\ row'.text = row.text /\ row'.when = row.when /\ row'.cap = row.cap /\ Agrees(q.next, row')
           /\ q.kind = "publish" => row'.status = "active" /\ row'.prev = row.prev /\ row'.cancelled = row.cancelled
           /\ q.kind = "cancel" => row'.status = "closed" /\ row'.prev = row.prev
           /\ q.kind = "close" => row'.status = "closed" /\ row'.prev = row.prev /\ row'.cancelled = row.cancelled
           /\ q.kind = "archive" => row'.status = "archived" /\ row'.prev = row.status /\ row'.cancelled = row.cancelled
           /\ q.kind = "restore" => row'.status = row.prev /\ row'.prev = "none" /\ row'.cancelled = row.cancelled
<1>1. row \in Rows
  BY DEF TypeInv
<1>2. Target(q).text = row.text
  <2>1. CASE q.kind \in {"publish", "cancel"}
    BY <1>1, <2>1 DEF Target, Rows
  <2>2. CASE q.kind = "close"
    BY <1>1, <2>2 DEF Target, Rows
  <2>3. CASE q.kind \in {"archive", "restore"}
    BY <1>1, <2>3 DEF Target, Rows
  <2> QED
    BY <2>1, <2>2, <2>3
<1>3. /\ row'.text = q.next.text /\ row'.when = q.next.when /\ row'.cap = q.next.cap /\ row'.status = q.next.status
      /\ row'.prev = q.next.prev /\ row'.cancelled = q.next.cancelled
  BY DEF Rows
<1>4. /\ q.kind = "publish" => Target(q).status = "active" /\ Target(q).prev = row.prev /\ Target(q).cancelled = row.cancelled
      /\ q.kind = "cancel" => Target(q).status = "closed" /\ Target(q).prev = row.prev /\ Target(q).cancelled = TRUE
      /\ q.kind = "close" => Target(q).status = "closed" /\ Target(q).prev = row.prev /\ Target(q).cancelled = row.cancelled
      /\ q.kind = "archive" => Target(q).status = "archived" /\ Target(q).prev = row.status /\ Target(q).cancelled = row.cancelled
      /\ q.kind = "restore" => Target(q).status = row.prev /\ Target(q).prev = "none" /\ Target(q).cancelled = row.cancelled
      /\ Target(q).cap = row.cap /\ Target(q).when = row.when
  BY <1>1, Targets
<1> HIDE DEF Target
<1>5. Agrees(q.next, row')
  BY <1>3 DEF Agrees
<1>6. row'.text = row.text /\ row'.when = row.when /\ row'.cap = row.cap
  BY <1>2, <1>3, <1>4
<1> QED
  BY <1>3, <1>4, <1>5, <1>6

\* A request stays of one kind.
LEMMA KindKept ==
    ASSUME TypeInv, PrevInv, NEW t \in Requests, Step(t)
    PROVE  req'[t] = Idle \/ req'[t].kind = req[t].kind
<1>0. req[t] \in RequestRecords
  BY DEF TypeInv
<1>1. ASSUME NEW q, becomes(t, q), q = Idle \/ q.kind = req[t].kind PROVE req'[t] = Idle \/ req'[t].kind = req[t].kind
  BY <1>1, Replaced
<1>2. ASSUME ends(t) PROVE req'[t] = Idle
  BY <1>2, Ended
<1>3. ASSUME proceeds(t) PROVE req'[t] = Idle \/ req'[t].kind = req[t].kind
  <2>1. [req[t] EXCEPT !.todo = Tail(@)].kind = req[t].kind
    BY <1>0 DEF RequestRecords
  <2> QED
    BY <1>1, <1>3, <2>1 DEF proceeds
<1>4. ASSUME committed(t) PROVE req'[t] = Idle \/ req'[t].kind = req[t].kind
  <2> DEFINE q == [Idle EXCEPT !.todo = Tail(req[t].todo), !.kind = req[t].kind, !.next = req[t].next]
  <2>1. q.kind = req[t].kind
    BY DEF Idle
  <2>2. becomes(t, q)
    BY <1>4 DEF committed
  <2> HIDE DEF q
  <2> QED
    BY <1>1, <2>1, <2>2
<1>5. CASE attemptAction(t)
  <2>1. \/ becomes(t, Idle)
        \/ \E todo : becomes(t, [Idle EXCEPT !.kind = req[t].kind, !.who = req[t].who, !.todo = todo])
        \/ \E next, todo : becomes(t, [req[t] EXCEPT !.copy = row, !.next = next, !.todo = todo])
    BY <1>5 DEF attemptAction
  <2>2. ASSUME NEW todo PROVE [Idle EXCEPT !.kind = req[t].kind, !.who = req[t].who, !.todo = todo].kind = req[t].kind
    BY DEF Idle
  <2>3. ASSUME NEW next, NEW todo PROVE [req[t] EXCEPT !.copy = row, !.next = next, !.todo = todo].kind = req[t].kind
    BY <1>0 DEF RequestRecords
  <2> QED
    BY <1>1, <2>1, <2>2, <2>3
<1>6. CASE submitEdit(t)
  <2>1. first(req[t]) = "submit"
    BY <1>6 DEF submitEdit, at, idle, first
  <2> QED
    BY <1>6, <2>1, Submitted, Changing
<1>7. CASE transitionProcess(t)
  <2>1. [req[t] EXCEPT !.todo = <<"attempt">>, !.tries = @ + 1].kind = req[t].kind
    BY <1>0 DEF RequestRecords
  <2>2. committed(t) \/ ends(t) \/ becomes(t, [req[t] EXCEPT !.todo = <<"attempt">>, !.tries = @ + 1])
    BY <1>7 DEF transitionProcess
  <2> QED
    BY <1>1, <1>2, <1>4, <2>1, <2>2
<1>8. ASSUME ~attemptAction(t), ~submitEdit(t), ~transitionProcess(t) PROVE ends(t) \/ proceeds(t) \/ committed(t)
  BY <1>8 DEF Step, claimClose, appendEvent, addGoing, removeGoing, checkAgainstDescriptor, writeIndex, tellGoing,
             setArchived, applyEdit, recordEdit
<1> QED
  BY <1>2, <1>3, <1>4, <1>5, <1>6, <1>7, <1>8

\* A request that asks meets those under way.
LEMMA ArrivedMeets ==
    ASSUME TypeInv, PrevInv, NEW t \in Requests, Ask(t)
    PROVE  (first(req'[t]) = "submit" /\ overlapped' = overlapped) \/ meets(t, req'[t].kind)
<1> DEFINE goal == (first(req'[t]) = "submit" /\ overlapped' = overlapped) \/ meets(t, req'[t].kind)
<1>1. ASSUME NEW q, becomes(t, q), q.todo # <<>>, NEW kind, q.kind = kind, meets(t, kind) PROVE goal
  <2>1. req'[t] = q
    BY <1>1, Replaced
  <2> QED
    BY <1>1, <2>1
<1>2. ASSUME NEW kind, NEW caller, NEW who, actOnProcess(t, kind, caller, who) PROVE goal
  <2> DEFINE q == [Idle EXCEPT !.todo = <<"attempt">>, !.kind = kind, !.caller = caller, !.who = who]
  <2>1. q.todo # <<>> /\ q.kind = kind
    BY LastCalls DEF Idle
  <2>2. becomes(t, q) /\ meets(t, kind)
    BY <1>2 DEF actOnProcess, arrives
  <2> HIDE DEF q
  <2> QED
    BY <1>1, <2>1, <2>2
<1>3. CASE Approve(t)
  <2> DEFINE q == [Idle EXCEPT !.todo = <<"attempt">>, !.kind = "publish"]
  <2>1. q.todo # <<>> /\ q.kind = "publish"
    BY LastCalls DEF Idle
  <2>2. becomes(t, q) /\ meets(t, "publish")
    BY <1>3 DEF Approve, arrives
  <2> HIDE DEF q
  <2> QED
    BY <1>1, <2>1, <2>2
<1>4. CASE closeIfExpired(t)
  <2> DEFINE q == [Idle EXCEPT !.todo = <<"claim", "attempt">>, !.kind = "close", !.copy = row]
  <2>1. q.todo # <<>> /\ q.kind = "close"
    BY FirstCalls DEF Idle
  <2>2. becomes(t, q) /\ meets(t, "close")
    BY <1>4 DEF closeIfExpired, arrives
  <2> HIDE DEF q
  <2> QED
    BY <1>1, <2>1, <2>2
<1>5. CASE archiveProcess(t)
  <2> DEFINE q == [Idle EXCEPT !.todo = calls("archive"), !.kind = "archive", !.caller = "admin", !.copy = row,
                               !.next = [row EXCEPT !.status = "archived", !.prev = row.status]]
  <2>1. q.todo # <<>> /\ q.kind = "archive"
    BY FirstCalls DEF Idle, calls
  <2>2. becomes(t, q) /\ meets(t, "archive")
    BY <1>5 DEF archiveProcess, arrives
  <2> HIDE DEF q
  <2> QED
    BY <1>1, <2>1, <2>2
<1>6. CASE restoreProcess(t)
  <2> DEFINE q == [Idle EXCEPT !.todo = calls("restore"), !.kind = "restore", !.caller = "admin", !.copy = row,
                               !.next = restored(row)]
  <2>1. q.todo # <<>> /\ q.kind = "restore"
    BY FirstCalls DEF Idle, calls
  <2>2. becomes(t, q) /\ meets(t, "restore")
    BY <1>6 DEF restoreProcess, arrives
  <2> HIDE DEF q
  <2> QED
    BY <1>1, <2>1, <2>2
<1>7. CASE startEdit(t)
  <2> DEFINE q == [Idle EXCEPT !.todo = <<"submit">>, !.kind = "edit", !.copy = row]
  <2>1. q.todo = <<"submit">> /\ q.todo # <<>>
    BY LastCalls DEF Idle
  <2>2. becomes(t, q) /\ overlapped' = overlapped
    BY <1>7 DEF startEdit, arrives
  <2> HIDE DEF q
  <2>3. req'[t] = q
    BY <2>1, <2>2, Replaced
  <2> QED
    BY <2>1, <2>2, <2>3, LastCalls DEF first
<1> HIDE DEF goal
<1>8. CASE \E kind, caller, who : actOnProcess(t, kind, caller, who)
  BY <1>2, <1>8 DEF goal
<1>9. \/ \E kind, caller, who : actOnProcess(t, kind, caller, who)
      \/ Approve(t) \/ closeIfExpired(t) \/ archiveProcess(t) \/ restoreProcess(t) \/ startEdit(t)
  BY DEF Ask
<1>10. goal
  BY <1>3, <1>4, <1>5, <1>6, <1>7, <1>8, <1>9 DEF goal
<1> QED
  BY <1>10 DEF goal

\* What those under way and a newcomer conflict about is on record.
LEMMA Met ==
    ASSUME NEW t \in Requests, NEW kind, meets(t, kind)
    PROVE  /\ overlapped \subseteq overlapped'
           /\ \A u \in Requests \ {t} : Active(req[u]) => conflicts({kind, req[u].kind}) \subseteq overlapped'
<1>1. ASSUME NEW u \in Requests \ {t}, Active(req[u]) PROVE ~idle(u) /\ ~at(u, "submit")
  BY <1>1 DEF Active, first, idle, at
<1> QED
  BY <1>1 DEF meets

LEMMA Conflicting ==
    ASSUME NEW j \in Changers, NEW k
    PROVE  /\ k \in Changers => "calendar" \in conflicts({j, k}) /\ "calendar" \in conflicts({k, j})
           /\ j \in {"publish", "restore"} /\ k \in Changers \cup {"close"} =>
                 "shown" \in conflicts({j, k}) /\ "shown" \in conflicts({k, j})
           /\ k \in {"publish", "restore"} => "shown" \in conflicts({j, k}) /\ "shown" \in conflicts({k, j})
<1>1. "publish" # "going" /\ {j, k} = {k, j}
  OBVIOUS
<1>2. k \in Changers \cup {"close"} => {j, k} \cap {"going", "not_going", "announce"} = {}
  BY DEF Changers
<1>3. k \in Changers => "close" \notin {j, k}
  BY DEF Changers
<1>4. j \in {"publish", "restore"} \/ k \in {"publish", "restore"} => {j, k} \cap {"publish", "restore"} # {}
  OBVIOUS
<1>5. k \in {"publish", "restore"} => k \in Changers
  BY DEF Changers
<1> QED
  BY <1>1, <1>2, <1>3, <1>4, <1>5 DEF conflicts

\* Which step of a request is which.
LEMMA Changes ==
    ASSUME TypeInv, PrevInv, CopyInv, NEW t \in Requests, Ask(t) \/ Step(t) \/ Stops(t)
    PROVE  \/ broken'
           \/ Calm(t) \/ Opens(t) \/ Writes(t) \/ Saves(t) \/ Indexes(t) \/ Flags(t)
<1> DEFINE goal == broken' \/ Calm(t) \/ Opens(t) \/ Writes(t) \/ Saves(t) \/ Indexes(t) \/ Flags(t)
<1>0. first(Idle) = "none" /\ row \in Rows
  BY IdleIs DEF first, TypeInv
<1>1. CASE Ask(t)
  <2>1. /\ UNCHANGED <<row, cal, undeclared, broken>> /\ first(req[t]) = "none"
        /\ first(req'[t]) \in {"attempt", "claim", "submit", "write"}
    BY <1>1, Arrived DEF first, idle
  <2>2. overlapped \subseteq overlapped'
    BY <1>1, ArrivedMeets, Met
  <2> QED
    BY <2>1, <2>2 DEF Calm, Untold, Same, Agrees
<1>2. CASE Stops(t)
  BY <1>2 DEF Stops, fails
<1>3. ASSUME Step(t), UNCHANGED <<row, cal, undeclared, broken, overlapped>>, first(req[t]) \notin {"index", "flag"},
             first(req'[t]) \notin {"index", "flag", "save"}
      PROVE  Calm(t)
  BY <1>3 DEF Calm, Untold, Same, Agrees
<1>4. CASE attemptAction(t)
  <2>1. UNCHANGED <<row, cal, undeclared, broken, overlapped>> /\ first(req[t]) = "attempt"
    BY <1>4 DEF attemptAction, histories, rest, at, idle, first
  <2>2. first(req'[t]) \notin {"index", "flag", "save"}
    BY <1>0, <1>4, Attempted DEF first
  <2> QED
    BY <1>3, <1>4, <2>1, <2>2 DEF Step
<1>5. CASE claimClose(t)
  <2>1. UNCHANGED <<cal, undeclared, broken, overlapped>> /\ first(req[t]) = "claim"
        /\ (row' = row \/ row' = [row EXCEPT !.version = row.version + 1])
    BY <1>5 DEF claimClose, histories, rest, at, idle, first
  <2>2. Same(row', row)
    BY <1>0, <2>1 DEF Rows, Same, Agrees
  <2>3. first(req'[t]) \in {"none", "attempt"}
    <3>1. (proceeds(t) \/ ends(t)) /\ ~idle(t) /\ Head(req[t].todo) = "claim"
      BY <1>5 DEF claimClose, at
    <3>2. Tail(req[t].todo) = <<"attempt">>
      BY <3>1, Calls DEF TypeInv, RequestOK, idle
    <3> QED
      BY <1>0, <3>1, <3>2, Ended, Proceeded, LastCalls DEF first
  <2> QED
    BY <2>1, <2>2, <2>3 DEF Calm, Untold
<1>6. CASE submitEdit(t)
  <2>1. UNCHANGED <<row, cal, undeclared, broken>> /\ first(req[t]) = "submit"
    BY <1>6 DEF submitEdit, histories, at, idle, first
  <2>2. overlapped \subseteq overlapped'
    <3>1. meets(t, "edit") \/ overlapped' = overlapped
      BY <1>6 DEF submitEdit
    <3> QED
      BY <3>1, Met
  <2>3. CASE req'[t] = Idle
    BY <1>0, <2>1, <2>2, <2>3 DEF Calm, Untold, Same, Agrees
  <2>4. CASE req'[t] # Idle
    <3>1. first(req'[t]) = "save" /\ req'[t].kind = "edit" /\ req'[t].copy = row
      BY <1>6, <2>4, Submitted DEF first
    <3>2. row.status = "active"
      <4>1. row.status # "active" => ends(t)
        BY <1>6 DEF submitEdit
      <4> QED
        BY <2>4, <4>1, Ended
    <3> QED
      BY <2>1, <2>2, <3>1, <3>2 DEF Opens, Untold
  <2> QED
    BY <2>3, <2>4
<1>7. CASE transitionProcess(t)
  <2>1. /\ UNCHANGED <<cal, broken, overlapped>> /\ first(req[t]) = "write" /\ ~idle(t) /\ Head(req[t].todo) = "write"
    BY <1>7 DEF transitionProcess, rest, at, idle, first
  <2>2. CASE /\ UNCHANGED <<row, owed, undeclared>>
             /\ \/ req'[t] = Idle
                \/ req'[t].todo # <<>> /\ Head(req'[t].todo) = "attempt" /\ req'[t].kind = req[t].kind
    <3>1. first(req'[t]) \in {"none", "attempt"}
      BY <1>0, <2>2 DEF first
    <3> QED
      BY <2>1, <2>2, <3>1 DEF Calm, Untold, Same, Agrees
  <2>3. CASE /\ row.version = req[t].copy.version /\ row.status = req[t].copy.status
             /\ row' = [req[t].next EXCEPT !.version = row.version + 1]
             /\ undeclared' = (undeclared \/ (req[t].kind \in retry_safe /\ req[t].copy.status \notin declaredFrom(req[t].kind)))
             /\ \/ Tail(req[t].todo) = <<>> /\ req'[t] = Idle
                \/ /\ Tail(req[t].todo) # <<>> /\ req'[t].todo = Tail(req[t].todo)
                   /\ req'[t].kind = req[t].kind /\ req'[t].next = req[t].next
    <3>1. /\ req[t].copy = row /\ req[t].next = Target(req[t]) /\ req[t].next \in Rows
          /\ req[t].kind = "archive" => row.status # "archived"
          /\ req[t].kind = "restore" => row.status = "archived"
      BY <2>1, <2>3 DEF CopyInv, TypeInv, RequestRecords
    <3>2. req[t].kind \in {"publish", "cancel", "close", "archive", "restore"}
      BY <2>1, Changing
    <3>3. /\ row'.text = row.text /\ row'.when = row.when /\ row'.cap = row.cap /\ Agrees(req[t].next, row')
          /\ req[t].kind = "publish" => row'.status = "active" /\ row'.prev = row.prev /\ row'.cancelled = row.cancelled
          /\ req[t].kind = "cancel" => row'.status = "closed" /\ row'.prev = row.prev
          /\ req[t].kind = "close" => row'.status = "closed" /\ row'.prev = row.prev /\ row'.cancelled = row.cancelled
          /\ req[t].kind = "archive" => row'.status = "archived" /\ row'.prev = row.status /\ row'.cancelled = row.cancelled
          /\ req[t].kind = "restore" => row'.status = row.prev /\ row'.prev = "none" /\ row'.cancelled = row.cancelled
      BY <2>3, <3>1, <3>2, Written
    <3>4. /\ req[t].kind = "publish" => Tail(req[t].todo) = <<"index">>
          /\ req[t].kind = "cancel" => Tail(req[t].todo) = <<"index", "tell">>
          /\ req[t].kind = "close" => Tail(req[t].todo) = <<>>
          /\ req[t].kind \in {"archive", "restore"} => Tail(req[t].todo) = <<"flag">>
      BY <2>1, Calls DEF TypeInv, RequestOK, idle
    <3>5. /\ req[t].kind \in {"publish", "cancel"} =>
                first(req'[t]) = "index" /\ req'[t].kind = req[t].kind /\ req'[t].next = req[t].next
          /\ req[t].kind = "close" => first(req'[t]) = "none"
          /\ req[t].kind \in {"archive", "restore"} => first(req'[t]) = "flag" /\ req'[t].kind = req[t].kind
      BY <1>0, <2>3, <3>4, FirstCalls, LastCalls DEF first
    <3>6. undeclared' = (undeclared \/ (req[t].kind \in retry_safe /\ row.status \notin declaredFrom(req[t].kind)))
      BY <2>3
    <3> HIDE DEF Agrees
    <3> QED
      BY <2>1, <3>1, <3>2, <3>3, <3>5, <3>6 DEF Writes, Untold
  <2> QED
    BY <1>7, <2>2, <2>3, Wrote
<1>8. CASE applyEdit(t)
  <2>1. /\ UNCHANGED <<cal, undeclared, broken, overlapped>> /\ first(req[t]) = "save" /\ ~idle(t)
        /\ Head(req[t].todo) = "save"
    BY <1>8 DEF applyEdit, rest, at, idle, first
  <2>2. CASE ~writable(req[t])
    <3>1. row' = row /\ ends(t)
      BY <1>8, <2>2 DEF applyEdit
    <3>2. first(req'[t]) = "none"
      BY <1>0, <3>1, Ended
    <3> QED
      BY <2>1, <3>1, <3>2 DEF Calm, Untold, Same, Agrees
  <2>3. CASE writable(req[t])
    <3>1. row' = columns(req[t]) /\ committed(t)
      BY <1>8, <2>3 DEF applyEdit
    <3>2. req[t].kind = "edit" /\ Tail(req[t].todo) \in AfterSave
      BY <2>1, Calls DEF TypeInv, RequestOK, idle
    <3>3. first(req'[t]) = "index" /\ req'[t].kind = "edit" /\ req'[t].next = req[t].next
      BY <2>1, <3>1, <3>2, Committed, FirstCalls, LastCalls DEF first, AfterSave
    <3>4. req[t].next \in Rows /\ req[t].copy \in Rows
      BY DEF TypeInv, RequestRecords
    <3>5. req[t].next.cancelled = req[t].copy.cancelled /\ req[t].next.prev = req[t].copy.prev
      <4>1. req[t].next = [req[t].copy EXCEPT !.text = req[t].next.text, !.when = req[t].next.when, !.cap = req[t].next.cap]
        BY <2>1 DEF CopyInv
      <4> QED
        BY <3>4, <4>1 DEF Rows
    <3>6. CASE stateChanged(req[t])
      <4>1. req[t].copy = row
        BY <2>1, <2>3, <3>6 DEF writable, CopyInv
      <4>2. row' = [req[t].next EXCEPT !.status = row.status, !.version = row.version + 1]
        BY <3>1, <3>6 DEF columns
      <4>3. /\ row'.status = row.status /\ row'.prev = row.prev /\ row'.cancelled = row.cancelled
            /\ row'.text = req[t].next.text /\ row'.when = req[t].next.when /\ row'.cap = req[t].next.cap
        BY <3>4, <3>5, <4>1, <4>2 DEF Rows
      <4> QED
        BY <2>1, <3>2, <3>3, <3>5, <4>3 DEF Saves, Untold
    <3>7. CASE ~stateChanged(req[t])
      <4>1. row' = [row EXCEPT !.text = req[t].next.text, !.version = row.version + 1]
        BY <3>1, <3>7 DEF columns
      <4>2. /\ row'.status = row.status /\ row'.prev = row.prev /\ row'.cancelled = row.cancelled
            /\ row'.text = req[t].next.text /\ row'.when = row.when /\ row'.cap = row.cap
        BY <1>0, <4>1 DEF Rows
      <4>3. req[t].next.when = req[t].copy.when /\ req[t].next.cap = req[t].copy.cap
        BY <3>7 DEF stateChanged
      <4> QED
        BY <2>1, <3>2, <3>3, <3>5, <4>2, <4>3 DEF Saves, Untold
    <3> QED
      BY <3>6, <3>7
  <2> QED
    BY <2>2, <2>3
<1>9. CASE writeIndex(t)
  <2>1. /\ UNCHANGED <<row, undeclared, broken, overlapped>> /\ cal' = upsert(req[t].next) /\ first(req[t]) = "index"
    BY <1>9 DEF writeIndex, histories, rest, at, idle, first
  <2>2. first(req'[t]) \notin {"index", "flag", "save"}
    BY <1>9, <2>1, Acts DEF Step
  <2> QED
    BY <2>1, <2>2 DEF Indexes, Untold
<1>10. CASE setArchived(t)
  <2>1. /\ UNCHANGED <<row, undeclared, broken, overlapped>> /\ first(req[t]) = "flag"
        /\ cal' = [cal EXCEPT !.archived = cal.listed /\ req[t].kind = "archive"]
    BY <1>10 DEF setArchived, histories, rest, at, idle, first
  <2>2. /\ cal'.listed = cal.listed /\ Agrees(cal', cal) /\ cal'.archived = (cal.listed /\ req[t].kind = "archive")
    BY <2>1 DEF TypeInv, Listings, Agrees
  <2>3. first(req'[t]) \notin {"index", "flag", "save"}
    BY <1>10, <2>1, Acts DEF Step
  <2> QED
    BY <2>1, <2>2, <2>3 DEF Flags, Untold
<1>11. CASE tellGoing(t)
  <2>1. /\ UNCHANGED <<row, cal, undeclared, overlapped>> /\ first(req[t]) = "tell" /\ (broken' \/ broken' = broken)
    BY <1>11 DEF tellGoing, fails, at, idle, first
  <2>2. first(req'[t]) \notin {"index", "flag", "save"}
    BY <1>11, <2>1, Acts DEF Step
  <2> QED
    BY <1>3, <1>11, <2>1, <2>2 DEF Step
<1>12. CASE appendEvent(t) \/ addGoing(t) \/ removeGoing(t) \/ recordEdit(t)
  <2>1. /\ UNCHANGED <<row, cal, undeclared, broken, overlapped>> /\ first(req[t]) \in {"append", "add", "remove", "record"}
    BY <1>12 DEF appendEvent, addGoing, removeGoing, recordEdit, histories, rest, at, idle, first
  <2>2. first(req'[t]) \notin {"index", "flag", "save"}
    BY <1>12, <2>1, Acts DEF Step
  <2> QED
    BY <1>3, <1>12, <2>1, <2>2 DEF Step
<1>13. CASE checkAgainstDescriptor(t)
  BY <1>13 DEF checkAgainstDescriptor
<1> HIDE DEF goal
<1>14. CASE Step(t)
  <2> USE DEF goal
  <2> QED
    BY <1>4, <1>5, <1>6, <1>7, <1>8, <1>9, <1>10, <1>11, <1>12, <1>13, <1>14 DEF Step
<1> QED
  BY <1>1, <1>2, <1>14 DEF goal

-----------------------------------------------------------------------------
\* One step keeps those who have not met from conflicting.
LEMMA NextAlone ==
    ASSUME TypeInv, PrevInv, AloneInv, [Next]_vars
    PROVE  AloneInv'
<1> DEFINE apart(p, q, over) ==
        Active(p) /\ Active(q) =>
            /\ "calendar" \notin over => ~(p.kind \in Changers /\ q.kind \in Changers)
            /\ "shown" \notin over /\ p.kind \in {"publish", "restore"} => q.kind \notin Changers \cup {"close"}
<1>0. ~Active(Idle)
  BY IdleIs DEF Active, first
<1>1. \A s, u \in Requests : s # u => apart(req[s], req[u], overlapped)
  BY DEF AloneInv
<1>2. ASSUME NEW t \in Requests, overlapped \subseteq overlapped', \A s \in Requests \ {t} : req'[s] = req[s],
             Active(req'[t]) => Active(req[t]) /\ req'[t].kind = req[t].kind
      PROVE  AloneInv'
  <2> SUFFICES ASSUME NEW s \in Requests, NEW u \in Requests, s # u PROVE apart(req'[s], req'[u], overlapped')
    BY DEF AloneInv
  <2>1. apart(req[s], req[u], overlapped)
    BY <1>1
  <2>2. apart(req[s], req[u], overlapped')
    BY <1>2, <2>1
  <2> QED
    BY <1>2, <2>2
<1>3. ASSUME NEW t \in Requests, meets(t, req'[t].kind), \A s \in Requests \ {t} : req'[s] = req[s]
      PROVE  AloneInv'
  <2> SUFFICES ASSUME NEW s \in Requests, NEW u \in Requests, s # u PROVE apart(req'[s], req'[u], overlapped')
    BY DEF AloneInv
  <2>1. overlapped \subseteq overlapped'
    BY <1>3, Met
  <2>2. CASE s # t /\ u # t
    <3>1. apart(req[s], req[u], overlapped')
      BY <1>1, <2>1
    <3> QED
      BY <1>3, <2>2, <3>1
  <2>3. ASSUME NEW v \in Requests \ {t}, Active(req'[v])
        PROVE  conflicts({req'[t].kind, req'[v].kind}) \subseteq overlapped'
    BY <1>3, <2>3, Met
  <2> DEFINE j == req'[t].kind
  <2>4. CASE s = t
    <3> DEFINE k == req'[u].kind
    <3>1. Active(req'[u]) => conflicts({j, k}) \subseteq overlapped'
      BY <2>3, <2>4
    <3>2. /\ j \in Changers /\ k \in Changers => "calendar" \in conflicts({j, k})
          /\ j \in {"publish", "restore"} /\ k \in Changers \cup {"close"} => "shown" \in conflicts({j, k})
      <4>1. j \in {"publish", "restore"} => j \in Changers
        BY DEF Changers
      <4> HIDE DEF j, k
      <4> QED
        BY <4>1, Conflicting
    <3> QED
      BY <2>4, <3>1, <3>2
  <2>5. CASE u = t
    <3> DEFINE k == req'[s].kind
    <3>1. Active(req'[s]) => conflicts({j, k}) \subseteq overlapped'
      BY <2>3, <2>5
    <3>2. /\ j \in Changers /\ k \in Changers => "calendar" \in conflicts({j, k})
          /\ k \in {"publish", "restore"} /\ j \in Changers \cup {"close"} => "shown" \in conflicts({j, k})
      <4>1. k \in {"publish", "restore"} => k \in Changers
        BY DEF Changers
      <4> HIDE DEF j, k
      <4> QED
        BY <4>1, Conflicting
    <3> QED
      BY <2>5, <3>1, <3>2
  <2> QED
    BY <2>2, <2>4, <2>5
<1>4. ASSUME NEW t \in Requests, Ask(t) PROVE AloneInv'
  <2>1. \A s \in Requests \ {t} : req'[s] = req[s]
    BY <1>4, Arrived
  <2>2. CASE first(req'[t]) = "submit" /\ overlapped' = overlapped
    <3>1. ~Active(req'[t])
      BY <2>2 DEF Active
    <3> QED
      BY <1>2, <2>1, <2>2, <3>1
  <2>3. CASE meets(t, req'[t].kind)
    <3> QED
      BY <1>3, <2>1, <2>3
  <2> QED
    BY <1>4, <2>2, <2>3, ArrivedMeets
<1>5. ASSUME NEW t \in Requests, submitEdit(t) PROVE AloneInv'
  <2>1. \A s \in Requests \ {t} : req'[s] = req[s]
    BY <1>5, Submitted
  <2>2. req'[t] = Idle \/ req'[t].kind = "edit"
    BY <1>5, Submitted
  <2>3. meets(t, "edit") \/ (ends(t) /\ overlapped' = overlapped)
    BY <1>5 DEF submitEdit
  <2>4. CASE req'[t] = Idle
    <3>1. overlapped \subseteq overlapped' /\ ~Active(req'[t])
      BY <1>0, <2>3, <2>4, Met
    <3> QED
      BY <1>2, <2>1, <3>1
  <2>5. CASE req'[t] # Idle
    <3>1. meets(t, req'[t].kind)
      BY <2>2, <2>3, <2>5, Ended
    <3> QED
      BY <1>3, <2>1, <3>1
  <2> QED
    BY <2>4, <2>5
<1>6. ASSUME NEW t \in Requests, Step(t) \/ Stops(t), ~submitEdit(t)
      PROVE  AloneInv'
  <2>1. \A s \in Requests \ {t} : req'[s] = req[s]
    BY <1>6, OthersWait
  <2>2. overlapped' = overlapped
    BY <1>6 DEF Step, Stops, claimClose, attemptAction, transitionProcess, appendEvent, addGoing, removeGoing,
                checkAgainstDescriptor, writeIndex, tellGoing, setArchived, applyEdit, recordEdit, rest
  <2>3. req'[t] = Idle \/ req'[t].kind = req[t].kind
    <3>1. CASE Step(t)
      BY <3>1, KindKept
    <3>2. CASE Stops(t)
      BY <3>2, Ended DEF Stops
    <3> QED
      BY <1>6, <3>1, <3>2
  <2>4. Active(req'[t]) => Active(req[t])
    <3>1. ~Ask(t) => Active(req[t]) \/ submitEdit(t) \/ Stops(t)
      BY <1>6, Acts DEF Active
    <3>2. Stops(t) => ~Active(req'[t])
      BY <1>0, Ended DEF Stops
    <3>3. Step(t) => Active(req[t])
      <4>1. ASSUME Step(t) PROVE ~idle(t) /\ Head(req[t].todo) # "submit"
        BY <1>6, <4>1 DEF Step, claimClose, attemptAction, transitionProcess, appendEvent, addGoing, removeGoing,
                checkAgainstDescriptor, writeIndex, tellGoing, setArchived, applyEdit, recordEdit, at
      <4>2. ~idle(t) => Plan(req[t]) /\ req[t].todo # <<>> /\ first(req[t]) = Head(req[t].todo)
        BY DEF TypeInv, RequestOK, idle, first
      <4>3. ~idle(t) => Head(req[t].todo) # "none"
        BY <4>2, Calls
      <4> QED
        BY <4>1, <4>2, <4>3 DEF Active
    <3> QED
      BY <1>6, <3>2, <3>3
  <2> QED
    BY <1>0, <1>2, <2>1, <2>2, <2>3, <2>4
<1>7. CASE Tick \/ ClaimLapses \/ UNCHANGED vars
  <2>1. req' = req /\ overlapped' = overlapped
    BY <1>7 DEF Tick, ClaimLapses, vars
  <2> QED
    BY <2>1 DEF AloneInv, Active
<1> QED
  BY <1>4, <1>5, <1>6, <1>7 DEF Next

\* Two changes that have not met are one.
LEMMA Only ==
    ASSUME TypeInv, AloneInv, NEW t \in Requests, NEW u \in Requests, t # u,
           Active(req[t]), first(req[u]) \in {"index", "save", "flag"}
    PROVE  /\ req[t].kind \in Changers => "calendar" \in overlapped
           /\ req[t].kind \in Changers \cup {"close"} /\ req[u].kind \in {"publish", "restore"} => "shown" \in overlapped
<1>1. Active(req[u]) /\ req[u].kind \in Changers
  BY Changing DEF Active, Changers
<1> QED
  BY <1>1 DEF AloneInv

-----------------------------------------------------------------------------
\* A step of one request leaves the others' calls as they were.
LEMMA Others ==
    ASSUME TypeInv, PrevInv, NEW t \in Requests, Ask(t) \/ Step(t) \/ Stops(t), NEW c,
           \E u \in Requests : first(req[u]) = c, first(req[t]) # c
    PROVE  \E u \in Requests : first(req'[u]) = c
BY OthersWait

\* An active event that nobody is publishing is on the calendar.
LEMMA Listed ==
    ASSUME PrevInv, ListInv, Clean, row.status = "active",
           \A u \in Requests : ~(req[u].kind = "publish" /\ first(req[u]) = "index")
    PROVE  cal.listed
BY DEF PrevInv, ListInv, Clean

LEMMA NextList ==
    ASSUME TypeInv, PrevInv, CopyInv, ListInv, NEW t \in Requests, Ask(t) \/ Step(t) \/ Stops(t)
    PROVE  ListInv'
<1>0. \A s \in Requests \ {t} : req'[s] = req[s]
  BY OthersWait
<1> DEFINE publishing == \E u \in Requests : req[u].kind = "publish" /\ first(req[u]) = "index"
<1>1. Clean => cal.listed \/ "pending_review" \in {row.status, row.prev} \/ publishing
  BY DEF ListInv
<1>2. /\ row.status = "archived" => row.prev \in Statuses \ {"archived"}
      /\ row.prev # "none" => row.status = "archived" \/ undeclared
  BY DEF PrevInv
<1>3. publishing /\ ~Indexes(t) => publishing' \/ first(req[t]) = "index"
  BY <1>0
<1>4. CASE broken'
  <2>1. cal'.archived => cal'.listed
    <3>1. cal' = cal \/ cal' = upsert(req[t].next) \/ cal' = [cal EXCEPT !.archived = cal.listed /\ req[t].kind = "archive"]
      <4>1. CASE Ask(t)
        BY <4>1, Arrived
      <4>2. CASE Step(t)
        BY <4>2 DEF Step, claimClose, attemptAction, transitionProcess, appendEvent, addGoing, removeGoing,
                checkAgainstDescriptor, writeIndex, tellGoing, setArchived, submitEdit, applyEdit, recordEdit
      <4>3. CASE Stops(t)
        BY <4>3 DEF Stops
      <4> QED
        BY <4>1, <4>2, <4>3
    <3> QED
      BY <3>1 DEF ListInv, upsert, TypeInv, Listings
  <2> QED
    BY <1>4, <2>1 DEF ListInv, Clean
<1>5. CASE Calm(t)
  <2>1. /\ cal' = cal /\ row'.status = row.status /\ row'.prev = row.prev /\ broken' = broken /\ undeclared' = undeclared
        /\ first(req[t]) # "index"
    BY <1>5 DEF Calm, Same, Untold
  <2>2. publishing => publishing'
    BY <1>0, <2>1
  <2> QED
    BY <1>1, <2>1, <2>2 DEF ListInv, Clean
<1>6. CASE Opens(t)
  <2>1. /\ cal' = cal /\ row' = row /\ broken' = broken /\ undeclared' = undeclared /\ first(req[t]) # "index"
    BY <1>6 DEF Opens, Untold
  <2>2. publishing => publishing'
    BY <1>0, <2>1
  <2> QED
    BY <1>1, <2>1, <2>2 DEF ListInv, Clean
<1>7. CASE Writes(t)
  <2>1. /\ cal' = cal /\ broken' = broken /\ first(req[t]) = "write"
        /\ undeclared' = (undeclared \/ (req[t].kind \in retry_safe /\ row.status \notin declaredFrom(req[t].kind)))
    BY <1>7 DEF Writes, Untold
  <2>2. publishing => publishing'
    BY <1>0, <2>1
  <2>3. Clean' => cal.listed \/ "pending_review" \in {row'.status, row'.prev} \/ publishing'
    <3> SUFFICES ASSUME Clean', ~cal.listed, ~publishing' PROVE "pending_review" \in {row'.status, row'.prev}
      OBVIOUS
    <3>1. Clean /\ "pending_review" \in {row.status, row.prev} /\ ~undeclared
      BY <1>1, <2>1, <2>2 DEF Clean
    <3>2. CASE req[t].kind = "publish"
      <4>1. req'[t].kind = "publish" /\ first(req'[t]) = "index"
        BY <1>7, <3>2 DEF Writes
      <4> QED
        BY <4>1
    <3>3. CASE req[t].kind \in {"cancel", "close"}
      <4>1. row.status = "active"
        BY <2>1, <3>3 DEF Clean, retry_safe, declaredFrom
      <4> QED
        BY <1>2, <3>1, <4>1
    <3>4. CASE req[t].kind = "archive"
      <4>1. row'.prev = row.status /\ row.status # "archived"
        BY <1>7, <3>4 DEF Writes
      <4> QED
        BY <1>2, <3>1, <4>1
    <3>5. CASE req[t].kind = "restore"
      <4>1. row'.status = row.prev /\ row.status = "archived"
        BY <1>7, <3>5 DEF Writes
      <4> QED
        BY <3>1, <4>1
    <3> QED
      BY <2>1, <3>2, <3>3, <3>4, <3>5, Changing
  <2> QED
    BY <2>1, <2>3 DEF ListInv
<1>8. CASE Saves(t)
  <2>1. /\ cal' = cal /\ row'.status = row.status /\ row'.prev = row.prev /\ broken' = broken /\ undeclared' = undeclared
        /\ first(req[t]) # "index"
    BY <1>8 DEF Saves, Untold
  <2>2. publishing => publishing'
    BY <1>0, <2>1
  <2> QED
    BY <1>1, <2>1, <2>2 DEF ListInv, Clean
<1>9. CASE Indexes(t)
  <2>1. cal'.listed
    BY <1>9 DEF Indexes, upsert
  <2> QED
    BY <2>1 DEF ListInv
<1>10. CASE Flags(t)
  <2>1. /\ cal'.listed = cal.listed /\ (cal'.archived => cal.listed) /\ row' = row /\ broken' = broken /\ undeclared' = undeclared
        /\ first(req[t]) # "index"
    BY <1>10 DEF Flags, Untold
  <2>2. publishing => publishing'
    BY <1>0, <2>1
  <2> QED
    BY <1>1, <2>1, <2>2 DEF ListInv, Clean
<1> QED
  BY <1>4, <1>5, <1>6, <1>7, <1>8, <1>9, <1>10, Changes

\* One request's step and the calendar, with no other change under way.
LEMMA NextFollow ==
    ASSUME TypeInv, PrevInv, CopyInv, ListInv, AloneInv, FollowInv, NEW t \in Requests, Ask(t) \/ Step(t) \/ Stops(t)
    PROVE  FollowInv'
<1> DEFINE minds(q, r) ==
              /\ first(q) = "index" => Agrees(q.next, r) /\ r.status \in {"active", "closed"}
              /\ first(q) = "save" =>
                    /\ r.status \in {"active", "closed"} /\ q.copy.when = r.when
                    /\ q.copy.cap = r.cap /\ q.copy.cancelled = r.cancelled
              /\ first(q) = "flag" => (q.kind = "archive") = (r.status = "archived")
<1> SUFFICES ASSUME Clean', "calendar" \notin overlapped'
             PROVE  /\ cal'.listed => Agrees(cal', row') \/ \E u \in Requests : first(req'[u]) = "index"
                    /\ cal'.listed => cal'.archived = (row'.status = "archived") \/ \E u \in Requests : first(req'[u]) = "flag"
                    /\ \A u \in Requests : minds(req'[u], row')
  BY DEF FollowInv
<1>0. \A s \in Requests \ {t} : req'[s] = req[s]
  BY OthersWait
<1>1. ~broken' /\ ~undeclared'
  BY DEF Clean
<1>2. ASSUME Untold, ~undeclared
      PROVE  /\ cal.listed => Agrees(cal, row) \/ \E u \in Requests : first(req[u]) = "index"
             /\ cal.listed => cal.archived = (row.status = "archived") \/ \E u \in Requests : first(req[u]) = "flag"
             /\ \A u \in Requests : minds(req[u], row)
  BY <1>1, <1>2 DEF FollowInv, Untold, Clean
<1>3. ASSUME Untold, Active(req[t]), req[t].kind \in Changers
      PROVE  \A u \in Requests \ {t} : first(req[u]) \notin {"index", "save", "flag"}
  BY <1>3, Only DEF Untold
<1>4. CASE Calm(t)
  <2>1. /\ Untold /\ ~undeclared /\ cal' = cal /\ Same(row', row)
        /\ first(req[t]) \notin {"index", "flag"} /\ first(req'[t]) \notin {"index", "flag", "save"}
    BY <1>1, <1>4 DEF Calm
  <2>2. \A u \in Requests : minds(req'[u], row')
    <3> SUFFICES ASSUME NEW u \in Requests PROVE minds(req'[u], row')
      OBVIOUS
    <3>1. CASE u = t
      BY <2>1, <3>1
    <3>2. CASE u # t
      <4>1. minds(req[u], row) /\ req'[u] = req[u]
        BY <1>0, <1>2, <2>1, <3>2
      <4> QED
        BY <2>1, <4>1 DEF Same, Agrees
    <3> QED
      BY <3>1, <3>2
  <2>3. Agrees(cal, row) => Agrees(cal', row')
    BY <2>1 DEF Same, Agrees
  <2> QED
    BY <1>2, <2>1, <2>2, <2>3, Others DEF Same
<1>5. CASE Opens(t)
  <2>1. /\ Untold /\ ~undeclared /\ cal' = cal /\ row' = row /\ first(req[t]) = "submit" /\ first(req'[t]) = "save"
        /\ req'[t].copy = row /\ row.status = "active"
    BY <1>1, <1>5 DEF Opens
  <2>2. \A u \in Requests : minds(req'[u], row')
    <3> SUFFICES ASSUME NEW u \in Requests PROVE minds(req'[u], row')
      OBVIOUS
    <3>1. CASE u = t
      BY <2>1, <3>1
    <3>2. CASE u # t
      BY <1>0, <1>2, <2>1, <3>2
    <3> QED
      BY <3>1, <3>2
  <2> QED
    BY <1>2, <2>1, <2>2, Others
<1>6. CASE Writes(t)
  <2>1. /\ Untold /\ ~undeclared /\ cal' = cal /\ first(req[t]) = "write" /\ Active(req[t])
        /\ row'.text = row.text /\ row'.when = row.when /\ row'.cap = row.cap
        /\ req[t].kind \in retry_safe => row.status \in declaredFrom(req[t].kind)
    BY <1>1, <1>6 DEF Writes, Active
  <2>2. CASE req[t].kind \in {"publish", "cancel"}
    <3>1. first(req'[t]) = "index" /\ Agrees(req'[t].next, row') /\ row'.status \in {"active", "closed"}
      BY <1>6, <2>2 DEF Writes
    <3>2. \A u \in Requests \ {t} : first(req'[u]) \notin {"index", "save", "flag"}
      BY <1>0, <1>3, <2>1, <2>2 DEF Changers
    <3>3. cal.listed => cal.archived = (row.status = "archived")
      BY <1>0, <1>2, <2>1, <3>2
    <3>4. row.status # "archived"
      BY <2>1, <2>2 DEF retry_safe, declaredFrom
    <3>5. \A u \in Requests : minds(req'[u], row')
      BY <3>1, <3>2
    <3> QED
      BY <2>1, <3>1, <3>3, <3>4, <3>5
  <2>3. CASE req[t].kind = "close"
    <3>1. row'.status = "closed" /\ row'.cancelled = row.cancelled /\ first(req'[t]) = "none" /\ row.status = "active"
      BY <1>6, <2>1, <2>3 DEF Writes, retry_safe, declaredFrom
    <3>2. \A u \in Requests : minds(req'[u], row')
      <4> SUFFICES ASSUME NEW u \in Requests PROVE minds(req'[u], row')
        OBVIOUS
      <4>1. CASE u = t
        BY <3>1, <4>1
      <4>2. CASE u # t
        <5>1. minds(req[u], row) /\ req'[u] = req[u]
          BY <1>0, <1>2, <2>1, <4>2
        <5> QED
          BY <2>1, <3>1, <5>1 DEF Agrees
      <4> QED
        BY <4>1, <4>2
    <3>3. Agrees(cal, row) => Agrees(cal', row')
      BY <2>1, <3>1 DEF Agrees
    <3> QED
      BY <1>2, <2>1, <3>1, <3>2, <3>3, Others
  <2>4. CASE req[t].kind \in {"archive", "restore"}
    <3>1. /\ first(req'[t]) = "flag" /\ req'[t].kind = req[t].kind /\ row'.cancelled = row.cancelled
          /\ (req[t].kind = "archive") = (row'.status = "archived")
      <4>1. row.status = "archived" => row.prev # "archived"
        BY DEF PrevInv
      <4> QED
        BY <1>6, <2>4, <4>1 DEF Writes
    <3>2. \A u \in Requests \ {t} : first(req'[u]) \notin {"index", "save", "flag"}
      BY <1>0, <1>3, <2>1, <2>4 DEF Changers
    <3>3. cal.listed => Agrees(cal, row)
      BY <1>0, <1>2, <2>1, <3>2
    <3>4. cal'.listed => Agrees(cal', row')
      BY <2>1, <3>1, <3>3 DEF Agrees
    <3>5. \A u \in Requests : minds(req'[u], row')
      BY <3>1, <3>2
    <3> QED
      BY <3>1, <3>4, <3>5
  <2> QED
    BY <2>1, <2>2, <2>3, <2>4, Changing
<1>7. CASE Saves(t)
  <2>1. /\ Untold /\ ~undeclared /\ cal' = cal /\ row'.status = row.status /\ row'.cancelled = row.cancelled
        /\ first(req[t]) = "save" /\ first(req'[t]) = "index" /\ req[t].kind = "edit" /\ Active(req[t])
        /\ req'[t].next = req[t].next /\ req[t].next.cancelled = req[t].copy.cancelled
        /\ row'.text = req[t].next.text
        /\ \/ row'.when = req[t].next.when /\ row'.cap = req[t].next.cap
           \/ /\ row'.when = row.when /\ row'.cap = row.cap
              /\ req[t].next.when = req[t].copy.when /\ req[t].next.cap = req[t].copy.cap
    BY <1>1, <1>7 DEF Saves, Active
  <2>2. \A u \in Requests \ {t} : first(req'[u]) \notin {"index", "save", "flag"}
    BY <1>0, <1>3, <2>1 DEF Changers
  <2>3. minds(req[t], row)
    BY <1>2, <2>1
  <2>4. Agrees(req'[t].next, row') /\ row'.status \in {"active", "closed"}
    BY <2>1, <2>3 DEF Agrees
  <2>5. \A u \in Requests : minds(req'[u], row')
    BY <2>1, <2>2, <2>4
  <2>6. cal.listed => cal.archived = (row.status = "archived")
    BY <1>0, <1>2, <2>1, <2>2
  <2> QED
    BY <2>1, <2>5, <2>6
<1>8. CASE Indexes(t)
  <2>1. /\ Untold /\ ~undeclared /\ row' = row /\ cal' = upsert(req[t].next) /\ first(req[t]) = "index" /\ Active(req[t])
        /\ first(req'[t]) \notin {"index", "flag", "save"}
    BY <1>1, <1>8 DEF Indexes, Active
  <2>2. req[t].kind \in Changers
    BY <2>1, Changing DEF Changers
  <2>3. \A u \in Requests \ {t} : first(req'[u]) \notin {"index", "save", "flag"}
    BY <1>0, <1>3, <2>1, <2>2
  <2>4. minds(req[t], row)
    BY <1>2, <2>1
  <2>5. cal'.listed /\ Agrees(cal', row') /\ cal'.archived = cal.archived
    BY <2>1, <2>4 DEF upsert, Agrees
  <2>6. cal.listed => cal.archived = (row.status = "archived")
    BY <1>0, <1>2, <2>1, <2>3
  <2>7. row.status # "archived" /\ (cal.archived => cal.listed)
    BY <2>1, <2>4 DEF ListInv
  <2>8. cal'.archived = (row'.status = "archived")
    BY <2>1, <2>5, <2>6, <2>7 DEF TypeInv, Listings
  <2>9. \A u \in Requests : minds(req'[u], row')
    BY <2>1, <2>3
  <2> QED
    BY <2>5, <2>8, <2>9
<1>9. CASE Flags(t)
  <2>1. /\ Untold /\ ~undeclared /\ row' = row /\ first(req[t]) = "flag" /\ Active(req[t])
        /\ cal'.listed = cal.listed /\ Agrees(cal', cal) /\ cal'.archived = (cal.listed /\ req[t].kind = "archive")
        /\ first(req'[t]) \notin {"index", "flag", "save"}
    BY <1>1, <1>9 DEF Flags, Active
  <2>2. req[t].kind \in Changers
    BY <2>1, Changing DEF Changers
  <2>3. \A u \in Requests \ {t} : first(req'[u]) \notin {"index", "save", "flag"}
    BY <1>0, <1>3, <2>1, <2>2
  <2>4. minds(req[t], row)
    BY <1>2, <2>1
  <2>5. cal.listed => Agrees(cal, row)
    BY <1>0, <1>2, <2>1, <2>3
  <2>6. cal'.listed => Agrees(cal', row')
    BY <2>1, <2>5 DEF Agrees
  <2>7. cal'.listed => cal'.archived = (row'.status = "archived")
    BY <2>1, <2>4 DEF TypeInv, Listings
  <2>8. \A u \in Requests : minds(req'[u], row')
    BY <2>1, <2>3
  <2> QED
    BY <2>6, <2>7, <2>8
<1> QED
  BY <1>1, <1>4, <1>5, <1>6, <1>7, <1>8, <1>9, Changes

\* One request's step and an event taken down, with nothing bringing it back.
LEMMA NextDown ==
    ASSUME TypeInv, PrevInv, CopyInv, ListInv, AloneInv, AloneInv', DownInv, NEW t \in Requests, Ask(t) \/ Step(t) \/ Stops(t)
    PROVE  DownInv'
<1> DEFINE taking(q) == q.kind = "archive" /\ first(q) = "flag"
           shows(q) == first(q) = "save" \/ (first(q) = "index" /\ q.kind \in {"cancel", "edit"})
           returns(q) == (first(q) = "flag" /\ q.kind = "restore") \/ (first(q) = "index" /\ q.kind = "publish")
<1> SUFFICES ASSUME Clean', "shown" \notin overlapped'
             PROVE  /\ row'.status = "archived" => ~cal'.listed \/ cal'.archived \/ \E u \in Requests : taking(req'[u])
                    /\ \A u \in Requests : shows(req'[u]) => cal'.listed
                    /\ \A u \in Requests : returns(req'[u]) => row'.status # "archived"
  BY DEF DownInv
<1>0. \A s \in Requests \ {t} : req'[s] = req[s]
  BY OthersWait
<1>1. ~broken' /\ ~undeclared'
  BY DEF Clean
<1>2. ASSUME Untold, ~undeclared
      PROVE  /\ row.status = "archived" => ~cal.listed \/ cal.archived \/ \E u \in Requests : taking(req[u])
             /\ \A u \in Requests : shows(req[u]) => cal.listed
             /\ \A u \in Requests : returns(req[u]) => row.status # "archived"
             /\ Clean /\ "shown" \notin overlapped
  BY <1>1, <1>2 DEF DownInv, Untold, Clean
<1>3. ASSUME first(req[t]) # "flag", \E u \in Requests : taking(req[u]) PROVE \E u \in Requests : taking(req'[u])
  BY <1>0, <1>3
\* What a step that does not move the calendar must still show.
<1>4. ASSUME Untold, ~undeclared, cal' = cal, first(req[t]) # "flag", row'.status = "archived" => row.status = "archived",
             shows(req'[t]) => cal.listed, returns(req'[t]) => row'.status # "archived"
      PROVE  /\ row'.status = "archived" => ~cal'.listed \/ cal'.archived \/ \E u \in Requests : taking(req'[u])
             /\ \A u \in Requests : shows(req'[u]) => cal'.listed
             /\ \A u \in Requests : returns(req'[u]) => row'.status # "archived"
  <2>1. \A u \in Requests : shows(req'[u]) => cal.listed
    BY <1>0, <1>2, <1>4
  <2>2. \A u \in Requests : returns(req'[u]) => row'.status # "archived"
    BY <1>0, <1>2, <1>4
  <2>3. row'.status = "archived" => ~cal.listed \/ cal.archived \/ \E u \in Requests : taking(req'[u])
    <3> HIDE DEF taking
    <3> QED
      BY <1>2, <1>3, <1>4
  <2> QED
    BY <1>4, <2>1, <2>2, <2>3
<1>5. CASE Calm(t)
  <2>1. /\ Untold /\ ~undeclared /\ cal' = cal /\ row'.status = row.status
        /\ first(req[t]) # "flag" /\ ~shows(req'[t]) /\ ~returns(req'[t])
    BY <1>1, <1>5 DEF Calm, Same
  <2> HIDE DEF taking, shows, returns
  <2> QED
    BY <1>4, <2>1
<1>6. CASE Opens(t)
  <2>1. /\ Untold /\ ~undeclared /\ cal' = cal /\ row' = row /\ row.status = "active" /\ first(req[t]) = "submit"
        /\ first(req'[t]) = "save" /\ req'[t].kind = "edit"
    BY <1>1, <1>6 DEF Opens
  <2>2. ASSUME NEW u \in Requests, req[u].kind = "publish", first(req[u]) = "index" PROVE FALSE
    <3>1. u # t /\ req'[u] = req[u]
      BY <1>0, <2>1, <2>2
    <3>2. Active(req'[t]) /\ Active(req'[u]) /\ req'[u].kind = "publish"
      BY <2>1, <2>2, <3>1 DEF Active
    <3> QED
      BY <2>1, <3>1, <3>2 DEF AloneInv, Changers
  <2>3. cal.listed
    BY <1>2, <2>1, <2>2, Listed
  <2>4. first(req[t]) # "flag" /\ ~returns(req'[t])
    BY <2>1
  <2> HIDE DEF taking, shows, returns
  <2> QED
    BY <1>4, <2>1, <2>3, <2>4
<1>7. CASE Writes(t)
  <2>1. /\ Untold /\ ~undeclared /\ cal' = cal /\ first(req[t]) = "write" /\ Active(req[t])
        /\ req[t].kind \in retry_safe => row.status \in declaredFrom(req[t].kind)
    BY <1>1, <1>7 DEF Writes, Active
  <2>2. CASE req[t].kind \in {"publish", "close"}
    <3>1. row'.status # "archived" /\ ~shows(req'[t])
      BY <1>7, <2>2 DEF Writes
    <3>2. first(req[t]) # "flag"
      BY <2>1
    <3> HIDE DEF taking, shows, returns
    <3> QED
      BY <1>4, <2>1, <3>1, <3>2
  <2>3. CASE req[t].kind = "cancel"
    <3>1. row'.status = "closed" /\ row.status = "active"
      BY <1>7, <2>1, <2>3 DEF Writes, retry_safe, declaredFrom
    <3>2. ASSUME NEW u \in Requests, req[u].kind = "publish", first(req[u]) = "index" PROVE FALSE
      <4>1. u # t
        BY <2>1, <3>2
      <4>2. "shown" \in overlapped
        BY <2>1, <2>3, <3>2, <4>1, Only DEF Changers
      <4> QED
        BY <1>2, <2>1, <4>2
    <3>3. cal.listed
      BY <1>2, <2>1, <3>1, <3>2, Listed
    <3>4. first(req[t]) # "flag"
      BY <2>1
    <3> HIDE DEF taking, shows, returns
    <3> QED
      BY <1>4, <2>1, <3>1, <3>3, <3>4
  <2>4. CASE req[t].kind = "archive"
    <3>1. first(req'[t]) = "flag" /\ req'[t].kind = "archive"
      BY <1>7, <2>4 DEF Writes
    <3>2. \A u \in Requests : shows(req'[u]) => cal'.listed
      BY <1>0, <1>2, <2>1, <3>1
    <3>3. ASSUME NEW u \in Requests, returns(req'[u]) PROVE FALSE
      <4>1. u # t /\ req'[u] = req[u]
        BY <1>0, <3>1, <3>3
      <4>2. first(req[u]) \in {"index", "save", "flag"} /\ req[u].kind \in {"publish", "restore"}
        BY <3>3, <4>1
      <4>3. "shown" \in overlapped
        BY <2>1, <2>4, <4>1, <4>2, Only DEF Changers
      <4> QED
        BY <1>2, <2>1, <4>3
    <3>4. \E u \in Requests : taking(req'[u])
      BY <3>1
    <3> HIDE DEF taking, shows, returns
    <3> QED
      BY <3>2, <3>3, <3>4
  <2>5. CASE req[t].kind = "restore"
    <3>1. row'.status # "archived" /\ first(req'[t]) = "flag"
      BY <1>7, <2>5 DEF Writes, PrevInv
    <3>2. ~shows(req'[t]) /\ first(req[t]) # "flag"
      BY <2>1, <3>1
    <3> HIDE DEF taking, shows, returns
    <3> QED
      BY <1>4, <2>1, <3>1, <3>2
  <2> QED
    BY <2>1, <2>2, <2>3, <2>4, <2>5, Changing
<1>8. CASE Saves(t)
  <2>1. /\ Untold /\ ~undeclared /\ cal' = cal /\ row'.status = row.status /\ first(req[t]) = "save"
        /\ first(req'[t]) = "index" /\ req'[t].kind = "edit"
    BY <1>1, <1>8 DEF Saves
  <2>2. cal.listed
    BY <1>2, <2>1
  <2>3. first(req[t]) # "flag" /\ ~returns(req'[t])
    BY <2>1
  <2> HIDE DEF taking, shows, returns
  <2> QED
    BY <1>4, <2>1, <2>2, <2>3
<1>9. CASE Indexes(t)
  <2>1. /\ Untold /\ ~undeclared /\ row' = row /\ cal' = upsert(req[t].next) /\ first(req[t]) = "index"
        /\ first(req'[t]) \notin {"index", "flag", "save"}
    BY <1>1, <1>9 DEF Indexes
  <2>2. cal'.listed /\ cal'.archived = cal.archived
    BY <2>1 DEF upsert
  <2>3. row.status = "archived" => cal.listed
    <3>1. req[t].kind \in {"publish", "cancel", "edit"}
      BY <2>1, Changing
    <3>2. req[t].kind = "publish" => row.status # "archived"
      BY <1>2, <2>1
    <3>3. req[t].kind # "publish" => cal.listed
      BY <1>2, <2>1, <3>1
    <3> QED
      BY <3>2, <3>3
  <2>4. \A u \in Requests : returns(req'[u]) => row'.status # "archived"
    BY <1>0, <1>2, <2>1
  <2>5. (\E u \in Requests : taking(req[u])) => \E u \in Requests : taking(req'[u])
    BY <1>0, <2>1
  <2> HIDE DEF taking, shows, returns
  <2> QED
    BY <1>2, <2>1, <2>2, <2>3, <2>4, <2>5
<1>10. CASE Flags(t)
  <2>1. /\ Untold /\ ~undeclared /\ row' = row /\ first(req[t]) = "flag"
        /\ cal'.listed = cal.listed /\ cal'.archived = (cal.listed /\ req[t].kind = "archive")
        /\ first(req'[t]) \notin {"index", "flag", "save"}
    BY <1>1, <1>10 DEF Flags
  <2>2. req[t].kind = "archive" \/ row.status # "archived"
    BY <1>2, <2>1, Changing
  <2>3. \A u \in Requests : shows(req'[u]) => cal'.listed
    BY <1>0, <1>2, <2>1
  <2>4. \A u \in Requests : returns(req'[u]) => row'.status # "archived"
    BY <1>0, <1>2, <2>1
  <2> HIDE DEF taking, shows, returns
  <2> QED
    BY <2>1, <2>2, <2>3, <2>4
<1> QED
  BY <1>1, <1>5, <1>6, <1>7, <1>8, <1>9, <1>10, Changes

CalendarInv == ListInv /\ AloneInv /\ FollowInv /\ DownInv

LEMMA InitCalendar == Init => CalendarInv
<1> SUFFICES ASSUME Init PROVE CalendarInv
  OBVIOUS
<1>1. \A t \in Requests : first(req[t]) = "none"
  BY IdleIs DEF Init, first
<1>2. overlapped = {} /\ ~broken /\ ~undeclared
  BY DEF Init
<1>3. /\ ~cal.archived /\ row.status # "archived"
      /\ cal.listed => Agrees(cal, row)
      /\ cal.listed \/ row.status = "pending_review"
  <2>1. CASE row = initialRow("pending_review") /\ cal = NotListed
    BY <2>1 DEF initialRow, NotListed
  <2>2. CASE row = initialRow("active") /\ cal = [NotListed EXCEPT !.listed = TRUE, !.cap = FirstLimit]
    <3>1. /\ row.status = "active" /\ row.text = firstText /\ row.when = FirstEnd /\ row.cap = FirstLimit /\ ~row.cancelled
      BY <2>2 DEF initialRow
    <3>2. /\ ~cal.archived /\ cal.listed /\ cal.text = firstText /\ cal.when = FirstEnd /\ cal.cap = FirstLimit /\ ~cal.cancelled
      BY <2>2 DEF NotListed
    <3>3. row.cancelled \in BOOLEAN /\ cal.cancelled \in BOOLEAN
      BY InitType DEF TypeInv, Listings, Rows
    <3> QED
      BY <3>1, <3>2, <3>3 DEF Agrees
  <2> QED
    BY <2>1, <2>2 DEF Init
<1>4. cal.archived \in BOOLEAN
  BY InitType DEF TypeInv, Listings
<1> QED
  BY <1>1, <1>2, <1>3, <1>4 DEF CalendarInv, ListInv, AloneInv, FollowInv, DownInv, Active

LEMMA NextCalendar ==
    ASSUME TypeInv, PrevInv, CopyInv, CalendarInv, [Next]_vars
    PROVE  CalendarInv'
<1>1. AloneInv'
  BY NextAlone DEF CalendarInv
<1>2. CASE \E t \in Requests : Ask(t) \/ Step(t) \/ Stops(t)
  BY <1>1, <1>2, NextList, NextFollow, NextDown DEF CalendarInv
<1>3. CASE Tick \/ ClaimLapses \/ UNCHANGED vars
  <2>1. UNCHANGED <<row, cal, req, overlapped, broken, undeclared>>
    BY <1>3 DEF Tick, ClaimLapses, vars, histories
  <2> QED
    BY <1>1, <2>1 DEF CalendarInv, ListInv, FollowInv, DownInv, Clean, Agrees
<1> QED
  BY <1>2, <1>3 DEF Next

LEMMA AlwaysCalendar == Spec => [](TypeInv /\ PrevInv /\ CalendarInv)
<1>1. Init => CalendarInv
  BY InitCalendar
<1>2. TypeInv /\ PrevInv /\ CopyInv /\ CalendarInv /\ [Next]_vars => CalendarInv'
  BY NextCalendar
<1> QED
  BY <1>1, <1>2, AlwaysCopies, PTL DEF Spec

\* The calendar shows the event as it is once requests are done, unless one ended
\* half way or two that write the calendar were in flight together; and one that was
\* archived stays off it with edits, cancellations and closes in flight around it.
THEOREM CalendarFollows == Spec => []CalendarMatches
<1>1. TypeInv /\ PrevInv /\ CalendarInv => CalendarMatches
  <2> SUFFICES ASSUME TypeInv, PrevInv, CalendarInv, quiet, Clean PROVE CalendarMatches
    BY DEF CalendarMatches, Clean
  <2>1. \A t \in Requests : first(req[t]) \in {"none", "submit"}
    BY DEF quiet, idle, at, first
  <2>2. cal.listed \/ "pending_review" \in {row.status, row.prev}
    BY <2>1 DEF CalendarInv, ListInv
  <2>3. ASSUME "calendar" \notin overlapped, cal.listed
        PROVE  Agrees(cal, row) /\ cal.archived = (row.status = "archived")
    BY <2>1, <2>3 DEF CalendarInv, FollowInv
  <2>4. ASSUME "shown" \notin overlapped, row.status = "archived"
        PROVE  ~cal.listed \/ cal.archived
    BY <2>1, <2>4 DEF CalendarInv, DownInv
  <2> QED
    BY <2>2, <2>3, <2>4 DEF CalendarMatches, Agrees
<1> QED
  BY <1>1, AlwaysCalendar, PTL

=============================================================================
