---------------------------- MODULE SignInCodes ----------------------------
(***************************************************************************)
(* The emailed codes of one address: asked for, tried, spent, and the      *)
(* account and session a spent code opens.  One set of rules               *)
(* (codeRules.ts) serves a hub and the console; they differ in links, in   *)
(* the account, and in what a failed email leaves behind.  Requests        *)
(* interleave at every call to the database.                               *)
(*                                                                         *)
(* The counters cover one hour.  The caps on an IP's requests and checks   *)
(* are shared with every other address asked about from that IP, so they   *)
(* refuse whenever they like (Refused).                                    *)
(***************************************************************************)
EXTENDS Integers, FiniteSets

CONSTANTS
    Requests,       \* requests that can be in flight
    IPs,            \* where codes are typed
    Realms,         \* which of "hub" and "console" are looked at
    Kinds,          \* the kinds of request made
    MaxTries,       \* CODE_RULES.maxTries
    LiveCodes,      \* CODE_RULES.liveCodesPerAddress
    PerHour,        \* CODE_RULES.newCodesPerHour
    WrongTries,     \* CODE_RULES.wrongTriesPerIpPerAddress
    MaxRequests,    \* bound: requests made
    MaxIssued,      \* bound: codes made
    MaxFaults       \* bound: emails that fail and requests that die

ASSUME SignInAssumption ==
    /\ IsFiniteSet(Requests) /\ Requests # {} /\ IPs # {}
    /\ Realms \subseteq {"hub", "console"} /\ Realms # {}
    /\ Kinds \subseteq {"ask", "type", "link", "leave"}
    /\ MaxTries \in Nat \ {0} /\ LiveCodes \in Nat \ {0}
    /\ PerHour \in Nat /\ WrongTries \in Nat
    /\ MaxRequests \in Nat /\ MaxIssued \in Nat /\ MaxFaults \in Nat

Codes == 1..MaxIssued

\* A guess that is no code of the address, and "no code" in general.
NoCode == 0

VARIABLES
    realm,      \* where the address signs in
    codes,      \* the rows of sign_in_codes, by the order they were made
    issued,     \* how many were made
    taken,      \* how many requests were counted: each hit's number
    emails,     \* the hits in the minute's bucket: the emails counted
    hour,       \* the hits in the hour's bucket
    wrong,      \* the wrong tries counted, per IP
    account,    \* the address's account: whether it exists, its number, its demo_only mark
    demo,       \* the hub is a demo
    privileged, \* the address is on a list that makes it privileged
    sessions,   \* the live sessions' assurances
    req,        \* the requests in flight
    opened,     \* history: the sessions each code opened
    guesses,    \* history: the typed codes compared with the address's codes
    misses,     \* history: the wrong ones, per IP
    erased,     \* history: a demo sign-in or a deleted account cleared the codes
    late,       \* history: a demo sign-in was in flight when the address or the hub stopped allowing it
    requests, faults

world == <<realm, demo, privileged>>
counters == <<taken, emails, hour, wrong>>
history == <<opened, guesses, misses, erased, late>>
vars == <<codes, issued, account, sessions, req, world, counters, history, requests, faults>>

PCs == {"idle", "counted", "askPrivileged", "live", "allowance", "insert", "mail", "withdraw",
        "pickEmail", "dropEmail", "pickHour", "dropHour",
        "typePrivileged", "clear", "room", "try", "miss", "tryLink", "spend",
        "find", "proved", "newUser", "session", "eraseCodes", "eraseUser"}

CodeStates == {"none", "live", "expired", "gone"}

RequestRecords ==
    [pc : PCs, ip : IPs, code : Codes \cup {NoCode}, sawDemo : BOOLEAN, live : Nat,
     hit : Nat, assurance : {"code", "demo"}, user : Nat]

Idle == [pc |-> "idle", ip |-> CHOOSE ip \in IPs : TRUE, code |-> NoCode, sawDemo |-> FALSE,
         live |-> 0, hit |-> 0, assurance |-> "code", user |-> 0]

\* A hub starts as a demo or not; nobody has an account or a code.
Init ==
    /\ realm \in Realms
    /\ demo \in IF realm = "hub" THEN BOOLEAN ELSE {FALSE}
    /\ privileged = (realm = "console")
    /\ codes = [c \in Codes |-> [st |-> "none", tries |-> 0, mailed |-> FALSE]]
    /\ issued = 0 /\ taken = 0 /\ emails = {} /\ hour = {}
    /\ wrong = [ip \in IPs |-> 0]
    /\ account = [exists |-> FALSE, id |-> 0, demoOnly |-> FALSE]
    /\ sessions = [a \in {"code", "demo"} |-> 0]
    /\ req = [t \in Requests |-> Idle]
    /\ opened = [c \in Codes |-> 0]
    /\ guesses = 0 /\ misses = [ip \in IPs |-> 0] /\ erased = FALSE /\ late = FALSE
    /\ requests = 0 /\ faults = 0

-----------------------------------------------------------------------------
at(t, pc) == req[t].pc = pc

becomes(t, q) == req' = [req EXCEPT ![t] = q]

goto(t, pc) == becomes(t, [req[t] EXCEPT !.pc = pc])

finish(t) == becomes(t, Idle)

live(c) == codes[c].st = "live" /\ codes[c].tries < MaxTries

liveCodes == {c \in Codes : live(c)}

inTable(c) == codes[c].st \in {"live", "expired"}

deleted(c) == codes' = [codes EXCEPT ![c].st = "gone"]

\* Every code of the address, whatever its state.
cleared == codes' = [c \in Codes |-> IF inTable(c) THEN [codes[c] EXCEPT !.st = "gone"] ELSE codes[c]]

newest(hits) == CHOOSE h \in hits : \A other \in hits : other <= h

began(t, q) ==
    /\ at(t, "idle")
    /\ requests < MaxRequests
    /\ requests' = requests + 1
    /\ becomes(t, [q EXCEPT !.sawDemo = demo])
    /\ UNCHANGED <<codes, issued, account, sessions, world, counters, history, faults>>

-----------------------------------------------------------------------------
(***************************************************************************)
(* Asking for a code (requestVerification, requestCode, issueCode).        *)
(***************************************************************************)
Ask(t) ==
    /\ "ask" \in Kinds
    /\ began(t, [Idle EXCEPT !.pc = IF realm = "hub" THEN "counted" ELSE "live"])

\* A hub counts the IP first; a demo looks whether the address is privileged.
limitIp(t) ==
    /\ at(t, "counted")
    /\ goto(t, IF req[t].sawDemo THEN "askPrivileged" ELSE "live")
    /\ UNCHANGED <<codes, issued, account, sessions, world, counters, history, requests, faults>>

\* On a demo hub only a privileged address is sent a code.
askPrivileged(t) ==
    /\ at(t, "askPrivileged")
    /\ IF privileged THEN goto(t, "live") ELSE finish(t)
    /\ UNCHANGED <<codes, issued, account, sessions, world, counters, history, requests, faults>>

readLive(t) ==
    /\ at(t, "live")
    /\ IF Cardinality(liveCodes) >= LiveCodes
       THEN finish(t)
       ELSE becomes(t, [req[t] EXCEPT !.pc = "allowance", !.live = Cardinality(liveCodes)])
    /\ UNCHANGED <<codes, issued, account, sessions, world, counters, history, requests, faults>>

\* Mutant: the hour's bucket is not looked at.
hasRoom_noHour(t) == req[t].live > 0 => emails = {}

\* rate_limit_take: the minute counts only while a code was waiting.
hasRoom(t) == (req[t].live > 0 => emails = {}) /\ Cardinality(hour) < PerHour

\* Both buckets, or neither, in one transaction.
takeAllowance(t) ==
    /\ at(t, "allowance")
    /\ IF hasRoom(t)
       THEN /\ taken' = taken + 1
            /\ emails' = emails \cup {taken'}
            /\ hour' = hour \cup {taken'}
            /\ goto(t, "insert")
       ELSE finish(t) /\ UNCHANGED <<taken, emails, hour>>
    /\ UNCHANGED <<codes, issued, account, sessions, world, wrong, history, requests, faults>>

newCode == [st |-> "live", tries |-> 0, mailed |-> FALSE]

\* Mutant: a new code takes the place of the earlier ones.
stored_replacing(c) ==
    codes' = [d \in Codes |-> CASE d = c -> newCode
                                [] inTable(d) -> [codes[d] EXCEPT !.st = "gone"]
                                [] OTHER -> codes[d]]

\* CodeStore.insert: a row of its own, beside the earlier ones.
stored(c) == codes' = [codes EXCEPT ![c] = newCode]

insertCode(t) ==
    /\ at(t, "insert")
    /\ issued < MaxIssued
    /\ issued' = issued + 1
    /\ stored(issued')
    /\ becomes(t, [req[t] EXCEPT !.pc = "mail", !.code = issued'])
    /\ UNCHANGED <<account, sessions, world, counters, history, requests, faults>>

mailed(t) ==
    /\ at(t, "mail")
    /\ codes' = [codes EXCEPT ![req[t].code].mailed = TRUE]
    /\ finish(t)
    /\ UNCHANGED <<issued, account, sessions, world, counters, history, requests, faults>>

\* A hub leaves the code it could not send; the console takes it back.
mailFailed(t) ==
    /\ at(t, "mail")
    /\ faults < MaxFaults
    /\ faults' = faults + 1
    /\ IF realm = "hub" THEN finish(t) ELSE goto(t, "withdraw")
    /\ UNCHANGED <<codes, issued, account, sessions, world, counters, history, requests>>

\* By the code's own hash.
withdrawPlatformCode(t) ==
    /\ at(t, "withdraw")
    /\ deleted(req[t].code)
    /\ goto(t, "pickEmail")
    /\ UNCHANGED <<issued, account, sessions, world, counters, history, requests, faults>>

\* releaseRateLimit, for each bucket: the newest hit is read, then deleted.
pickHit(t) ==
    /\ \E b \in {<<"pickEmail", "dropEmail", emails>>, <<"pickHour", "dropHour", hour>>} :
        /\ at(t, b[1])
        /\ becomes(t, [req[t] EXCEPT !.pc = b[2], !.hit = IF b[3] = {} THEN 0 ELSE newest(b[3])])
    /\ UNCHANGED <<codes, issued, account, sessions, world, counters, history, requests, faults>>

dropEmail(t) ==
    /\ at(t, "dropEmail")
    /\ emails' = emails \ {req[t].hit}
    /\ goto(t, "pickHour")
    /\ UNCHANGED <<codes, issued, account, sessions, world, taken, hour, wrong, history, requests, faults>>

dropHour(t) ==
    /\ at(t, "dropHour")
    /\ hour' = hour \ {req[t].hit}
    /\ finish(t)
    /\ UNCHANGED <<codes, issued, account, sessions, world, taken, emails, wrong, history, requests, faults>>

-----------------------------------------------------------------------------
(***************************************************************************)
(* Presenting a code (verifyCode, verifyLink, consumeCode, checkCode).     *)
(***************************************************************************)
\* Somebody types a code of the address, or another one (NoCode).
Type(t, ip, c) ==
    /\ "type" \in Kinds
    /\ c <= issued
    /\ began(t, [Idle EXCEPT !.pc = IF demo THEN "typePrivileged" ELSE "room", !.ip = ip, !.code = c])

\* Only a hub's email has a link, and only who got the email has its token.
Link(t, c) ==
    /\ "link" \in Kinds
    /\ realm = "hub" /\ codes[c].mailed
    /\ began(t, [Idle EXCEPT !.pc = "tryLink", !.code = c])

\* isPrivilegedEmailNow, read fresh.
anySixDigits == ~privileged

\* On a demo hub any six digits sign an ordinary visitor in.
typePrivileged(t) ==
    /\ at(t, "typePrivileged")
    /\ IF anySixDigits
       THEN becomes(t, [req[t] EXCEPT !.pc = "clear", !.assurance = "demo", !.code = NoCode])
       ELSE goto(t, "room")
    /\ UNCHANGED <<codes, issued, account, sessions, world, counters, history, requests, faults>>

clearCodes(t) ==
    /\ at(t, "clear")
    /\ cleared
    /\ erased' = TRUE
    /\ goto(t, "find")
    /\ UNCHANGED <<issued, account, sessions, world, counters, opened, guesses, misses, late, requests, faults>>

\* rateLimitRetryAt: the IP has not used up its wrong tries at this address.
mayTry(ip) == wrong[ip] < WrongTries

wrongRoom(t) ==
    /\ at(t, "room")
    /\ IF mayTry(req[t].ip) THEN goto(t, "try") ELSE finish(t)
    /\ UNCHANGED <<codes, issued, account, sessions, world, counters, history, requests, faults>>

\* Mutant: the last try is never counted.
tried_neverBurned(rows) ==
    codes' = [c \in Codes |-> IF c \in rows /\ codes[c].tries + 1 < MaxTries
                              THEN [codes[c] EXCEPT !.tries = @ + 1] ELSE codes[c]]

\* take_sign_in_attempt: one try on each live code looked at.
tried(rows) ==
    codes' = [c \in Codes |-> IF c \in rows THEN [codes[c] EXCEPT !.tries = @ + 1] ELSE codes[c]]

\* The guess costs a try on every live code and is compared with each.
takeAttempt(t) ==
    /\ at(t, "try")
    /\ LET rows == liveCodes
           match == req[t].code \in rows IN
       /\ tried(rows)
       /\ guesses' = IF rows # {} THEN guesses + 1 ELSE guesses
       /\ misses' = IF rows # {} /\ ~match THEN [misses EXCEPT ![req[t].ip] = @ + 1] ELSE misses
       /\ CASE rows = {} -> finish(t)
            [] match -> goto(t, "spend")
            [] OTHER -> goto(t, "miss")
    /\ UNCHANGED <<issued, account, sessions, world, counters, opened, erased, late, requests, faults>>

\* takeRateLimit on the wrong tries: a full bucket records nothing.
missCounted(ip) == wrong' = IF wrong[ip] < WrongTries THEN [wrong EXCEPT ![ip] = @ + 1] ELSE wrong

\* A wrong try is counted after the fact.
countMiss(t) ==
    /\ at(t, "miss")
    /\ missCounted(req[t].ip)
    /\ finish(t)
    /\ UNCHANGED <<codes, issued, account, sessions, world, taken, emails, hour, history, requests, faults>>

takeLinkAttempt(t) ==
    /\ at(t, "tryLink")
    /\ IF live(req[t].code)
       THEN tried({req[t].code}) /\ goto(t, "spend")
       ELSE finish(t) /\ UNCHANGED codes
    /\ UNCHANGED <<issued, account, sessions, world, counters, history, requests, faults>>

\* Mutant: the delete's answer is not looked at.
spent_unread(c) == TRUE

\* Whether the delete found the row.
spent(c) == inTable(c)

\* The delete is the spend.  The console opens its session at once.
spendCode(t) ==
    /\ at(t, "spend")
    /\ IF spent(req[t].code)
       THEN deleted(req[t].code) /\ goto(t, IF realm = "hub" THEN "find" ELSE "session")
       ELSE finish(t) /\ UNCHANGED codes
    /\ UNCHANGED <<issued, account, sessions, world, counters, history, requests, faults>>

-----------------------------------------------------------------------------
(***************************************************************************)
(* The account and the session (findOrCreateVerifiedUser, insertSession).  *)
(***************************************************************************)
proves(t) == req[t].assurance = "code"

afterFind(t) ==
    CASE ~account.exists -> "newUser"
      [] account.exists /\ proves(t) /\ account.demoOnly -> "proved"
      [] OTHER -> "session"

findUser(t) ==
    /\ at(t, "find")
    /\ becomes(t, [req[t] EXCEPT !.user = account.id, !.pc = afterFind(t)])
    /\ UNCHANGED <<codes, issued, account, sessions, world, counters, history, requests, faults>>

isAccount(id) == account.exists /\ account.id = id

\* A real code proves the mailbox: the account counts from now on.
clearDemoOnly(t) ==
    /\ at(t, "proved")
    /\ account' = IF isAccount(req[t].user) THEN [account EXCEPT !.demoOnly = FALSE] ELSE account
    /\ goto(t, "session")
    /\ UNCHANGED <<codes, issued, sessions, world, counters, history, requests, faults>>

\* An address has one account: the second insert reads the first one's row.
insertUser(t) ==
    /\ at(t, "newUser")
    /\ account' = IF account.exists THEN account
                  ELSE [exists |-> TRUE, id |-> account.id + 1, demoOnly |-> ~proves(t)]
    /\ becomes(t, [req[t] EXCEPT !.pc = "session", !.user = account'.id])
    /\ UNCHANGED <<codes, issued, sessions, world, counters, history, requests, faults>>

\* A hub's session needs its account: the foreign key refuses it otherwise.
insertSession(t) ==
    /\ at(t, "session")
    /\ IF realm = "hub" => isAccount(req[t].user)
       THEN /\ sessions' = [sessions EXCEPT ![req[t].assurance] = @ + 1]
            /\ opened' = IF proves(t) THEN [opened EXCEPT ![req[t].code] = @ + 1] ELSE opened
       ELSE UNCHANGED <<sessions, opened>>
    /\ finish(t)
    /\ UNCHANGED <<codes, issued, account, world, counters, guesses, misses, erased, late, requests, faults>>

-----------------------------------------------------------------------------
(***************************************************************************)
(* Deleting the account: its codes, then the account and its sessions.     *)
(***************************************************************************)
Leave(t) ==
    /\ "leave" \in Kinds
    /\ account.exists /\ \E a \in {"code", "demo"} : sessions[a] > 0
    /\ began(t, [Idle EXCEPT !.pc = "eraseCodes", !.user = account.id])

eraseCodes(t) ==
    /\ at(t, "eraseCodes")
    /\ cleared
    /\ erased' = TRUE
    /\ goto(t, "eraseUser")
    /\ UNCHANGED <<issued, account, sessions, world, counters, opened, guesses, misses, late, requests, faults>>

\* The sessions go with the account (ON DELETE CASCADE).
eraseUser(t) ==
    /\ at(t, "eraseUser")
    /\ IF isAccount(req[t].user)
       THEN account' = [account EXCEPT !.exists = FALSE] /\ sessions' = [a \in {"code", "demo"} |-> 0]
       ELSE UNCHANGED <<account, sessions>>
    /\ finish(t)
    /\ UNCHANGED <<codes, issued, world, counters, history, requests, faults>>

-----------------------------------------------------------------------------
(***************************************************************************)
(* The clock, the admins, and what ends a request early.                   *)
(***************************************************************************)
Expire(c) ==
    /\ codes[c].st = "live"
    /\ codes' = [codes EXCEPT ![c].st = "expired"]
    /\ UNCHANGED <<issued, account, sessions, req, world, counters, history, requests, faults>>

\* The oldest email leaves the minute's window.
MinutePasses ==
    /\ emails # {}
    /\ emails' = emails \ {CHOOSE h \in emails : \A other \in emails : h <= other}
    /\ UNCHANGED <<codes, issued, account, sessions, req, world, taken, hour, wrong, history, requests, faults>>

\* Some sign-in has passed the check that `from` comes after.
signingInDemo(from) ==
    \E t \in Requests : (~proves(t) /\ req[t].pc \in {"clear", "find", "newUser", "session"}) \/ at(t, from)

\* Mutant: the sessions are left to be noticed later.
demoSessionsEnd_never == UNCHANGED sessions

\* The triggers on the privilege lists and on the hub's mode.
demoSessionsEnd == sessions' = [sessions EXCEPT !["demo"] = 0]

\* An admin puts the address on a privilege list.
Designate ==
    /\ realm = "hub" /\ ~privileged
    /\ privileged' = TRUE
    /\ late' = (late \/ signingInDemo("clear"))
    /\ demoSessionsEnd
    /\ UNCHANGED <<realm, demo, codes, issued, account, req, counters, opened, guesses, misses, erased, requests, faults>>

\* The hub leaves demo; a request goes by the mode it began under.
LeaveDemo ==
    /\ demo
    /\ demo' = FALSE
    /\ late' = (late \/ signingInDemo("typePrivileged"))
    /\ demoSessionsEnd
    /\ UNCHANGED <<realm, privileged, codes, issued, account, req, counters, opened, guesses, misses, erased, requests, faults>>

\* A cap shared with other addresses is full, or a beta hub is closed to this one.
Refused(t) ==
    /\ req[t].pc \in {"counted", "live", "allowance", "clear", "room", "tryLink"}
    /\ finish(t)
    /\ UNCHANGED <<codes, issued, account, sessions, world, counters, history, requests, faults>>

Die(t) ==
    /\ ~at(t, "idle")
    /\ faults < MaxFaults
    /\ faults' = faults + 1
    /\ finish(t)
    /\ UNCHANGED <<codes, issued, account, sessions, world, counters, history, requests>>

Step(t) ==
    \/ Ask(t) \/ limitIp(t) \/ askPrivileged(t) \/ readLive(t) \/ takeAllowance(t) \/ insertCode(t)
    \/ mailed(t) \/ mailFailed(t) \/ withdrawPlatformCode(t) \/ pickHit(t) \/ dropEmail(t) \/ dropHour(t)
    \/ \E ip \in IPs, c \in Codes \cup {NoCode} : Type(t, ip, c)
    \/ \E c \in Codes : Link(t, c)
    \/ typePrivileged(t) \/ clearCodes(t) \/ wrongRoom(t) \/ takeAttempt(t) \/ countMiss(t)
    \/ takeLinkAttempt(t) \/ spendCode(t)
    \/ findUser(t) \/ clearDemoOnly(t) \/ insertUser(t) \/ insertSession(t)
    \/ Leave(t) \/ eraseCodes(t) \/ eraseUser(t)
    \/ Refused(t) \/ Die(t)

Next ==
    \/ \E t \in Requests : Step(t)
    \/ \E c \in Codes : Expire(c)
    \/ MinutePasses
    \/ Designate
    \/ LeaveDemo

Spec == Init /\ [][Next]_vars

-----------------------------------------------------------------------------
(***************************************************************************)
(* What must hold.                                                         *)
(***************************************************************************)
\* Type correctness: the rows, the counters and the requests keep their shape.
TypeOK ==
    /\ realm \in Realms /\ demo \in BOOLEAN /\ privileged \in BOOLEAN
    /\ codes \in [Codes -> [st : CodeStates, tries : 0..MaxTries, mailed : BOOLEAN]]
    /\ issued \in 0..MaxIssued
    /\ taken \in Nat /\ emails \subseteq 1..taken /\ hour \subseteq 1..taken
    /\ wrong \in [IPs -> 0..WrongTries]
    /\ account \in [exists : BOOLEAN, id : Nat, demoOnly : BOOLEAN]
    /\ sessions \in [{"code", "demo"} -> Nat]
    /\ req \in [Requests -> RequestRecords]
    /\ opened \in [Codes -> Nat] /\ guesses \in Nat /\ misses \in [IPs -> Nat]
    /\ erased \in BOOLEAN /\ late \in BOOLEAN
    /\ requests \in Nat /\ faults \in Nat

\* A code signs in once, however it is presented (typed, by its link, or both
\* at once) and although other requests try it in the meantime: the delete in
\* checkCode's spend is what decides.
CodeOpensOneSession == \A c \in Codes : opened[c] <= 1

\* However many requests guess at once, an address faces at most MaxTries
\* guesses for each code made for it: take_sign_in_attempt counts a guess on
\* every live code before anything is compared.  A machine's wrong tries pass
\* their limit only by those it had in flight and those that died uncounted:
\* the bucket is read before the try and filled after it.
GuessesBounded ==
    /\ guesses <= MaxTries * issued
    /\ \A ip \in IPs : misses[ip] <= WrongTries + Cardinality(Requests) - 1 + faults

\* No more codes reach an address in an hour than the limit, although a failed
\* email gives back the newest hit, which may be another request's.
HourlyLimit == Cardinality({c \in Codes : codes[c].mailed}) <= PerHour

\* "A stranger who asks for codes can't make the owner's stop working": a code
\* that was sent works until its time is over, except by being tried (a guess
\* costs a try on every live code, a link one on its own), by being presented,
\* or by a demo sign-in or the deletion of the account, which clear them all.
\* Asking for codes, and an email that fails, never end it.
OwnersCodeStays ==
    [][\A c \in Codes :
          codes[c].mailed /\ live(c) /\ ~live(c)' =>
             \/ codes'[c].st = "expired"
             \/ \E t \in Requests :
                   /\ req'[t] # req[t]
                   /\ \/ req[t].pc \in {"try", "clear", "eraseCodes"}
                      \/ req[t].pc \in {"tryLink", "spend"} /\ req[t].code = c]_vars

\* A demo session outlives the moment its address becomes privileged, or the
\* hub leaves demo, only if its sign-in was in flight at that moment; and once
\* a real code has signed in, the account is not one that only a demo's any six
\* digits made, under the same exception.
DemoSessionsEnd ==
    /\ sessions["demo"] > 0 /\ (privileged \/ ~demo) => late
    /\ account.exists /\ account.demoOnly /\ sessions["code"] > 0 => late

\* What codeRules.ts says of the minute ("one atomic take, so racing requests
\* can't slip past the minute"): while a code is waiting, at most one email
\* was counted in the last minute.
OneEmailAMinute == Cardinality(emails) > 1 => Cardinality({c \in Codes : codes[c].st # "none" /\ live(c)}) <= 1

=============================================================================
