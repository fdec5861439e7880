------------------------- MODULE SignInCodes_proofs -------------------------
(***************************************************************************)
(* Proofs about SignInCodes: for any number of requests in flight, of      *)
(* machines and of codes, any limits, and any bound on faults, on a hub    *)
(* and on the console.                                                     *)
(***************************************************************************)
EXTENDS SignInCodes, FiniteSetTheorems, TLAPS

\* What a request's place tells of what it carries.
RequestOK(q) ==
    /\ q.pc \in {"mail", "withdraw", "tryLink", "spend"} => q.code \in Codes
    /\ q.assurance = "demo" => q.pc \in {"clear", "find", "newUser", "session"}
    /\ q.pc = "clear" => q.assurance = "demo"
    /\ q.pc \in {"find", "proved", "newUser", "session"} /\ q.assurance = "code" => q.code \in Codes

TypeInv == TypeOK /\ \A t \in Requests : RequestOK(req[t])

\* The codes made so far, and the one a request is sending, which is nobody else's yet.
Sending(q) == q.pc \in {"mail", "withdraw"}

CodesInv ==
    /\ \A c \in Codes : c > issued => codes[c].st = "none" /\ codes[c].tries = 0 /\ ~codes[c].mailed
    /\ \A t \in Requests : Sending(req[t]) => req[t].code <= issued /\ ~codes[req[t].code].mailed
    /\ \A t, s \in Requests : t # s /\ Sending(req[t]) /\ Sending(req[s]) => req[t].code # req[s].code

\* The request has spent code c and has not yet opened its session.
HasSpent(q, c) == q.pc \in {"find", "proved", "newUser", "session"} /\ q.assurance = "code" /\ q.code = c

SpendInv ==
    \A c \in Codes :
        /\ opened[c] <= 1
        /\ opened[c] = 1 => codes[c].st = "gone"
        /\ \A t \in Requests : HasSpent(req[t], c) =>
               /\ codes[c].st = "gone" /\ opened[c] = 0
               /\ \A s \in Requests \ {t} : ~HasSpent(req[s], c)

\* The tries spent, one by one.
TriesTaken == {p \in Codes \X (1..MaxTries) : p[2] <= codes[p[1]].tries}

TriesInv == guesses <= Cardinality(TriesTaken)

\* The requests about to try a code from an IP, and those with a wrong try to count.
Trying(ip) == {t \in Requests : req[t].pc = "try" /\ req[t].ip = ip}
Missing(ip) == {t \in Requests : req[t].pc = "miss" /\ req[t].ip = ip}

MissInv ==
    \A ip \in IPs :
        IF wrong[ip] < WrongTries
        THEN misses[ip] <= wrong[ip] + Cardinality(Missing(ip)) + faults
        ELSE misses[ip] + Cardinality(Trying(ip)) <= WrongTries + Cardinality(Requests) - 1 + faults

\* The requests whose hit on the hour's bucket is not yet an email sent or a hit given back.
Charged == {t \in Requests : req[t].pc \in {"insert", "mail", "withdraw", "pickEmail", "dropEmail", "pickHour", "dropHour"}}

Mailed == {c \in Codes : codes[c].mailed}

HourInv ==
    /\ Cardinality(hour) <= PerHour
    /\ Cardinality(Mailed) + Cardinality(Charged) <= Cardinality(hour)

\* The hub is a demo and the address an ordinary one: nothing here is done with a code.
Visiting == demo /\ ~privileged

VisitorPCs == {"idle", "counted", "askPrivileged", "typePrivileged", "eraseCodes", "eraseUser"}

DemoInv ==
    /\ demo => realm = "hub" /\ \A t \in Requests : ~at(t, "idle") => req[t].sawDemo
    /\ Visiting => /\ issued = 0 /\ sessions["code"] = 0
                   /\ \A t \in Requests : req[t].assurance = "code" => req[t].pc \in VisitorPCs
    /\ ~Visiting /\ ~late =>
          /\ sessions["demo"] = 0
          /\ \A t \in Requests : proves(t) /\ (~demo => ~at(t, "typePrivileged"))
          /\ account.exists /\ account.demoOnly =>
                /\ sessions["code"] = 0
                /\ \A t \in Requests : ~at(t, "newUser") /\ (at(t, "session") => req[t].user # account.id)
    /\ realm = "console" =>
          privileged /\ ~account.exists /\ \A t \in Requests : req[t].pc \notin {"clear", "find", "newUser"}

-----------------------------------------------------------------------------
(***************************************************************************)
(* Finite sets.                                                            *)
(***************************************************************************)
\* A finite, non-empty set of numbers has a largest member: the sets of members above a
\* member are finite, so one of them has none below it.
LEMMA NewestExists ==
    ASSUME NEW S \in SUBSET Nat, IsFiniteSet(S), S # {}
    PROVE  \E x \in S : \A y \in S : y <= x
<1> DEFINE above(h) == {y \in S : y > h}
           T == {above(h) : h \in S}
<1>1. T \subseteq FiniteSubsetsOf(S) /\ T # {}
  <2>1. \A h \in S : above(h) \in SUBSET S /\ IsFiniteSet(above(h))
    BY FS_Subset
  <2> QED
    BY <2>1 DEF FiniteSubsetsOf
<1>2. IsWellFoundedOn(StrictSubsetOrdering(S), FiniteSubsetsOf(S))
  BY FS_StrictSubsetOrderingWellFounded
<1>3. PICK m \in T : \A U \in T : <<U, m>> \notin StrictSubsetOrdering(S)
  <2> HIDE DEF T
  <2> QED
    BY <1>1, <1>2, WFMin
<1>4. PICK x \in S : m = above(x)
  OBVIOUS
<1>5. ASSUME NEW y \in S, y > x PROVE FALSE
  <2>1. above(y) \subseteq above(x) /\ y \in above(x) /\ y \notin above(y)
    <3>1. x \in Nat /\ y \in Nat /\ ~(y > y)
      OBVIOUS
    <3>2. ASSUME NEW z \in S, z > y PROVE z > x
      BY <1>5, <3>1, <3>2
    <3> QED
      BY <1>5, <3>1, <3>2
  <2>2. above(y) \in SUBSET S /\ above(x) \in SUBSET S /\ above(y) \in T
    BY <1>5
  <2>3. <<above(y), above(x)>> \in StrictSubsetOrdering(S)
    <3> HIDE DEF above
    <3> QED
      BY <2>1, <2>2 DEF StrictSubsetOrdering
  <2> QED
    BY <1>3, <1>4, <2>2, <2>3
<1> QED
  BY <1>5

\* When two sets differ at most in one element, so do their sizes.
LEMMA SizeMoves ==
    ASSUME NEW S, IsFiniteSet(S), NEW T, NEW x, T \ {x} = S \ {x}
    PROVE  /\ IsFiniteSet(T)
           /\ x \in T /\ x \notin S => Cardinality(T) = Cardinality(S) + 1
           /\ x \notin T /\ x \in S => Cardinality(T) = Cardinality(S) - 1
           /\ (x \in T <=> x \in S) => Cardinality(T) = Cardinality(S)
<1>1. CASE x \in T /\ x \notin S
  <2>1. T = S \cup {x}
    BY <1>1
  <2> QED
    BY <1>1, <2>1, FS_AddElement
<1>2. CASE x \notin T /\ x \in S
  <2>1. T = S \ {x}
    BY <1>2
  <2> QED
    BY <1>2, <2>1, FS_RemoveElement
<1>3. CASE x \in T <=> x \in S
  <2>1. T = S
    BY <1>3
  <2> QED
    BY <1>3, <2>1
<1> QED
  BY <1>1, <1>2, <1>3

-----------------------------------------------------------------------------
(***************************************************************************)
(* What a step does to the requests.                                       *)
(***************************************************************************)
\* A thread with nothing in flight carries no code and proves nothing.
LEMMA IdleIs ==
    /\ Idle \in RequestRecords /\ RequestOK(Idle)
    /\ Idle.pc = "idle" /\ Idle.assurance = "code" /\ Idle.code = NoCode /\ Idle.user = 0
<1>1. (CHOOSE ip \in IPs : TRUE) \in IPs
  BY SignInAssumption
<1>2. Idle \in RequestRecords
  BY <1>1 DEF Idle, RequestRecords, PCs, NoCode
<1> QED
  BY <1>2 DEF Idle, RequestOK

\* One request's record is replaced, the others stay.
LEMMA Moved ==
    ASSUME TypeOK, NEW t \in Requests, NEW q, becomes(t, q)
    PROVE  req'[t] = q /\ \A s \in Requests \ {t} : req'[s] = req[s]
BY DEF TypeOK, becomes

\* goto moves one request on and leaves what it carries.
LEMMA WentTo ==
    ASSUME TypeOK, NEW t \in Requests, NEW pc, goto(t, pc)
    PROVE  /\ req'[t].pc = pc /\ req'[t].ip = req[t].ip /\ req'[t].code = req[t].code
           /\ req'[t].sawDemo = req[t].sawDemo /\ req'[t].live = req[t].live /\ req'[t].hit = req[t].hit
           /\ req'[t].assurance = req[t].assurance /\ req'[t].user = req[t].user
           /\ \A s \in Requests \ {t} : req'[s] = req[s]
BY DEF TypeOK, RequestRecords, becomes, goto

\* A request that ends leaves its thread idle.
LEMMA Finished ==
    ASSUME TypeOK, NEW t \in Requests, finish(t)
    PROVE  req'[t] = Idle /\ \A s \in Requests \ {t} : req'[s] = req[s]
BY DEF TypeOK, becomes, finish

\* A record that is well formed may take a request's place.
LEMMA OneRequest ==
    ASSUME TypeInv, NEW t \in Requests, NEW q \in RequestRecords, RequestOK(q), becomes(t, q)
    PROVE  req' \in [Requests -> RequestRecords] /\ \A s \in Requests : RequestOK(req'[s])
BY DEF TypeInv, TypeOK, becomes

\* So may the idle record, and the same request further on.
LEMMA OneStep ==
    ASSUME TypeInv, NEW t \in Requests
    PROVE  /\ finish(t) => req' \in [Requests -> RequestRecords] /\ \A s \in Requests : RequestOK(req'[s])
           /\ \A pc \in PCs :
                 goto(t, pc) /\ RequestOK([req[t] EXCEPT !.pc = pc]) =>
                    req' \in [Requests -> RequestRecords] /\ \A s \in Requests : RequestOK(req'[s])
<1>1. finish(t) => req' \in [Requests -> RequestRecords] /\ \A s \in Requests : RequestOK(req'[s])
  BY IdleIs, OneRequest DEF finish
<1>2. ASSUME NEW pc \in PCs, goto(t, pc), RequestOK([req[t] EXCEPT !.pc = pc])
      PROVE  req' \in [Requests -> RequestRecords] /\ \A s \in Requests : RequestOK(req'[s])
  <2>1. [req[t] EXCEPT !.pc = pc] \in RequestRecords
    BY DEF TypeInv, TypeOK, RequestRecords
  <2> QED
    BY <1>2, <2>1, OneRequest DEF goto
<1> QED
  BY <1>1, <1>2

-----------------------------------------------------------------------------
(***************************************************************************)
(* Types.                                                                  *)
(***************************************************************************)
CodeRows == [st : CodeStates, tries : 0..MaxTries, mailed : BOOLEAN]

\* Whatever rows change hands, they stay rows.
LEMMA RowsType ==
    ASSUME TypeOK
    PROVE  /\ \A c \in Codes : codes[c] \in CodeRows
           /\ cleared => codes' \in [Codes -> CodeRows]
           /\ \A c \in Codes : stored(c) \/ deleted(c) => codes' \in [Codes -> CodeRows]
           /\ \A rows \in SUBSET liveCodes : tried(rows) => codes' \in [Codes -> CodeRows]
<1>1. codes \in [Codes -> CodeRows]
  BY DEF TypeOK, CodeRows
<1>2. cleared => codes' \in [Codes -> CodeRows]
  BY <1>1 DEF cleared, CodeRows, CodeStates
<1>3. \A c \in Codes : stored(c) \/ deleted(c) => codes' \in [Codes -> CodeRows]
  <2>1. newCode \in CodeRows
    BY SignInAssumption DEF newCode, CodeRows, CodeStates
  <2> QED
    BY <1>1, <2>1 DEF stored, deleted, CodeRows, CodeStates
<1>4. ASSUME NEW rows \in SUBSET liveCodes, tried(rows) PROVE codes' \in [Codes -> CodeRows]
  <2>1. ASSUME NEW c \in rows PROVE [codes[c] EXCEPT !.tries = @ + 1] \in CodeRows
    <3>1. c \in Codes /\ codes[c].tries < MaxTries /\ codes[c].tries \in 0..MaxTries
      BY <1>1, <1>4, <2>1 DEF liveCodes, live, CodeRows
    <3>2. codes[c].tries + 1 \in 0..MaxTries
      BY <3>1, SignInAssumption
    <3> QED
      BY <1>1, <3>1, <3>2 DEF CodeRows
  <2> QED
    BY <1>1, <1>4, <2>1 DEF tried
<1> QED
  BY <1>1, <1>2, <1>3, <1>4

\* The types hold initially.
LEMMA InitType == Init => TypeInv
<1> SUFFICES ASSUME Init PROVE TypeInv
  OBVIOUS
<1>1. [st |-> "none", tries |-> 0, mailed |-> FALSE] \in CodeRows
  BY SignInAssumption DEF CodeRows, CodeStates
<1>2. codes \in [Codes -> CodeRows]
  BY <1>1 DEF Init
<1>3. demo \in BOOLEAN
  BY DEF Init
<1>4. wrong \in [IPs -> 0..WrongTries]
  BY SignInAssumption DEF Init
<1>5. \A t \in Requests : req[t] = Idle
  BY DEF Init
<1>6. req \in [Requests -> RequestRecords]
  BY IdleIs DEF Init
<1>7. realm \in Realms /\ privileged \in BOOLEAN /\ erased \in BOOLEAN /\ late \in BOOLEAN
  BY DEF Init
<1>8. /\ issued \in 0..MaxIssued /\ taken \in Nat /\ emails \subseteq 1..taken /\ hour \subseteq 1..taken
      /\ guesses \in Nat /\ requests \in Nat /\ faults \in Nat
  BY SignInAssumption DEF Init
<1>9. /\ account \in [exists : BOOLEAN, id : Nat, demoOnly : BOOLEAN]
      /\ sessions \in [{"code", "demo"} -> Nat]
      /\ opened \in [Codes -> Nat] /\ misses \in [IPs -> Nat]
  BY DEF Init
<1> QED
  BY <1>2, <1>3, <1>4, <1>5, <1>6, <1>7, <1>8, <1>9, IdleIs DEF TypeInv, TypeOK, CodeRows

\* Every step keeps the types, and what a request's place tells of it.
LEMMA NextType == TypeInv /\ [Next]_vars => TypeInv'
<1> SUFFICES ASSUME TypeInv, [Next]_vars PROVE TypeInv'
  OBVIOUS
<1> DEFINE ReqOK == req' \in [Requests -> RequestRecords] /\ \A s \in Requests : RequestOK(req'[s])
<1>1. TypeOK /\ \A t \in Requests : req[t] \in RequestRecords /\ RequestOK(req[t])
  BY DEF TypeInv, TypeOK
<1>2. codes \in [Codes -> CodeRows]
  BY <1>1 DEF TypeOK, CodeRows
<1>3. ASSUME ReqOK, UNCHANGED <<codes, issued, account, sessions, world, counters, history>>,
             requests' \in Nat, faults' \in Nat
      PROVE  TypeInv'
  BY <1>1, <1>3 DEF TypeInv, TypeOK, world, counters, history
<1>4. ASSUME NEW t \in Requests, NEW q \in RequestRecords, began(t, q),
             RequestOK(q), \A d \in BOOLEAN : RequestOK([q EXCEPT !.sawDemo = d])
      PROVE  TypeInv'
  <2>1. [q EXCEPT !.sawDemo = demo] \in RequestRecords
    BY <1>1, <1>4 DEF RequestRecords, TypeOK
  <2>2. ReqOK
    BY <1>1, <1>4, <2>1, OneRequest DEF began, TypeOK
  <2>3. requests' \in Nat
    BY <1>1, <1>4 DEF began, TypeOK
  <2> QED
    BY <1>1, <1>3, <1>4, <2>2, <2>3 DEF began, TypeOK
<1>5. ASSUME NEW t \in Requests, NEW pc \in PCs, NEW ip \in IPs, NEW c \in Codes \cup {NoCode},
             NEW id \in Nat,
             began(t, [Idle EXCEPT !.pc = pc, !.ip = ip, !.code = c, !.user = id]),
             pc \in {"mail", "withdraw", "tryLink", "spend"} => c \in Codes,
             pc \notin {"clear", "find", "proved", "newUser", "session"}
      PROVE  TypeInv'
  <2> DEFINE q == [Idle EXCEPT !.pc = pc, !.ip = ip, !.code = c, !.user = id]
  <2>1. q \in RequestRecords /\ q.pc = pc /\ q.code = c /\ q.assurance = "code"
    BY IdleIs DEF RequestRecords
  <2>2. \A d \in BOOLEAN : /\ [q EXCEPT !.sawDemo = d].pc = pc /\ [q EXCEPT !.sawDemo = d].code = c
                           /\ [q EXCEPT !.sawDemo = d].assurance = "code"
    BY IdleIs DEF RequestRecords
  <2>3. RequestOK(q) /\ \A d \in BOOLEAN : RequestOK([q EXCEPT !.sawDemo = d])
    BY <1>5, <2>1, <2>2 DEF RequestOK
  <2> QED
    BY <1>4, <1>5, <2>1, <2>3
<1>6. ASSUME NEW t \in Requests,
             Ask(t) \/ (\E ip \in IPs, c \in Codes \cup {NoCode} : Type(t, ip, c))
             \/ (\E c \in Codes : Link(t, c)) \/ Leave(t)
      PROVE  TypeInv'
  <2>1. Idle.ip \in IPs /\ Idle.code = NoCode /\ Idle.user = 0 /\ Idle \in RequestRecords /\ 0 \in Nat
    BY IdleIs DEF RequestRecords
  <2>2. ASSUME Ask(t) PROVE TypeInv'
    <3>1. PICK pc \in {"counted", "live"} : began(t, [Idle EXCEPT !.pc = pc])
      BY <2>2 DEF Ask
    <3>2. [Idle EXCEPT !.pc = pc] = [Idle EXCEPT !.pc = pc, !.ip = Idle.ip, !.code = NoCode, !.user = 0]
      BY <2>1 DEF RequestRecords
    <3>3. began(t, [Idle EXCEPT !.pc = pc, !.ip = Idle.ip, !.code = NoCode, !.user = 0])
      BY <3>1, <3>2
    <3> QED
      BY <1>5, <2>1, <3>1, <3>3 DEF PCs
  <2>3. ASSUME NEW ip \in IPs, NEW c \in Codes \cup {NoCode}, Type(t, ip, c) PROVE TypeInv'
    <3>1. PICK pc \in {"typePrivileged", "room"} : began(t, [Idle EXCEPT !.pc = pc, !.ip = ip, !.code = c])
      BY <2>3 DEF Type
    <3>2. [Idle EXCEPT !.pc = pc, !.ip = ip, !.code = c]
            = [Idle EXCEPT !.pc = pc, !.ip = ip, !.code = c, !.user = 0]
      BY <2>1 DEF RequestRecords
    <3>3. began(t, [Idle EXCEPT !.pc = pc, !.ip = ip, !.code = c, !.user = 0])
      BY <3>1, <3>2
    <3> QED
      BY <1>5, <2>1, <3>1, <3>3 DEF PCs
  <2>4. ASSUME NEW c \in Codes, Link(t, c) PROVE TypeInv'
    <3>1. began(t, [Idle EXCEPT !.pc = "tryLink", !.code = c])
      BY <2>4 DEF Link
    <3>2. [Idle EXCEPT !.pc = "tryLink", !.code = c]
            = [Idle EXCEPT !.pc = "tryLink", !.ip = Idle.ip, !.code = c, !.user = 0]
      BY <2>1 DEF RequestRecords
    <3>3. began(t, [Idle EXCEPT !.pc = "tryLink", !.ip = Idle.ip, !.code = c, !.user = 0])
      BY <3>1, <3>2
    <3> QED
      BY <1>5, <2>1, <3>1, <3>3 DEF PCs
  <2>5. ASSUME Leave(t) PROVE TypeInv'
    <3>1. began(t, [Idle EXCEPT !.pc = "eraseCodes", !.user = account.id]) /\ account.id \in Nat
      BY <1>1, <2>5 DEF Leave, TypeOK
    <3>2. [Idle EXCEPT !.pc = "eraseCodes", !.user = account.id]
            = [Idle EXCEPT !.pc = "eraseCodes", !.ip = Idle.ip, !.code = NoCode, !.user = account.id]
      BY <2>1 DEF RequestRecords
    <3>3. began(t, [Idle EXCEPT !.pc = "eraseCodes", !.ip = Idle.ip, !.code = NoCode, !.user = account.id])
      BY <3>1, <3>2
    <3> QED
      BY <1>5, <2>1, <3>1, <3>3 DEF PCs
  <2> QED
    BY <1>6, <2>2, <2>3, <2>4, <2>5
<1>7. ASSUME NEW t \in Requests, finish(t) PROVE ReqOK
  BY <1>7, OneStep
<1>8. ASSUME NEW t \in Requests, NEW pc \in PCs, goto(t, pc),
             pc \in {"mail", "withdraw", "tryLink", "spend"} => req[t].code \in Codes,
             req[t].assurance = "demo" => pc \in {"clear", "find", "newUser", "session"},
             pc = "clear" => req[t].assurance = "demo",
             pc \in {"find", "proved", "newUser", "session"} /\ req[t].assurance = "code"
               => req[t].code \in Codes
      PROVE  ReqOK
  <2>1. RequestOK([req[t] EXCEPT !.pc = pc])
    BY <1>1, <1>8 DEF RequestRecords, RequestOK
  <2> QED
    BY <1>8, <2>1, OneStep
<1>9. ASSUME NEW t \in Requests, NEW q \in RequestRecords, RequestOK(q), becomes(t, q) PROVE ReqOK
  BY <1>9, OneRequest
<1>10. ASSUME NEW t \in Requests, limitIp(t) \/ askPrivileged(t) \/ wrongRoom(t) PROVE TypeInv'
  <2>1. req[t].pc \in {"counted", "askPrivileged", "room"} /\ req[t].assurance # "demo"
    BY <1>1, <1>10 DEF limitIp, askPrivileged, wrongRoom, at, RequestOK
  <2>2. finish(t) \/ \E pc \in {"askPrivileged", "live", "try"} : goto(t, pc)
    BY <1>10 DEF limitIp, askPrivileged, wrongRoom
  <2>3. ReqOK
    BY <1>7, <1>8, <2>1, <2>2 DEF PCs
  <2> QED
    BY <1>1, <1>3, <1>10, <2>3 DEF limitIp, askPrivileged, wrongRoom, TypeOK
<1>11. ASSUME NEW t \in Requests, readLive(t) PROVE TypeInv'
  <2> DEFINE q == [req[t] EXCEPT !.pc = "allowance", !.live = Cardinality(liveCodes)]
  <2>1. Cardinality(liveCodes) \in Nat
    <3>1. IsFiniteSet(Codes)
      BY FS_Interval, SignInAssumption DEF Codes
    <3>2. IsFiniteSet(liveCodes)
      BY <3>1, FS_Subset DEF liveCodes
    <3> QED
      BY <3>2, FS_CardinalityType
  <2>2. q \in RequestRecords /\ q.pc = "allowance" /\ q.assurance = req[t].assurance
    BY <1>1, <2>1 DEF RequestRecords, PCs
  <2>3. RequestOK(q)
    BY <1>1, <1>11, <2>2 DEF readLive, at, RequestOK
  <2>4. finish(t) \/ becomes(t, q)
    BY <1>11 DEF readLive
  <2>5. ReqOK
    BY <1>7, <1>9, <2>2, <2>3, <2>4
  <2> QED
    BY <1>1, <1>3, <1>11, <2>5 DEF readLive, TypeOK
<1>12. ASSUME NEW t \in Requests, takeAllowance(t) PROVE TypeInv'
  <2>1. ReqOK
    BY <1>1, <1>7, <1>8, <1>12 DEF takeAllowance, at, RequestOK, PCs
  <2>2. taken' \in Nat /\ emails' \subseteq 1..taken' /\ hour' \subseteq 1..taken'
    <3>1. CASE hasRoom(t)
      <4>1. taken' = taken + 1 /\ emails' = emails \cup {taken'} /\ hour' = hour \cup {taken'}
        BY <1>12, <3>1 DEF takeAllowance
      <4>2. taken \in Nat /\ emails \subseteq 1..taken /\ hour \subseteq 1..taken
        BY <1>1 DEF TypeOK
      <4> QED
        BY <4>1, <4>2
    <3>2. CASE ~hasRoom(t)
      BY <1>1, <1>12, <3>2 DEF takeAllowance, TypeOK
    <3> QED
      BY <3>1, <3>2
  <2> QED
    BY <1>1, <1>12, <2>1, <2>2 DEF takeAllowance, TypeInv, TypeOK, world, history
<1>13. ASSUME NEW t \in Requests, insertCode(t) PROVE TypeInv'
  <2> DEFINE q == [req[t] EXCEPT !.pc = "mail", !.code = issued']
  <2>1. issued' \in Codes /\ issued' \in 0..MaxIssued
    BY <1>1, <1>13, SignInAssumption DEF insertCode, TypeOK, Codes
  <2>2. q \in RequestRecords /\ q.pc = "mail" /\ q.code = issued' /\ q.assurance = req[t].assurance
    BY <1>1, <2>1 DEF RequestRecords, PCs
  <2>3. RequestOK(q)
    BY <1>1, <1>13, <2>1, <2>2 DEF insertCode, at, RequestOK
  <2>4. ReqOK
    BY <1>9, <1>13, <2>2, <2>3 DEF insertCode
  <2>5. codes' \in [Codes -> CodeRows]
    BY <1>1, <1>13, <2>1, RowsType DEF insertCode
  <2> QED
    BY <1>1, <1>13, <2>1, <2>4, <2>5
       DEF insertCode, TypeInv, TypeOK, CodeRows, world, counters, history
<1>14. ASSUME NEW t \in Requests, mailed(t) PROVE TypeInv'
  <2>1. req[t].code \in Codes
    BY <1>1, <1>14 DEF mailed, at, RequestOK
  <2>2. codes' \in [Codes -> CodeRows]
    BY <1>2, <1>14, <2>1 DEF mailed, CodeRows
  <2>3. ReqOK
    BY <1>7, <1>14 DEF mailed
  <2> QED
    BY <1>1, <1>14, <2>2, <2>3 DEF mailed, TypeInv, TypeOK, CodeRows, world, counters, history
<1>15. ASSUME NEW t \in Requests, mailFailed(t) PROVE TypeInv'
  <2>1. ReqOK
    BY <1>1, <1>7, <1>8, <1>15 DEF mailFailed, at, RequestOK, PCs
  <2> QED
    BY <1>1, <1>3, <1>15, <2>1 DEF mailFailed, TypeOK
<1>16. ASSUME NEW t \in Requests, withdrawPlatformCode(t) PROVE TypeInv'
  <2>1. req[t].code \in Codes /\ req[t].assurance # "demo"
    BY <1>1, <1>16 DEF withdrawPlatformCode, at, RequestOK
  <2>2. codes' \in [Codes -> CodeRows]
    BY <1>1, <1>16, <2>1, RowsType DEF withdrawPlatformCode
  <2>3. ReqOK
    BY <1>8, <1>16, <2>1 DEF withdrawPlatformCode, PCs
  <2> QED
    BY <1>1, <1>16, <2>2, <2>3
       DEF withdrawPlatformCode, TypeInv, TypeOK, CodeRows, world, counters, history
<1>17. ASSUME NEW t \in Requests, pickHit(t) PROVE TypeInv'
  <2>1. PICK b \in {<<"pickEmail", "dropEmail", emails>>, <<"pickHour", "dropHour", hour>>} :
           /\ at(t, b[1])
           /\ becomes(t, [req[t] EXCEPT !.pc = b[2], !.hit = IF b[3] = {} THEN 0 ELSE newest(b[3])])
    BY <1>17 DEF pickHit
  <2> DEFINE h == IF b[3] = {} THEN 0 ELSE newest(b[3])
             q == [req[t] EXCEPT !.pc = b[2], !.hit = h]
  <2>2. h \in Nat
    <3>1. IsFiniteSet(1..taken) /\ b[3] \subseteq 1..taken
      <4>1. taken \in Nat /\ emails \subseteq 1..taken /\ hour \subseteq 1..taken
        BY <1>1 DEF TypeOK
      <4>2. b[3] \in {emails, hour}
        OBVIOUS
      <4>3. IsFiniteSet(1..taken)
        BY <4>1, FS_Interval
      <4> QED
        BY <4>1, <4>2, <4>3
    <3>2. IsFiniteSet(b[3])
      BY <3>1, FS_Subset
    <3>3. CASE b[3] # {}
      <4>1. \E x \in b[3] : \A y \in b[3] : y <= x
        BY <3>1, <3>2, <3>3, NewestExists
      <4> QED
        BY <3>1, <4>1, <3>3 DEF newest
    <3> QED
      BY <3>3
  <2>3. b[2] \in {"dropEmail", "dropHour"} /\ req[t].pc \in {"pickEmail", "pickHour"}
    BY <2>1 DEF at
  <2>4. q \in RequestRecords /\ q.pc = b[2] /\ q.assurance = req[t].assurance
    BY <1>1, <2>2, <2>3 DEF RequestRecords, PCs
  <2>5. RequestOK(q)
    BY <1>1, <2>3, <2>4 DEF RequestOK
  <2>6. ReqOK
    BY <1>9, <2>1, <2>4, <2>5
  <2> QED
    BY <1>1, <1>3, <1>17, <2>6 DEF pickHit, TypeOK
<1>18. ASSUME NEW t \in Requests, dropEmail(t) PROVE TypeInv'
  <2>1. ReqOK
    BY <1>1, <1>8, <1>18 DEF dropEmail, at, RequestOK, PCs
  <2> QED
    BY <1>1, <1>18, <2>1 DEF dropEmail, TypeInv, TypeOK, world, history
<1>19. ASSUME NEW t \in Requests, dropHour(t) PROVE TypeInv'
  <2>1. ReqOK
    BY <1>7, <1>19 DEF dropHour
  <2> QED
    BY <1>1, <1>19, <2>1 DEF dropHour, TypeInv, TypeOK, world, history
<1>20. ASSUME NEW t \in Requests, typePrivileged(t) PROVE TypeInv'
  <2> DEFINE q == [req[t] EXCEPT !.pc = "clear", !.assurance = "demo", !.code = NoCode]
  <2>1. q \in RequestRecords /\ q.pc = "clear" /\ q.assurance = "demo"
    BY <1>1 DEF RequestRecords, PCs
  <2>2. RequestOK(q)
    BY <2>1 DEF RequestOK
  <2>3. becomes(t, q) \/ goto(t, "room")
    BY <1>20 DEF typePrivileged
  <2>4. ReqOK
    BY <1>1, <1>8, <1>9, <1>20, <2>1, <2>2, <2>3 DEF typePrivileged, at, RequestOK, PCs
  <2> QED
    BY <1>1, <1>3, <1>20, <2>4 DEF typePrivileged, TypeOK
<1>21. ASSUME NEW t \in Requests, clearCodes(t) \/ eraseCodes(t) PROVE TypeInv'
  <2>1. codes' \in [Codes -> CodeRows]
    BY <1>1, <1>21, RowsType DEF clearCodes, eraseCodes
  <2>2. ReqOK
    BY <1>1, <1>8, <1>21 DEF clearCodes, eraseCodes, at, RequestOK, PCs
  <2> QED
    BY <1>1, <1>21, <2>1, <2>2
       DEF clearCodes, eraseCodes, TypeInv, TypeOK, CodeRows, world, counters
<1>22. ASSUME NEW t \in Requests, takeAttempt(t) PROVE TypeInv'
  <2>1. codes' \in [Codes -> CodeRows]
    BY <1>1, <1>22, RowsType DEF takeAttempt
  <2>2. finish(t) \/ (req[t].code \in liveCodes /\ goto(t, "spend")) \/ goto(t, "miss")
    BY <1>22 DEF takeAttempt
  <2>3. ReqOK
    BY <1>1, <1>7, <1>8, <1>22, <2>2 DEF takeAttempt, at, RequestOK, PCs, liveCodes
  <2>4. guesses' \in Nat /\ misses' \in [IPs -> Nat]
    <3>1. guesses' \in {guesses, guesses + 1}
          /\ (misses' = misses \/ misses' = [misses EXCEPT ![req[t].ip] = @ + 1])
      BY <1>22 DEF takeAttempt
    <3>2. req[t].ip \in IPs /\ guesses \in Nat /\ misses \in [IPs -> Nat]
      BY <1>1 DEF RequestRecords, TypeOK
    <3> QED
      BY <3>1, <3>2
  <2> QED
    BY <1>1, <1>22, <2>1, <2>3, <2>4 DEF takeAttempt, TypeInv, TypeOK, CodeRows, world, counters
<1>23. ASSUME NEW t \in Requests, countMiss(t) PROVE TypeInv'
  <2>1. ReqOK
    BY <1>7, <1>23 DEF countMiss
  <2>2. wrong' \in [IPs -> 0..WrongTries]
    <3>1. wrong' = wrong \/ (wrong[req[t].ip] < WrongTries /\ wrong' = [wrong EXCEPT ![req[t].ip] = @ + 1])
      BY <1>23 DEF countMiss, missCounted
    <3>2. req[t].ip \in IPs /\ wrong \in [IPs -> 0..WrongTries] /\ WrongTries \in Nat
      BY <1>1, SignInAssumption DEF RequestRecords, TypeOK
    <3> QED
      BY <3>1, <3>2
  <2> QED
    BY <1>1, <1>23, <2>1, <2>2 DEF countMiss, TypeInv, TypeOK, world, history
<1>24. ASSUME NEW t \in Requests, takeLinkAttempt(t) PROVE TypeInv'
  <2>1. req[t].code \in Codes /\ req[t].assurance # "demo"
    BY <1>1, <1>24 DEF takeLinkAttempt, at, RequestOK
  <2>2. codes' \in [Codes -> CodeRows]
    <3>1. live(req[t].code) => {req[t].code} \in SUBSET liveCodes
      BY <2>1 DEF liveCodes
    <3> QED
      BY <1>1, <1>2, <1>24, <3>1, RowsType DEF takeLinkAttempt
  <2>3. ReqOK
    BY <1>7, <1>8, <1>24, <2>1 DEF takeLinkAttempt, PCs
  <2> QED
    BY <1>1, <1>24, <2>2, <2>3 DEF takeLinkAttempt, TypeInv, TypeOK, CodeRows, world, counters, history
<1>25. ASSUME NEW t \in Requests, spendCode(t) PROVE TypeInv'
  <2>1. req[t].code \in Codes /\ req[t].assurance # "demo"
    BY <1>1, <1>25 DEF spendCode, at, RequestOK
  <2>2. codes' \in [Codes -> CodeRows]
    BY <1>1, <1>2, <1>25, <2>1, RowsType DEF spendCode
  <2>3. finish(t) \/ goto(t, "find") \/ goto(t, "session")
    BY <1>25 DEF spendCode
  <2>4. ReqOK
    BY <1>7, <1>8, <2>1, <2>3 DEF PCs
  <2> QED
    BY <1>1, <1>25, <2>2, <2>4 DEF spendCode, TypeInv, TypeOK, CodeRows, world, counters, history
<1>26. ASSUME NEW t \in Requests, findUser(t) PROVE TypeInv'
  <2> DEFINE q == [req[t] EXCEPT !.user = account.id, !.pc = afterFind(t)]
  <2>1. afterFind(t) \in {"newUser", "session"} \/ (afterFind(t) = "proved" /\ req[t].assurance = "code")
    BY DEF afterFind, proves
  <2>2. /\ q \in RequestRecords /\ q.pc = afterFind(t) /\ q.assurance = req[t].assurance
        /\ q.code = req[t].code
    BY <1>1, <2>1 DEF RequestRecords, PCs, TypeOK
  <2>3. RequestOK(q)
    BY <1>1, <1>26, <2>1, <2>2 DEF findUser, at, RequestOK
  <2>4. ReqOK
    BY <1>9, <1>26, <2>2, <2>3 DEF findUser
  <2> QED
    BY <1>1, <1>3, <1>26, <2>4 DEF findUser, TypeOK
<1>27. ASSUME NEW t \in Requests, clearDemoOnly(t) PROVE TypeInv'
  <2>1. ReqOK
    BY <1>1, <1>8, <1>27 DEF clearDemoOnly, at, RequestOK, PCs
  <2>2. account' \in [exists : BOOLEAN, id : Nat, demoOnly : BOOLEAN]
    BY <1>1, <1>27 DEF clearDemoOnly, TypeOK
  <2> QED
    BY <1>1, <1>27, <2>1, <2>2 DEF clearDemoOnly, TypeInv, TypeOK, world, counters, history
<1>28. ASSUME NEW t \in Requests, insertUser(t) PROVE TypeInv'
  <2> DEFINE q == [req[t] EXCEPT !.pc = "session", !.user = account'.id]
  <2>1. account' \in [exists : BOOLEAN, id : Nat, demoOnly : BOOLEAN]
    BY <1>1, <1>28 DEF insertUser, TypeOK, proves
  <2>2. account'.id \in Nat
    BY <2>1
  <2>3. /\ q \in RequestRecords /\ q.pc = "session" /\ q.assurance = req[t].assurance
        /\ q.code = req[t].code
    BY <1>1, <2>2 DEF RequestRecords, PCs
  <2>4. RequestOK(q)
    BY <1>1, <1>28, <2>3 DEF insertUser, at, RequestOK
  <2>5. ReqOK
    BY <1>9, <1>28, <2>3, <2>4 DEF insertUser
  <2> QED
    BY <1>1, <1>28, <2>1, <2>5 DEF insertUser, TypeInv, TypeOK, world, counters, history
<1>29. ASSUME NEW t \in Requests, insertSession(t) PROVE TypeInv'
  <2>1. ReqOK
    BY <1>7, <1>29 DEF insertSession
  <2>2. req[t].assurance \in {"code", "demo"}
    BY <1>1 DEF RequestRecords
  <2>3. sessions' \in [{"code", "demo"} -> Nat]
    BY <1>1, <1>29, <2>2 DEF insertSession, TypeOK
  <2>4. opened' \in [Codes -> Nat]
    BY <1>1, <1>29 DEF insertSession, TypeOK
  <2> QED
    BY <1>1, <1>29, <2>1, <2>3, <2>4 DEF insertSession, TypeInv, TypeOK, world, counters
<1>30. ASSUME NEW t \in Requests, eraseUser(t) PROVE TypeInv'
  <2>1. ReqOK
    BY <1>7, <1>30 DEF eraseUser
  <2>2. account' \in [exists : BOOLEAN, id : Nat, demoOnly : BOOLEAN]
    BY <1>1, <1>30 DEF eraseUser, TypeOK
  <2>3. sessions' \in [{"code", "demo"} -> Nat]
    BY <1>1, <1>30 DEF eraseUser, TypeOK
  <2> QED
    BY <1>1, <1>30, <2>1, <2>2, <2>3 DEF eraseUser, TypeInv, TypeOK, world, counters, history
<1>31. ASSUME NEW t \in Requests, Refused(t) \/ Die(t) PROVE TypeInv'
  <2>1. ReqOK
    BY <1>7, <1>31 DEF Refused, Die
  <2> QED
    BY <1>1, <1>3, <1>31, <2>1 DEF Refused, Die, TypeOK
<1>32. ASSUME NEW c \in Codes, Expire(c) PROVE TypeInv'
  <2>1. codes' \in [Codes -> CodeRows]
    BY <1>2, <1>32 DEF Expire, CodeRows, CodeStates
  <2> QED
    BY <1>1, <1>32, <2>1 DEF Expire, TypeInv, TypeOK, CodeRows, world, counters, history
<1>33. CASE MinutePasses
  BY <1>1, <1>33 DEF MinutePasses, TypeInv, TypeOK, world, history
<1>34. CASE Designate \/ LeaveDemo
  <2>1. sessions' \in [{"code", "demo"} -> Nat]
    BY <1>1, <1>34 DEF Designate, LeaveDemo, demoSessionsEnd, TypeOK
  <2>2. late' \in BOOLEAN
    BY <1>1, <1>34 DEF Designate, LeaveDemo, TypeOK, signingInDemo
  <2> QED
    BY <1>1, <1>34, <2>1, <2>2 DEF Designate, LeaveDemo, TypeInv, TypeOK, counters
<1>35. CASE UNCHANGED vars
  BY <1>1, <1>35 DEF vars, TypeInv, TypeOK, world, counters, history
<1> QED
  BY <1>6, <1>10, <1>11, <1>12, <1>13, <1>14, <1>15, <1>16, <1>17, <1>18, <1>19, <1>20, <1>21,
     <1>22, <1>23, <1>24, <1>25, <1>26, <1>27, <1>28, <1>29, <1>30, <1>31, <1>32, <1>33, <1>34,
     <1>35 DEF Next, Step

-----------------------------------------------------------------------------
(***************************************************************************)
(* Where a step leaves the request that takes it.                          *)
(***************************************************************************)
\* A request changes by its own steps only.
LEMMA OwnStep ==
    ASSUME TypeInv, [Next]_vars, NEW s \in Requests, req'[s] # req[s]
    PROVE  Step(s)
<1>1. TypeOK
  BY DEF TypeInv
<1>2. ASSUME NEW t \in Requests, Step(t), t # s PROVE FALSE
  <2>1. ASSUME NEW q, becomes(t, q) PROVE FALSE
    BY <1>1, <1>2, <2>1, Moved
  <2> QED
    BY <1>2, <2>1
       DEF Step, Ask, limitIp, askPrivileged, readLive, takeAllowance, insertCode, mailed, mailFailed,
           withdrawPlatformCode, pickHit, dropEmail, dropHour, Type, Link, typePrivileged, clearCodes,
           wrongRoom, takeAttempt, countMiss, takeLinkAttempt, spendCode, findUser, clearDemoOnly,
           insertUser, insertSession, Leave, eraseCodes, eraseUser, Refused, Die, began, goto, finish
<1> QED
  BY <1>1, <1>2 DEF Next, Expire, MinutePasses, Designate, LeaveDemo, vars

\* A step moves at most one request.
LEMMA OthersStay ==
    ASSUME TypeInv, NEW t \in Requests, Step(t)
    PROVE  \A s \in Requests \ {t} : req'[s] = req[s]
<1>1. \A q : becomes(t, q) => \A s \in Requests \ {t} : req'[s] = req[s]
  BY Moved DEF TypeInv
<1> QED
  BY <1>1
     DEF Step, Ask, limitIp, askPrivileged, readLive, takeAllowance, insertCode, mailed, mailFailed,
         withdrawPlatformCode, pickHit, dropEmail, dropHour, Type, Link, typePrivileged, clearCodes,
         wrongRoom, takeAttempt, countMiss, takeLinkAttempt, spendCode, findUser, clearDemoOnly,
         insertUser, insertSession, Leave, eraseCodes, eraseUser, Refused, Die, began, goto, finish

\* What a request carries when it begins.
LEMMA Began ==
    ASSUME TypeInv, NEW t \in Requests,
           Ask(t) \/ (\E ip \in IPs, c \in Codes \cup {NoCode} : Type(t, ip, c))
           \/ (\E c \in Codes : Link(t, c)) \/ Leave(t)
    PROVE  /\ at(t, "idle")
           /\ UNCHANGED <<codes, issued, account, sessions, world, counters, history, faults>>
           /\ req'[t].assurance = "code" /\ req'[t].sawDemo = demo /\ req'[t].user \in {0, account.id}
           /\ \/ Ask(t) /\ req'[t].pc = IF realm = "hub" THEN "counted" ELSE "live"
              \/ req'[t].pc = IF demo THEN "typePrivileged" ELSE "room"
              \/ (\E c \in Codes : Link(t, c)) /\ req'[t].pc = "tryLink"
              \/ req'[t].pc = "eraseCodes"
<1>1. TypeOK /\ Idle \in RequestRecords /\ Idle.assurance = "code" /\ Idle.user = 0 /\ demo \in BOOLEAN
  BY IdleIs DEF TypeInv, TypeOK
<1>2. ASSUME NEW q \in RequestRecords, began(t, q), q.assurance = "code"
      PROVE  /\ at(t, "idle") /\ UNCHANGED <<codes, issued, account, sessions, world, counters, history, faults>>
             /\ req'[t].assurance = "code" /\ req'[t].sawDemo = demo /\ req'[t].user = q.user
             /\ req'[t].pc = q.pc
  <2>1. becomes(t, [q EXCEPT !.sawDemo = demo])
    BY <1>2 DEF began
  <2>2. req'[t] = [q EXCEPT !.sawDemo = demo]
    BY <1>1, <2>1, Moved
  <2> QED
    BY <1>2, <2>2 DEF began, RequestRecords
<1>3. CASE Ask(t)
  <2> DEFINE q == [Idle EXCEPT !.pc = IF realm = "hub" THEN "counted" ELSE "live"]
  <2>1. q \in RequestRecords /\ q.pc = (IF realm = "hub" THEN "counted" ELSE "live")
        /\ q.assurance = "code" /\ q.user = 0
    BY <1>1 DEF RequestRecords, PCs
  <2>2. began(t, q)
    BY <1>3 DEF Ask
  <2> HIDE DEF q
  <2> QED
    BY <1>2, <1>3, <2>1, <2>2
<1>4. ASSUME NEW ip \in IPs, NEW c \in Codes \cup {NoCode}, Type(t, ip, c)
      PROVE  /\ at(t, "idle")
             /\ UNCHANGED <<codes, issued, account, sessions, world, counters, history, faults>>
             /\ req'[t].assurance = "code" /\ req'[t].sawDemo = demo /\ req'[t].user = 0
             /\ req'[t].pc = IF demo THEN "typePrivileged" ELSE "room"
  <2> DEFINE q == [Idle EXCEPT !.pc = IF demo THEN "typePrivileged" ELSE "room", !.ip = ip, !.code = c]
  <2>1. q \in RequestRecords /\ q.pc = (IF demo THEN "typePrivileged" ELSE "room")
        /\ q.assurance = "code" /\ q.user = 0
    BY <1>1 DEF RequestRecords, PCs
  <2>2. began(t, q)
    BY <1>4 DEF Type
  <2> HIDE DEF q
  <2> QED
    BY <1>2, <2>1, <2>2
<1>5. ASSUME NEW c \in Codes, Link(t, c)
      PROVE  /\ at(t, "idle")
             /\ UNCHANGED <<codes, issued, account, sessions, world, counters, history, faults>>
             /\ req'[t].assurance = "code" /\ req'[t].sawDemo = demo /\ req'[t].user = 0
             /\ req'[t].pc = "tryLink"
  <2> DEFINE q == [Idle EXCEPT !.pc = "tryLink", !.code = c]
  <2>1. q \in RequestRecords /\ q.pc = "tryLink" /\ q.assurance = "code" /\ q.user = 0
    BY <1>1 DEF RequestRecords, PCs
  <2>2. began(t, q)
    BY <1>5 DEF Link
  <2> HIDE DEF q
  <2> QED
    BY <1>2, <2>1, <2>2
<1>6. CASE Leave(t)
  <2> DEFINE q == [Idle EXCEPT !.pc = "eraseCodes", !.user = account.id]
  <2>1. q \in RequestRecords /\ q.pc = "eraseCodes" /\ q.assurance = "code" /\ q.user = account.id
    BY <1>1 DEF RequestRecords, PCs, TypeOK
  <2>2. began(t, q)
    BY <1>6 DEF Leave
  <2> HIDE DEF q
  <2> QED
    BY <1>2, <2>1, <2>2
<1> QED
  BY <1>3, <1>4, <1>5, <1>6

\* Every other step ends the request, moves it along one of the code's paths with all it
\* carries, or sets what the step finds.
Arcs == { <<"counted", "askPrivileged">>, <<"counted", "live">>, <<"askPrivileged", "live">>,
          <<"allowance", "insert">>, <<"mail", "withdraw">>, <<"withdraw", "pickEmail">>,
          <<"dropEmail", "pickHour">>, <<"typePrivileged", "room">>, <<"clear", "find">>,
          <<"room", "try">>, <<"try", "spend">>, <<"try", "miss">>, <<"tryLink", "spend">>,
          <<"spend", "find">>, <<"spend", "session">>, <<"proved", "session">>,
          <<"eraseCodes", "eraseUser">> }

LEMMA Paths ==
    ASSUME TypeInv, NEW t \in Requests, Step(t)
    PROVE  \/ finish(t) /\ ~at(t, "idle")
           \/ \E pc : goto(t, pc) /\ <<req[t].pc, pc>> \in Arcs
           \/ Ask(t) \/ (\E ip \in IPs, c \in Codes \cup {NoCode} : Type(t, ip, c))
              \/ (\E c \in Codes : Link(t, c)) \/ Leave(t)
           \/ readLive(t) /\ req'[t].pc = "allowance" /\ req'[t].assurance = req[t].assurance
              /\ req'[t].user = req[t].user /\ req'[t].sawDemo = req[t].sawDemo
           \/ insertCode(t) /\ req'[t].pc = "mail" /\ req'[t].code = issued + 1
              /\ req'[t].assurance = req[t].assurance
              /\ req'[t].user = req[t].user /\ req'[t].sawDemo = req[t].sawDemo
           \/ pickHit(t) /\ <<req[t].pc, req'[t].pc>> \in {<<"pickEmail", "dropEmail">>, <<"pickHour", "dropHour">>}
              /\ req'[t].assurance = req[t].assurance
              /\ req'[t].user = req[t].user /\ req'[t].sawDemo = req[t].sawDemo
           \/ typePrivileged(t) /\ ~privileged /\ req'[t].pc = "clear" /\ req'[t].assurance = "demo"
              /\ req'[t].user = req[t].user /\ req'[t].sawDemo = req[t].sawDemo
           \/ findUser(t) /\ req'[t].pc = afterFind(t) /\ req'[t].assurance = req[t].assurance
              /\ req'[t].code = req[t].code /\ req'[t].user = account.id /\ req'[t].sawDemo = req[t].sawDemo
           \/ insertUser(t) /\ req'[t].pc = "session" /\ req'[t].assurance = req[t].assurance
              /\ req'[t].code = req[t].code /\ req'[t].user = account'.id /\ req'[t].sawDemo = req[t].sawDemo
<1>1. TypeOK /\ req[t] \in RequestRecords
  BY DEF TypeInv, TypeOK
<1>2. CASE readLive(t)
  <2> DEFINE q == [req[t] EXCEPT !.pc = "allowance", !.live = Cardinality(liveCodes)]
  <2>1. finish(t) \/ req'[t] = q
    BY <1>1, <1>2, Moved DEF readLive
  <2>2. q.pc = "allowance" /\ q.assurance = req[t].assurance /\ q.user = req[t].user
        /\ q.sawDemo = req[t].sawDemo
    BY <1>1 DEF RequestRecords
  <2> HIDE DEF q
  <2> QED
    BY <1>2, <2>1, <2>2 DEF readLive, at
<1>3. CASE insertCode(t)
  <2> DEFINE q == [req[t] EXCEPT !.pc = "mail", !.code = issued']
  <2>1. req'[t] = q /\ issued' = issued + 1
    BY <1>1, <1>3, Moved DEF insertCode
  <2>2. q.pc = "mail" /\ q.code = issued' /\ q.assurance = req[t].assurance /\ q.user = req[t].user
        /\ q.sawDemo = req[t].sawDemo
    BY <1>1 DEF RequestRecords
  <2> HIDE DEF q
  <2> QED
    BY <1>3, <2>1, <2>2
<1>4. CASE pickHit(t)
  <2>1. PICK b \in {<<"pickEmail", "dropEmail", emails>>, <<"pickHour", "dropHour", hour>>} :
           /\ at(t, b[1])
           /\ becomes(t, [req[t] EXCEPT !.pc = b[2], !.hit = IF b[3] = {} THEN 0 ELSE newest(b[3])])
    BY <1>4 DEF pickHit
  <2> DEFINE q == [req[t] EXCEPT !.pc = b[2], !.hit = IF b[3] = {} THEN 0 ELSE newest(b[3])]
  <2>2. req'[t] = q
    BY <1>1, <2>1, Moved
  <2>3. q.pc = b[2] /\ q.assurance = req[t].assurance /\ q.user = req[t].user
        /\ q.sawDemo = req[t].sawDemo
    BY <1>1 DEF RequestRecords
  <2>4. <<req[t].pc, b[2]>> \in {<<"pickEmail", "dropEmail">>, <<"pickHour", "dropHour">>}
    BY <2>1 DEF at
  <2> HIDE DEF q
  <2> QED
    BY <1>4, <2>2, <2>3, <2>4
<1>5. CASE typePrivileged(t)
  <2> DEFINE q == [req[t] EXCEPT !.pc = "clear", !.assurance = "demo", !.code = NoCode]
  <2>1. (~privileged /\ req'[t] = q) \/ goto(t, "room")
    BY <1>1, <1>5, Moved DEF typePrivileged, anySixDigits
  <2>2. q.pc = "clear" /\ q.assurance = "demo" /\ q.user = req[t].user /\ q.sawDemo = req[t].sawDemo
    BY <1>1 DEF RequestRecords
  <2>3. <<req[t].pc, "room">> \in Arcs
    BY <1>5 DEF typePrivileged, at, Arcs
  <2> HIDE DEF q
  <2> QED
    BY <1>5, <2>1, <2>2, <2>3
<1>6. CASE findUser(t)
  <2> DEFINE q == [req[t] EXCEPT !.user = account.id, !.pc = afterFind(t)]
  <2>1. req'[t] = q
    BY <1>1, <1>6, Moved DEF findUser
  <2>2. q.pc = afterFind(t) /\ q.assurance = req[t].assurance /\ q.code = req[t].code
        /\ q.user = account.id /\ q.sawDemo = req[t].sawDemo
    BY <1>1 DEF RequestRecords
  <2> HIDE DEF q
  <2> QED
    BY <1>6, <2>1, <2>2
<1>7. CASE insertUser(t)
  <2> DEFINE q == [req[t] EXCEPT !.pc = "session", !.user = account'.id]
  <2>1. req'[t] = q
    BY <1>1, <1>7, Moved DEF insertUser
  <2>2. q.pc = "session" /\ q.assurance = req[t].assurance /\ q.code = req[t].code
        /\ q.user = account'.id /\ q.sawDemo = req[t].sawDemo
    BY <1>1 DEF RequestRecords
  <2> HIDE DEF q
  <2> QED
    BY <1>7, <2>1, <2>2
<1>8. ASSUME limitIp(t) \/ askPrivileged(t) \/ takeAllowance(t) \/ mailed(t) \/ mailFailed(t)
             \/ withdrawPlatformCode(t) \/ dropEmail(t) \/ dropHour(t) \/ clearCodes(t)
      PROVE  \/ finish(t) /\ ~at(t, "idle")
             \/ \E pc : goto(t, pc) /\ <<req[t].pc, pc>> \in Arcs
  BY <1>8 DEF limitIp, askPrivileged, takeAllowance, mailed, mailFailed, withdrawPlatformCode,
              dropEmail, dropHour, clearCodes, at, Arcs
<1>9. ASSUME wrongRoom(t) \/ takeAttempt(t) \/ countMiss(t) \/ takeLinkAttempt(t) \/ spendCode(t)
             \/ clearDemoOnly(t) \/ insertSession(t) \/ eraseCodes(t) \/ eraseUser(t) \/ Refused(t) \/ Die(t)
      PROVE  \/ finish(t) /\ ~at(t, "idle")
             \/ \E pc : goto(t, pc) /\ <<req[t].pc, pc>> \in Arcs
  BY <1>9 DEF wrongRoom, takeAttempt, countMiss, takeLinkAttempt, spendCode, clearDemoOnly,
              insertSession, eraseCodes, eraseUser, Refused, Die, at, Arcs
<1> QED
  BY <1>2, <1>3, <1>4, <1>5, <1>6, <1>7, <1>8, <1>9 DEF Step

\* Type correctness: whatever the interleaving of the requests, the clock and the admins,
\* a row's tries stay within CODE_RULES.maxTries, the hits within what was counted, and a
\* machine's counted wrong tries within their limit.
THEOREM SignInTypeCorrect == Spec => []TypeOK
<1>1. Init => TypeInv
  BY InitType
<1>2. TypeInv /\ [Next]_vars => TypeInv'
  BY NextType
<1>3. TypeInv => TypeOK
  BY DEF TypeInv
<1> QED
  BY <1>1, <1>2, <1>3, PTL DEF Spec

-----------------------------------------------------------------------------
(***************************************************************************)
(* The rows of the codes.                                                  *)
(***************************************************************************)
\* A row changes in order: its tries only grow, what is gone stays gone, and what was
\* mailed stays mailed.  Only the request that mailed it marks it.
Aged(c) ==
    /\ c > issued => codes'[c] = codes[c]
    /\ codes'[c].tries >= codes[c].tries
    /\ codes[c].st = "gone" => codes'[c].st = "gone"
    /\ codes'[c].mailed # codes[c].mailed => \E t \in Requests : mailed(t) /\ req[t].code = c

LEMMA RowsMove ==
    ASSUME TypeInv, CodesInv, [Next]_vars
    PROVE  \/ issued' = issued /\ \A c \in Codes : Aged(c)
           \/ \E t \in Requests :
                 /\ insertCode(t) /\ issued' = issued + 1 /\ issued' \in Codes
                 /\ codes' = [codes EXCEPT ![issued'] = newCode]
<1>1. TypeOK /\ issued \in Nat /\ codes \in [Codes -> CodeRows] /\ (\A c \in Codes : codes[c].tries \in Nat /\ c \in Nat)
  <2>1. TypeOK /\ issued \in Nat /\ codes \in [Codes -> CodeRows]
    BY SignInAssumption DEF TypeInv, TypeOK, CodeRows
  <2>2. \A c \in Codes : codes[c].tries \in Nat
    BY <2>1, SignInAssumption DEF CodeRows
  <2>3. \A c \in Codes : c \in Nat
    BY DEF Codes
  <2> QED
    BY <2>1, <2>2, <2>3
<1>2. ASSUME UNCHANGED <<codes, issued>> PROVE issued' = issued /\ \A c \in Codes : Aged(c)
  BY <1>1, <1>2 DEF Aged
<1>3. ASSUME NEW c \in Codes, c <= issued, UNCHANGED issued, deleted(c)
      PROVE  issued' = issued /\ \A d \in Codes : Aged(d)
  <2>1. ASSUME NEW d \in Codes, d # c PROVE Aged(d)
    BY <1>1, <1>3, <2>1 DEF Aged, deleted
  <2>2. codes'[c] = [codes[c] EXCEPT !.st = "gone"]
    BY <1>1, <1>3 DEF deleted
  <2>3. codes'[c].tries = codes[c].tries /\ codes'[c].st = "gone" /\ codes'[c].mailed = codes[c].mailed
    BY <1>1, <2>2 DEF CodeRows
  <2>4. Aged(c)
    BY <1>1, <1>3, <2>3 DEF Aged
  <2> QED
    BY <1>3, <2>1, <2>4
<1>4. ASSUME UNCHANGED issued, cleared PROVE issued' = issued /\ \A d \in Codes : Aged(d)
  <2>1. ASSUME NEW d \in Codes, inTable(d) PROVE Aged(d)
    <3>1. codes'[d] = [codes[d] EXCEPT !.st = "gone"]
      BY <1>4, <2>1 DEF cleared
    <3>2. codes'[d].tries = codes[d].tries /\ codes'[d].st = "gone" /\ codes'[d].mailed = codes[d].mailed
      BY <1>1, <3>1 DEF CodeRows
    <3>3. ~(d > issued)
      BY <2>1 DEF CodesInv, inTable
    <3> QED
      BY <1>1, <3>2, <3>3 DEF Aged
  <2>2. ASSUME NEW d \in Codes, ~inTable(d) PROVE Aged(d)
    <3>1. codes'[d] = codes[d]
      BY <1>4, <2>2 DEF cleared
    <3> QED
      BY <1>1, <3>1 DEF Aged
  <2> QED
    BY <1>4, <2>1, <2>2
<1>5. ASSUME UNCHANGED issued, NEW rows \in SUBSET liveCodes, tried(rows)
      PROVE  issued' = issued /\ \A d \in Codes : Aged(d)
  <2>1. \A d \in rows : d \in Codes /\ d <= issued
    BY <1>1 DEF liveCodes, live, CodesInv
  <2>2. ASSUME NEW d \in rows PROVE Aged(d)
    <3>1. d \in Codes /\ d <= issued /\ codes'[d] = [codes[d] EXCEPT !.tries = @ + 1]
      BY <1>5, <2>1 DEF tried
    <3>2. /\ codes'[d].tries = codes[d].tries + 1 /\ codes'[d].st = codes[d].st
          /\ codes'[d].mailed = codes[d].mailed
      BY <1>1, <3>1 DEF CodeRows
    <3> QED
      BY <1>1, <3>1, <3>2 DEF Aged
  <2>3. ASSUME NEW d \in Codes \ rows PROVE Aged(d)
    <3>1. codes'[d] = codes[d]
      BY <1>5 DEF tried
    <3> QED
      BY <1>1, <3>1 DEF Aged
  <2> QED
    BY <1>5, <2>2, <2>3
<1>6. ASSUME NEW t \in Requests, insertCode(t)
      PROVE  /\ issued' = issued + 1 /\ issued' \in Codes
             /\ codes' = [codes EXCEPT ![issued'] = newCode]
  BY <1>1, <1>6, SignInAssumption DEF insertCode, stored, Codes
<1>7. ASSUME NEW t \in Requests, mailed(t) PROVE issued' = issued /\ \A d \in Codes : Aged(d)
  <2>1. req[t].code \in Codes /\ req[t].code <= issued
    BY <1>7 DEF mailed, at, TypeInv, RequestOK, CodesInv, Sending
  <2>2. issued' = issued /\ codes' = [codes EXCEPT ![req[t].code].mailed = TRUE]
    BY <1>7 DEF mailed
  <2>3. ASSUME NEW d \in Codes, d # req[t].code PROVE Aged(d)
    <3>1. codes'[d] = codes[d]
      BY <1>1, <2>2, <2>3
    <3> QED
      BY <1>1, <3>1 DEF Aged
  <2>4. Aged(req[t].code)
    <3>1. codes'[req[t].code] = [codes[req[t].code] EXCEPT !.mailed = TRUE]
      BY <1>1, <2>1, <2>2
    <3>2. /\ codes'[req[t].code].tries = codes[req[t].code].tries
          /\ codes'[req[t].code].st = codes[req[t].code].st
      BY <1>1, <2>1, <3>1 DEF CodeRows
    <3> QED
      BY <1>1, <1>7, <2>1, <3>2 DEF Aged
  <2> QED
    BY <2>2, <2>3, <2>4
<1>8. ASSUME NEW t \in Requests, withdrawPlatformCode(t) PROVE issued' = issued /\ \A d \in Codes : Aged(d)
  <2>1. req[t].code \in Codes /\ req[t].code <= issued
    BY <1>8 DEF withdrawPlatformCode, at, TypeInv, RequestOK, CodesInv, Sending
  <2> QED
    BY <1>3, <1>8, <2>1 DEF withdrawPlatformCode
<1>9. ASSUME NEW t \in Requests, takeAttempt(t) PROVE issued' = issued /\ \A d \in Codes : Aged(d)
  BY <1>5, <1>9 DEF takeAttempt
<1>10. ASSUME NEW t \in Requests, takeLinkAttempt(t) PROVE issued' = issued /\ \A d \in Codes : Aged(d)
  <2>1. req[t].code \in Codes
    BY <1>10 DEF takeLinkAttempt, at, TypeInv, RequestOK
  <2>2. CASE live(req[t].code)
    BY <1>5, <1>10, <2>1, <2>2 DEF takeLinkAttempt, liveCodes
  <2>3. CASE ~live(req[t].code)
    BY <1>2, <1>10, <2>3 DEF takeLinkAttempt
  <2> QED
    BY <2>2, <2>3
<1>11. ASSUME NEW t \in Requests, spendCode(t) PROVE issued' = issued /\ \A d \in Codes : Aged(d)
  <2>1. req[t].code \in Codes
    BY <1>11 DEF spendCode, at, TypeInv, RequestOK
  <2>2. CASE spent(req[t].code)
    <3>1. req[t].code <= issued
      BY <1>1, <2>1, <2>2 DEF spent, inTable, CodesInv, Codes
    <3> QED
      BY <1>3, <1>11, <2>1, <2>2, <3>1 DEF spendCode
  <2>3. CASE ~spent(req[t].code)
    BY <1>2, <1>11, <2>3 DEF spendCode
  <2> QED
    BY <2>2, <2>3
<1>12. ASSUME NEW c \in Codes, Expire(c) PROVE issued' = issued /\ \A d \in Codes : Aged(d)
  BY <1>1, <1>12 DEF Aged, Expire, CodeRows, CodesInv
<1>13. ASSUME NEW t \in Requests, clearCodes(t) \/ eraseCodes(t)
       PROVE  issued' = issued /\ \A d \in Codes : Aged(d)
  BY <1>4, <1>13 DEF clearCodes, eraseCodes
<1>14. ASSUME NEW t \in Requests,
              \/ Ask(t) \/ limitIp(t) \/ askPrivileged(t) \/ readLive(t) \/ takeAllowance(t)
              \/ mailFailed(t) \/ pickHit(t) \/ dropEmail(t) \/ dropHour(t)
              \/ \E ip \in IPs, c \in Codes \cup {NoCode} : Type(t, ip, c)
              \/ \E c \in Codes : Link(t, c)
              \/ typePrivileged(t) \/ wrongRoom(t) \/ countMiss(t)
              \/ findUser(t) \/ clearDemoOnly(t) \/ insertUser(t) \/ insertSession(t)
              \/ Leave(t) \/ eraseUser(t) \/ Refused(t) \/ Die(t)
       PROVE  UNCHANGED <<codes, issued>>
  BY <1>14 DEF Ask, limitIp, askPrivileged, readLive, takeAllowance, mailFailed, pickHit, dropEmail,
               dropHour, Type, Link, typePrivileged, wrongRoom, countMiss, findUser, clearDemoOnly,
               insertUser, insertSession, Leave, eraseUser, Refused, Die, began
<1>15. ASSUME MinutePasses \/ Designate \/ LeaveDemo \/ UNCHANGED vars PROVE UNCHANGED <<codes, issued>>
  BY <1>15 DEF MinutePasses, Designate, LeaveDemo, vars
<1> QED
  BY <1>2, <1>6, <1>7, <1>8, <1>9, <1>10, <1>11, <1>12, <1>13, <1>14, <1>15 DEF Next, Step

\* Who is sending a code after a step was sending it before and did not get it sent, or
\* has just made it.
LEMMA SendStep ==
    ASSUME TypeInv, [Next]_vars, NEW s \in Requests, Sending(req'[s])
    PROVE  \/ Sending(req[s]) /\ req'[s].code = req[s].code /\ ~mailed(s) /\ ~insertCode(s)
           \/ insertCode(s) /\ req'[s].code = issued + 1
<1>1. TypeOK /\ req'[s].pc \in {"mail", "withdraw"}
  BY DEF TypeInv, Sending
<1>2. ~finish(s)
  BY <1>1, Finished, IdleIs
<1>3. ~mailed(s)
  BY <1>2 DEF mailed
<1>4. CASE req'[s] = req[s]
  BY <1>1, <1>3, <1>4 DEF Sending, insertCode, at
<1>5. CASE req'[s] # req[s]
  <2>1. Step(s)
    BY <1>5, OwnStep
  <2>2. ASSUME NEW pc, goto(s, pc), <<req[s].pc, pc>> \in Arcs
        PROVE  Sending(req[s]) /\ req'[s].code = req[s].code /\ ~insertCode(s)
    <3>1. req'[s].pc = pc /\ req'[s].code = req[s].code
      BY <1>1, <2>2, WentTo
    <3>2. req[s].pc = "mail"
      BY <1>1, <2>2, <3>1 DEF Arcs
    <3> QED
      BY <3>1, <3>2 DEF Sending, insertCode, at
  <2>3. ~(Ask(s) \/ (\E ip \in IPs, c \in Codes \cup {NoCode} : Type(s, ip, c))
          \/ (\E c \in Codes : Link(s, c)) \/ Leave(s))
    BY <1>1, Began
  <2>4. ~findUser(s) \/ req'[s].pc # afterFind(s)
    BY <1>1 DEF afterFind
  <2>5. \/ finish(s) /\ ~at(s, "idle")
        \/ \E pc : goto(s, pc) /\ <<req[s].pc, pc>> \in Arcs
        \/ insertCode(s) /\ req'[s].code = issued + 1
    BY <1>1, <2>1, <2>3, <2>4, Paths
  <2> QED
    BY <1>2, <1>3, <2>2, <2>5
<1> QED
  BY <1>4, <1>5

\* A thread makes one code at a time.
LEMMA OneInserts ==
    ASSUME TypeInv, NEW t \in Requests, NEW s \in Requests, insertCode(t), Sending(req'[s]), s # t
    PROVE  ~insertCode(s)
<1>1. req'[s] = req[s]
  BY Moved DEF insertCode, TypeInv
<1> QED
  BY <1>1 DEF insertCode, at, Sending

LEMMA NextCodes == TypeInv /\ CodesInv /\ [Next]_vars => CodesInv'
<1> SUFFICES ASSUME TypeInv, CodesInv, [Next]_vars PROVE CodesInv'
  OBVIOUS
<1>1. issued \in Nat /\ codes \in [Codes -> CodeRows] /\ Codes \subseteq Nat
  BY SignInAssumption DEF TypeInv, TypeOK, CodeRows, Codes
<1>2. TypeInv'
  BY NextType
<1>3. ASSUME NEW c \in Codes, c > issued' PROVE codes'[c].st = "none" /\ codes'[c].tries = 0 /\ ~codes'[c].mailed
  <2>1. CASE issued' = issued /\ \A d \in Codes : Aged(d)
    BY <1>3, <2>1 DEF Aged, CodesInv
  <2>2. CASE issued' = issued + 1 /\ codes' = [codes EXCEPT ![issued'] = newCode]
    <3>1. c > issued /\ c # issued'
      BY <1>1, <1>3, <2>2
    <3>2. codes'[c] = codes[c]
      BY <1>1, <2>2, <3>1
    <3> QED
      BY <3>1, <3>2 DEF CodesInv
  <2> QED
    BY <2>1, <2>2, RowsMove
<1>4. ASSUME NEW t \in Requests, Sending(req'[t])
      PROVE  req'[t].code <= issued' /\ ~codes'[req'[t].code].mailed
  <2> DEFINE c == req'[t].code
  <2>1. c \in Codes
    BY <1>2, <1>4 DEF TypeInv, RequestOK, Sending
  <2>2. CASE issued' = issued /\ \A d \in Codes : Aged(d)
    <3> ~insertCode(t)
      BY <1>1, <2>2 DEF insertCode
    <3>1. Sending(req[t]) /\ c = req[t].code /\ ~mailed(t)
      BY <1>4, SendStep
    <3>2. c <= issued /\ ~codes[c].mailed
      BY <3>1 DEF CodesInv
    <3>3. ASSUME NEW r \in Requests, mailed(r), req[r].code = c PROVE FALSE
      <4>1. Sending(req[r]) /\ r # t
        BY <3>1, <3>3 DEF mailed, at, Sending
      <4> QED
        BY <3>1, <3>3, <4>1 DEF CodesInv
    <3> HIDE DEF c
    <3>4. codes'[c].mailed = codes[c].mailed
      BY <2>1, <2>2, <3>3 DEF Aged
    <3> QED
      BY <2>2, <3>2, <3>4 DEF c
  <2>3. CASE issued' = issued + 1 /\ issued' \in Codes /\ codes' = [codes EXCEPT ![issued'] = newCode]
    <3>1. CASE Sending(req[t]) /\ c = req[t].code
      <4>1. c <= issued /\ ~codes[c].mailed
        BY <3>1 DEF CodesInv
      <4> HIDE DEF c
      <4>2. codes'[c] = codes[c] /\ c <= issued'
        BY <1>1, <2>1, <2>3, <4>1
      <4> QED
        BY <4>1, <4>2 DEF c
    <3>2. CASE c = issued + 1
      <4>1. codes'[c] = newCode /\ c <= issued'
        BY <1>1, <2>3, <3>2
      <4> QED
        BY <4>1 DEF newCode
    <3> QED
      BY <1>4, <3>1, <3>2, SendStep
  <2> QED
    BY <2>2, <2>3, RowsMove
<1>5. ASSUME NEW t \in Requests, NEW s \in Requests, t # s, Sending(req'[t]), Sending(req'[s])
      PROVE  req'[t].code # req'[s].code
  <2>1. ASSUME NEW r \in Requests, Sending(req[r]) PROVE req[r].code <= issued /\ req[r].code \in Nat
    BY <1>1, <2>1 DEF CodesInv, TypeInv, RequestOK, Sending
  <2>2. ~(insertCode(t) /\ insertCode(s))
    BY <1>5, OneInserts
  <2>3. CASE Sending(req[t]) /\ req'[t].code = req[t].code /\ Sending(req[s]) /\ req'[s].code = req[s].code
    BY <1>5, <2>3 DEF CodesInv
  <2>4. CASE Sending(req[t]) /\ req'[t].code = req[t].code /\ req'[s].code = issued + 1
    BY <1>1, <2>1, <2>4
  <2>5. CASE Sending(req[s]) /\ req'[s].code = req[s].code /\ req'[t].code = issued + 1
    BY <1>1, <2>1, <2>5
  <2> QED
    BY <1>5, <2>2, <2>3, <2>4, <2>5, SendStep
<1> QED
  BY <1>3, <1>4, <1>5 DEF CodesInv

LEMMA InitCodes == Init => CodesInv
<1> SUFFICES ASSUME Init PROVE CodesInv
  OBVIOUS
<1>1. \A t \in Requests : ~Sending(req[t])
  BY IdleIs DEF Init, Sending
<1>2. \A c \in Codes : codes[c].st = "none" /\ codes[c].tries = 0 /\ ~codes[c].mailed
  BY DEF Init
<1> QED
  BY <1>1, <1>2 DEF CodesInv

-----------------------------------------------------------------------------
(***************************************************************************)
(* A code signs in once.                                                   *)
(***************************************************************************)
\* A code that is gone does not come back: a new one has a row of its own.
LEMMA GoneStays ==
    ASSUME TypeInv, CodesInv, [Next]_vars, NEW c \in Codes, codes[c].st = "gone"
    PROVE  codes'[c].st = "gone"
<1>1. CASE \A d \in Codes : Aged(d)
  BY <1>1 DEF Aged
<1>2. CASE issued' = issued + 1 /\ codes' = [codes EXCEPT ![issued'] = newCode]
  <2>1. issued \in Nat /\ codes \in [Codes -> CodeRows]
    BY SignInAssumption DEF TypeInv, TypeOK, CodeRows
  <2>2. c # issued'
    BY <1>2, <2>1 DEF CodesInv
  <2> QED
    BY <1>2, <2>1, <2>2
<1> QED
  BY <1>1, <1>2, RowsMove

\* Whoever has spent a code after a step had spent it before, or has just deleted its row.
LEMMA SpentStep ==
    ASSUME TypeInv, [Next]_vars, NEW s \in Requests, NEW c \in Codes, HasSpent(req'[s], c)
    PROVE  \/ HasSpent(req[s], c) /\ ~insertSession(s)
           \/ spendCode(s) /\ req[s].code = c /\ inTable(c) /\ deleted(c)
<1>1. /\ TypeOK /\ req'[s].pc \in {"find", "proved", "newUser", "session"}
      /\ req'[s].assurance = "code" /\ req'[s].code = c
  BY DEF TypeInv, HasSpent
<1>2. ~finish(s)
  BY <1>1, Finished, IdleIs
<1>3. ~insertSession(s)
  BY <1>2 DEF insertSession
<1>4. CASE req'[s] = req[s]
  BY <1>3, <1>4 DEF HasSpent
<1>5. CASE req'[s] # req[s]
  <2>1. Step(s)
    BY <1>5, OwnStep
  <2>2. ASSUME NEW pc, goto(s, pc), <<req[s].pc, pc>> \in Arcs
        PROVE  \/ HasSpent(req[s], c)
               \/ spendCode(s) /\ req[s].code = c /\ inTable(c) /\ deleted(c)
    <3>1. req'[s].pc = pc /\ req'[s].code = req[s].code /\ req'[s].assurance = req[s].assurance
      BY <1>1, <2>2, WentTo
    <3>2. req[s].pc \in {"clear", "spend", "proved"}
      BY <1>1, <2>2, <3>1 DEF Arcs
    <3>3. CASE req[s].pc = "clear"
      <4>1. req[s].assurance = "demo"
        BY <3>3 DEF TypeInv, RequestOK
      <4> QED
        BY <1>1, <3>1, <4>1
    <3>4. CASE req[s].pc = "spend"
      <4>1. spendCode(s)
        BY <1>2, <2>1, <3>4
           DEF Step, Ask, limitIp, askPrivileged, readLive, takeAllowance, insertCode, mailed,
               mailFailed, withdrawPlatformCode, pickHit, dropEmail, dropHour, Type, Link,
               typePrivileged, clearCodes, wrongRoom, takeAttempt, countMiss, takeLinkAttempt, findUser,
               clearDemoOnly, insertUser, insertSession, Leave, eraseCodes, eraseUser, Refused, Die,
               began, at
      <4> QED
        BY <1>1, <1>2, <3>1, <4>1 DEF spendCode, spent
    <3>5. CASE req[s].pc = "proved"
      BY <1>1, <3>1, <3>5 DEF HasSpent
    <3> QED
      BY <3>2, <3>3, <3>4, <3>5
  <2>3. ~(Ask(s) \/ (\E ip \in IPs, d \in Codes \cup {NoCode} : Type(s, ip, d))
          \/ (\E d \in Codes : Link(s, d)) \/ Leave(s))
    BY <1>1, Began
  <2>4. CASE (findUser(s) \/ insertUser(s)) /\ req'[s].assurance = req[s].assurance /\ req'[s].code = req[s].code
    BY <1>1, <1>3, <2>4 DEF HasSpent, findUser, insertUser, at
  <2>5. /\ req'[s].pc \notin {"allowance", "mail", "clear"}
        /\ <<req[s].pc, req'[s].pc>> \notin {<<"pickEmail", "dropEmail">>, <<"pickHour", "dropHour">>}
    BY <1>1
  <2> DEFINE further == \E pc : goto(s, pc) /\ <<req[s].pc, pc>> \in Arcs
             begins == Ask(s) \/ (\E ip \in IPs, d \in Codes \cup {NoCode} : Type(s, ip, d))
                       \/ (\E d \in Codes : Link(s, d)) \/ Leave(s)
             keeps == req'[s].assurance = req[s].assurance /\ req'[s].code = req[s].code
  <2>6. \/ finish(s) \/ further \/ begins
        \/ req'[s].pc \in {"allowance", "mail", "clear"}
        \/ <<req[s].pc, req'[s].pc>> \in {<<"pickEmail", "dropEmail">>, <<"pickHour", "dropHour">>}
        \/ (findUser(s) \/ insertUser(s)) /\ keeps
    BY <2>1, Paths
  <2>7. further \/ ((findUser(s) \/ insertUser(s)) /\ keeps)
    BY <1>2, <2>3, <2>5, <2>6
  <2> QED
    BY <1>3, <2>2, <2>4, <2>7
<1> QED
  BY <1>4, <1>5

LEMMA NextSpend == TypeInv /\ CodesInv /\ SpendInv /\ [Next]_vars => SpendInv'
<1> SUFFICES ASSUME TypeInv, CodesInv, SpendInv, [Next]_vars PROVE SpendInv'
  OBVIOUS
<1>1. /\ TypeOK /\ \A t \in Requests : RequestOK(req[t])
      /\ codes \in [Codes -> CodeRows] /\ opened \in [Codes -> Nat]
  BY DEF TypeInv, TypeOK, CodeRows
\* Only the session of a request that has spent the code is counted for it.
<1>2. ASSUME NEW c \in Codes, opened'[c] # opened[c]
      PROVE  \E t \in Requests : insertSession(t) /\ HasSpent(req[t], c) /\ opened'[c] = opened[c] + 1
  <2>1. PICK t \in Requests : insertSession(t)
    BY <1>2
       DEF Next, Step, Ask, limitIp, askPrivileged, readLive, takeAllowance, insertCode, mailed,
           mailFailed, withdrawPlatformCode, pickHit, dropEmail, dropHour, Type, Link,
           typePrivileged, clearCodes, wrongRoom, takeAttempt, countMiss, takeLinkAttempt, spendCode,
           findUser, clearDemoOnly, insertUser, Leave, eraseCodes, eraseUser, Refused, Die, began,
           Expire, MinutePasses, Designate, LeaveDemo, vars, history
  <2>2. proves(t) /\ opened' = [opened EXCEPT ![req[t].code] = @ + 1]
    BY <1>2, <2>1 DEF insertSession
  <2>3. req[t].code = c /\ opened'[c] = opened[c] + 1
    BY <1>1, <1>2, <2>2
  <2> QED
    BY <2>1, <2>2, <2>3 DEF insertSession, at, HasSpent, proves
<1>3. ASSUME NEW t \in Requests, NEW c \in Codes, spendCode(t), req[t].code = c, inTable(c), deleted(c)
      PROVE  codes[c].st # "gone" /\ codes'[c].st = "gone" /\ opened'[c] = opened[c]
  BY <1>1, <1>3 DEF inTable, deleted, spendCode, history, CodeRows
<1>4. ASSUME NEW c \in Codes PROVE opened'[c] <= 1 /\ (opened'[c] = 1 => codes'[c].st = "gone")
  <2>1. CASE opened'[c] = opened[c]
    BY <2>1, GoneStays DEF SpendInv
  <2>2. CASE opened'[c] # opened[c]
    <3>1. opened[c] = 0 /\ codes[c].st = "gone" /\ opened'[c] = opened[c] + 1
      BY <1>2, <2>2 DEF SpendInv
    <3> QED
      BY <3>1, GoneStays
  <2> QED
    BY <2>1, <2>2
<1>5. ASSUME NEW c \in Codes, NEW t \in Requests, HasSpent(req'[t], c)
      PROVE  codes'[c].st = "gone" /\ opened'[c] = 0
  <2>1. CASE HasSpent(req[t], c) /\ ~insertSession(t)
    <3>1. codes[c].st = "gone" /\ opened[c] = 0
      BY <2>1 DEF SpendInv
    <3>2. opened'[c] = opened[c]
      BY <1>2, <2>1 DEF SpendInv
    <3> QED
      BY <3>1, <3>2, GoneStays
  <2>2. CASE spendCode(t) /\ req[t].code = c /\ inTable(c) /\ deleted(c)
    <3>1. codes[c].st # "gone" /\ codes'[c].st = "gone" /\ opened'[c] = opened[c]
      BY <1>3, <2>2
    <3>2. opened[c] \in Nat /\ opened[c] <= 1 /\ opened[c] # 1
      BY <1>1, <3>1 DEF SpendInv
    <3>3. opened[c] = 0
      BY <3>2
    <3> QED
      BY <3>1, <3>3
  <2> QED
    BY <1>5, <2>1, <2>2, SpentStep
<1>6. ASSUME NEW c \in Codes, NEW t \in Requests, NEW s \in Requests \ {t},
             HasSpent(req'[t], c), HasSpent(req'[s], c)
      PROVE  FALSE
  <2>1. ASSUME NEW r \in Requests, HasSpent(req[r], c) PROVE ~inTable(c)
    BY <2>1 DEF SpendInv, inTable
  <2>2. CASE HasSpent(req[t], c) /\ HasSpent(req[s], c)
    BY <2>2 DEF SpendInv
  <2>3. CASE inTable(c) /\ spendCode(t)
    <3>1. spendCode(s)
      BY <1>6, <2>1, <2>3, SpentStep
    <3>2. req'[t] = req[t] \/ req'[s] = req[s]
      BY <2>3, OthersStay DEF Step
    <3>3. req[t].pc = "spend" /\ req[s].pc = "spend"
      BY <2>3, <3>1 DEF spendCode, at
    <3> QED
      BY <1>6, <3>2, <3>3 DEF HasSpent
  <2>4. CASE inTable(c) /\ spendCode(s)
    <3>1. spendCode(t)
      BY <1>6, <2>1, <2>4, SpentStep
    <3> QED
      BY <2>3, <2>4, <3>1
  <2> QED
    BY <1>6, <2>2, <2>3, <2>4, SpentStep
<1> QED
  BY <1>4, <1>5, <1>6 DEF SpendInv

\* A code signs in once, however it is presented and whatever else tries it meanwhile: the
\* delete decides, and its answer is read.
THEOREM OneSessionPerCode == Spec => []CodeOpensOneSession
<1> DEFINE IInv == TypeInv /\ CodesInv /\ SpendInv
<1>1. ASSUME Init PROVE SpendInv
  <2>1. \A c \in Codes, t \in Requests : ~HasSpent(req[t], c)
    BY <1>1, IdleIs DEF Init, HasSpent
  <2>2. \A c \in Codes : opened[c] = 0
    BY <1>1 DEF Init
  <2> QED
    BY <2>1, <2>2 DEF SpendInv
<1>2. Init => IInv
  BY <1>1, InitType, InitCodes
<1>3. IInv /\ [Next]_vars => IInv'
  BY NextType, NextCodes, NextSpend
<1>4. IInv => CodeOpensOneSession
  BY DEF SpendInv, CodeOpensOneSession
<1> QED
  BY <1>2, <1>3, <1>4, PTL DEF Spec

\* Asking for codes, and an email that fails, never make a code that was sent stop working:
\* only its time, a guess, its own link, its spending and the clearing of all codes do.  The
\* console takes back a code only while nobody has been sent it.
THEOREM OwnersKeepTheirCode == Spec => OwnersCodeStays
<1> DEFINE IInv == TypeInv /\ CodesInv
           Ends(c) == codes[c].mailed /\ live(c) /\ ~live(c)'
           TriedBy(t, c) == /\ req'[t] # req[t]
                            /\ \/ req[t].pc \in {"try", "clear", "eraseCodes"}
                               \/ req[t].pc \in {"tryLink", "spend"} /\ req[t].code = c
           Stays == \A c \in Codes :
                       codes[c].mailed /\ live(c) /\ ~live(c)' =>
                          \/ codes'[c].st = "expired"
                          \/ \E t \in Requests :
                                /\ req'[t] # req[t]
                                /\ \/ req[t].pc \in {"try", "clear", "eraseCodes"}
                                   \/ req[t].pc \in {"tryLink", "spend"} /\ req[t].code = c
<1>1. Init => IInv
  BY InitType, InitCodes
<1>2. IInv /\ [Next]_vars => IInv'
  BY NextType, NextCodes
<1>3. IInv /\ [Next]_vars => [Stays]_vars
  <2> SUFFICES ASSUME IInv, [Next]_vars, NEW c \in Codes, Ends(c), codes'[c].st # "expired"
               PROVE  \E t \in Requests : TriedBy(t, c)
    OBVIOUS
  <2>1. /\ codes \in [Codes -> CodeRows] /\ codes[c].st = "live" /\ codes'[c] # codes[c]
        /\ req \in [Requests -> RequestRecords] /\ issued \in Nat
    BY SignInAssumption DEF TypeInv, TypeOK, CodeRows, live
  <2>12. codes[c].tries < MaxTries /\ ~(codes'[c].st = "live" /\ codes'[c].tries < MaxTries)
    BY DEF live
  <2>2. ASSUME NEW t \in Requests, NEW pc \in PCs, goto(t, pc), pc # req[t].pc PROVE req'[t] # req[t]
    BY <2>1, <2>2 DEF goto, becomes, RequestRecords
  <2>3. ASSUME NEW t \in Requests, finish(t), ~at(t, "idle") PROVE req'[t] # req[t]
    BY <2>1, <2>3 DEF finish, becomes, at, Idle
  <2>4. ASSUME NEW t \in Requests, withdrawPlatformCode(t) PROVE FALSE
    <3>1. req[t].code # c
      BY <2>4 DEF CodesInv, Sending, withdrawPlatformCode, at
    <3> QED
      BY <2>1, <2>4, <3>1 DEF withdrawPlatformCode, deleted
  <2>5. ASSUME NEW t \in Requests, insertCode(t) PROVE FALSE
    <3>1. issued' # c
      BY <2>1, <2>5 DEF CodesInv, insertCode
    <3>2. codes' = [codes EXCEPT ![issued'] = newCode]
      BY <2>5 DEF insertCode, stored
    <3> QED
      BY <2>1, <3>1, <3>2
  <2>6. ASSUME NEW t \in Requests, mailed(t) PROVE FALSE
    <3>1. codes'[c].st = codes[c].st /\ codes'[c].tries = codes[c].tries
      BY <2>1, <2>6 DEF mailed, CodeRows
    <3> QED
      BY <2>1, <2>12, <3>1
  <2>7. ASSUME NEW t \in Requests, clearCodes(t) \/ eraseCodes(t) PROVE TriedBy(t, c)
    BY <2>2, <2>7 DEF clearCodes, eraseCodes, at, PCs
  <2>8. ASSUME NEW t \in Requests, takeAttempt(t) PROVE TriedBy(t, c)
    BY <2>2, <2>3, <2>8 DEF takeAttempt, at, PCs
  <2>9. ASSUME NEW t \in Requests, takeLinkAttempt(t) PROVE TriedBy(t, c)
    <3>1. req[t].code = c
      BY <2>1, <2>9 DEF takeLinkAttempt, tried
    <3> QED
      BY <2>2, <2>3, <2>9, <3>1 DEF takeLinkAttempt, at, PCs
  <2>10. ASSUME NEW t \in Requests, spendCode(t) PROVE TriedBy(t, c)
    <3>1. req[t].code = c
      BY <2>1, <2>10 DEF spendCode, deleted
    <3> QED
      BY <2>2, <2>3, <2>10, <3>1 DEF spendCode, at, PCs
  <2>11. ASSUME NEW d \in Codes, Expire(d) PROVE FALSE
    BY <2>1, <2>11 DEF Expire, CodeRows
  <2> HIDE DEF TriedBy
  <2> QED
    BY <2>1, <2>4, <2>5, <2>6, <2>7, <2>8, <2>9, <2>10, <2>11
       DEF Next, Step, Ask, limitIp, askPrivileged, readLive, takeAllowance, mailFailed, pickHit,
           dropEmail, dropHour, Type, Link, typePrivileged, wrongRoom, countMiss,
           findUser, clearDemoOnly, insertUser, insertSession, Leave, eraseUser, Refused,
           Die, began, MinutePasses, Designate, LeaveDemo, vars
<1>4. OwnersCodeStays <=> [][Stays]_vars
  BY DEF OwnersCodeStays
<1> QED
  BY <1>1, <1>2, <1>3, <1>4, PTL DEF Spec

-----------------------------------------------------------------------------
(***************************************************************************)
(* Guesses.                                                                *)
(***************************************************************************)
\* Which handler a request in a given place may be in.
LEMMA ByPlace ==
    ASSUME NEW t \in Requests, Step(t)
    PROVE  /\ at(t, "room") => wrongRoom(t) \/ Refused(t) \/ Die(t)
           /\ at(t, "try") => takeAttempt(t) \/ Die(t)
           /\ at(t, "miss") => countMiss(t) \/ Die(t)
           /\ at(t, "allowance") => takeAllowance(t) \/ Refused(t) \/ Die(t)
           /\ takeAttempt(t) => at(t, "try")
           /\ countMiss(t) => at(t, "miss")
<1>1. at(t, "room") => wrongRoom(t) \/ Refused(t) \/ Die(t)
  BY DEF Step, Ask, limitIp, askPrivileged, readLive, takeAllowance, insertCode, mailed, mailFailed,
         withdrawPlatformCode, pickHit, dropEmail, dropHour, Type, Link, typePrivileged, clearCodes,
         wrongRoom, takeAttempt, countMiss, takeLinkAttempt, spendCode, findUser, clearDemoOnly,
         insertUser, insertSession, Leave, eraseCodes, eraseUser, Refused, Die, began, at
<1>2. at(t, "try") => takeAttempt(t) \/ Die(t)
  BY DEF Step, Ask, limitIp, askPrivileged, readLive, takeAllowance, insertCode, mailed, mailFailed,
         withdrawPlatformCode, pickHit, dropEmail, dropHour, Type, Link, typePrivileged, clearCodes,
         wrongRoom, takeAttempt, countMiss, takeLinkAttempt, spendCode, findUser, clearDemoOnly,
         insertUser, insertSession, Leave, eraseCodes, eraseUser, Refused, Die, began, at
<1>3. at(t, "miss") => countMiss(t) \/ Die(t)
  BY DEF Step, Ask, limitIp, askPrivileged, readLive, takeAllowance, insertCode, mailed, mailFailed,
         withdrawPlatformCode, pickHit, dropEmail, dropHour, Type, Link, typePrivileged, clearCodes,
         wrongRoom, takeAttempt, countMiss, takeLinkAttempt, spendCode, findUser, clearDemoOnly,
         insertUser, insertSession, Leave, eraseCodes, eraseUser, Refused, Die, began, at
<1>4. at(t, "allowance") => takeAllowance(t) \/ Refused(t) \/ Die(t)
  BY DEF Step, Ask, limitIp, askPrivileged, readLive, takeAllowance, insertCode, mailed, mailFailed,
         withdrawPlatformCode, pickHit, dropEmail, dropHour, Type, Link, typePrivileged, clearCodes,
         wrongRoom, takeAttempt, countMiss, takeLinkAttempt, spendCode, findUser, clearDemoOnly,
         insertUser, insertSession, Leave, eraseCodes, eraseUser, Refused, Die, began, at
<1> QED
  BY <1>1, <1>2, <1>3, <1>4 DEF takeAttempt, countMiss

\* Who moves the guesses, the wrong ones, those counted, and the faults.
LEMMA GuessCounters ==
    ASSUME TypeInv, [Next]_vars
    PROVE  /\ UNCHANGED <<guesses, misses>> \/ \E t \in Requests : takeAttempt(t)
           /\ UNCHANGED wrong \/ \E t \in Requests : countMiss(t)
           /\ faults' \in Nat /\ faults' >= faults
<1>1. faults \in Nat
  BY DEF TypeInv, TypeOK
<1>2. UNCHANGED <<guesses, misses>> \/ \E t \in Requests : takeAttempt(t)
  BY DEF Next, Step, Ask, limitIp, askPrivileged, readLive, takeAllowance, insertCode, mailed,
         mailFailed, withdrawPlatformCode, pickHit, dropEmail, dropHour, Type, Link, typePrivileged,
         clearCodes, wrongRoom, countMiss, takeLinkAttempt, spendCode, findUser,
         clearDemoOnly, insertUser, insertSession, Leave, eraseCodes, eraseUser, Refused, Die, began,
         Expire, MinutePasses, Designate, LeaveDemo, vars, history, counters
<1>3. UNCHANGED wrong \/ \E t \in Requests : countMiss(t)
  BY DEF Next, Step, Ask, limitIp, askPrivileged, readLive, takeAllowance, insertCode, mailed,
         mailFailed, withdrawPlatformCode, pickHit, dropEmail, dropHour, Type, Link, typePrivileged,
         clearCodes, wrongRoom, takeAttempt, takeLinkAttempt, spendCode, findUser,
         clearDemoOnly, insertUser, insertSession, Leave, eraseCodes, eraseUser, Refused, Die, began,
         Expire, MinutePasses, Designate, LeaveDemo, vars, history, counters
<1>4. UNCHANGED faults \/ faults' = faults + 1
  BY DEF Next, Step, Ask, limitIp, askPrivileged, readLive, takeAllowance, insertCode, mailed,
         mailFailed, withdrawPlatformCode, pickHit, dropEmail, dropHour, Type, Link, typePrivileged,
         clearCodes, wrongRoom, takeAttempt, countMiss, takeLinkAttempt, spendCode, findUser,
         clearDemoOnly, insertUser, insertSession, Leave, eraseCodes, eraseUser, Refused, Die, began,
         Expire, MinutePasses, Designate, LeaveDemo, vars, history, counters
<1>5. faults' \in Nat /\ faults' >= faults
  BY <1>1, <1>4
<1> QED
  BY <1>2, <1>3, <1>5

\* The tries taken are at most MaxTries for each code made.
LEMMA TriesBounded ==
    ASSUME TypeInv, CodesInv
    PROVE  /\ IsFiniteSet(TriesTaken)
           /\ Cardinality(TriesTaken) <= MaxTries * issued
<1>1. issued \in Nat /\ MaxTries \in Nat /\ codes \in [Codes -> CodeRows]
  BY SignInAssumption DEF TypeInv, TypeOK, CodeRows
<1>2. /\ IsFiniteSet(1..issued) /\ Cardinality(1..issued) = issued
      /\ IsFiniteSet(1..MaxTries) /\ Cardinality(1..MaxTries) = MaxTries
  BY <1>1, FS_Interval
<1>3. TriesTaken \in SUBSET ((1..issued) \X (1..MaxTries))
  <2>1. ASSUME NEW p \in TriesTaken PROVE p[1] \in 1..issued /\ p \in Codes \X (1..MaxTries)
    <3>1. p \in Codes \X (1..MaxTries) /\ p[1] \in Codes /\ p[2] \in 1..MaxTries
          /\ p[2] <= codes[p[1]].tries
      BY DEF TriesTaken
    <3>2. codes[p[1]].tries # 0
      BY <1>1, <3>1 DEF CodeRows
    <3>3. ~(p[1] > issued) /\ p[1] \in Nat /\ p[1] >= 1
      BY <3>1, <3>2 DEF CodesInv, Codes
    <3> QED
      BY <1>1, <3>1, <3>3
  <2> QED
    BY <2>1
<1>4. IsFiniteSet((1..issued) \X (1..MaxTries)) /\ Cardinality((1..issued) \X (1..MaxTries)) = issued * MaxTries
  <2> DEFINE A == 1..issued
             B == 1..MaxTries
  <2>1. IsFiniteSet(A) /\ IsFiniteSet(B) /\ Cardinality(A) = issued /\ Cardinality(B) = MaxTries
    BY <1>2
  <2> HIDE DEF A, B
  <2>2. IsFiniteSet(A \X B) /\ Cardinality(A \X B) = issued * MaxTries
    BY <2>1, FS_Product
  <2> QED
    BY <2>2 DEF A, B
<1>5. issued * MaxTries = MaxTries * issued
  BY <1>1
<1> QED
  BY <1>3, <1>4, <1>5, FS_Subset

LEMMA NextTries == TypeInv /\ CodesInv /\ TriesInv /\ [Next]_vars => TriesInv'
<1> SUFFICES ASSUME TypeInv, CodesInv, TriesInv, [Next]_vars PROVE TriesInv'
  OBVIOUS
<1>1. /\ issued \in Nat /\ MaxTries \in Nat \ {0} /\ codes \in [Codes -> CodeRows]
      /\ codes' \in [Codes -> CodeRows] /\ guesses \in Nat
  <2>1. TypeInv'
    BY NextType
  <2>2. codes' \in [Codes -> CodeRows]
    BY <2>1 DEF TypeInv, TypeOK, CodeRows
  <2> QED
    BY <2>2, SignInAssumption DEF TypeInv, TypeOK, CodeRows
<1>2. \A c \in Codes : codes[c].tries \in Nat /\ codes'[c].tries \in Nat
  BY <1>1 DEF CodeRows
<1>3. IsFiniteSet(TriesTaken) /\ IsFiniteSet(TriesTaken')
  <2>1. TypeInv' /\ CodesInv'
    BY NextType, NextCodes
  <2>2. IsFiniteSet(Codes \X (1..MaxTries))
    <3> DEFINE B == 1..MaxTries
    <3>1. IsFiniteSet(Codes) /\ IsFiniteSet(B)
      BY SignInAssumption, FS_Interval DEF Codes
    <3> HIDE DEF B
    <3>2. IsFiniteSet(Codes \X B)
      BY <3>1, FS_Product
    <3> QED
      BY <3>2 DEF B
  <2> QED
    BY <2>2, FS_Subset DEF TriesTaken
<1>4. TriesTaken \subseteq TriesTaken'
  <2>1. ASSUME NEW c \in Codes PROVE codes'[c].tries >= codes[c].tries
    <3>1. CASE \A d \in Codes : Aged(d)
      BY <3>1 DEF Aged
    <3>2. CASE issued' = issued + 1 /\ codes' = [codes EXCEPT ![issued'] = newCode]
      <4>1. CASE c = issued'
        <5>1. codes[c].tries = 0
          BY <1>1, <3>2, <4>1 DEF CodesInv
        <5> QED
          BY <1>2, <5>1
      <4>2. CASE c # issued'
        BY <1>1, <1>2, <3>2, <4>2
      <4> QED
        BY <4>1, <4>2
    <3> QED
      BY <3>1, <3>2, RowsMove
  <2>2. ASSUME NEW p \in TriesTaken PROVE p \in TriesTaken'
    <3>1. p \in Codes \X (1..MaxTries) /\ p[1] \in Codes /\ p[2] \in Nat /\ p[2] <= codes[p[1]].tries
      BY DEF TriesTaken
    <3>2. p[2] <= codes'[p[1]].tries
      BY <1>2, <2>1, <3>1
    <3> QED
      BY <3>1, <3>2 DEF TriesTaken
  <2> QED
    BY <2>2
<1>5. CASE UNCHANGED guesses
  <2>1. Cardinality(TriesTaken) <= Cardinality(TriesTaken')
    BY <1>3, <1>4, FS_Subset
  <2>2. Cardinality(TriesTaken) \in Nat /\ Cardinality(TriesTaken') \in Nat
    BY <1>3, FS_CardinalityType
  <2> QED
    BY <1>1, <1>5, <2>1, <2>2 DEF TriesInv
\* A guess that is compared takes a try that was not taken before.
<1>6. ASSUME NEW t \in Requests, takeAttempt(t), guesses' # guesses PROVE TriesInv'
  <2>1. guesses' = guesses + 1 /\ liveCodes # {} /\ tried(liveCodes)
    BY <1>6 DEF takeAttempt
  <2>2. PICK c \in liveCodes : c \in Codes /\ codes[c].tries < MaxTries
    BY <2>1 DEF liveCodes, live
  <2> DEFINE n == codes[c].tries + 1
             new == <<c, n>>
  <2>3. codes'[c].tries = n /\ n \in 1..MaxTries
    <3>1. codes'[c] = [codes[c] EXCEPT !.tries = @ + 1]
      BY <2>1, <2>2 DEF tried
    <3>2. codes'[c].tries = n
      BY <1>1, <2>2, <3>1 DEF CodeRows
    <3> QED
      BY <1>1, <1>2, <2>2, <3>2
  <2>4. new \in TriesTaken' /\ new \notin TriesTaken
    <3>1. new \in Codes \X (1..MaxTries) /\ new[1] = c /\ new[2] = n
      BY <2>2, <2>3
    <3>2. n <= codes'[c].tries /\ ~(n <= codes[c].tries)
      BY <1>2, <2>2, <2>3
    <3> HIDE DEF new
    <3> QED
      BY <3>1, <3>2 DEF TriesTaken
  <2> HIDE DEF new, n
  <2>5. TriesTaken \cup {new} \subseteq TriesTaken'
    BY <1>4, <2>4
  <2>6. IsFiniteSet(TriesTaken \cup {new})
        /\ Cardinality(TriesTaken \cup {new}) = Cardinality(TriesTaken) + 1
    BY <1>3, <2>4, FS_AddElement
  <2>7. Cardinality(TriesTaken \cup {new}) <= Cardinality(TriesTaken')
    BY <1>3, <2>5, FS_Subset
  <2>8. Cardinality(TriesTaken) \in Nat /\ Cardinality(TriesTaken') \in Nat
    BY <1>3, FS_CardinalityType
  <2> QED
    BY <1>1, <2>1, <2>6, <2>7, <2>8 DEF TriesInv
<1> QED
  BY <1>5, <1>6, GuessCounters

\* A request changes whether it is about to try, or has a wrong try to count, only by its
\* own step.
LEMMA TryingMoves ==
    ASSUME TypeInv, NEW t \in Requests, Step(t), NEW ip \in IPs
    PROVE  Trying(ip)' \ {t} = Trying(ip) \ {t} /\ Missing(ip)' \ {t} = Missing(ip) \ {t}
<1>1. \A s \in Requests \ {t} : req'[s] = req[s]
  BY OthersStay
<1> QED
  BY <1>1 DEF Trying, Missing

\* The requests of one IP that are trying and those that missed are different ones.
LEMMA TryingBounds ==
    ASSUME NEW ip \in IPs
    PROVE  /\ IsFiniteSet(Trying(ip)) /\ IsFiniteSet(Missing(ip))
           /\ Cardinality(Trying(ip)) \in Nat /\ Cardinality(Missing(ip)) \in Nat
           /\ Cardinality(Requests) \in Nat \ {0}
           /\ Cardinality(Trying(ip)) + Cardinality(Missing(ip)) <= Cardinality(Requests)
<1>1. IsFiniteSet(Requests) /\ Requests # {}
  BY SignInAssumption
<1>2. Trying(ip) \in SUBSET Requests /\ Missing(ip) \in SUBSET Requests /\ Trying(ip) \cap Missing(ip) = {}
  BY DEF Trying, Missing
<1>3. IsFiniteSet(Trying(ip)) /\ IsFiniteSet(Missing(ip))
  BY <1>1, <1>2, FS_Subset
<1>4. Cardinality(Trying(ip) \cup Missing(ip)) = Cardinality(Trying(ip)) + Cardinality(Missing(ip)) - Cardinality({})
  BY <1>2, <1>3, FS_Union
<1>5. Cardinality(Trying(ip) \cup Missing(ip)) <= Cardinality(Requests)
  <2>1. Trying(ip) \cup Missing(ip) \in SUBSET Requests
    BY <1>2
  <2> QED
    BY <1>1, <2>1, FS_Subset
<1>6. /\ Cardinality(Trying(ip)) \in Nat /\ Cardinality(Missing(ip)) \in Nat
      /\ Cardinality(Requests) \in Nat /\ Cardinality(Requests) # 0 /\ Cardinality({}) = 0
  BY <1>1, <1>3, FS_CardinalityType, FS_EmptySet
<1> QED
  BY <1>3, <1>4, <1>5, <1>6

\* The books of one IP balance whichever request steps.
LEMMA StepMiss ==
    ASSUME TypeInv, MissInv, NEW t \in Requests, Step(t), Next PROVE MissInv'
<1> SUFFICES ASSUME NEW ip \in IPs
             PROVE  IF wrong'[ip] < WrongTries
                    THEN misses'[ip] <= wrong'[ip] + Cardinality(Missing(ip)') + faults'
                    ELSE misses'[ip] + Cardinality(Trying(ip)') <= WrongTries + Cardinality(Requests) - 1 + faults'
  BY DEF MissInv
<1> DEFINE T == Cardinality(Trying(ip))
           M == Cardinality(Missing(ip))
           N == Cardinality(Requests)
           T1 == Cardinality(Trying(ip)')
           M1 == Cardinality(Missing(ip)')
<1>1. /\ T \in Nat /\ M \in Nat /\ N \in Nat \ {0} /\ T + M <= N
      /\ IsFiniteSet(Trying(ip)) /\ IsFiniteSet(Missing(ip))
  BY TryingBounds
<1>2. /\ t \in Trying(ip)' /\ t \notin Trying(ip) => T1 = T + 1
      /\ t \notin Trying(ip)' /\ t \in Trying(ip) => T1 = T - 1
      /\ (t \in Trying(ip)' <=> t \in Trying(ip)) => T1 = T
  BY <1>1, TryingMoves, SizeMoves
<1>3. /\ t \in Missing(ip)' /\ t \notin Missing(ip) => M1 = M + 1
      /\ t \notin Missing(ip)' /\ t \in Missing(ip) => M1 = M - 1
      /\ (t \in Missing(ip)' <=> t \in Missing(ip)) => M1 = M
  BY <1>1, TryingMoves, SizeMoves
<1>4. /\ t \in Trying(ip) <=> req[t].pc = "try" /\ req[t].ip = ip
      /\ t \in Trying(ip)' <=> req'[t].pc = "try" /\ req'[t].ip = ip
      /\ t \in Missing(ip) <=> req[t].pc = "miss" /\ req[t].ip = ip
      /\ t \in Missing(ip)' <=> req'[t].pc = "miss" /\ req'[t].ip = ip
  BY DEF Trying, Missing
<1>5. /\ TypeOK /\ wrong[ip] \in 0..WrongTries /\ misses[ip] \in Nat /\ faults \in Nat /\ WrongTries \in Nat
      /\ wrong \in [IPs -> 0..WrongTries] /\ misses \in [IPs -> Nat] /\ req[t].ip \in IPs
  BY SignInAssumption DEF TypeInv, TypeOK, RequestRecords
<1>6. [Next]_vars /\ faults' \in Nat /\ faults' >= faults
  BY GuessCounters
<1>7. IF wrong[ip] < WrongTries THEN misses[ip] <= wrong[ip] + M + faults
                                ELSE misses[ip] + T <= WrongTries + N - 1 + faults
  BY DEF MissInv
<1> HIDE DEF T, M, N, T1, M1
<1>8. ASSUME finish(t) PROVE t \notin Trying(ip)' /\ t \notin Missing(ip)'
  BY <1>4, <1>5, <1>8, Finished, IdleIs
<1>9. ASSUME takeAttempt(t) PROVE wrong' = wrong /\ faults' = faults
  BY <1>9 DEF takeAttempt, counters
<1>10. ASSUME countMiss(t) PROVE misses' = misses /\ faults' = faults
  BY <1>10 DEF countMiss, history
\* Away from the try and its counting nothing moves.
<1>11. ASSUME ~at(t, "room"), ~at(t, "try"), ~at(t, "miss")
       PROVE  /\ T1 = T /\ M1 = M
  <2> DEFINE further == \E pc : goto(t, pc) /\ <<req[t].pc, pc>> \in Arcs
             begins == Ask(t) \/ (\E i \in IPs, c \in Codes \cup {NoCode} : Type(t, i, c))
                       \/ (\E c \in Codes : Link(t, c)) \/ Leave(t)
  <2>1. \/ finish(t) \/ further \/ begins
        \/ req'[t].pc \in {"allowance", "mail", "clear", "session"}
        \/ <<req[t].pc, req'[t].pc>> \in {<<"pickEmail", "dropEmail">>, <<"pickHour", "dropHour">>}
        \/ req'[t].pc = afterFind(t)
    BY Paths
  <2>2. req[t].pc \notin {"try", "miss"}
    BY <1>11 DEF at
  <2>3. ASSUME NEW pc, goto(t, pc), <<req[t].pc, pc>> \in Arcs PROVE req'[t].pc \notin {"try", "miss"}
    <3>1. req'[t].pc = pc
      BY <1>5, <2>3, WentTo
    <3>2. pc \notin {"try", "miss"}
      BY <1>11, <2>3 DEF Arcs, at
    <3> QED
      BY <3>1, <3>2
  <2>4. begins => req'[t].pc \notin {"try", "miss"}
    BY Began
  <2>5. finish(t) => req'[t].pc \notin {"try", "miss"}
    BY <1>5, Finished, IdleIs
  <2>6. afterFind(t) \notin {"try", "miss"}
    BY DEF afterFind
  <2>7. req'[t].pc \notin {"try", "miss"}
    BY <2>1, <2>3, <2>4, <2>5, <2>6
  <2> QED
    BY <1>2, <1>3, <1>4, <2>2, <2>7
<1>12. ASSUME ~at(t, "try"), ~at(t, "miss") PROVE misses' = misses /\ wrong' = wrong
  <2>1. ASSUME NEW s \in Requests, takeAttempt(s) \/ countMiss(s) PROVE s = t
    <3>1. at(s, "try") \/ at(s, "miss")
      BY <2>1 DEF takeAttempt, countMiss
    <3>2. req'[s] # req[s]
      <4>1. req'[s].pc \in {"idle", "spend", "miss"} /\ (countMiss(s) => req'[s].pc = "idle")
        BY <1>5, <2>1, WentTo, Finished, IdleIs DEF takeAttempt, countMiss
      <4> QED
        BY <2>1, <4>1 DEF takeAttempt, countMiss, at
    <3> QED
      BY <3>2, OthersStay
  <2>2. ~takeAttempt(t) /\ ~countMiss(t)
    BY <1>12 DEF takeAttempt, countMiss
  <2> QED
    BY <1>6, <2>1, <2>2, GuessCounters
<1>13. CASE ~at(t, "room") /\ ~at(t, "try") /\ ~at(t, "miss")
  BY <1>1, <1>5, <1>6, <1>7, <1>11, <1>12, <1>13 DEF T, M, N, T1, M1
<1>14. CASE at(t, "room")
  <2>1. misses' = misses /\ wrong' = wrong
    BY <1>12, <1>14 DEF at
  <2>2. t \notin Trying(ip) /\ t \notin Missing(ip) /\ t \notin Missing(ip)'
    <3>1. finish(t) \/ goto(t, "try")
      BY <1>14, ByPlace DEF wrongRoom, Refused, Die
    <3>2. goto(t, "try") => req'[t].pc = "try"
      BY <1>5, WentTo
    <3> QED
      BY <1>4, <1>8, <1>14, <3>1, <3>2 DEF at
  <2>3. M1 = M
    BY <1>3, <2>2
  <2>4. CASE wrong[ip] < WrongTries
    BY <1>1, <1>5, <1>6, <1>7, <2>1, <2>3, <2>4 DEF T, M, N, T1, M1
  <2>5. CASE ~(wrong[ip] < WrongTries)
    <3>1. t \notin Trying(ip)'
      <4>1. CASE finish(t)
        BY <1>8, <4>1
      <4>2. CASE ~finish(t)
        <5>1. mayTry(req[t].ip) /\ goto(t, "try")
          BY <1>14, <4>2, ByPlace DEF wrongRoom, Refused, Die
        <5>2. req'[t].ip = req[t].ip
          BY <1>5, <5>1, WentTo
        <5> QED
          BY <1>4, <2>5, <5>1, <5>2 DEF mayTry
      <4> QED
        BY <4>1, <4>2
    <3>2. T1 = T
      BY <1>2, <2>2, <3>1
    <3> QED
      BY <1>1, <1>5, <1>6, <1>7, <2>1, <2>5, <3>2 DEF T, M, N, T1, M1
  <2> QED
    BY <2>4, <2>5
<1>15. CASE at(t, "try") /\ takeAttempt(t)
  <2>1. wrong' = wrong /\ faults' = faults
    BY <1>9, <1>15
  <2>2. t \notin Missing(ip) /\ t \notin Trying(ip)'
    <3>1. finish(t) \/ goto(t, "spend") \/ goto(t, "miss")
      BY <1>15 DEF takeAttempt
    <3>2. \A pc : goto(t, pc) => req'[t].pc = pc
      BY <1>5, WentTo
    <3> QED
      BY <1>4, <1>8, <1>15, <3>1, <3>2 DEF at
  <2>3. misses'[ip] = misses[ip] \/ (misses'[ip] = misses[ip] + 1 /\ t \in Trying(ip) /\ t \in Missing(ip)')
    <3>1. CASE misses' = misses
      BY <3>1
    <3>2. CASE misses' # misses
      <4>1. goto(t, "miss") /\ misses' = [misses EXCEPT ![req[t].ip] = @ + 1]
        BY <1>15, <3>2 DEF takeAttempt
      <4>2. req'[t].pc = "miss" /\ req'[t].ip = req[t].ip
        BY <1>5, <4>1, WentTo
      <4> QED
        BY <1>4, <1>5, <1>15, <4>1, <4>2 DEF at
    <3> QED
      BY <3>1, <3>2
  <2>4. M1 >= M /\ T1 <= T /\ M1 \in Nat /\ T1 \in Nat
    <3>1. (T1 = T \/ T1 = T - 1) /\ (M1 = M \/ M1 = M + 1)
      BY <1>2, <1>3, <2>2
    <3>2. T1 \in Nat
      <4>1. IsFiniteSet(Trying(ip)')
        BY <1>1, TryingMoves, SizeMoves
      <4> QED
        BY <4>1, FS_CardinalityType DEF T1
    <3> QED
      BY <1>1, <3>1, <3>2
  <2>5. CASE misses'[ip] = misses[ip]
    BY <1>1, <1>5, <1>7, <2>1, <2>4, <2>5 DEF T, M, N, T1, M1
  <2>6. CASE misses'[ip] = misses[ip] + 1 /\ t \in Trying(ip) /\ t \in Missing(ip)'
    <3>1. T1 = T - 1 /\ M1 = M + 1
      BY <1>2, <1>3, <2>2, <2>6
    <3> QED
      BY <1>1, <1>5, <1>7, <2>1, <2>6, <3>1 DEF T, M, N, T1, M1
  <2> QED
    BY <2>3, <2>5, <2>6
<1>16. CASE at(t, "miss") /\ countMiss(t)
  <2>1. misses' = misses /\ faults' = faults /\ finish(t) /\ missCounted(req[t].ip)
    BY <1>10, <1>16 DEF countMiss
  <2>2. t \notin Trying(ip) /\ t \notin Trying(ip)' /\ t \notin Missing(ip)'
    BY <1>4, <1>8, <1>16, <2>1 DEF at
  <2>3. T1 = T
    BY <1>2, <2>2
  <2>4. CASE req[t].ip = ip
    <3>1. M1 = M - 1
      BY <1>3, <1>4, <1>16, <2>2, <2>4 DEF at
    <3>2. wrong'[ip] = IF wrong[ip] < WrongTries THEN wrong[ip] + 1 ELSE wrong[ip]
      BY <1>5, <2>1, <2>4 DEF missCounted
    <3>3. CASE wrong[ip] < WrongTries
      BY <1>1, <1>5, <1>7, <2>1, <2>3, <3>1, <3>2, <3>3 DEF T, M, N, T1, M1
    <3>4. CASE ~(wrong[ip] < WrongTries)
      BY <1>1, <1>5, <1>7, <2>1, <2>3, <3>2, <3>4 DEF T, M, N, T1, M1
    <3> QED
      BY <3>3, <3>4
  <2>5. CASE req[t].ip # ip
    <3>1. M1 = M
      BY <1>3, <1>4, <2>2, <2>5
    <3>2. wrong'[ip] = wrong[ip]
      BY <1>5, <2>1, <2>5 DEF missCounted
    <3> QED
      BY <1>1, <1>5, <1>7, <2>1, <2>3, <3>1, <3>2 DEF T, M, N, T1, M1
  <2> QED
    BY <2>4, <2>5
<1>17. CASE (at(t, "try") \/ at(t, "miss")) /\ Die(t)
  <2>1. finish(t) /\ faults' = faults + 1 /\ misses' = misses /\ wrong' = wrong
    BY <1>17 DEF Die, history, counters
  <2>2. t \notin Trying(ip)' /\ t \notin Missing(ip)'
    BY <1>8, <2>1
  <2>3. (T1 = T \/ T1 = T - 1) /\ (M1 = M \/ M1 = M - 1)
    BY <1>2, <1>3, <2>2
  <2> QED
    BY <1>1, <1>5, <1>7, <2>1, <2>3 DEF T, M, N, T1, M1
<1> QED
  BY <1>13, <1>14, <1>15, <1>16, <1>17, ByPlace

LEMMA NextMiss == TypeInv /\ MissInv /\ [Next]_vars => MissInv'
<1> SUFFICES ASSUME TypeInv, MissInv, [Next]_vars PROVE MissInv'
  OBVIOUS
<1>1. ASSUME UNCHANGED <<req, misses, wrong, faults>> PROVE MissInv'
  BY <1>1 DEF MissInv, Trying, Missing
<1>2. ASSUME NEW t \in Requests, Next, Step(t) PROVE MissInv'
  BY <1>2, StepMiss
<1>3. ASSUME NEW c \in Codes, Expire(c) PROVE UNCHANGED <<req, misses, wrong, faults>>
  BY <1>3 DEF Expire, counters, history
<1>4. ASSUME MinutePasses \/ Designate \/ LeaveDemo \/ UNCHANGED vars
      PROVE  UNCHANGED <<req, misses, wrong, faults>>
  BY <1>4 DEF MinutePasses, Designate, LeaveDemo, vars, counters, history
<1> QED
  BY <1>1, <1>2, <1>3, <1>4 DEF Next

\* However many requests guess at once, an address faces at most MaxTries guesses for each
\* code made for it, and a machine's wrong tries pass their limit only by those it had in
\* flight and those that died uncounted.
THEOREM GuessesAreBounded == Spec => []GuessesBounded
<1> DEFINE IInv == TypeInv /\ CodesInv /\ TriesInv /\ MissInv
<1>1. ASSUME Init PROVE TriesInv
  <2>1. guesses = 0 /\ IsFiniteSet(TriesTaken)
    BY <1>1, InitType, InitCodes, TriesBounded DEF Init
  <2> QED
    BY <2>1, FS_CardinalityType DEF TriesInv
<1>2. ASSUME Init PROVE MissInv
  <2> SUFFICES ASSUME NEW ip \in IPs
               PROVE  IF wrong[ip] < WrongTries
                      THEN misses[ip] <= wrong[ip] + Cardinality(Missing(ip)) + faults
                      ELSE misses[ip] + Cardinality(Trying(ip)) <= WrongTries + Cardinality(Requests) - 1 + faults
    BY DEF MissInv
  <2>1. wrong[ip] = 0 /\ misses[ip] = 0 /\ faults = 0 /\ WrongTries \in Nat
    BY <1>2, SignInAssumption DEF Init
  <2>2. Trying(ip) = {} /\ Missing(ip) = {}
    BY <1>2, IdleIs DEF Init, Trying, Missing
  <2>3. Cardinality({}) = 0
    BY FS_EmptySet
  <2>4. Cardinality(Requests) \in Nat \ {0}
    BY TryingBounds
  <2> QED
    BY <2>1, <2>2, <2>3, <2>4
<1>3. Init => IInv
  BY <1>1, <1>2, InitType, InitCodes
<1>4. IInv /\ [Next]_vars => IInv'
  BY NextType, NextCodes, NextTries, NextMiss
<1>5. ASSUME IInv PROVE GuessesBounded
  <2>1. guesses <= MaxTries * issued
    <3>1. /\ guesses \in Nat /\ Cardinality(TriesTaken) \in Nat /\ MaxTries * issued \in Nat
      <4>1. MaxTries \in Nat /\ issued \in Nat /\ guesses \in Nat
        BY <1>5, SignInAssumption DEF TypeInv, TypeOK
      <4> QED
        BY <1>5, <4>1, TriesBounded, FS_CardinalityType
    <3> QED
      BY <1>5, <3>1, TriesBounded DEF TriesInv
  <2>2. ASSUME NEW ip \in IPs PROVE misses[ip] <= WrongTries + Cardinality(Requests) - 1 + faults
    <3>1. wrong[ip] \in 0..WrongTries /\ misses[ip] \in Nat /\ faults \in Nat /\ WrongTries \in Nat
      BY <1>5, SignInAssumption DEF TypeInv, TypeOK
    <3>2. IF wrong[ip] < WrongTries
          THEN misses[ip] <= wrong[ip] + Cardinality(Missing(ip)) + faults
          ELSE misses[ip] + Cardinality(Trying(ip)) <= WrongTries + Cardinality(Requests) - 1 + faults
      BY <1>5 DEF MissInv
    <3> QED
      BY <3>1, <3>2, TryingBounds
  <2> QED
    BY <2>1, <2>2 DEF GuessesBounded
<1> QED
  BY <1>3, <1>4, <1>5, PTL DEF Spec

-----------------------------------------------------------------------------
(***************************************************************************)
(* The hour.                                                               *)
(***************************************************************************)
\* A request comes to hold a hit on the hour's bucket only by taking one.
LEMMA ChargedStep ==
    ASSUME TypeInv, NEW t \in Requests, Step(t), t \in Charged', t \notin Charged
    PROVE  takeAllowance(t)
<1>1. TypeOK /\ ~finish(t)
  <2>1. TypeOK
    BY DEF TypeInv
  <2>2. finish(t) => req'[t].pc = "idle"
    BY <2>1, Finished, IdleIs
  <2> QED
    BY <2>1, <2>2 DEF Charged
<1> DEFINE further == \E pc : goto(t, pc) /\ <<req[t].pc, pc>> \in Arcs
           begins == Ask(t) \/ (\E i \in IPs, c \in Codes \cup {NoCode} : Type(t, i, c))
                     \/ (\E c \in Codes : Link(t, c)) \/ Leave(t)
<1>2. \/ finish(t) \/ further \/ begins
      \/ req'[t].pc \in {"allowance", "clear", "session"}
      \/ insertCode(t)
      \/ <<req[t].pc, req'[t].pc>> \in {<<"pickEmail", "dropEmail">>, <<"pickHour", "dropHour">>}
      \/ req'[t].pc = afterFind(t)
  BY Paths
<1>3. begins => req'[t].pc \in {"counted", "live", "typePrivileged", "room", "tryLink", "eraseCodes"}
  BY Began
<1>4. ~insertCode(t)
  BY DEF insertCode, at, Charged
<1>5. afterFind(t) \in {"newUser", "proved", "session"}
  BY DEF afterFind
<1>6. further
  BY <1>1, <1>2, <1>3, <1>4, <1>5 DEF Charged
<1>7. req[t].pc = "allowance"
  <2>1. PICK pc : goto(t, pc) /\ <<req[t].pc, pc>> \in Arcs
    BY <1>6
  <2>2. req'[t].pc = pc
    BY <1>1, <2>1, WentTo
  <2> QED
    BY <2>1, <2>2 DEF Arcs, Charged
<1> QED
  BY <1>1, <1>7, ByPlace DEF at, Refused, Die

\* Marking a code mailed adds it to the mailed ones; nothing else moves them.
LEMMA MailedMoves ==
    ASSUME TypeInv, CodesInv, [Next]_vars
    PROVE  Mailed' = Mailed \/ \E t \in Requests : mailed(t)
<1>1. codes \in [Codes -> CodeRows] /\ issued \in Nat
  BY SignInAssumption DEF TypeInv, TypeOK, CodeRows
<1>2. CASE \A d \in Codes : Aged(d)
  BY <1>2 DEF Aged, Mailed
<1>3. CASE issued' = issued + 1 /\ issued' \in Codes /\ codes' = [codes EXCEPT ![issued'] = newCode]
  <2>1. ~codes[issued'].mailed /\ ~codes'[issued'].mailed
    BY <1>1, <1>3 DEF CodesInv, newCode
  <2>2. \A c \in Codes : c # issued' => codes'[c] = codes[c]
    BY <1>1, <1>3
  <2> QED
    BY <2>1, <2>2 DEF Mailed
<1> QED
  BY <1>2, <1>3, RowsMove

LEMMA NextHour == TypeInv /\ CodesInv /\ HourInv /\ [Next]_vars => HourInv'
<1> SUFFICES ASSUME TypeInv, CodesInv, HourInv, [Next]_vars PROVE HourInv'
  OBVIOUS
<1> DEFINE H == Cardinality(hour)
           C == Cardinality(Charged)
           L == Cardinality(Mailed)
           H1 == Cardinality(hour')
           C1 == Cardinality(Charged')
           L1 == Cardinality(Mailed')
<1>1. TypeOK /\ taken \in Nat /\ hour \subseteq 1..taken /\ PerHour \in Nat
  BY SignInAssumption DEF TypeInv, TypeOK
<1>2. /\ IsFiniteSet(hour) /\ IsFiniteSet(Charged) /\ IsFiniteSet(Mailed)
      /\ IsFiniteSet(Charged') /\ IsFiniteSet(Mailed')
  <2>1. IsFiniteSet(1..taken) /\ IsFiniteSet(Codes) /\ IsFiniteSet(Requests)
    BY <1>1, SignInAssumption, FS_Interval DEF Codes
  <2>2. /\ hour \in SUBSET (1..taken) /\ Mailed \in SUBSET Codes /\ Charged \in SUBSET Requests
        /\ Mailed' \in SUBSET Codes /\ Charged' \in SUBSET Requests
    BY <1>1 DEF Mailed, Charged
  <2> QED
    BY <2>1, <2>2, FS_Subset
<1>3. H \in Nat /\ C \in Nat /\ L \in Nat /\ C1 \in Nat /\ L1 \in Nat
  BY <1>2, FS_CardinalityType
<1>4. H <= PerHour /\ L + C <= H
  BY DEF HourInv
<1>5. ASSUME NEW t \in Requests, Step(t)
      PROVE  /\ t \in Charged' /\ t \notin Charged => C1 = C + 1
             /\ t \notin Charged' /\ t \in Charged => C1 = C - 1
             /\ (t \in Charged' <=> t \in Charged) => C1 = C
  <2>1. Charged' \ {t} = Charged \ {t}
    BY <1>5, OthersStay DEF Charged
  <2> QED
    BY <1>2, <2>1, SizeMoves
<1>6. ASSUME NEW t \in Requests, finish(t) PROVE t \notin Charged'
  BY <1>1, <1>6, Finished, IdleIs DEF Charged
<1> HIDE DEF H, C, L, H1, C1, L1
\* A request that is sent its code had taken its hit, and the code is one more mailed.
<1>7. ASSUME NEW t \in Requests, mailed(t) PROVE HourInv'
  <2>1. C1 = C - 1
    <3>1. finish(t) /\ t \in Charged
      BY <1>7 DEF mailed, at, Charged
    <3> QED
      BY <1>5, <1>6, <1>7, <3>1 DEF Step
  <2>2. L1 = L + 1
    <3>1. req[t].code \in Codes /\ ~codes[req[t].code].mailed
      BY <1>7 DEF mailed, at, TypeInv, RequestOK, CodesInv, Sending
    <3>2. codes \in [Codes -> CodeRows] /\ codes' = [codes EXCEPT ![req[t].code].mailed = TRUE]
      BY <1>1, <1>7 DEF mailed, TypeOK, CodeRows
    <3>3. codes'[req[t].code].mailed /\ \A c \in Codes : c # req[t].code => codes'[c] = codes[c]
      BY <3>1, <3>2 DEF CodeRows
    <3>4. req[t].code \in Mailed' /\ req[t].code \notin Mailed /\ Mailed' \ {req[t].code} = Mailed \ {req[t].code}
      BY <3>1, <3>3 DEF Mailed
    <3> QED
      BY <1>2, <3>4, SizeMoves DEF L, L1
  <2>3. hour' = hour
    BY <1>7 DEF mailed, counters
  <2> QED
    BY <1>3, <1>4, <2>1, <2>2, <2>3 DEF HourInv, H, C, L, H1, C1, L1
<1>8. ASSUME ~\E t \in Requests : mailed(t) PROVE L1 = L
  BY <1>8, MailedMoves DEF L, L1
\* A hit is taken only while there is room for it.
<1>9. ASSUME NEW t \in Requests, takeAllowance(t) PROVE HourInv'
  <2>1. ~\E s \in Requests : mailed(s)
    <3>1. ASSUME NEW s \in Requests, mailed(s) PROVE FALSE
      <4>1. s # t
        BY <1>9, <3>1 DEF mailed, takeAllowance, at
      <4>2. req'[s] = req[s]
        BY <1>9, <4>1, OthersStay DEF Step
      <4>3. req'[s].pc = "idle" /\ req[s].pc = "mail"
        BY <1>1, <3>1, Finished, IdleIs DEF mailed, at
      <4> QED
        BY <4>2, <4>3
    <3> QED
      BY <3>1
  <2>2. L1 = L
    BY <1>8, <2>1
  <2>3. t \notin Charged
    BY <1>9 DEF takeAllowance, at, Charged
  <2>4. CASE hasRoom(t)
    <3>1. H < PerHour /\ hour' = hour \cup {taken + 1}
      BY <1>9, <2>4 DEF takeAllowance, hasRoom, H
    <3>2. taken + 1 \notin hour
      BY <1>1
    <3>3. H1 = H + 1
      BY <1>2, <3>1, <3>2, FS_AddElement DEF H, H1
    <3>4. C1 <= C + 1
      BY <1>3, <1>5, <1>9, <2>3 DEF Step
    <3> QED
      BY <1>1, <1>3, <1>4, <2>2, <3>1, <3>3, <3>4 DEF HourInv, H, C, L, H1, C1, L1
  <2>5. CASE ~hasRoom(t)
    <3>1. finish(t) /\ hour' = hour
      BY <1>9, <2>5 DEF takeAllowance
    <3>2. C1 = C
      BY <1>5, <1>6, <1>9, <2>3, <3>1 DEF Step
    <3> QED
      BY <1>4, <2>2, <3>1, <3>2 DEF HourInv, H, C, L, H1, C1, L1
  <2> QED
    BY <2>4, <2>5
\* Whose hit is given back does not matter: one is, and the request holds its own no longer.
<1>10. ASSUME NEW t \in Requests, dropHour(t) PROVE HourInv'
  <2>1. C1 = C - 1
    <3>1. finish(t) /\ t \in Charged
      BY <1>10 DEF dropHour, at, Charged
    <3> QED
      BY <1>5, <1>6, <1>10, <3>1 DEF Step
  <2>2. H1 = H \/ H1 = H - 1
    <3>1. hour' = hour \ {req[t].hit}
      BY <1>10 DEF dropHour
    <3> QED
      BY <1>2, <3>1, FS_RemoveElement DEF H, H1
  <2>3. L1 = L
    <3>1. codes' = codes
      BY <1>10 DEF dropHour
    <3> QED
      BY <3>1 DEF L, L1, Mailed
  <2> QED
    BY <1>1, <1>3, <1>4, <2>1, <2>2, <2>3 DEF HourInv, H, C, L, H1, C1, L1
<1>11. ASSUME UNCHANGED <<hour, req>>, ~\E t \in Requests : mailed(t) PROVE HourInv'
  <2>1. C1 = C /\ H1 = H
    BY <1>11 DEF C, C1, H, H1, Charged
  <2> QED
    BY <1>4, <1>8, <1>11, <2>1 DEF HourInv, H, C, L, H1, C1, L1
<1>12. ASSUME NEW t \in Requests, Step(t), ~takeAllowance(t), UNCHANGED hour, ~\E s \in Requests : mailed(s)
       PROVE  HourInv'
  <2>1. C1 <= C
    BY <1>3, <1>5, <1>12, ChargedStep
  <2>2. L1 = L
    BY <1>8, <1>12
  <2> QED
    BY <1>3, <1>4, <1>12, <2>1, <2>2 DEF HourInv, H, C, L, H1, C1, L1
<1>13. ASSUME NEW t \in Requests, Step(t), ~takeAllowance(t), ~dropHour(t) PROVE hour' = hour
  BY <1>13 DEF Step, Ask, limitIp, askPrivileged, readLive, insertCode, mailed, mailFailed,
               withdrawPlatformCode, pickHit, dropEmail, Type, Link, typePrivileged, clearCodes,
               wrongRoom, takeAttempt, countMiss, takeLinkAttempt, spendCode, findUser, clearDemoOnly,
               insertUser, insertSession, Leave, eraseCodes, eraseUser, Refused, Die, began, counters
<1>14. ASSUME NEW c \in Codes, Expire(c) PROVE UNCHANGED <<hour, req>>
  BY <1>14 DEF Expire, counters
<1>15. ASSUME MinutePasses \/ Designate \/ LeaveDemo \/ UNCHANGED vars PROVE UNCHANGED <<hour, req>>
  BY <1>15 DEF MinutePasses, Designate, LeaveDemo, counters, vars
<1> QED
  BY <1>7, <1>9, <1>10, <1>11, <1>12, <1>13, <1>14, <1>15 DEF Next

\* No more codes reach an address in an hour than the limit, although a failed email gives
\* back the newest hit, which may be another request's.
THEOREM HourHolds == Spec => []HourlyLimit
<1> DEFINE IInv == TypeInv /\ CodesInv /\ HourInv
<1>1. ASSUME Init PROVE HourInv
  <2>1. hour = {} /\ Mailed = {}
    BY <1>1 DEF Init, Mailed
  <2>2. Charged = {}
    BY <1>1, IdleIs DEF Init, Charged
  <2>3. Cardinality({}) = 0
    BY FS_EmptySet
  <2> QED
    BY <2>1, <2>2, <2>3, SignInAssumption DEF HourInv
<1>2. Init => IInv
  BY <1>1, InitType, InitCodes
<1>3. IInv /\ [Next]_vars => IInv'
  BY NextType, NextCodes, NextHour
<1>4. ASSUME IInv PROVE HourlyLimit
  <2>1. IsFiniteSet(Codes) /\ Mailed \in SUBSET Codes
    BY SignInAssumption, FS_Interval DEF Codes, Mailed
  <2>2. IsFiniteSet(Requests) /\ Charged \in SUBSET Requests
    BY SignInAssumption DEF Charged
  <2>3. taken \in Nat /\ hour \in SUBSET (1..taken)
    BY <1>4 DEF TypeInv, TypeOK
  <2>4. IsFiniteSet(Mailed) /\ IsFiniteSet(Charged) /\ IsFiniteSet(hour)
    <3>1. IsFiniteSet(1..taken)
      BY <2>3, FS_Interval
    <3> QED
      BY <2>1, <2>2, <2>3, <3>1, FS_Subset
  <2>5. Cardinality(Mailed) \in Nat /\ Cardinality(Charged) \in Nat /\ Cardinality(hour) \in Nat /\ PerHour \in Nat
    BY <2>4, FS_CardinalityType, SignInAssumption
  <2>6. Cardinality(Mailed) <= PerHour
    BY <1>4, <2>5 DEF HourInv
  <2> QED
    BY <2>6 DEF HourlyLimit, Mailed
<1> QED
  BY <1>2, <1>3, <1>4, PTL DEF Spec

-----------------------------------------------------------------------------
(***************************************************************************)
(* Demo sessions.                                                          *)
(***************************************************************************)
\* Where the hub's demo mode, the privilege lists and the realm part the ways.
LEMMA Forks ==
    ASSUME TypeInv, NEW t \in Requests, Step(t)
    PROVE  /\ at(t, "counted") /\ req[t].sawDemo => req'[t].pc \in {"askPrivileged", "idle"}
           /\ at(t, "askPrivileged") /\ ~privileged => req'[t].pc = "idle"
           /\ at(t, "typePrivileged") /\ ~privileged => req'[t].pc \in {"clear", "idle"}
           /\ at(t, "spend") /\ realm = "hub" => req'[t].pc \in {"find", "idle"}
           /\ at(t, "spend") /\ realm = "console" => req'[t].pc \in {"session", "idle"}
<1>1. TypeOK
  BY DEF TypeInv
<1>2. at(t, "counted") => limitIp(t) \/ Refused(t) \/ Die(t)
  BY DEF Step, Ask, limitIp, askPrivileged, readLive, takeAllowance, insertCode, mailed, mailFailed,
         withdrawPlatformCode, pickHit, dropEmail, dropHour, Type, Link, typePrivileged, clearCodes,
         wrongRoom, takeAttempt, countMiss, takeLinkAttempt, spendCode, findUser, clearDemoOnly,
         insertUser, insertSession, Leave, eraseCodes, eraseUser, Refused, Die, began, at
<1>3. at(t, "askPrivileged") => askPrivileged(t) \/ Die(t)
  BY DEF Step, Ask, limitIp, askPrivileged, readLive, takeAllowance, insertCode, mailed, mailFailed,
         withdrawPlatformCode, pickHit, dropEmail, dropHour, Type, Link, typePrivileged, clearCodes,
         wrongRoom, takeAttempt, countMiss, takeLinkAttempt, spendCode, findUser, clearDemoOnly,
         insertUser, insertSession, Leave, eraseCodes, eraseUser, Refused, Die, began, at
<1>4. at(t, "typePrivileged") => typePrivileged(t) \/ Die(t)
  BY DEF Step, Ask, limitIp, askPrivileged, readLive, takeAllowance, insertCode, mailed, mailFailed,
         withdrawPlatformCode, pickHit, dropEmail, dropHour, Type, Link, typePrivileged, clearCodes,
         wrongRoom, takeAttempt, countMiss, takeLinkAttempt, spendCode, findUser, clearDemoOnly,
         insertUser, insertSession, Leave, eraseCodes, eraseUser, Refused, Die, began, at
<1>5. at(t, "spend") => spendCode(t) \/ Die(t)
  BY DEF Step, Ask, limitIp, askPrivileged, readLive, takeAllowance, insertCode, mailed, mailFailed,
         withdrawPlatformCode, pickHit, dropEmail, dropHour, Type, Link, typePrivileged, clearCodes,
         wrongRoom, takeAttempt, countMiss, takeLinkAttempt, spendCode, findUser, clearDemoOnly,
         insertUser, insertSession, Leave, eraseCodes, eraseUser, Refused, Die, began, at
<1>6. finish(t) => req'[t].pc = "idle"
  BY <1>1, Finished, IdleIs
<1>7. \A pc : goto(t, pc) => req'[t].pc = pc
  BY <1>1, WentTo
<1>8. ASSUME typePrivileged(t), ~privileged PROVE req'[t].pc = "clear"
  <2> DEFINE q == [req[t] EXCEPT !.pc = "clear", !.assurance = "demo", !.code = NoCode]
  <2>1. req'[t] = q
    BY <1>1, <1>8, Moved DEF typePrivileged, anySixDigits
  <2>2. q.pc = "clear"
    BY <1>1 DEF TypeOK, RequestRecords
  <2> HIDE DEF q
  <2> QED
    BY <2>1, <2>2
<1>9. at(t, "counted") /\ req[t].sawDemo => req'[t].pc \in {"askPrivileged", "idle"}
  BY <1>2, <1>6, <1>7 DEF limitIp, Refused, Die
<1>10. at(t, "askPrivileged") /\ ~privileged => req'[t].pc = "idle"
  BY <1>3, <1>6 DEF askPrivileged, Die
<1>11. at(t, "typePrivileged") /\ ~privileged => req'[t].pc \in {"clear", "idle"}
  BY <1>4, <1>6, <1>8 DEF Die
<1>12. at(t, "spend") => finish(t) \/ goto(t, IF realm = "hub" THEN "find" ELSE "session")
  BY <1>5 DEF spendCode, Die
<1> QED
  BY <1>6, <1>7, <1>9, <1>10, <1>11, <1>12

\* A request's step leaves the hub's mode, the lists and the history of late sign-ins alone.
LEMMA StepWorld ==
    ASSUME NEW t \in Requests, Step(t)
    PROVE  /\ UNCHANGED <<realm, demo, privileged, late>>
           /\ issued' = issued \/ insertCode(t)
           /\ account' = account \/ insertUser(t) \/ clearDemoOnly(t) \/ eraseUser(t)
           /\ sessions' = sessions \/ insertSession(t) \/ eraseUser(t)
<1>1. UNCHANGED <<realm, demo, privileged, late>>
  BY DEF Step, Ask, limitIp, askPrivileged, readLive, takeAllowance, insertCode, mailed, mailFailed,
         withdrawPlatformCode, pickHit, dropEmail, dropHour, Type, Link, typePrivileged, clearCodes,
         wrongRoom, takeAttempt, countMiss, takeLinkAttempt, spendCode, findUser, clearDemoOnly,
         insertUser, insertSession, Leave, eraseCodes, eraseUser, Refused, Die, began, world, history
<1>2. issued' = issued \/ insertCode(t)
  BY DEF Step, Ask, limitIp, askPrivileged, readLive, takeAllowance, mailed, mailFailed,
         withdrawPlatformCode, pickHit, dropEmail, dropHour, Type, Link, typePrivileged,
         clearCodes, wrongRoom, takeAttempt, countMiss, takeLinkAttempt, spendCode, findUser,
         clearDemoOnly, insertUser, insertSession, Leave, eraseCodes, eraseUser, Refused, Die,
         began
<1>3. account' = account \/ insertUser(t) \/ clearDemoOnly(t) \/ eraseUser(t)
  BY DEF Step, Ask, limitIp, askPrivileged, readLive, takeAllowance, insertCode, mailed,
         mailFailed, withdrawPlatformCode, pickHit, dropEmail, dropHour, Type, Link,
         typePrivileged, clearCodes, wrongRoom, takeAttempt, countMiss, takeLinkAttempt,
         spendCode, findUser, insertSession, Leave, eraseCodes, Refused, Die, began
<1>4. sessions' = sessions \/ insertSession(t) \/ eraseUser(t)
  BY DEF Step, Ask, limitIp, askPrivileged, readLive, takeAllowance, insertCode, mailed,
         mailFailed, withdrawPlatformCode, pickHit, dropEmail, dropHour, Type, Link,
         typePrivileged, clearCodes, wrongRoom, takeAttempt, countMiss, takeLinkAttempt,
         spendCode, findUser, clearDemoOnly, insertUser, Leave, eraseCodes, Refused, Die, began
<1> QED
  BY <1>1, <1>2, <1>3, <1>4

\* What a request's own step does to its place, to whether it proves the mailbox, and to the
\* mode it goes by.
LEMMA OwnPlace ==
    ASSUME TypeInv, NEW t \in Requests, Step(t)
    PROVE  /\ req'[t].pc # "idle" => req'[t].sawDemo = IF at(t, "idle") THEN demo ELSE req[t].sawDemo
           /\ \/ req'[t].assurance = req[t].assurance
              \/ req'[t].assurance = "code" /\ req'[t].pc = "idle"
              \/ req'[t].assurance = "code" /\ at(t, "idle")
              \/ at(t, "typePrivileged") /\ ~privileged
           /\ \/ req'[t].pc = "idle"
              \/ <<req[t].pc, req'[t].pc>> \in Arcs
              \/ at(t, "idle") /\ req'[t].pc \in {IF realm = "hub" THEN "counted" ELSE "live",
                                                 IF demo THEN "typePrivileged" ELSE "room", "eraseCodes"}
              \/ at(t, "idle") /\ req'[t].pc = "tryLink" /\ \E c \in Codes : Link(t, c)
              \/ <<req[t].pc, req'[t].pc>> \in {<<"live", "allowance">>, <<"insert", "mail">>,
                    <<"pickEmail", "dropEmail">>, <<"pickHour", "dropHour">>,
                    <<"typePrivileged", "clear">>, <<"newUser", "session">>}
              \/ at(t, "find") /\ req'[t].pc = afterFind(t) /\ req'[t].user = account.id
<1> DEFINE begins == Ask(t) \/ (\E i \in IPs, c \in Codes \cup {NoCode} : Type(t, i, c))
                     \/ (\E c \in Codes : Link(t, c)) \/ Leave(t)
           Same == req'[t].assurance = req[t].assurance /\ req'[t].sawDemo = req[t].sawDemo
<1>1. TypeOK
  BY DEF TypeInv
<1>2. CASE finish(t)
  BY <1>1, <1>2, Finished, IdleIs
<1>3. ASSUME NEW pc, goto(t, pc), <<req[t].pc, pc>> \in Arcs
      PROVE  Same /\ <<req[t].pc, req'[t].pc>> \in Arcs /\ ~at(t, "idle")
  BY <1>1, <1>3, WentTo DEF Arcs, at
<1>4. CASE begins
  BY <1>4, Began
<1>5. CASE readLive(t) /\ req'[t].pc = "allowance" /\ Same
  BY <1>5 DEF readLive, at
<1>6. CASE insertCode(t) /\ req'[t].pc = "mail" /\ Same
  BY <1>6 DEF insertCode, at
<1>7. CASE Same /\ <<req[t].pc, req'[t].pc>> \in {<<"pickEmail", "dropEmail">>, <<"pickHour", "dropHour">>}
  BY <1>7 DEF at
<1>8. CASE /\ typePrivileged(t) /\ ~privileged /\ req'[t].pc = "clear" /\ req'[t].assurance = "demo"
           /\ req'[t].sawDemo = req[t].sawDemo
  BY <1>8 DEF typePrivileged, at
<1>9. CASE findUser(t) /\ req'[t].pc = afterFind(t) /\ req'[t].user = account.id /\ Same
  BY <1>9 DEF findUser, at
<1>10. CASE insertUser(t) /\ req'[t].pc = "session" /\ Same
  BY <1>10 DEF insertUser, at
<1>11. \/ finish(t)
       \/ \E pc : goto(t, pc) /\ <<req[t].pc, pc>> \in Arcs
       \/ begins
       \/ readLive(t) /\ req'[t].pc = "allowance" /\ Same
       \/ insertCode(t) /\ req'[t].pc = "mail" /\ Same
       \/ Same /\ <<req[t].pc, req'[t].pc>> \in {<<"pickEmail", "dropEmail">>, <<"pickHour", "dropHour">>}
       \/ /\ typePrivileged(t) /\ ~privileged /\ req'[t].pc = "clear" /\ req'[t].assurance = "demo"
          /\ req'[t].sawDemo = req[t].sawDemo
       \/ findUser(t) /\ req'[t].pc = afterFind(t) /\ req'[t].user = account.id /\ Same
       \/ insertUser(t) /\ req'[t].pc = "session" /\ Same
  BY Paths
<1>12. ASSUME Same, ~at(t, "idle"), <<req[t].pc, req'[t].pc>> \in Arcs
       PROVE  /\ req'[t].pc # "idle" => req'[t].sawDemo = IF at(t, "idle") THEN demo ELSE req[t].sawDemo
              /\ req'[t].assurance = req[t].assurance
  BY <1>12
<1> QED
  BY <1>2, <1>3, <1>4, <1>5, <1>6, <1>7, <1>8, <1>9, <1>10, <1>11, <1>12

\* While the hub is a demo, every request goes by that; and the console has no demo.
LEMMA StepMode ==
    ASSUME TypeInv, DemoInv, NEW t \in Requests, Step(t)
    PROVE  /\ demo' => realm' = "hub" /\ \A s \in Requests : req'[s].pc # "idle" => req'[s].sawDemo
           /\ realm' = "console" =>
                privileged' /\ ~account'.exists /\ \A s \in Requests : req'[s].pc \notin {"clear", "find", "newUser"}
<1>1. TypeOK /\ UNCHANGED <<realm, demo, privileged, late>>
  BY StepWorld DEF TypeInv
<1>2. ASSUME demo', NEW s \in Requests, req'[s].pc # "idle" PROVE req'[s].sawDemo
  <2>1. CASE s = t
    BY <1>1, <1>2, <2>1, OwnPlace DEF DemoInv, at
  <2>2. CASE s # t
    BY <1>1, <1>2, <2>2, OthersStay DEF DemoInv, at
  <2> QED
    BY <2>1, <2>2
<1>3. ASSUME realm' = "console" PROVE /\ privileged' /\ ~account'.exists
                                      /\ \A s \in Requests : req'[s].pc \notin {"clear", "find", "newUser"}
  <2>1. realm = "console" /\ privileged /\ ~account.exists
        /\ \A s \in Requests : req[s].pc \notin {"clear", "find", "newUser"}
    BY <1>1, <1>3 DEF DemoInv
  <2>2. ~insertUser(t)
    BY <2>1 DEF insertUser, at
  <2>3. account' = account
    BY <2>1, <2>2, StepWorld DEF clearDemoOnly, eraseUser, isAccount
  <2>4. req'[t].pc \notin {"clear", "find", "newUser"}
    <3>1. ~at(t, "find") /\ ~at(t, "newUser") /\ ~at(t, "clear")
      BY <2>1 DEF at
    <3>2. <<req[t].pc, req'[t].pc>> # <<"typePrivileged", "clear">>
      <4>1. ASSUME at(t, "typePrivileged"), req'[t].pc = "clear" PROVE FALSE
        <5>1. typePrivileged(t) \/ Die(t)
          BY <4>1
             DEF Step, Ask, limitIp, askPrivileged, readLive, takeAllowance, insertCode, mailed, mailFailed,
                 withdrawPlatformCode, pickHit, dropEmail, dropHour, Type, Link, clearCodes,
                 wrongRoom, takeAttempt, countMiss, takeLinkAttempt, spendCode, findUser, clearDemoOnly,
                 insertUser, insertSession, Leave, eraseCodes, eraseUser, Refused, began, at
        <5>2. goto(t, "room") \/ finish(t)
          BY <2>1, <5>1 DEF typePrivileged, anySixDigits, Die
        <5> QED
          BY <1>1, <4>1, <5>2, WentTo, Finished, IdleIs
      <4> QED
        BY <4>1 DEF at
    <3>3. at(t, "spend") => req'[t].pc \in {"session", "idle"}
      BY <2>1, Forks
    <3>4. \/ req'[t].pc \in {"idle", "counted", "live", "typePrivileged", "room", "eraseCodes", "tryLink"}
          \/ <<req[t].pc, req'[t].pc>> \in Arcs
          \/ <<req[t].pc, req'[t].pc>> \in {<<"live", "allowance">>, <<"insert", "mail">>,
                <<"pickEmail", "dropEmail">>, <<"pickHour", "dropHour">>,
                <<"typePrivileged", "clear">>, <<"newUser", "session">>}
      BY <3>1, OwnPlace
    <3> QED
      BY <3>1, <3>2, <3>3, <3>4 DEF Arcs, at
  <2> QED
    BY <1>1, <2>1, <2>3, <2>4, OthersStay
<1> QED
  BY <1>1, <1>2, <1>3 DEF DemoInv

\* While a visitor needs no code, nothing is done with one.
LEMMA StepVisiting ==
    ASSUME TypeInv, CodesInv, DemoInv, NEW t \in Requests, Step(t), Visiting
    PROVE  /\ issued' = 0 /\ sessions'["code"] = 0
           /\ \A s \in Requests : req'[s].assurance = "code" => req'[s].pc \in VisitorPCs
<1>1. TypeOK /\ demo /\ ~privileged /\ realm = "hub" /\ issued = 0 /\ sessions["code"] = 0
  BY DEF TypeInv, DemoInv, Visiting
<1>2. \A s \in Requests : req[s].assurance = "code" => req[s].pc \in VisitorPCs
  BY DEF DemoInv
<1>3. req[t].assurance \in {"code", "demo"} /\ RequestOK(req[t])
  BY DEF TypeInv, TypeOK, RequestRecords
<1>4. req[t].pc \in VisitorPCs \cup {"clear", "find", "newUser", "session"}
  BY <1>2, <1>3 DEF RequestOK
<1>5. ~insertCode(t)
  BY <1>4 DEF insertCode, at, VisitorPCs
<1>6. sessions'["code"] = 0
  <2>1. CASE insertSession(t)
    <3>1. req[t].assurance = "demo"
      BY <1>2, <1>3, <2>1 DEF insertSession, at, VisitorPCs
    <3> QED
      BY <1>1, <2>1, <3>1 DEF insertSession, TypeOK
  <2>2. CASE eraseUser(t)
    BY <1>1, <2>2 DEF eraseUser
  <2> QED
    BY <1>1, <2>1, <2>2, StepWorld
<1>7. ASSUME req'[t].assurance = "code" PROVE req'[t].pc \in VisitorPCs
  <2>1. CASE req'[t].pc = "idle"
    BY <2>1 DEF VisitorPCs
  <2>2. CASE at(t, "idle") /\ req'[t].pc # "idle"
    <3>1. ASSUME NEW c \in Codes, Link(t, c) PROVE FALSE
      <4>1. c > issued
        BY <1>1 DEF Codes
      <4> QED
        BY <3>1, <4>1 DEF Link, CodesInv
    <3>2. req'[t].pc \in {"counted", "typePrivileged", "eraseCodes"}
      BY <1>1, <2>2, <3>1, OwnPlace DEF at, Arcs
    <3> QED
      BY <3>2 DEF VisitorPCs
  <2>3. CASE ~at(t, "idle") /\ req'[t].pc # "idle" /\ req[t].assurance = "code"
    <3>1. req[t].pc \in {"counted", "askPrivileged", "typePrivileged", "eraseCodes", "eraseUser"} /\ req[t].sawDemo
      BY <1>1, <1>2, <2>3 DEF VisitorPCs, at, DemoInv
    <3>2. CASE req[t].pc \in {"counted", "askPrivileged", "typePrivileged"}
      <4>1. req'[t].pc \in {"askPrivileged", "clear"}
        BY <1>1, <2>3, <3>1, <3>2, Forks DEF at
      <4>2. TypeInv'
        BY NextType DEF Next
      <4>3. req'[t].pc # "clear"
        BY <1>7, <4>2 DEF TypeInv, RequestOK
      <4> QED
        BY <4>1, <4>3 DEF VisitorPCs
    <3>3. CASE req[t].pc \in {"eraseCodes", "eraseUser"}
      <4>1. <<req[t].pc, req'[t].pc>> \in Arcs
        BY <2>3, <3>3, OwnPlace DEF at
      <4> QED
        BY <3>3, <4>1 DEF Arcs, VisitorPCs
    <3> QED
      BY <3>1, <3>2, <3>3
  <2>4. CASE ~at(t, "idle") /\ req'[t].pc # "idle" /\ req[t].assurance = "demo"
    <3>1. at(t, "typePrivileged")
      BY <1>7, <2>4, OwnPlace
    <3> QED
      BY <2>4, <3>1, <1>3 DEF RequestOK, at
  <2> QED
    BY <1>3, <2>1, <2>2, <2>3, <2>4
<1> QED
  BY <1>1, <1>2, <1>5, <1>6, <1>7, StepWorld, OthersStay

\* After that, with no sign-in that was late, only a real code signs in.
LEMMA StepReal ==
    ASSUME TypeInv, DemoInv, NEW t \in Requests, Step(t), ~Visiting, ~late
    PROVE  /\ sessions'["demo"] = 0
           /\ \A s \in Requests : req'[s].assurance = "code" /\ (~demo => req'[s].pc # "typePrivileged")
           /\ account'.exists /\ account'.demoOnly =>
                /\ sessions'["code"] = 0
                /\ \A s \in Requests : /\ req'[s].pc # "newUser"
                                       /\ req'[s].pc = "session" => req'[s].user # account'.id
<1>1. /\ TypeOK /\ sessions["demo"] = 0
      /\ \A s \in Requests : req[s].assurance = "code" /\ (~demo => req[s].pc # "typePrivileged")
  BY DEF TypeInv, DemoInv, proves, at
<1>2. sessions'["demo"] = 0
  <2>1. CASE insertSession(t)
    BY <1>1, <2>1 DEF insertSession, TypeOK
  <2>2. CASE eraseUser(t)
    BY <1>1, <2>2 DEF eraseUser
  <2> QED
    BY <1>1, <2>1, <2>2, StepWorld
<1>3. req'[t].assurance = "code"
  <2>1. ~(at(t, "typePrivileged") /\ ~privileged)
    BY <1>1 DEF Visiting, at
  <2> QED
    BY <1>1, <2>1, OwnPlace
<1>4. ~demo => req'[t].pc # "typePrivileged"
  <2>1. req'[t].pc = "typePrivileged" => at(t, "idle") /\ demo
    BY OwnPlace DEF Arcs, afterFind
  <2> QED
    BY <2>1
<1>5. ASSUME account'.exists, account'.demoOnly PROVE account' = account
  <2>1. CASE insertUser(t)
    BY <1>1, <1>5, <2>1 DEF insertUser, proves
  <2>2. CASE clearDemoOnly(t)
    <3>1. account' = [account EXCEPT !.demoOnly = FALSE] => ~account'.demoOnly
      BY <1>1 DEF TypeOK
    <3> QED
      BY <1>5, <2>2, <3>1 DEF clearDemoOnly
  <2>3. CASE eraseUser(t)
    <3>1. account' = [account EXCEPT !.exists = FALSE] => ~account'.exists
      BY <1>1 DEF TypeOK
    <3> QED
      BY <1>5, <2>3, <3>1 DEF eraseUser
  <2> QED
    BY <2>1, <2>2, <2>3, StepWorld
<1>6. ASSUME account'.exists, account'.demoOnly
      PROVE  /\ sessions'["code"] = 0
             /\ \A s \in Requests : /\ req'[s].pc # "newUser"
                                    /\ req'[s].pc = "session" => req'[s].user # account'.id
  <2>1. account' = account /\ account.exists /\ account.demoOnly
    BY <1>5, <1>6
  <2>2. /\ sessions["code"] = 0
        /\ \A s \in Requests : req[s].pc # "newUser" /\ (req[s].pc = "session" => req[s].user # account.id)
    BY <2>1 DEF DemoInv, at
  <2>3. realm = "hub"
    BY <2>1, <1>1, SignInAssumption DEF DemoInv, TypeOK
  <2>4. sessions'["code"] = 0
    <3>1. CASE insertSession(t)
      <4>1. req[t].pc = "session"
        BY <3>1 DEF insertSession, at
      <4>2. ~isAccount(req[t].user)
        BY <2>2, <4>1 DEF isAccount
      <4>3. UNCHANGED <<sessions, opened>>
        BY <2>3, <3>1, <4>2 DEF insertSession
      <4> QED
        BY <2>2, <4>3
    <3>2. CASE eraseUser(t)
      BY <2>2, <3>2 DEF eraseUser
    <3> QED
      BY <2>2, <3>1, <3>2, StepWorld
  <2>5. req'[t].pc # "newUser"
    <3>1. afterFind(t) # "newUser"
      BY <2>1 DEF afterFind
    <3> QED
      BY <3>1, OwnPlace DEF Arcs
  <2>6. ASSUME req'[t].pc = "session" PROVE req'[t].user # account'.id
    <3>1. afterFind(t) = "proved"
      BY <1>1, <2>1 DEF afterFind, proves
    <3>2. ~at(t, "newUser")
      BY <2>2 DEF at
    <3>3. <<req[t].pc, "session">> \in Arcs
      BY <2>6, <3>1, <3>2, OwnPlace DEF at
    <3>4. at(t, "spend") => req'[t].pc \in {"find", "idle"}
      BY <2>3, Forks
    <3>5. req[t].pc = "proved"
      BY <2>6, <3>3, <3>4 DEF Arcs, at
    <3>6. clearDemoOnly(t)
      <4>1. clearDemoOnly(t) \/ finish(t)
        BY <3>5
           DEF Step, Ask, limitIp, askPrivileged, readLive, takeAllowance, insertCode, mailed, mailFailed,
               withdrawPlatformCode, pickHit, dropEmail, dropHour, Type, Link, typePrivileged, clearCodes,
               wrongRoom, takeAttempt, countMiss, takeLinkAttempt, spendCode, findUser,
               insertUser, insertSession, Leave, eraseCodes, eraseUser, Refused, Die, began, at
      <4> QED
        BY <1>1, <2>6, <4>1, Finished, IdleIs
    <3>7. req'[t].user = req[t].user
      BY <1>1, <3>6, WentTo DEF clearDemoOnly
    <3>8. ~isAccount(req[t].user)
      <4>1. ASSUME isAccount(req[t].user) PROVE ~account'.demoOnly
        BY <1>1, <3>6, <4>1 DEF clearDemoOnly, TypeOK
      <4> QED
        BY <1>6, <4>1
    <3> QED
      BY <2>1, <3>7, <3>8 DEF isAccount
  <2> QED
    BY <2>1, <2>2, <2>4, <2>5, <2>6, OthersStay
<1> QED
  BY <1>1, <1>2, <1>3, <1>4, <1>6, OthersStay

LEMMA NextDemo == TypeInv /\ CodesInv /\ DemoInv /\ [Next]_vars => DemoInv'
<1> SUFFICES ASSUME TypeInv, CodesInv, DemoInv, [Next]_vars PROVE DemoInv'
  OBVIOUS
<1>1. TypeOK /\ \A t \in Requests : req[t].assurance \in {"code", "demo"} /\ RequestOK(req[t])
  BY DEF TypeInv, TypeOK, RequestRecords
<1>2. ASSUME UNCHANGED <<realm, demo, privileged, late, issued, account, sessions, req>> PROVE DemoInv'
  BY <1>2 DEF DemoInv, Visiting, at, proves
<1>3. ASSUME NEW t \in Requests, Step(t) PROVE DemoInv'
  <2>1. UNCHANGED <<realm, demo, privileged, late>>
    BY <1>3, StepWorld
  <2>2. Visiting' = Visiting
    BY <2>1 DEF Visiting
  <2> QED
    BY <1>3, <2>1, <2>2, StepMode, StepVisiting, StepReal DEF DemoInv, at, proves
\* An admin's change ends the demo sessions; who was signing in is noted.
<1>4. ASSUME Designate \/ LeaveDemo PROVE DemoInv'
  <2>1. UNCHANGED <<realm, issued, account, req>> /\ sessions'["demo"] = 0 /\ sessions'["code"] = sessions["code"]
    BY <1>1, <1>4 DEF Designate, LeaveDemo, demoSessionsEnd, TypeOK
  <2>2. ~Visiting' /\ (demo' => demo) /\ realm = "hub"
    BY <1>4 DEF Designate, LeaveDemo, Visiting, DemoInv
  <2>3. ASSUME ~late', NEW t \in Requests PROVE ~late /\ req[t].assurance = "code" /\ (~demo' => req[t].pc # "typePrivileged")
    <3>1. CASE Designate
      <4>1. ~late /\ ~signingInDemo("clear") /\ demo' = demo
        BY <2>3, <3>1 DEF Designate
      <4>2. req[t].assurance = "code"
        BY <1>1, <4>1 DEF signingInDemo, RequestOK, proves, at
      <4>3. ~demo => req[t].pc # "typePrivileged"
        BY <4>1 DEF DemoInv, Visiting, at
      <4> QED
        BY <4>1, <4>2, <4>3
    <3>2. CASE LeaveDemo
      <4>1. ~late /\ ~signingInDemo("typePrivileged")
        BY <2>3, <3>2 DEF LeaveDemo
      <4> QED
        BY <1>1, <4>1 DEF signingInDemo, RequestOK, proves, at
    <3> QED
      BY <1>4, <3>1, <3>2
  <2>4. ASSUME ~late', account.exists, account.demoOnly
        PROVE  /\ sessions["code"] = 0
               /\ \A t \in Requests : req[t].pc # "newUser" /\ (req[t].pc = "session" => req[t].user # account.id)
    <3>1. CASE Visiting
      BY <2>3, <2>4, <3>1 DEF DemoInv, VisitorPCs
    <3>2. CASE ~Visiting
      <4>1. ~late
        BY <1>4, <2>4 DEF Designate, LeaveDemo
      <4> QED
        BY <2>4, <3>2, <4>1 DEF DemoInv, at
    <3> QED
      BY <3>1, <3>2
  <2> QED
    BY <2>1, <2>2, <2>3, <2>4 DEF DemoInv, at, proves
<1>5. ASSUME NEW c \in Codes, Expire(c)
      PROVE  UNCHANGED <<realm, demo, privileged, late, issued, account, sessions, req>>
  BY <1>5 DEF Expire, world, history
<1>6. ASSUME MinutePasses \/ UNCHANGED vars
      PROVE  UNCHANGED <<realm, demo, privileged, late, issued, account, sessions, req>>
  BY <1>6 DEF MinutePasses, vars, world, history
<1> QED
  BY <1>2, <1>3, <1>4, <1>5, <1>6 DEF Next

\* A demo session outlives the moment its address becomes privileged, or the hub leaves
\* demo, only if its sign-in was in flight at that moment; and once a real code has signed
\* in, the account is not one that only a demo's any six digits made, with the same exception.
THEOREM DemoSessionsDoEnd == Spec => []DemoSessionsEnd
<1> DEFINE IInv == TypeInv /\ CodesInv /\ DemoInv
<1>1. ASSUME Init PROVE DemoInv
  <2>1. \A t \in Requests : req[t] = Idle
    BY <1>1 DEF Init
  <2>2. /\ demo => realm = "hub"
        /\ realm = "console" => privileged
        /\ issued = 0 /\ sessions["code"] = 0 /\ sessions["demo"] = 0 /\ ~account.exists
    BY <1>1 DEF Init
  <2> QED
    BY <2>1, <2>2, IdleIs DEF DemoInv, VisitorPCs, at, proves
<1>2. Init => IInv
  BY <1>1, InitType, InitCodes
<1>3. IInv /\ [Next]_vars => IInv'
  BY NextType, NextCodes, NextDemo
<1>4. ASSUME IInv PROVE DemoSessionsEnd
  <2>1. sessions \in [{"code", "demo"} -> Nat]
    BY <1>4 DEF TypeInv, TypeOK
  <2> QED
    BY <1>4, <2>1 DEF DemoInv, Visiting, DemoSessionsEnd
<1> QED
  BY <1>2, <1>3, <1>4, PTL DEF Spec

=============================================================================
