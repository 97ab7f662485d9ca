---------------------------- MODULE SessionsProofs ----------------------------
(***************************************************************************)
(* Theorems about Sessions, for any browsers, households, codes, lifetimes *)
(* and number of requests in flight.                                       *)
(*                                                                         *)
(* What is difficult is that a request acts on a row it read some steps    *)
(* ago.  RequestOK says what is left of that reading (Follows): the row of *)
(* its session is gone, or belongs to the same subject and was last        *)
(* refreshed hardly earlier than the request began.  Each step changes the *)
(* table as RowsKept allows, and that is all the other requests need       *)
(* (Bystander).                                                            *)
(***************************************************************************)
EXTENDS Sessions, TLAPS

InHandType ==
    [pc : ProgramCounters, op : Operations \cup {"none"}, client : Clients \cup {0},
     code : Codes \cup {NoCode}, target : Households \cup {0}, startedAt : Time, now : Time,
     cookie : SessionIds \cup {NoSession}, clear : BOOLEAN, session : SessionRow,
     sid : SessionIds \cup {NoSession}, house : Households \cup {0},
     new : SessionIds \cup {NoSession}]

\* What holds of a row, stored or read.
RowOK(row, time) ==
    /\ row \in SessionRow
    /\ (row.subject = "household") = (row.house # 0)
    /\ row.subject # "none" => row.expiresAt = row.lastSeen + LifetimeOf(row.subject)
    /\ row.lastSeen <= time /\ row.usedAt <= time
    /\ EndsInTime(row)

Reaches(row) ==
    row.subject = "household" =>
        row.expiresAt >= row.usedAt + HouseholdLifetime - RefreshInterval

\* What is left of what a request has read of its session's row.
Follows(q, rows) ==
    q.sid # NoSession /\ rows[q.sid].subject # "none" =>
        /\ rows[q.sid].subject = q.session.subject
        /\ q.pc = "household" => \/ rows[q.sid].lastSeen >= q.session.lastSeen
                                 \/ rows[q.sid].lastSeen + 1 >= q.startedAt
        /\ q.pc = "handle" /\ q.session.subject = "household" =>
              rows[q.sid].lastSeen + RefreshInterval >= q.startedAt

RequestOK(q, rows, last, time) ==
    /\ q \in InHandType
    /\ RowOK(q.session, time)
    /\ (q.sid # NoSession) = (q.session.subject # "none")
    /\ q.sid \in {NoSession, q.cookie}
    /\ q.cookie <= last /\ q.new <= last
    /\ q.now <= time
    /\ q.pc # "idle" => q.startedAt <= time /\ time <= q.startedAt + 1
    /\ q.pc \in {"find", "discard", "household", "refresh"} => q.cookie # NoSession
    /\ q.pc \in {"household", "refresh"} => q.session.subject = "household"
    /\ q.pc = "refresh" => q.startedAt <= q.now
    /\ q.house # 0 => q.op = "LogIn"
    /\ q.pc = "issue" /\ q.op = "LogIn" => q.house # 0
    /\ q.pc = "revoke" => q.sid # NoSession
    /\ Follows(q, rows)

TablesOK(rows, last, time) ==
    /\ rows \in [SessionIds -> SessionRow]
    /\ \A s \in SessionIds : /\ RowOK(rows[s], time) /\ Reaches(rows[s])
                             /\ s > last => rows[s].subject = "none"

IInv ==
    /\ code \in [Households -> Codes \cup {NoCode}]
    /\ issued \in 0 .. MaxSessions
    /\ cookie \in [Clients -> Cookie]
    /\ \A c \in Clients : cookie[c].sid <= issued
    /\ clock \in Time
    /\ TablesOK(session, issued, clock)
    /\ request \in [Requests -> InHandType]
    /\ \A r \in Requests : RequestOK(request[r], session, issued, clock)

\* A step leaves a row, removes it, or changes it without changing whose it is
\* or taking it back by more than one unit of time.
RowsKept(old, new, time) ==
    \A s \in SessionIds :
        \/ new[s] = old[s]
        \/ new[s] = NoRow
        \/ /\ old[s].subject # "none" /\ new[s].subject = old[s].subject
           /\ new[s].lastSeen >= old[s].lastSeen \/ new[s].lastSeen + 1 >= time

\* The invariant says what TypeOK says.
LEMMA InvIsTyped == IInv => TypeOK
<1> SUFFICES ASSUME IInv PROVE TypeOK
  OBVIOUS
<1>1. \A s \in SessionIds : (session[s].subject = "household") = (session[s].house # 0)
  <2> TAKE s \in SessionIds
  <2>1. TablesOK(session, issued, clock)
    BY DEF IInv
  <2>2. RowOK(session[s], clock)
    BY <2>1 DEF TablesOK
  <2> QED
    BY <2>2 DEF RowOK
<1>2. session \in [SessionIds -> SessionRow]
  BY DEF IInv, TablesOK
<1> QED
  BY <1>1, <1>2 DEF IInv, TypeOK, InHandType

(***************************************************************************)
(* Rows and requests.                                                      *)
(***************************************************************************)
\* A row that is not there is in order.
LEMMA NoRowOK ==
    ASSUME NEW time \in Time
    PROVE  RowOK(NoRow, time) /\ Reaches(NoRow) /\ NoRow.subject = "none"
  BY SessionsAssumption DEF NoRow, RowOK, Reaches, SessionRow, EndsInTime, Time, Households

\* Nothing is in the hands of an idle request.
LEMMA IdleOK ==
    ASSUME NEW rows, NEW last \in 0 .. MaxSessions, NEW time \in Time
    PROVE  RequestOK(Idle, rows, last, time)
<1>1. RowOK(NoRow, time) /\ NoRow \in SessionRow
  BY NoRowOK DEF RowOK
<1> QED
  BY <1>1, SessionsAssumption
  DEF Idle, RequestOK, Follows, InHandType, ProgramCounters, NoSession, NoRow, Time

\* Others may change the table under a request as long as they keep its rows.
LEMMA Bystander ==
    ASSUME NEW q, NEW old \in [SessionIds -> SessionRow], NEW new \in [SessionIds -> SessionRow],
           NEW last \in 0 .. MaxSessions, NEW time \in Time,
           RequestOK(q, old, last, time), RowsKept(old, new, time)
    PROVE  RequestOK(q, new, last, time)
<1>1. Follows(q, new)
  <2> SUFFICES ASSUME q.sid # NoSession, new[q.sid].subject # "none"
               PROVE  Follows(q, new)
    BY DEF Follows
  <2> DEFINE s == q.sid
  <2>1. /\ s \in SessionIds /\ q.startedAt \in Nat /\ q.session.lastSeen \in Nat
        /\ old[s].lastSeen \in Nat /\ new[s].lastSeen \in Nat /\ time \in Nat
    BY DEF RequestOK, InHandType, SessionRow, Time
  <2>2. new[s] # NoRow
    BY DEF NoRow
  <2>3. /\ old[s].subject # "none" /\ new[s].subject = old[s].subject
        /\ new[s].lastSeen >= old[s].lastSeen \/ new[s].lastSeen + 1 >= time
    BY <2>1, <2>2 DEF RowsKept
  <2>4. q.pc \in {"household", "handle"} => q.startedAt <= time
    BY DEF RequestOK
  <2> QED
    BY <2>1, <2>3, <2>4, SessionsAssumption DEF RequestOK, Follows
<1> QED
  BY <1>1 DEF RequestOK
(***************************************************************************)
(* Steps.  A step of a request is in order when what the request has in    *)
(* hand afterwards is, and when it keeps the rows of the others.           *)
(***************************************************************************)
\* What every step of a request but a login's insert has in common.
Moves(r, q) ==
    /\ request' = [request EXCEPT ![r] = q]
    /\ RequestOK(q, session', issued, clock)
    /\ TablesOK(session', issued, clock)
    /\ RowsKept(session, session', clock)
    /\ code' \in [Households -> Codes \cup {NoCode}]
    /\ cookie' \in [Clients -> Cookie]
    /\ \A c \in Clients : cookie'[c].sid <= issued
    /\ UNCHANGED <<issued, clock>>

\* Such a step keeps the invariant.
LEMMA MovesKeeps ==
    ASSUME IInv, NEW r \in Requests, NEW q, Moves(r, q)
    PROVE  IInv'
<1>1. \A p \in Requests : RequestOK(request'[p], session', issued, clock)
  <2> TAKE p \in Requests
  <2>1. CASE p = r
    BY <2>1 DEF Moves, IInv
  <2>2. CASE p # r
    <3>1. request'[p] = request[p]
      BY <2>2 DEF Moves, IInv
    <3>2. RequestOK(request[p], session, issued, clock)
      BY DEF IInv
    <3> QED
      BY <3>1, <3>2, Bystander DEF Moves, IInv, TablesOK
  <2> QED
    BY <2>1, <2>2
<1>2. request' \in [Requests -> InHandType]
  BY DEF Moves, IInv, RequestOK
<1> QED
  BY <1>1, <1>2 DEF Moves, IInv

\* A table nobody touches is kept.
LEMMA SameRowsKept == RowsKept(session, session, clock)
  BY DEF RowsKept

\* A step that leaves the tables alone needs only what is in hand afterwards.
LEMMA QuietMoves ==
    ASSUME IInv, NEW q, RequestOK(q, session, issued, clock), NEW r \in Requests,
           request' = [request EXCEPT ![r] = q],
           UNCHANGED <<code, session, issued, cookie, clock>>
    PROVE  Moves(r, q)
  BY SameRowsKept DEF Moves, IInv

\* Rows may go, whoever reads them.
LEMMA RemovalKeepsRows ==
    ASSUME IInv, NEW new \in [SessionIds -> SessionRow],
           \A s \in SessionIds : new[s] = session[s] \/ new[s] = NoRow
    PROVE  TablesOK(new, issued, clock) /\ RowsKept(session, new, clock)
<1>1. clock \in Time
  BY DEF IInv
<1> QED
  BY <1>1, NoRowOK DEF IInv, TablesOK, RowsKept

\* What the invariant says of a request and of the tables.
LEMMA Known ==
    ASSUME IInv, NEW r \in Requests
    PROVE  /\ RequestOK(request[r], session, issued, clock)
           /\ request[r] \in InHandType
           /\ clock \in Time /\ clock \in Nat /\ issued \in 0 .. MaxSessions
           /\ session \in [SessionIds -> SessionRow]
           /\ NoRow \in SessionRow
  BY NoRowOK DEF IInv, TablesOK, Time, RowOK

\* A request that is past the use of its session's row, and keeps what it read
\* of it or forgets all of it, needs nothing of the table.
LEMMA PastItsSession ==
    ASSUME NEW q, NEW old \in [SessionIds -> SessionRow], NEW new \in [SessionIds -> SessionRow],
           NEW last \in 0 .. MaxSessions, NEW time \in Time,
           RequestOK(q, old, last, time), q.pc # "idle", RowsKept(old, new, time)
    PROVE  /\ RequestOK([q EXCEPT !.pc = "respond"], new, last, time)
           /\ RequestOK([q EXCEPT !.pc = "respond", !.clear = TRUE], new, last, time)
           /\ RequestOK([q EXCEPT !.pc = "revokeAll"], new, last, time)
           /\ q.cookie # NoSession => RequestOK([q EXCEPT !.pc = "discard"], new, last, time)
           /\ RequestOK(Anonymous(q), new, last, time)
<1>1. RequestOK(q, new, last, time)
  BY Bystander
<1>2. q \in InHandType /\ NoRow \in SessionRow /\ RowOK(NoRow, time) /\ NoRow.subject = "none"
  BY NoRowOK DEF RequestOK, RowOK
<1>3. ASSUME NEW pc \in {"respond", "revokeAll", "discard"}, NEW clear \in BOOLEAN,
             pc = "discard" => q.cookie # NoSession
      PROVE  RequestOK([q EXCEPT !.pc = pc, !.clear = clear], new, last, time)
  <2> DEFINE n == [q EXCEPT !.pc = pc, !.clear = clear]
  <2>0. n \in InHandType
    BY <1>2 DEF InHandType, ProgramCounters
  <2>1. /\ n \in InHandType /\ n.pc = pc
        /\ n.op = q.op /\ n.startedAt = q.startedAt /\ n.now = q.now /\ n.cookie = q.cookie
        /\ n.session = q.session /\ n.sid = q.sid /\ n.house = q.house /\ n.new = q.new
    BY <2>0, <1>2 DEF InHandType
  <2> HIDE DEF n
  <2>2. Follows(n, new)
    BY <1>1, <2>1 DEF RequestOK, Follows
  <2>3. RequestOK(n, new, last, time)
    BY <1>1, <1>3, <2>1, <2>2 DEF RequestOK
  <2> QED
    BY <2>3 DEF n
<1>4. RequestOK(Anonymous(q), new, last, time)
  <2> DEFINE n == Anonymous(q)
  <2>1. /\ n \in InHandType /\ n.pc = "handle"
        /\ n.op = q.op /\ n.startedAt = q.startedAt /\ n.now = q.now /\ n.cookie = q.cookie
        /\ n.session = NoRow /\ n.sid = NoSession /\ n.house = q.house /\ n.new = q.new
    BY <1>2 DEF Anonymous, InHandType, ProgramCounters
  <2> HIDE DEF n
  <2>2. RequestOK(n, new, last, time)
    BY <1>1, <1>2, <2>1 DEF RequestOK, Follows
  <2> QED
    BY <2>2 DEF n
<1>5. /\ [q EXCEPT !.pc = "respond"] = [q EXCEPT !.pc = "respond", !.clear = q.clear]
      /\ [q EXCEPT !.pc = "revokeAll"] = [q EXCEPT !.pc = "revokeAll", !.clear = q.clear]
      /\ [q EXCEPT !.pc = "discard"] = [q EXCEPT !.pc = "discard", !.clear = q.clear]
      /\ q.clear \in BOOLEAN
  BY <1>2 DEF InHandType
<1> QED
  BY <1>3, <1>4, <1>5
\* Nor does one whose handler has failed.
LEMMA FailedOK ==
    ASSUME NEW q, NEW rows \in [SessionIds -> SessionRow],
           NEW last \in 0 .. MaxSessions, NEW time \in Time,
           RequestOK(q, rows, last, time), q.pc # "idle"
    PROVE  /\ RequestOK(Failed(q), rows, last, time)
           /\ Failed(q).client = q.client /\ Failed(q).cookie = q.cookie
           /\ Failed(q).new = NoSession /\ Failed(q).pc = "respond"
           /\ Failed(q).session = q.session
<1> DEFINE n == Failed(q)
<1>1. q \in InHandType /\ NoSession \in SessionIds \cup {NoSession} /\ "respond" \in ProgramCounters
  BY DEF RequestOK, ProgramCounters
<1>2. /\ n \in InHandType /\ n.pc = "respond" /\ n.new = NoSession
      /\ n.op = q.op /\ n.startedAt = q.startedAt /\ n.now = q.now /\ n.cookie = q.cookie
      /\ n.session = q.session /\ n.sid = q.sid /\ n.house = q.house /\ n.client = q.client
  BY <1>1 DEF Failed, InHandType
<1> HIDE DEF n
<1>3. NoSession <= last
  BY DEF NoSession
<1>4. Follows(n, rows)
  BY <1>2 DEF RequestOK, Follows
<1>5. RequestOK(n, rows, last, time)
  BY <1>2, <1>3, <1>4 DEF RequestOK
<1> QED
  BY <1>2, <1>5 DEF n

(***************************************************************************)
(* Requests that come, and what resolving their session makes of them.     *)
(***************************************************************************)
\* What a request is received with has its type.
LEMMA ReceivedType ==
    ASSUME NEW q \in InHandType, NEW pc \in ProgramCounters, NEW op \in Operations,
           NEW c \in Clients, NEW k \in Codes \cup {NoCode}, NEW h \in Households \cup {0},
           NEW t \in Time, NEW s \in SessionIds \cup {NoSession}
    PROVE  [q EXCEPT !.pc = pc, !.op = op, !.client = c, !.code = k, !.target = h,
                     !.startedAt = t, !.cookie = s] \in InHandType
  BY DEF InHandType

\* A request arrives with a cookie of an issued session or none.
LEMMA ReceiveMoves ==
    ASSUME IInv, NEW r \in Requests, Receive(r)
    PROVE  \E q : Moves(r, q)
<1>1. PICK c \in Clients, op \in Operations, k \in Codes \cup {NoCode}, h \in Households \cup {0} :
        Goes(r, [Idle EXCEPT !.pc = IF Presented(c) = NoSession THEN "handle" ELSE "find",
                             !.op = op, !.client = c, !.code = k, !.target = h,
                             !.startedAt = clock, !.cookie = Presented(c)])
  BY DEF Receive
<1> DEFINE q == [Idle EXCEPT !.pc = IF Presented(c) = NoSession THEN "handle" ELSE "find",
                             !.op = op, !.client = c, !.code = k, !.target = h,
                             !.startedAt = clock, !.cookie = Presented(c)]
<1>2. request' = [request EXCEPT ![r] = q]
  BY <1>1 DEF Goes
<1>3. /\ clock \in Time /\ clock \in Nat /\ issued \in 0 .. MaxSessions
      /\ RowOK(NoRow, clock) /\ NoRow \in SessionRow /\ NoRow.subject = "none"
  BY NoRowOK DEF IInv, Time, RowOK
<1>4. Presented(c) \in SessionIds \cup {NoSession} /\ Presented(c) <= issued
  BY <1>3 DEF IInv, Presented, Cookie, NoSession
<1>5. Idle \in InHandType
  BY <1>3, IdleOK DEF RequestOK
<1>6. RequestOK(q, session, issued, clock)
  <2>1. q \in InHandType
    <3>1. (IF Presented(c) = NoSession THEN "handle" ELSE "find") \in ProgramCounters
      BY DEF ProgramCounters
    <3> DEFINE pc == IF Presented(c) = NoSession THEN "handle" ELSE "find"
               presented == Presented(c)
    <3>2. pc \in ProgramCounters /\ presented \in SessionIds \cup {NoSession} /\ clock \in Time
      BY <1>3, <1>4, <3>1
    <3> HIDE DEF pc, presented
    <3>3. [Idle EXCEPT !.pc = pc, !.op = op, !.client = c, !.code = k, !.target = h,
                       !.startedAt = clock, !.cookie = presented] \in InHandType
      BY <1>5, <3>2, ReceivedType
    <3> QED
      BY <3>3 DEF pc, presented
  <2>2. /\ q.pc = IF Presented(c) = NoSession THEN "handle" ELSE "find"
        /\ q.startedAt = clock /\ q.cookie = Presented(c)
        /\ q.session = Idle.session /\ q.sid = Idle.sid /\ q.now = Idle.now
        /\ q.house = Idle.house /\ q.new = Idle.new
    BY <1>5 DEF InHandType
  <2>3. /\ Idle.session = NoRow /\ Idle.sid = NoSession /\ Idle.now = 0
        /\ Idle.house = 0 /\ Idle.new = NoSession
    BY DEF Idle
  <2> HIDE DEF q
  <2> QED
    BY <1>3, <1>4, <2>1, <2>2, <2>3 DEF RequestOK, Follows, NoSession
<1>7. UNCHANGED <<code, session, issued, cookie, clock>>
  BY DEF Receive
<1>8. Moves(r, q)
  BY <1>2, <1>6, <1>7, QuietMoves
<1> QED
  BY <1>8

\* FindSession leaves the table alone and reads a row of it.
LEMMA FindSessionMoves ==
    ASSUME IInv, NEW r \in Requests, FindSession(r)
    PROVE  \E q : Moves(r, q)
<1> DEFINE old == request[r]
           row == session[old.cookie]
<1>1. /\ old.pc = "find" /\ RequestOK(old, session, issued, clock) /\ old \in InHandType
      /\ clock \in Time /\ clock \in Nat /\ issued \in 0 .. MaxSessions
      /\ session \in [SessionIds -> SessionRow]
  BY Known DEF FindSession, At
<1>2. UNCHANGED <<code, session, issued, cookie, clock>>
  BY DEF FindSession
<1>3. old.cookie \in SessionIds
  BY <1>1 DEF RequestOK, InHandType
<1>4. RowOK(row, clock) /\ row \in SessionRow
  BY <1>3 DEF IInv, TablesOK, RowOK
<1>5. CASE ~Stored(old.cookie)
  <2>1. request' = [request EXCEPT ![r] = Anonymous(old)]
    BY <1>5 DEF FindSession, Goes
  <2>2. RequestOK(Anonymous(old), session, issued, clock)
    BY <1>1, SameRowsKept, PastItsSession
  <2> QED
    BY <1>2, <2>1, <2>2, QuietMoves
<1>6. CASE Stored(old.cookie) /\ IsExpired(row, clock)
  <2>1. request' = [request EXCEPT ![r] = [old EXCEPT !.pc = "discard"]]
    BY <1>6 DEF FindSession, Goes
  <2>2. RequestOK([old EXCEPT !.pc = "discard"], session, issued, clock)
    <3>1. old.cookie # NoSession
      BY <1>3 DEF SessionIds, NoSession
    <3> QED
      BY <1>1, <3>1, SameRowsKept, PastItsSession
  <2> QED
    BY <1>2, <2>1, <2>2, QuietMoves
<1>7. CASE Stored(old.cookie) /\ ~IsExpired(row, clock)
  <2> DEFINE q == [old EXCEPT !.session = row, !.sid = old.cookie,
                              !.pc = IF row.subject = "household" THEN "household" ELSE "handle",
                              !.now = IF row.subject = "household" THEN old.now ELSE clock]
  <2>1. request' = [request EXCEPT ![r] = q]
    BY <1>1, <1>7 DEF FindSession, Goes, Admitted, NeedsRefresh, InHandType
  <2>2. q \in InHandType
    <3>1. ASSUME NEW pc \in ProgramCounters, NEW now \in Time, NEW s \in SessionRow,
                 NEW sid \in SessionIds
          PROVE  [old EXCEPT !.session = s, !.sid = sid, !.pc = pc, !.now = now] \in InHandType
      BY <1>1 DEF InHandType
    <3>2. /\ (IF row.subject = "household" THEN "household" ELSE "handle") \in ProgramCounters
          /\ (IF row.subject = "household" THEN old.now ELSE clock) \in Time
      BY <1>1 DEF InHandType, ProgramCounters
    <3> QED
      BY <1>3, <1>4, <3>1, <3>2
  <2>3. /\ q.pc = IF row.subject = "household" THEN "household" ELSE "handle"
        /\ q.now = IF row.subject = "household" THEN old.now ELSE clock
        /\ q.session = row /\ q.sid = old.cookie /\ q.cookie = old.cookie /\ q.new = old.new
        /\ q.op = old.op /\ q.house = old.house /\ q.startedAt = old.startedAt
    BY <1>1 DEF InHandType
  <2> HIDE DEF q
  <2>4. Follows(q, session)
    BY <1>3, <1>4, <2>3 DEF Follows, SessionRow, Time
  <2>5. row.subject # "none" /\ old.cookie # NoSession
    BY <1>3, <1>7 DEF Stored, SessionIds, NoSession
  <2>6. RequestOK(q, session, issued, clock)
    BY <1>1, <1>4, <2>2, <2>3, <2>4, <2>5 DEF RequestOK
  <2> QED
    BY <1>2, <2>1, <2>6, QuietMoves
<1> QED
  BY <1>5, <1>6, <1>7

\* A request whose session needs no refresh is admitted on what it has read.
LEMMA FindHouseholdMoves ==
    ASSUME IInv, NEW r \in Requests, FindHousehold(r)
    PROVE  \E q : Moves(r, q)
<1> DEFINE old == request[r]
<1>1. /\ old.pc = "household" /\ RequestOK(old, session, issued, clock) /\ old \in InHandType
      /\ clock \in Time /\ clock \in Nat /\ issued \in 0 .. MaxSessions
      /\ session \in [SessionIds -> SessionRow]
  BY Known DEF FindHousehold, At
<1>2. UNCHANGED <<code, session, issued, cookie, clock>>
  BY DEF FindHousehold
<1>3. CASE ~Exists(old.session.house)
  <2>1. request' = [request EXCEPT ![r] = [old EXCEPT !.pc = "discard"]]
    BY <1>3 DEF FindHousehold, Goes
  <2>2. RequestOK([old EXCEPT !.pc = "discard"], session, issued, clock)
    BY <1>1, SameRowsKept, PastItsSession DEF RequestOK
  <2> QED
    BY <1>2, <2>1, <2>2, QuietMoves
<1>4. CASE Exists(old.session.house)
  <2> DEFINE q == Admitted(old, old.session)
  <2>1. request' = [request EXCEPT ![r] = q]
    BY <1>4 DEF FindHousehold, Goes
  <2>2. q \in InHandType
    <3>1. \A pc \in ProgramCounters : [old EXCEPT !.pc = pc, !.now = clock] \in InHandType
      BY <1>1 DEF InHandType
    <3>2. (IF NeedsRefresh(old.session, clock) THEN "refresh" ELSE "handle") \in ProgramCounters
      BY DEF ProgramCounters
    <3> QED
      BY <3>1, <3>2 DEF Admitted
  <2>3. /\ q.pc = IF NeedsRefresh(old.session, clock) THEN "refresh" ELSE "handle"
        /\ q.now = clock
        /\ q.session = old.session /\ q.sid = old.sid /\ q.cookie = old.cookie /\ q.new = old.new
        /\ q.op = old.op /\ q.house = old.house /\ q.startedAt = old.startedAt
    BY <1>1 DEF Admitted, InHandType
  <2> HIDE DEF q
  <2>4. /\ old.session.subject = "household" /\ old.startedAt <= clock
        /\ old.startedAt \in Nat /\ old.session.lastSeen \in Nat
    BY <1>1 DEF RequestOK, InHandType, SessionRow, Time
  <2>5. Follows(q, session)
    <3> SUFFICES ASSUME q.sid # NoSession, session[q.sid].subject # "none"
                 PROVE  Follows(q, session)
      BY DEF Follows
    <3>1. q.sid \in SessionIds /\ session[q.sid].lastSeen \in Nat
      BY <1>1, <2>2 DEF InHandType, SessionRow, Time
    <3>2. /\ session[q.sid].subject = old.session.subject
          /\ \/ session[q.sid].lastSeen >= old.session.lastSeen
             \/ session[q.sid].lastSeen + 1 >= old.startedAt
      BY <1>1, <2>3 DEF RequestOK, Follows
    <3>3. q.pc = "handle" => session[q.sid].lastSeen + RefreshInterval >= old.startedAt
      BY <1>1, <2>3, <2>4, <3>1, <3>2, SessionsAssumption DEF NeedsRefresh
    <3> QED
      BY <2>3, <3>2, <3>3 DEF Follows
  <2>6. RequestOK(q, session, issued, clock)
    BY <1>1, <2>2, <2>3, <2>4, <2>5 DEF RequestOK
  <2> QED
    BY <1>2, <2>1, <2>6, QuietMoves
<1> QED
  BY <1>3, <1>4

(***************************************************************************)
(* Refreshes and handlers.                                                 *)
(***************************************************************************)
\* A row that changes in the hands of its own session keeps the rest as it is.
LEMMA OneRowChanges ==
    ASSUME IInv, NEW s \in SessionIds, NEW row, session[s].subject # "none",
           RowOK(row, clock), Reaches(row), row.subject = session[s].subject,
           row.lastSeen >= session[s].lastSeen \/ row.lastSeen + 1 >= clock
    PROVE  /\ [session EXCEPT ![s] = row] \in [SessionIds -> SessionRow]
           /\ TablesOK([session EXCEPT ![s] = row], issued, clock)
           /\ RowsKept(session, [session EXCEPT ![s] = row], clock)
  BY DEF IInv, TablesOK, RowsKept, RowOK

\* What a refresh writes.
LEMMA RefreshedFields ==
    ASSUME NEW row \in SessionRow, NEW t \in Time
    PROVE  /\ Refreshed(row, t) \in SessionRow
           /\ Refreshed(row, t).expiresAt = t + LifetimeOf(row.subject)
           /\ Refreshed(row, t).lastSeen = t
           /\ Refreshed(row, t).subject = row.subject
           /\ Refreshed(row, t).house = row.house
           /\ Refreshed(row, t).usedAt = row.usedAt
<1>1. LifetimeOf(row.subject) \in Nat /\ t \in Nat
  BY SessionsAssumption DEF LifetimeOf, Time
<1>2. t + LifetimeOf(row.subject) \in Nat
  BY <1>1
<1>3. ASSUME NEW e \in Nat
      PROVE  [row EXCEPT !.expiresAt = e, !.lastSeen = t] \in SessionRow
  BY DEF SessionRow
<1> QED
  BY <1>2, <1>3 DEF Refreshed, SessionRow

\* A refresh takes the row at most one unit back, and never short of the reach
\* of a use that a request in flight has noted meanwhile.
LEMMA RefreshMoves ==
    ASSUME IInv, NEW r \in Requests, Refresh(r)
    PROVE  \E q : Moves(r, q)
<1> DEFINE old == request[r]
           q == [old EXCEPT !.pc = "handle", !.session = Refreshed(old.session, old.now)]
<1>1. /\ old.pc = "refresh" /\ RequestOK(old, session, issued, clock) /\ old \in InHandType
      /\ clock \in Time /\ clock \in Nat /\ issued \in 0 .. MaxSessions
      /\ session \in [SessionIds -> SessionRow]
  BY Known DEF Refresh, At
<1>2. /\ request' = [request EXCEPT ![r] = q]
      /\ UNCHANGED <<code, issued, cookie, clock>>
  BY DEF Refresh, Goes
<1>3. /\ old.session.subject = "household" /\ old.sid \in SessionIds
      /\ old.now <= clock /\ old.startedAt <= old.now /\ clock <= old.startedAt + 1
      /\ old.now \in Nat /\ old.startedAt \in Nat /\ old.now \in Time
  BY <1>1 DEF RequestOK, InHandType, Time, NoSession
<1>4. ASSUME NEW row \in SessionRow, RowOK(row, clock), row.subject = "household"
      PROVE  /\ RowOK(Refreshed(row, old.now), clock)
             /\ Reaches(Refreshed(row, old.now))
             /\ Refreshed(row, old.now).subject = "household"
             /\ Refreshed(row, old.now).lastSeen = old.now
  <2> DEFINE n == Refreshed(row, old.now)
  <2>1. LifetimeOf("household") = HouseholdLifetime /\ HouseholdLifetime \in Nat
    BY SessionsAssumption DEF LifetimeOf
  <2>3. n \in SessionRow
    BY <1>3, <1>4, RefreshedFields
  <2>4. /\ n.subject = row.subject /\ n.house = row.house /\ n.usedAt = row.usedAt
        /\ n.expiresAt = old.now + HouseholdLifetime /\ n.lastSeen = old.now
    BY <1>3, <1>4, <2>1, RefreshedFields
  <2>5. row.usedAt <= clock /\ row.usedAt \in Nat
    BY <1>4 DEF RowOK, SessionRow, Time
  <2> HIDE DEF n
  <2>6. RowOK(n, clock)
    BY <1>3, <1>4, <2>1, <2>3, <2>4, <2>5 DEF RowOK, EndsInTime
  <2>7. Reaches(n)
    BY <1>1, <1>3, <2>1, <2>4, <2>5, SessionsAssumption DEF Reaches
  <2> QED
    BY <1>4, <2>4, <2>6, <2>7 DEF n
<1>5. RowOK(old.session, clock) /\ old.session \in SessionRow
  BY <1>1 DEF RequestOK, RowOK
<1>6. /\ q \in InHandType
      /\ q.pc = "handle" /\ q.session = Refreshed(old.session, old.now)
      /\ q.sid = old.sid /\ q.cookie = old.cookie /\ q.new = old.new /\ q.now = old.now
      /\ q.op = old.op /\ q.house = old.house /\ q.startedAt = old.startedAt
  <2>1. Refreshed(old.session, old.now) \in SessionRow
    BY <1>3, <1>4, <1>5 DEF RowOK
  <2>2. q \in InHandType
    BY <1>1, <2>1 DEF InHandType, ProgramCounters
  <2> QED
    BY <1>1, <2>2 DEF InHandType
<1>7. RowOK(q.session, clock) /\ q.session.subject = "household"
  BY <1>3, <1>4, <1>5, <1>6
<1> HIDE DEF q
<1>8. CASE Stored(old.sid)
  <2> DEFINE row == Refreshed(session[old.sid], old.now)
  <2>1. session' = [session EXCEPT ![old.sid] = row]
    BY <1>8 DEF Refresh
  <2>2. /\ RowOK(session[old.sid], clock) /\ session[old.sid] \in SessionRow
        /\ session[old.sid].subject = "household"
    BY <1>1, <1>3, <1>8 DEF IInv, TablesOK, RowOK, RequestOK, Follows, Stored, SessionIds, NoSession
  <2>3. /\ RowOK(row, clock) /\ Reaches(row) /\ row.subject = "household"
        /\ row.lastSeen = old.now
    BY <1>4, <2>2
  <2> HIDE DEF row
  <2>4. /\ session' \in [SessionIds -> SessionRow] /\ TablesOK(session', issued, clock)
        /\ RowsKept(session, session', clock)
    <3>1. /\ session[old.sid].subject # "none" /\ row.subject = session[old.sid].subject
          /\ row.lastSeen + 1 >= clock
      BY <1>1, <1>3, <2>2, <2>3
    <3> QED
      BY <1>3, <2>1, <2>3, <3>1, OneRowChanges
  <2>5. session'[old.sid] = row
    BY <1>1, <1>3, <2>1
  <2>6. Follows(q, session')
    BY <1>3, <1>6, <1>7, <2>3, <2>5, SessionsAssumption DEF Follows
  <2>7. RequestOK(q, session', issued, clock)
    BY <1>1, <1>6, <1>7, <2>6 DEF RequestOK
  <2> QED
    BY <1>2, <2>4, <2>7 DEF Moves, IInv
<1>9. CASE ~Stored(old.sid)
  <2>1. session' = session
    BY <1>9 DEF Refresh
  <2>2. Follows(q, session)
    BY <1>6, <1>9 DEF Follows, Stored
  <2>3. RequestOK(q, session, issued, clock)
    BY <1>1, <1>6, <1>7, <2>2 DEF RequestOK
  <2> QED
    BY <1>2, <2>1, <2>3, QuietMoves
<1> QED
  BY <1>8, <1>9

\* A request of the household notes its use on a row that reaches far enough:
\* it was refreshed less than an interval before the request began.
LEMMA MeMoves ==
    ASSUME IInv, NEW r \in Requests, Me(r)
    PROVE  \E q : Moves(r, q)
<1> DEFINE old == request[r]
           q == [old EXCEPT !.pc = "respond"]
           row == [session[old.sid] EXCEPT !.usedAt = Later(@, old.startedAt)]
<1>1. /\ old.pc = "handle" /\ RequestOK(old, session, issued, clock) /\ old \in InHandType
      /\ clock \in Time /\ clock \in Nat /\ issued \in 0 .. MaxSessions
      /\ session \in [SessionIds -> SessionRow]
  BY Known DEF Me, Handling, At
<1>2. /\ request' = [request EXCEPT ![r] = q]
      /\ UNCHANGED <<code, issued, cookie, clock>>
  BY DEF Me, Goes
<1>3. CASE old.session.subject = "household" /\ Stored(old.sid)
  <2>1. session' = [session EXCEPT ![old.sid] = row]
    BY <1>3 DEF Me
  <2>2. old.sid \in SessionIds
    BY <1>1, <1>3 DEF RequestOK, InHandType
  <2>3. /\ RowOK(session[old.sid], clock) /\ session[old.sid] \in SessionRow
        /\ Reaches(session[old.sid]) /\ session[old.sid].subject = "household"
        /\ session[old.sid].lastSeen + RefreshInterval >= old.startedAt
    BY <1>1, <1>3, <2>2 DEF IInv, TablesOK, RowOK, RequestOK, Follows, Stored
  <2>4. old.startedAt <= clock /\ old.startedAt \in Time /\ old.startedAt \in Nat
    BY <1>1 DEF RequestOK, InHandType, Time
  <2>5. /\ row \in SessionRow /\ row.usedAt = Later(session[old.sid].usedAt, old.startedAt)
        /\ row.subject = session[old.sid].subject /\ row.house = session[old.sid].house
        /\ row.expiresAt = session[old.sid].expiresAt /\ row.lastSeen = session[old.sid].lastSeen
        /\ row.issuedAt = session[old.sid].issuedAt
    BY <2>3, <2>4 DEF SessionRow, Later
  <2> HIDE DEF row
  <2>6. /\ session[old.sid].lastSeen \in Nat /\ session[old.sid].usedAt \in Nat
        /\ session[old.sid].expiresAt = session[old.sid].lastSeen + HouseholdLifetime
    BY <2>3 DEF RowOK, SessionRow, Time, LifetimeOf
  <2>7. RowOK(row, clock)
    BY <2>3, <2>4, <2>5, <2>6 DEF RowOK, EndsInTime, Later
  <2>8. Reaches(row)
    BY <2>3, <2>4, <2>5, <2>6, SessionsAssumption DEF Reaches, Later
  <2>9. /\ session' \in [SessionIds -> SessionRow] /\ TablesOK(session', issued, clock)
        /\ RowsKept(session, session', clock)
    <3>1. /\ session[old.sid].subject # "none" /\ row.subject = session[old.sid].subject
          /\ row.lastSeen >= session[old.sid].lastSeen
      BY <2>3, <2>5, <2>6
    <3> QED
      BY <2>1, <2>2, <2>7, <2>8, <3>1, OneRowChanges
  <2>10. RequestOK(q, session', issued, clock)
    BY <1>1, <2>9, PastItsSession
  <2> QED
    BY <1>2, <2>9, <2>10 DEF Moves, IInv
<1>4. CASE ~(old.session.subject = "household" /\ Stored(old.sid))
  <2>1. session' = session
    BY <1>4 DEF Me
  <2>2. RequestOK(q, session, issued, clock)
    BY <1>1, SameRowsKept, PastItsSession
  <2> QED
    BY <1>2, <2>1, <2>2, QuietMoves
<1> QED
  BY <1>3, <1>4

\* Steps that remove rows: whoever reads them finds them gone.
LEMMA RemovalMoves ==
    ASSUME IInv, NEW r \in Requests,
           \/ DiscardSession(r) \/ RevokePrevious(r) \/ LogOut(r) \/ DeleteForHousehold(r)
    PROVE  \E q : Moves(r, q)
<1> DEFINE old == request[r]
<1>1. /\ old.pc # "idle" /\ RequestOK(old, session, issued, clock) /\ old \in InHandType
      /\ clock \in Time /\ clock \in Nat /\ issued \in 0 .. MaxSessions
      /\ session \in [SessionIds -> SessionRow] /\ NoRow \in SessionRow
  BY Known DEF DiscardSession, RevokePrevious, LogOut, DeleteForHousehold, Handling, At
<1>2. UNCHANGED <<code, issued, cookie, clock>>
  BY DEF DiscardSession, RevokePrevious, LogOut, DeleteForHousehold
<1>3. /\ session' \in [SessionIds -> SessionRow]
      /\ \A s \in SessionIds : session'[s] = session[s] \/ session'[s] = NoRow
  BY <1>1 DEF DiscardSession, RevokePrevious, LogOut, DeleteForHousehold
<1>4. TablesOK(session', issued, clock) /\ RowsKept(session, session', clock)
  BY <1>3, RemovalKeepsRows
<1>5. PICK q : /\ request' = [request EXCEPT ![r] = q]
               /\ q \in {Anonymous(old), [old EXCEPT !.pc = "respond"],
                         [old EXCEPT !.pc = "respond", !.clear = TRUE]}
  BY DEF DiscardSession, RevokePrevious, LogOut, DeleteForHousehold, Goes
<1>6. RequestOK(q, session', issued, clock)
  <2>1. /\ RequestOK([old EXCEPT !.pc = "respond"], session', issued, clock)
        /\ RequestOK([old EXCEPT !.pc = "respond", !.clear = TRUE], session', issued, clock)
        /\ RequestOK(Anonymous(old), session', issued, clock)
    BY <1>1, <1>3, <1>4, PastItsSession
  <2> QED
    BY <1>5, <2>1
<1> QED
  BY <1>2, <1>3, <1>4, <1>5, <1>6 DEF Moves, IInv

\* A login goes on with the household of its code, the admin's with none.
LEMMA LogInMoves ==
    ASSUME IInv, NEW r \in Requests, LogInFindByCode(r) \/ AdminLogIn(r)
    PROVE  \E q : Moves(r, q)
<1> DEFINE old == request[r]
           found(h) == [old EXCEPT !.pc = "issue", !.house = h, !.now = clock]
<1>1. /\ old.pc = "handle" /\ RequestOK(old, session, issued, clock) /\ old \in InHandType
      /\ clock \in Time /\ clock \in Nat /\ issued \in 0 .. MaxSessions
      /\ session \in [SessionIds -> SessionRow]
  BY Known DEF LogInFindByCode, AdminLogIn, Handling, At
<1>2. UNCHANGED <<code, session, issued, cookie, clock>>
  BY DEF LogInFindByCode, AdminLogIn
<1>3. \/ /\ old.op = "LogIn"
         /\ \E h \in Households : request' = [request EXCEPT ![r] = found(h)]
      \/ request' = [request EXCEPT ![r] = [old EXCEPT !.pc = "respond"]]
      \/ /\ old.op = "AdminLogIn"
         /\ request' = [request EXCEPT ![r] = [old EXCEPT !.pc = "issue", !.now = clock]]
  BY DEF LogInFindByCode, AdminLogIn, Handling, Goes
<1>4. ASSUME old.op = "LogIn", NEW h \in Households
      PROVE  RequestOK(found(h), session, issued, clock)
  <2> DEFINE q == found(h)
  <2>1. q \in InHandType
    BY <1>1 DEF InHandType, ProgramCounters
  <2>2. /\ q.pc = "issue" /\ q.now = clock /\ q.house = h
        /\ q.session = old.session /\ q.sid = old.sid /\ q.cookie = old.cookie /\ q.new = old.new
        /\ q.op = old.op /\ q.startedAt = old.startedAt
    BY <1>1 DEF InHandType
  <2>3. h # 0
    BY DEF Households
  <2> HIDE DEF q
  <2>4. RequestOK(q, session, issued, clock)
    BY <1>1, <1>4, <2>1, <2>2, <2>3 DEF RequestOK, Follows
  <2> QED
    BY <2>4 DEF q
<1>5. ASSUME old.op = "AdminLogIn"
      PROVE  RequestOK([old EXCEPT !.pc = "issue", !.now = clock], session, issued, clock)
  <2> DEFINE q == [old EXCEPT !.pc = "issue", !.now = clock]
  <2>1. q \in InHandType
    BY <1>1 DEF InHandType, ProgramCounters
  <2>2. /\ q.pc = "issue" /\ q.now = clock /\ q.house = old.house
        /\ q.session = old.session /\ q.sid = old.sid /\ q.cookie = old.cookie /\ q.new = old.new
        /\ q.op = old.op /\ q.startedAt = old.startedAt
    BY <1>1 DEF InHandType
  <2> HIDE DEF q
  <2>3. RequestOK(q, session, issued, clock)
    BY <1>1, <1>5, <2>1, <2>2 DEF RequestOK, Follows
  <2> QED
    BY <2>3 DEF q
<1>6. RequestOK([old EXCEPT !.pc = "respond"], session, issued, clock)
  BY <1>1, SameRowsKept, PastItsSession
<1> HIDE DEF found
<1>7. \E q : /\ request' = [request EXCEPT ![r] = q]
             /\ RequestOK(q, session, issued, clock)
  BY <1>3, <1>4, <1>5, <1>6
<1> QED
  BY <1>2, <1>7, QuietMoves

\* The admin's operations on households leave the rows where they are; a
\* deleted household's become orphans.
LEMMA HouseholdMoves ==
    ASSUME IInv, NEW r \in Requests,
           AssignNewCode(r) \/ DeleteHousehold(r) \/ CreateHousehold(r)
    PROVE  \E q : Moves(r, q)
<1> DEFINE old == request[r]
           orphaned(row) == [row EXCEPT !.orphan = TRUE]
<1>1. /\ old.pc = "handle" /\ RequestOK(old, session, issued, clock) /\ old \in InHandType
      /\ clock \in Time /\ clock \in Nat /\ issued \in 0 .. MaxSessions
      /\ session \in [SessionIds -> SessionRow]
  BY Known DEF AssignNewCode, DeleteHousehold, CreateHousehold, Handling, At
<1>2. UNCHANGED <<issued, cookie, clock>>
  BY DEF AssignNewCode, DeleteHousehold, CreateHousehold
<1>3. code' \in [Households -> Codes \cup {NoCode}]
  BY DEF AssignNewCode, DeleteHousehold, CreateHousehold, IInv
<1>4. ASSUME NEW row \in SessionRow
      PROVE  /\ orphaned(row) \in SessionRow
             /\ orphaned(row).subject = row.subject /\ orphaned(row).house = row.house
             /\ orphaned(row).expiresAt = row.expiresAt /\ orphaned(row).lastSeen = row.lastSeen
             /\ orphaned(row).usedAt = row.usedAt /\ orphaned(row).issuedAt = row.issuedAt
  BY DEF SessionRow
<1>5. /\ session' \in [SessionIds -> SessionRow]
      /\ \A s \in SessionIds :
            \/ session'[s] = session[s]
            \/ session[s].subject = "household" /\ session'[s] = orphaned(session[s])
  <2>1. CASE UNCHANGED session
    BY <1>1, <2>1
  <2>2. CASE session' = [s \in SessionIds |->
               IF session[s].subject = "household" /\ session[s].house = old.target
               THEN orphaned(session[s]) ELSE session[s]]
    BY <1>1, <1>4, <2>2
  <2> QED
    BY <2>1, <2>2 DEF AssignNewCode, DeleteHousehold, CreateHousehold
<1> HIDE DEF orphaned
<1>6. TablesOK(session', issued, clock) /\ RowsKept(session, session', clock)
  <2>1. ASSUME NEW s \in SessionIds
        PROVE  /\ RowOK(session'[s], clock) /\ Reaches(session'[s])
               /\ s > issued => session'[s].subject = "none"
    <3>1. /\ RowOK(session[s], clock) /\ Reaches(session[s]) /\ session[s] \in SessionRow
          /\ s > issued => session[s].subject = "none"
      BY <1>1 DEF IInv, TablesOK
    <3>2. CASE session'[s] = session[s]
      BY <3>1, <3>2
    <3>3. CASE session'[s] = orphaned(session[s])
      BY <1>4, <3>1, <3>3 DEF RowOK, Reaches, EndsInTime
    <3> QED
      BY <1>5, <3>2, <3>3
  <2>2. TablesOK(session', issued, clock)
    BY <1>5, <2>1 DEF TablesOK
  <2>3. ASSUME NEW s \in SessionIds
        PROVE  \/ session'[s] = session[s]
               \/ /\ session[s].subject # "none" /\ session'[s].subject = session[s].subject
                  /\ session'[s].lastSeen >= session[s].lastSeen
    <3>1. session[s] \in SessionRow /\ session[s].lastSeen \in Nat
      BY <1>1 DEF SessionRow, Time
    <3> QED
      BY <1>4, <1>5, <3>1
  <2> QED
    BY <2>2, <2>3 DEF RowsKept
<1>7. \/ request' = [request EXCEPT ![r] = [old EXCEPT !.pc = "respond"]]
      \/ request' = [request EXCEPT ![r] = [old EXCEPT !.pc = "revokeAll"]]
  BY DEF AssignNewCode, DeleteHousehold, CreateHousehold, Goes
<1>8. /\ RequestOK([old EXCEPT !.pc = "respond"], session', issued, clock)
      /\ RequestOK([old EXCEPT !.pc = "revokeAll"], session', issued, clock)
  BY <1>1, <1>5, <1>6, PastItsSession
<1>9. \E q : /\ request' = [request EXCEPT ![r] = q]
             /\ RequestOK(q, session', issued, clock)
  BY <1>7, <1>8
<1> QED
  BY <1>2, <1>3, <1>6, <1>9 DEF Moves, IInv

\* The browser may hold the cookie of any session that was issued.
LEMMA EndMoves ==
    ASSUME IInv, NEW r \in Requests, Respond(r) \/ DiscardFails(r) \/ Abort(r)
    PROVE  \E q : Moves(r, q)
<1> DEFINE old == request[r]
<1>1. /\ RequestOK(old, session, issued, clock) /\ old \in InHandType
      /\ clock \in Time /\ clock \in Nat /\ issued \in 0 .. MaxSessions
  BY Known
<1>2. /\ \/ request' = [request EXCEPT ![r] = Idle]
         \/ old.pc # "idle" /\ request' = [request EXCEPT ![r] = Failed(old)]
      /\ UNCHANGED <<code, session, issued, clock>>
  BY DEF Respond, DiscardFails, Abort, Goes, At
<1>3. cookie' \in [Clients -> Cookie] /\ \A c \in Clients : cookie'[c].sid <= issued
  <2>1. CASE DiscardFails(r) \/ Abort(r)
    BY <2>1 DEF DiscardFails, Abort, IInv
  <2>2. CASE Respond(r)
    <3>1. PICK e \in Nat : cookie' = [cookie EXCEPT ![old.client] =
                             IF old.new # NoSession THEN [sid |-> old.new, expiresAt |-> e]
                             ELSE IF old.clear THEN NoCookie ELSE @]
      <4>1. old.now + LifetimeOf(IF old.op = "LogIn" THEN "household" ELSE "admin") \in Nat
        BY <1>1, SessionsAssumption DEF LifetimeOf, InHandType, Time
      <4> QED
        BY <2>2, <4>1 DEF Respond
    <3>2. [sid |-> old.new, expiresAt |-> e] \in Cookie /\ NoCookie \in Cookie
      BY <1>1 DEF Cookie, NoCookie, InHandType
    <3>3. old.new <= issued /\ NoCookie.sid <= issued
      BY <1>1 DEF RequestOK, NoCookie, NoSession
    <3> QED
      BY <3>1, <3>2, <3>3 DEF IInv
  <2> QED
    BY <2>1, <2>2
<1>4. RequestOK(Idle, session, issued, clock)
  BY <1>1, IdleOK
<1>5. old.pc # "idle" => RequestOK(Failed(old), session, issued, clock)
  BY <1>1, FailedOK, Known
<1>6. PICK q : request' = [request EXCEPT ![r] = q] /\ RequestOK(q, session, issued, clock)
  BY <1>2, <1>4, <1>5
<1> QED
  BY <1>2, <1>3, <1>6, SameRowsKept DEF Moves, IInv

(***************************************************************************)
(* The insert, the purge and the clock.                                    *)
(***************************************************************************)
\* What a login inserts, next in the table.
LEMMA NewSessionOK ==
    ASSUME IInv, NEW r \in Requests, IssueSession(r)
    PROVE  /\ RowOK(NewSession(request[r]), clock) /\ Reaches(NewSession(request[r]))
           /\ NewSession(request[r]) \in SessionRow
<1> DEFINE q == request[r]
           subject == IF q.op = "LogIn" THEN "household" ELSE "admin"
           row == NewSession(q)
           expiresAt == q.now + LifetimeOf(subject)
           late == (subject = "household" /\ code[q.house] # q.code)
           orphan == (subject = "household" /\ ~Exists(q.house))
<1>1. /\ q.pc = "issue" /\ RequestOK(q, session, issued, clock) /\ q \in InHandType
      /\ clock \in Nat /\ NoRow \in SessionRow
  BY Known DEF IssueSession, At
<1>2. q.now \in Nat /\ q.now \in Time /\ q.now <= clock /\ LifetimeOf(subject) \in Nat
  BY <1>1, SessionsAssumption DEF RequestOK, InHandType, Time, LifetimeOf
<1>3. /\ row = [NoRow EXCEPT !.subject = subject, !.house = q.house,
                   !.expiresAt = expiresAt, !.lastSeen = q.now,
                   !.redeemed = q.code, !.issuedAt = q.now, !.usedAt = q.now,
                   !.late = late, !.orphan = orphan]
      /\ expiresAt \in Nat /\ late \in BOOLEAN /\ orphan \in BOOLEAN
  <2>1. expiresAt \in Nat
    BY <1>2
  <2> QED
    BY <2>1, Zenon DEF NewSession
<1>4. /\ subject \in {"none", "household", "admin"} /\ q.house \in Households \cup {0}
      /\ q.code \in Codes \cup {NoCode}
  BY <1>1 DEF InHandType
<1>0. expiresAt = q.now + LifetimeOf(subject)
  OBVIOUS
<1> HIDE DEF subject, expiresAt, late, orphan, row
<1>5. row \in SessionRow
  BY <1>1, <1>2, <1>3, <1>4 DEF SessionRow
<1>6. /\ row.subject = subject /\ row.house = q.house /\ row.expiresAt = expiresAt
      /\ row.lastSeen = q.now /\ row.issuedAt = q.now /\ row.usedAt = q.now
  BY <1>1, <1>3 DEF SessionRow
<1>7. (subject = "household") = (q.house # 0)
  BY <1>1 DEF RequestOK, subject
<1>8. RowOK(row, clock)
  BY <1>0, <1>2, <1>5, <1>6, <1>7 DEF RowOK, EndsInTime, LifetimeOf
<1>9. Reaches(row)
  BY <1>0, <1>2, <1>6, SessionsAssumption DEF Reaches, LifetimeOf
<1> QED
  BY <1>5, <1>8, <1>9 DEF row

\* A login's insert keeps the invariant: nobody knows the new id yet.
LEMMA IssueKeeps ==
    ASSUME IInv, NEW r \in Requests, IssueSession(r)
    PROVE  IInv'
<1> DEFINE old == request[r]
           next == [old EXCEPT !.pc = IF old.sid = NoSession THEN "respond" ELSE "revoke",
                               !.new = issued + 1]
           row == NewSession(old)
<1>1. /\ old.pc = "issue" /\ RequestOK(old, session, issued, clock) /\ old \in InHandType
      /\ clock \in Time /\ clock \in Nat /\ issued \in 0 .. MaxSessions
      /\ session \in [SessionIds -> SessionRow]
  BY Known DEF IssueSession, At
<1>2. /\ issued' = issued + 1 /\ issued' \in 0 .. MaxSessions /\ issued' \in SessionIds
      /\ session' = [session EXCEPT ![issued + 1] = row]
      /\ request' = [request EXCEPT ![r] = next]
      /\ UNCHANGED <<code, cookie, clock>>
  BY <1>1, SessionsAssumption DEF IssueSession, Goes, SessionIds
<1>3. RowOK(row, clock) /\ Reaches(row) /\ row \in SessionRow
  BY NewSessionOK
<1> HIDE DEF row
<1>4. /\ session' \in [SessionIds -> SessionRow]
      /\ \A s \in SessionIds : session'[s] = IF s = issued + 1 THEN row ELSE session[s]
  BY <1>1, <1>2, <1>3
<1>5. TablesOK(session', issued', clock')
  <2>1. ASSUME NEW s \in SessionIds
        PROVE  /\ RowOK(session'[s], clock) /\ Reaches(session'[s])
               /\ s > issued + 1 => session'[s].subject = "none"
    <3>1. s \in Nat /\ (s > issued + 1 => s > issued /\ s # issued + 1)
      BY <1>1 DEF SessionIds
    <3>2. /\ RowOK(session[s], clock) /\ Reaches(session[s])
          /\ s > issued => session[s].subject = "none"
      BY DEF IInv, TablesOK
    <3> QED
      BY <1>3, <1>4, <3>1, <3>2
  <2> QED
    BY <1>2, <1>4, <2>1 DEF TablesOK
<1>6. ASSUME NEW q, RequestOK(q, session, issued, clock)
      PROVE  RequestOK(q, session', issued', clock')
  <2>1. /\ q.cookie \in Nat /\ q.new \in Nat /\ q.sid \in Nat
        /\ q.sid \in SessionIds \cup {NoSession}
        /\ q.sid <= issued /\ q.cookie <= issued /\ q.new <= issued
    BY <1>1, <1>6 DEF RequestOK, InHandType, SessionIds, NoSession
  <2>2. q.cookie <= issued' /\ q.new <= issued' /\ q.sid # issued + 1
    BY <1>1, <1>2, <2>1
  <2>3. Follows(q, session')
    BY <1>4, <1>6, <2>1, <2>2 DEF RequestOK, Follows
  <2> QED
    BY <1>2, <1>6, <2>2, <2>3 DEF RequestOK
<1>7. RequestOK(next, session', issued', clock')
  <2>1. next \in InHandType
    <3>1. (IF old.sid = NoSession THEN "respond" ELSE "revoke") \in ProgramCounters
      BY DEF ProgramCounters
    <3>2. issued + 1 \in SessionIds \cup {NoSession}
      BY <1>2
    <3> QED
      <4>1. \A pc \in ProgramCounters, k \in SessionIds \cup {NoSession} :
               [old EXCEPT !.pc = pc, !.new = k] \in InHandType
        BY <1>1 DEF InHandType
      <4> QED
        BY <3>1, <3>2, <4>1
  <2>2. /\ next.pc = IF old.sid = NoSession THEN "respond" ELSE "revoke"
        /\ next.new = issued + 1 /\ next.now = old.now /\ next.house = old.house
        /\ next.session = old.session /\ next.sid = old.sid /\ next.cookie = old.cookie
        /\ next.op = old.op /\ next.startedAt = old.startedAt
    BY <1>1 DEF InHandType
  <2> HIDE DEF next
  <2>3. RequestOK(old, session', issued', clock')
    BY <1>1, <1>6
  <2>4. next.new <= issued'
    BY <1>1, <1>2, <2>2
  <2> QED
    BY <1>1, <2>1, <2>2, <2>3, <2>4 DEF RequestOK, Follows
<1> HIDE DEF next
<1>8. \A p \in Requests : request'[p] \in InHandType /\ RequestOK(request'[p], session', issued', clock')
  BY <1>2, <1>6, <1>7 DEF IInv, RequestOK
<1>9. \A c \in Clients : cookie'[c].sid <= issued'
  BY <1>1, <1>2 DEF IInv, Cookie, SessionIds, NoSession
<1>10. request' \in [Requests -> InHandType]
  BY <1>2, <1>8 DEF IInv
<1> QED
  BY <1>2, <1>5, <1>8, <1>9, <1>10 DEF IInv

\* The purge removes rows whoever reads them.
LEMMA PurgeKeeps ==
    ASSUME IInv, PurgeExpired
    PROVE  IInv' /\ RowsKept(session, session', clock)
<1>1. clock \in Time /\ NoRow \in SessionRow /\ session \in [SessionIds -> SessionRow]
      /\ issued \in 0 .. MaxSessions
  BY NoRowOK DEF IInv, TablesOK, RowOK
<1>2. /\ session' \in [SessionIds -> SessionRow]
      /\ \A s \in SessionIds : session'[s] = session[s] \/ session'[s] = NoRow
  BY <1>1 DEF PurgeExpired
<1>3. TablesOK(session', issued, clock) /\ RowsKept(session, session', clock)
  BY <1>2, RemovalKeepsRows
<1>4. \A r \in Requests : RequestOK(request[r], session', issued, clock)
  BY <1>1, <1>2, <1>3, Bystander DEF IInv
<1> QED
  BY <1>3, <1>4 DEF IInv, PurgeExpired

\* Time passes only while every request in flight is of this moment.
LEMMA TickKeeps ==
    ASSUME IInv, Tick
    PROVE  IInv'
<1>1. /\ clock \in Nat /\ clock' = clock + 1 /\ clock' \in Time
      /\ UNCHANGED <<code, session, issued, cookie, request>>
  BY SessionsAssumption DEF Tick, IInv, Time
<1>2. ASSUME NEW row, RowOK(row, clock) PROVE RowOK(row, clock')
  BY <1>1, <1>2 DEF RowOK, SessionRow, Time
<1>3. TablesOK(session', issued', clock')
  BY <1>1, <1>2 DEF IInv, TablesOK
<1>4. ASSUME NEW r \in Requests PROVE RequestOK(request[r], session, issued, clock')
  <2>1. RequestOK(request[r], session, issued, clock) /\ request[r] \in InHandType
    BY DEF IInv
  <2>2. request[r].startedAt \in Nat /\ request[r].now \in Nat
    BY <2>1 DEF InHandType, Time
  <2>3. request[r].pc # "idle" => request[r].startedAt = clock
    BY DEF Tick, InFlight
  <2>4. RowOK(request[r].session, clock')
    BY <1>2, <2>1 DEF RequestOK
  <2> QED
    BY <1>1, <2>1, <2>2, <2>3, <2>4 DEF RequestOK
<1> QED
  BY <1>1, <1>3, <1>4 DEF IInv

\* Before anybody has come the invariant holds.
LEMMA InitInv == Init => IInv
<1> SUFFICES ASSUME Init PROVE IInv
  OBVIOUS
<1>1. clock = 0 /\ clock \in Time /\ issued = 0 /\ issued \in 0 .. MaxSessions
  BY SessionsAssumption DEF Init, Time
<1>2. RowOK(NoRow, clock) /\ Reaches(NoRow) /\ NoRow.subject = "none" /\ NoRow \in SessionRow
  BY <1>1, NoRowOK DEF RowOK
<1>3. TablesOK(session, issued, clock)
  BY <1>2 DEF Init, TablesOK
<1>4. \A r \in Requests : /\ request[r] \in InHandType
                          /\ RequestOK(request[r], session, issued, clock)
  BY <1>1, IdleOK DEF Init, RequestOK
<1>5. code \in [Households -> Codes \cup {NoCode}]
  BY SessionsAssumption DEF Init
<1>6. cookie \in [Clients -> Cookie] /\ \A c \in Clients : cookie[c].sid <= issued
  BY <1>1 DEF Init, Cookie, NoCookie, NoSession
<1> QED
  BY <1>1, <1>3, <1>4, <1>5, <1>6 DEF Init, IInv

\* Every step but an insert keeps the rows, and all keep the invariant.
LEMMA StepKeeps ==
    ASSUME IInv, [Next]_vars
    PROVE  /\ IInv'
           /\ RowsKept(session, session', clock) \/ \E r \in Requests : IssueSession(r)
<1>1. CASE UNCHANGED vars
  <2>1. UNCHANGED <<code, session, issued, cookie, clock, request>>
    BY <1>1 DEF vars
  <2> QED
    BY <2>1, SameRowsKept DEF IInv
<1>2. CASE Tick
  BY <1>2, TickKeeps, SameRowsKept DEF Tick
<1>3. CASE PurgeExpired
  BY <1>3, PurgeKeeps
<1>4. ASSUME NEW r \in Requests, Receive(r) \/ RequestStep(r) \/ Abort(r)
      PROVE  /\ IInv'
             /\ RowsKept(session, session', clock) \/ IssueSession(r)
  <2>1. CASE IssueSession(r)
    BY <2>1, IssueKeeps
  <2>2. CASE ~IssueSession(r)
    <3>1. \E q : Moves(r, q)
      BY <1>4, <2>2, ReceiveMoves, FindSessionMoves, FindHouseholdMoves, RefreshMoves,
         MeMoves, RemovalMoves, LogInMoves, HouseholdMoves, EndMoves DEF RequestStep
    <3> QED
      BY <3>1, MovesKeeps DEF Moves
  <2> QED
    BY <2>1, <2>2
<1> QED
  BY <1>1, <1>2, <1>3, <1>4 DEF Next

(***************************************************************************)
(* The theorems.                                                           *)
(***************************************************************************)
\* The invariant holds in every reachable state.
LEMMA InvAlways == Spec => []IInv
<1>1. IInv /\ [Next]_vars => IInv'
  BY StepKeeps
<1> QED
  BY InitInv, <1>1, PTL DEF Spec

\* Every row, cookie and request has its type, and a row has a household
\* exactly if it is a household's.
THEOREM SessionsTyped == Spec => []TypeOK
  BY InvAlways, InvIsTyped, PTL

\* However busy it is kept, an admin session ends when it was issued to, in
\* the table and in what any request has read of it (NeedsRefresh).
THEOREM AdminSessionsAlwaysEnd == Spec => []AdminSessionsEnd
<1>1. IInv => AdminSessionsEnd
  BY DEF IInv, TablesOK, RequestOK, RowOK, AdminSessionsEnd
<1> QED
  BY <1>1, InvAlways, PTL

\* A household that used its session keeps it for the lifetime less one
\* refresh interval, whatever refreshes and uses race.
THEOREM UsedSessionsReach == Spec => []RollingReach
<1>1. IInv => RollingReach
  BY DEF IInv, TablesOK, Reaches, RollingReach
<1> QED
  BY <1>1, InvAlways, PTL

\* A session that is gone stays gone: nothing but the insert of a login makes
\* a row, and that is a new one (Refresh is an UPDATE).
THEOREM NoRevival == Spec => RevokedStaysRevoked
<1>1. ASSUME IInv, [Next]_vars, NEW s \in SessionIds, s <= issued, ~Stored(s)
      PROVE  ~Stored(s)'
  <2>1. session[s].subject = "none" /\ session \in [SessionIds -> SessionRow]
    BY <1>1 DEF Stored, IInv, TablesOK
  <2>2. CASE RowsKept(session, session', clock)
    BY <2>1, <2>2 DEF RowsKept, Stored, NoRow
  <2>3. ASSUME NEW r \in Requests, IssueSession(r) PROVE ~Stored(s)'
    <3>1. session' = [session EXCEPT ![issued + 1] = NewSession(request[r])] /\ issued \in Nat
      BY <1>1, <2>3 DEF IssueSession, IInv
    <3>2. s # issued + 1
      BY <1>1, <3>1 DEF SessionIds
    <3> QED
      BY <2>1, <3>1, <3>2 DEF Stored
  <2> QED
    BY <1>1, <2>2, <2>3, StepKeeps
<1>2. IInv /\ [Next]_vars =>
        [\A s \in SessionIds : s <= issued /\ ~Stored(s) => ~Stored(s)']_vars
  BY <1>1
<1> QED
  BY <1>2, InvAlways, PTL DEF Spec, RevokedStaysRevoked

\* A row that only changes in a field other than its subject stays.
LEMMA ChangedStays ==
    ASSUME NEW row \in SessionRow, NEW t \in Time
    PROVE  /\ Refreshed(row, t).subject = row.subject
           /\ [row EXCEPT !.usedAt = t].subject = row.subject
           /\ [row EXCEPT !.orphan = TRUE].subject = row.subject
  BY RefreshedFields DEF SessionRow

\* Of what a request does only finding a session dead, a login, a logout and
\* the reissue of a code end one.
LEMMA RequestsEndForAReason ==
    ASSUME IInv, NEW r \in Requests, Receive(r) \/ RequestStep(r) \/ Abort(r),
           NEW s \in SessionIds, Stored(s), ~Stored(s)'
    PROVE  request'[r] # request[r] /\ EndedBy(r, s)
<1> DEFINE old == request[r]
<1>1. /\ RequestOK(old, session, issued, clock) /\ old \in InHandType
      /\ session \in [SessionIds -> SessionRow] /\ session[s] \in SessionRow
      /\ request \in [Requests -> InHandType] /\ issued \in 0 .. MaxSessions
  BY Known DEF IInv
<1>2. session'[s].subject = "none" /\ session[s].subject # "none"
  BY DEF Stored
<1>3. CASE DiscardSession(r)
  <2>1. old.cookie = s /\ old.pc = "discard"
    BY <1>1, <1>2, <1>3 DEF DiscardSession, At
  <2>2. request'[r].pc = "handle"
    BY <1>1, <1>3 DEF DiscardSession, Goes, Anonymous, InHandType
  <2> QED
    BY <2>1, <2>2 DEF EndedBy
<1>4. CASE RevokePrevious(r)
  <2>1. old.sid = s /\ old.pc = "revoke"
    BY <1>1, <1>2, <1>4 DEF RevokePrevious, At
  <2>2. old.cookie = s
    BY <1>1, <2>1 DEF RequestOK, SessionIds, NoSession
  <2>3. request'[r].pc = "respond"
    BY <1>1, <1>4 DEF RevokePrevious, Goes, InHandType
  <2> QED
    BY <2>1, <2>2, <2>3 DEF EndedBy
<1>5. CASE LogOut(r)
  <2>1. old.sid = s /\ old.pc = "handle"
    BY <1>1, <1>2, <1>5 DEF LogOut, Handling, At
  <2>2. old.cookie = s
    BY <1>1, <2>1 DEF RequestOK, SessionIds, NoSession
  <2>3. request'[r].pc = "respond"
    BY <1>1, <1>5 DEF LogOut, Goes, InHandType
  <2> QED
    BY <2>1, <2>2, <2>3 DEF EndedBy
<1>6. CASE DeleteForHousehold(r)
  <2>1. session[s].house = old.target /\ old.pc = "revokeAll"
    BY <1>1, <1>2, <1>6 DEF DeleteForHousehold, At
  <2>2. request'[r].pc = "respond"
    BY <1>1, <1>6 DEF DeleteForHousehold, Goes, InHandType
  <2> QED
    BY <2>1, <2>2 DEF EndedBy
<1>7. CASE Refresh(r)
  <2>1. old.now \in Time
    BY <1>1 DEF InHandType
  <2>2. session'[s] = session[s] \/ session'[s] = Refreshed(session[s], old.now)
    BY <1>1, <1>7 DEF Refresh
  <2> QED
    BY <1>1, <1>2, <2>1, <2>2, ChangedStays
<1>8. CASE Me(r)
  <2>1. \A t \in Time : [session[s] EXCEPT !.usedAt = t].subject = session[s].subject
    BY <1>1, ChangedStays
  <2>2. Later(session[s].usedAt, old.startedAt) \in Time
    BY <1>1 DEF Later, InHandType, SessionRow
  <2>3. \/ session'[s] = session[s]
        \/ session'[s] = [session[s] EXCEPT !.usedAt = Later(session[s].usedAt, old.startedAt)]
    BY <1>1, <1>8 DEF Me
  <2> QED
    BY <1>2, <2>1, <2>2, <2>3
<1>9. CASE DeleteHousehold(r)
  <2>1. 0 \in Time
    BY SessionsAssumption DEF Time
  <2>2. session'[s] = session[s] \/ session'[s] = [session[s] EXCEPT !.orphan = TRUE]
    BY <1>1, <1>9 DEF DeleteHousehold
  <2> QED
    BY <1>1, <1>2, <2>1, <2>2, ChangedStays
<1>10. CASE IssueSession(r)
  <2>1. session' = [session EXCEPT ![issued + 1] = NewSession(old)]
    BY <1>10 DEF IssueSession
  <2>2. s # issued + 1
    <3>1. s = issued + 1 => s > issued
      BY <1>1
    <3> QED
      BY <1>2, <3>1 DEF IInv, TablesOK
  <2> QED
    BY <1>1, <1>2, <2>1, <2>2
<1>11. CASE session' = session
  BY <1>2, <1>11
<1> QED
  BY <1>3, <1>4, <1>5, <1>6, <1>7, <1>8, <1>9, <1>10, <1>11
  DEF Receive, RequestStep, Abort, FindSession, FindHousehold, DiscardFails, LogInFindByCode,
      AdminLogIn, AssignNewCode, CreateHousehold, Respond

\* Nobody is signed out by what another household or the admin does elsewhere:
\* a session ends with its time, by its own browser, or by the reissue of its
\* household's code.
THEOREM SessionsEndForAReason == Spec => EndsForAReason
<1>1. ASSUME IInv, [Next]_vars, NEW s \in SessionIds, Stored(s), ~Stored(s)'
      PROVE  \/ IsExpired(session[s], clock)
             \/ \E r \in Requests : request'[r] # request[r] /\ EndedBy(r, s)
  <2>1. CASE UNCHANGED vars \/ Tick
    BY <1>1, <2>1 DEF vars, Tick, Stored
  <2>2. CASE PurgeExpired
    BY <1>1, <2>2 DEF PurgeExpired, Stored
  <2>3. CASE \E r \in Requests : Receive(r) \/ RequestStep(r) \/ Abort(r)
    BY <1>1, <2>3, RequestsEndForAReason
  <2> QED
    BY <1>1, <2>1, <2>2, <2>3 DEF Next
<1>2. IInv /\ [Next]_vars =>
        [\A s \in SessionIds : Stored(s) /\ ~Stored(s)' =>
            \/ IsExpired(session[s], clock)
            \/ \E r \in Requests : request'[r] # request[r] /\ EndedBy(r, s)]_vars
  BY <1>1
<1> QED
  BY <1>2, InvAlways, PTL DEF Spec, EndsForAReason

(***************************************************************************)
(* Reissued codes and deleted households.                                  *)
(***************************************************************************)
\* A row keeps whose it is and what it was issued for.
SameOwner(new, old) ==
    /\ new.subject = old.subject /\ new.house = old.house
    /\ new.redeemed = old.redeemed /\ new.late = old.late

\* It is marked only because its household is deleted.
Stays(s) ==
    /\ SameOwner(session'[s], session[s])
    /\ \/ session'[s].orphan = session[s].orphan
       \/ /\ session'[s].orphan
          /\ session[s].house \in Households /\ code'[session[s].house] = NoCode

\* Each row stays, goes, or has just been inserted.
LEMMA RowsRemember ==
    ASSUME IInv, [Next]_vars, NEW s \in SessionIds
    PROVE  \/ Stays(s)
           \/ session'[s] = NoRow
           \/ \E r \in Requests : IssueSession(r) /\ session'[s] = NewSession(request[r])
<1>1. /\ session \in [SessionIds -> SessionRow] /\ session[s] \in SessionRow
      /\ code \in [Households -> Codes \cup {NoCode}]
      /\ session[s].subject = "household" => session[s].house \in Households
  BY DEF IInv, TablesOK, RowOK, SessionRow
<1>2. ASSUME session'[s] = session[s] PROVE Stays(s)
  BY <1>2 DEF Stays, SameOwner
<1>3. ASSUME session' = session PROVE Stays(s)
  BY <1>2, <1>3
<1>4. ASSUME NEW r \in Requests, Refresh(r) PROVE Stays(s)
  <2>1. \/ session'[s] = session[s]
        \/ session'[s] = Refreshed(session[s], request[r].now)
    BY <1>1, <1>4 DEF Refresh
  <2>2. CASE session'[s] = Refreshed(session[s], request[r].now)
    BY <1>1, <2>2 DEF Refreshed, SessionRow, Stays, SameOwner
  <2> QED
    BY <1>2, <2>1, <2>2
<1>5. ASSUME NEW r \in Requests, Me(r) PROVE Stays(s)
  <2> DEFINE t == Later(session[s].usedAt, request[r].startedAt)
  <2>1. \/ session'[s] = session[s]
        \/ session'[s] = [session[s] EXCEPT !.usedAt = t]
    BY <1>1, <1>5 DEF Me
  <2> HIDE DEF t
  <2>2. CASE session'[s] = [session[s] EXCEPT !.usedAt = t]
    BY <1>1, <2>2 DEF SessionRow, Stays, SameOwner
  <2> QED
    BY <1>2, <2>1, <2>2
<1>6. ASSUME NEW r \in Requests, DeleteHousehold(r) PROVE Stays(s)
  <2>1. \/ session'[s] = session[s]
        \/ /\ session'[s] = [session[s] EXCEPT !.orphan = TRUE]
           /\ session[s].subject = "household" /\ session[s].house = request[r].target
           /\ code' = [code EXCEPT ![request[r].target] = NoCode]
    BY <1>1, <1>6 DEF DeleteHousehold
  <2>2. CASE /\ session'[s] = [session[s] EXCEPT !.orphan = TRUE]
             /\ session[s].subject = "household" /\ session[s].house = request[r].target
             /\ code' = [code EXCEPT ![request[r].target] = NoCode]
    BY <1>1, <2>2 DEF SessionRow, Stays, SameOwner
  <2> QED
    BY <1>2, <2>1, <2>2
<1>7. ASSUME NEW r \in Requests, IssueSession(r)
      PROVE  session'[s] = session[s] \/ session'[s] = NewSession(request[r])
  BY <1>1, <1>7 DEF IssueSession
<1>8. ASSUME NEW r \in Requests,
             DiscardSession(r) \/ RevokePrevious(r) \/ LogOut(r) \/ DeleteForHousehold(r)
      PROVE  session'[s] = session[s] \/ session'[s] = NoRow
  BY <1>1, <1>8 DEF DiscardSession, RevokePrevious, LogOut, DeleteForHousehold
<1>9. CASE PurgeExpired
  BY <1>1, <1>2, <1>9 DEF PurgeExpired
<1>10. CASE Tick \/ UNCHANGED vars
  BY <1>3, <1>10 DEF Tick, vars
<1>11. ASSUME NEW r \in Requests,
              \/ Receive(r) \/ FindSession(r) \/ FindHousehold(r) \/ DiscardFails(r)
              \/ LogInFindByCode(r) \/ AdminLogIn(r) \/ AssignNewCode(r)
              \/ CreateHousehold(r) \/ Respond(r) \/ Abort(r)
       PROVE  session' = session
  BY <1>11 DEF Receive, FindSession, FindHousehold, DiscardFails, LogInFindByCode, AdminLogIn,
               AssignNewCode, CreateHousehold, Respond, Abort
<1>12. ASSUME NEW r \in Requests, RequestStep(r) \/ Receive(r) \/ Abort(r)
       PROVE  \/ Stays(s)
              \/ session'[s] = NoRow
              \/ IssueSession(r) /\ session'[s] = NewSession(request[r])
  BY <1>2, <1>3, <1>4, <1>5, <1>6, <1>7, <1>8, <1>11, <1>12 DEF RequestStep
<1> QED
  BY <1>9, <1>2, <1>10, <1>12 DEF Next

\* What a login inserts remembers its household, its code and whether either
\* had changed by then.
LEMMA NewSessionRemembers ==
    ASSUME IInv, NEW r \in Requests, IssueSession(r),
           NewSession(request[r]).subject = "household" \/ NewSession(request[r]).orphan
    PROVE  /\ NewSession(request[r]).house = request[r].house
           /\ request[r].house \in Households
           /\ NewSession(request[r]).redeemed = request[r].code
           /\ NewSession(request[r]).late <=> code[request[r].house] # request[r].code
           /\ NewSession(request[r]).orphan <=> ~Exists(request[r].house)
<1> DEFINE q == request[r]
           subject == IF q.op = "LogIn" THEN "household" ELSE "admin"
           expiresAt == q.now + LifetimeOf(subject)
           late == (subject = "household" /\ code[q.house] # q.code)
           orphan == (subject = "household" /\ ~Exists(q.house))
           row == NewSession(q)
<1>1. NoRow \in SessionRow /\ q \in InHandType /\ RequestOK(q, session, issued, clock) /\ q.pc = "issue"
  BY Known DEF IssueSession, At
<1>2. row = [NoRow EXCEPT !.subject = subject, !.house = q.house,
               !.expiresAt = expiresAt, !.lastSeen = q.now,
               !.redeemed = q.code, !.issuedAt = q.now, !.usedAt = q.now,
               !.late = late, !.orphan = orphan]
  BY Zenon DEF NewSession
<1>3. q.op = "LogIn" => q.house \in Households
  BY <1>1 DEF RequestOK, InHandType
<1>4. /\ late <=> (subject = "household" /\ code[q.house] # q.code)
      /\ orphan <=> (subject = "household" /\ ~Exists(q.house))
  OBVIOUS
<1> HIDE DEF expiresAt, late, orphan, row
<1>5. /\ row.subject = subject /\ row.house = q.house /\ row.redeemed = q.code
      /\ row.late = late /\ row.orphan = orphan
  BY <1>1, <1>2 DEF SessionRow
<1>6. subject = "household" /\ q.op = "LogIn"
  BY <1>4, <1>5 DEF row
<1>7. /\ row.house = q.house /\ q.house \in Households /\ row.redeemed = q.code
      /\ row.late <=> code[q.house] # q.code
      /\ row.orphan <=> ~Exists(q.house)
  BY <1>3, <1>4, <1>5, <1>6
<1> QED
  BY <1>7 DEF row

\* How a code can change: by a reissue, which then revokes; by a deletion,
\* which marks the household's rows; by a creation, where there was none.
LEMMA CodeChanges ==
    ASSUME IInv, [Next]_vars, NEW h \in Households, code'[h] # code[h]
    PROVE  \/ \E r \in Requests : /\ AssignNewCode(r) /\ code[h] # NoCode /\ code'[h] # NoCode
                                  /\ request'[r].pc = "revokeAll" /\ request'[r].target = h
           \/ /\ code'[h] = NoCode
              /\ \A s \in SessionIds :
                    session[s].subject = "household" /\ session[s].house = h => session'[s].orphan
           \/ \E r \in Requests : /\ CreateHousehold(r)
                                  /\ code[h] = NoCode /\ session' = session
<1>1. /\ session \in [SessionIds -> SessionRow] /\ code \in [Households -> Codes \cup {NoCode}]
      /\ request \in [Requests -> InHandType]
  BY DEF IInv, TablesOK
<1>2. ASSUME NEW r \in Requests, AssignNewCode(r)
      PROVE  /\ code[h] # NoCode /\ code'[h] # NoCode
             /\ request'[r].pc = "revokeAll" /\ request'[r].target = h
  <2>1. /\ Exists(request[r].target) /\ code' # code /\ request[r].target = h
        /\ request' = [request EXCEPT ![r] = [request[r] EXCEPT !.pc = "revokeAll"]]
        /\ code'[h] \in Codes
    BY <1>1, <1>2 DEF AssignNewCode, Goes
  <2>2. request'[r].pc = "revokeAll" /\ request'[r].target = h
    BY <1>1, <2>1 DEF InHandType
  <2> QED
    BY <2>1, <2>2, SessionsAssumption DEF Exists
<1>3. ASSUME NEW r \in Requests, DeleteHousehold(r)
      PROVE  /\ code'[h] = NoCode
             /\ \A s \in SessionIds :
                   session[s].subject = "household" /\ session[s].house = h => session'[s].orphan
  <2>1. /\ code' = [code EXCEPT ![request[r].target] = NoCode] /\ request[r].target = h
        /\ session' = [s \in SessionIds |->
              IF session[s].subject = "household" /\ session[s].house = request[r].target
              THEN [session[s] EXCEPT !.orphan = TRUE] ELSE session[s]]
    BY <1>1, <1>3 DEF DeleteHousehold
  <2> QED
    BY <1>1, <2>1 DEF SessionRow
<1>4. ASSUME NEW r \in Requests, CreateHousehold(r)
      PROVE  code[h] = NoCode /\ session' = session
  <2>1. session' = session /\ code' # code
    BY <1>1, <1>4 DEF CreateHousehold
  <2>2. PICK g \in Households, k \in Codes :
          NextHouseholdId(g) /\ code' = [code EXCEPT ![g] = k]
    BY <2>1, <1>4 DEF CreateHousehold
  <2>3. g = h /\ g >= g
    BY <1>1, <2>2 DEF Households
  <2> QED
    BY <2>1, <2>2, <2>3 DEF NextHouseholdId, Exists
<1>5. ASSUME NEW r \in Requests,
             \/ Receive(r) \/ FindSession(r) \/ FindHousehold(r) \/ Refresh(r)
             \/ DiscardSession(r) \/ DiscardFails(r) \/ Me(r) \/ LogInFindByCode(r)
             \/ AdminLogIn(r) \/ IssueSession(r) \/ RevokePrevious(r) \/ LogOut(r)
             \/ DeleteForHousehold(r) \/ Respond(r) \/ Abort(r)
      PROVE  code' = code
  BY <1>5 DEF Receive, FindSession, FindHousehold, Refresh, DiscardSession, DiscardFails, Me,
              LogInFindByCode, AdminLogIn, IssueSession, RevokePrevious, LogOut,
              DeleteForHousehold, Respond, Abort
<1>6. CASE Tick \/ PurgeExpired \/ UNCHANGED vars
  BY <1>6 DEF Tick, PurgeExpired, vars
<1>7. ASSUME NEW r \in Requests, Receive(r) \/ RequestStep(r) \/ Abort(r)
      PROVE  AssignNewCode(r) \/ DeleteHousehold(r) \/ CreateHousehold(r)
  BY <1>5, <1>7 DEF RequestStep
<1> QED
  BY <1>2, <1>3, <1>4, <1>6, <1>7 DEF Next

\* The household of a marked row is gone.
HouseGone(row, codes) == row.orphan => row.house \in Households /\ codes[row.house] = NoCode

\* A request that has read a marked row is not admitted with it.
Nobody(q, codes) ==
    HouseGone(q.session, codes) /\ (q.session.orphan => q.pc \notin {"refresh", "handle"})

\* A request reads a row only to have its household looked up.
LEMMA OwnStepsStayNobody ==
    ASSUME IInv, \A s \in SessionIds : HouseGone(session[s], code),
           NEW r \in Requests, Nobody(request[r], code),
           Receive(r) \/ RequestStep(r) \/ Abort(r)
    PROVE  Nobody(request'[r], code)
<1> DEFINE q == request[r]
           n == request'[r]
<1>1. /\ q \in InHandType /\ RequestOK(q, session, issued, clock)
      /\ NoRow \in SessionRow /\ ~NoRow.orphan
      /\ request \in [Requests -> InHandType] /\ session \in [SessionIds -> SessionRow]
      /\ \A s \in SessionIds : RowOK(session[s], clock)
  <2>1. NoRow \in SessionRow
    BY NoRowOK DEF IInv, RowOK
  <2> QED
    BY <2>1 DEF IInv, TablesOK, NoRow
<1>2. CASE n.session = NoRow
  BY <1>1, <1>2 DEF Nobody, HouseGone
<1>3. CASE n.session = q.session /\ n.pc \notin {"refresh", "handle"}
  BY <1>3 DEF Nobody
<1>4. CASE Receive(r) \/ DiscardFails(r) \/ Respond(r) \/ Abort(r)
  <2>1. Idle \in InHandType /\ Idle.session = NoRow
    BY IdleOK DEF IInv, RequestOK, Idle
  <2>2. CASE Receive(r)
    <3>1. PICK c, op, k, h :
            Goes(r, [Idle EXCEPT !.pc = IF Presented(c) = NoSession THEN "handle" ELSE "find",
                                 !.op = op, !.client = c, !.code = k, !.target = h,
                                 !.startedAt = clock, !.cookie = Presented(c)])
      BY <2>2 DEF Receive
    <3> DEFINE pc == IF Presented(c) = NoSession THEN "handle" ELSE "find"
    <3>2. n = [Idle EXCEPT !.pc = pc, !.op = op, !.client = c, !.code = k, !.target = h,
                           !.startedAt = clock, !.cookie = Presented(c)]
      BY <1>1, <3>1 DEF Goes
    <3> HIDE DEF pc
    <3>3. n.session = NoRow
      BY <2>1, <3>2 DEF InHandType
    <3> QED
      BY <3>3, <1>2
  <2>3. CASE (DiscardFails(r) \/ Respond(r) \/ Abort(r)) /\ Goes(r, Idle)
    BY <1>1, <1>2, <2>1, <2>3 DEF Goes
  <2>4. CASE Abort(r) /\ Goes(r, Failed(q))
    <3>1. q.pc # "idle" /\ n = Failed(q)
      BY <1>1, <2>4 DEF Abort, At, Goes
    <3>2. Failed(q).session = q.session /\ Failed(q).pc = "respond"
      BY <1>1, <3>1, FailedOK, Known
    <3> QED
      BY <1>3, <3>1, <3>2
  <2>5. (DiscardFails(r) \/ Respond(r) \/ Abort(r)) => Goes(r, Idle) \/ (Abort(r) /\ Goes(r, Failed(q)))
    BY DEF DiscardFails, Respond, Abort
  <2> QED
    BY <1>4, <2>2, <2>3, <2>4, <2>5
<1>5. CASE DiscardSession(r)
  <2>1. n = Anonymous(q)
    BY <1>1, <1>5 DEF DiscardSession, Goes
  <2>2. n.session = NoRow
    BY <1>1, <2>1 DEF Anonymous, InHandType
  <2> QED
    BY <1>2, <2>2
<1>6. CASE FindSession(r)
  <2> DEFINE row == session[q.cookie]
             read == [q EXCEPT !.session = row, !.sid = q.cookie]
  <2>1. \/ n = Anonymous(q)
        \/ n = [q EXCEPT !.pc = "discard"]
        \/ row.subject = "household" /\ n = [read EXCEPT !.pc = "household"]
        \/ row.subject # "household" /\ n = Admitted(read, row)
    BY <1>1, <1>6 DEF FindSession, Goes
  <2>2. q.cookie \in SessionIds /\ HouseGone(row, code) /\ RowOK(row, clock)
    BY <1>1, <1>6 DEF FindSession, At, RequestOK, InHandType
  <2> HIDE DEF row
  <2>3. CASE n = Anonymous(q)
    <3>1. n.session = NoRow
      BY <1>1, <2>3 DEF Anonymous, InHandType
    <3> QED
      BY <1>2, <3>1
  <2>4. CASE n = [q EXCEPT !.pc = "discard"]
    <3>1. n.session = q.session /\ n.pc = "discard"
      BY <1>1, <2>4 DEF InHandType
    <3> QED
      BY <1>3, <3>1
  <2>5. CASE n = [read EXCEPT !.pc = "household"]
    <3>1. n.session = row /\ n.pc = "household"
      BY <1>1, <2>5 DEF InHandType
    <3> QED
      BY <2>2, <3>1 DEF Nobody
  <2>6. CASE row.subject # "household" /\ n = Admitted(read, row)
    <3>1. n.session = row
      BY <1>1, <2>6 DEF Admitted, InHandType
    <3>2. ~row.orphan
      BY <2>2, <2>6 DEF HouseGone, RowOK, Households
    <3> QED
      BY <3>1, <3>2 DEF Nobody, HouseGone
  <2> QED
    BY <2>1, <2>3, <2>4, <2>5, <2>6
<1>7. CASE FindHousehold(r)
  <2>1. \/ Exists(q.session.house) /\ n = Admitted(q, q.session)
        \/ n = [q EXCEPT !.pc = "discard"]
    BY <1>1, <1>7 DEF FindHousehold, Goes
  <2>2. CASE Exists(q.session.house) /\ n = Admitted(q, q.session)
    <3>1. n.session = q.session
      BY <1>1, <2>2 DEF Admitted, InHandType
    <3>2. ~q.session.orphan
      BY <2>2 DEF Nobody, HouseGone, Exists
    <3> QED
      BY <3>1, <3>2 DEF Nobody, HouseGone
  <2>3. CASE n = [q EXCEPT !.pc = "discard"]
    <3>1. n.session = q.session /\ n.pc = "discard"
      BY <1>1, <2>3 DEF InHandType
    <3> QED
      BY <1>3, <3>1
  <2> QED
    BY <2>1, <2>2, <2>3
<1>8. CASE Refresh(r)
  <2>1. q.pc = "refresh" /\ n = [q EXCEPT !.pc = "handle", !.session = Refreshed(@, q.now)]
    BY <1>1, <1>8 DEF Refresh, At, Goes
  <2>2. n.session = Refreshed(q.session, q.now)
    BY <1>1, <2>1 DEF InHandType
  <2>3. n.session.orphan = q.session.orphan
    BY <1>1, <2>2 DEF Refreshed, SessionRow, InHandType
  <2> QED
    BY <2>1, <2>3 DEF Nobody, HouseGone
<1>9. CASE \/ Me(r) \/ AssignNewCode(r) \/ DeleteForHousehold(r) \/ RevokePrevious(r)
           \/ DeleteHousehold(r) \/ CreateHousehold(r)
  <2>1. PICK pc \in {"respond", "revokeAll"} : n = [q EXCEPT !.pc = pc]
    BY <1>1, <1>9 DEF Me, AssignNewCode, DeleteForHousehold, RevokePrevious, DeleteHousehold,
                      CreateHousehold, Goes
  <2>2. n.session = q.session /\ n.pc = pc
    BY <1>1, <2>1 DEF InHandType
  <2> QED
    BY <1>3, <2>2
<1>10. CASE LogInFindByCode(r) \/ AdminLogIn(r)
  <2>1. \/ \E h : n = [q EXCEPT !.pc = "issue", !.house = h, !.now = clock]
        \/ n = [q EXCEPT !.pc = "issue", !.now = clock]
        \/ n = [q EXCEPT !.pc = "respond"]
    BY <1>1, <1>10 DEF LogInFindByCode, AdminLogIn, Goes
  <2>2. n.session = q.session /\ n.pc \in {"respond", "issue"}
    BY <1>1, <2>1 DEF InHandType
  <2> QED
    BY <1>3, <2>2
<1>11. CASE LogOut(r) \/ IssueSession(r)
  <2>1. \/ n = [q EXCEPT !.pc = "respond", !.clear = TRUE]
        \/ \E pc \in {"respond", "revoke"} : \E s : n = [q EXCEPT !.pc = pc, !.new = s]
    BY <1>1, <1>11 DEF LogOut, IssueSession, Goes
  <2>2. n.session = q.session /\ n.pc \in {"respond", "revoke"}
    BY <1>1, <2>1 DEF InHandType
  <2> QED
    BY <1>3, <2>2
<1> QED
  BY <1>4, <1>5, <1>6, <1>7, <1>8, <1>9, <1>10, <1>11
  DEF RequestStep

(***************************************************************************)
(* Without new households the id of a deleted one does not return.         *)
(***************************************************************************)
NobodyInv ==
    /\ IInv
    /\ \A s \in SessionIds : HouseGone(session[s], code)
    /\ \A r \in Requests : Nobody(request[r], code)

\* A household that is gone stays gone.
LEMMA GoneForGood ==
    ASSUME "CreateHousehold" \notin Operations, IInv, [Next]_vars,
           NEW h \in Households, code[h] = NoCode
    PROVE  code'[h] = NoCode
<1>1. ASSUME NEW r \in Requests PROVE ~CreateHousehold(r)
  <2>1. request[r].op \in Operations \cup {"none"}
    BY DEF IInv, InHandType
  <2> QED
    BY <2>1 DEF CreateHousehold, Handling
<1> QED
  BY <1>1, CodeChanges

\* The rows of the next state.
LEMMA RowsStayGone ==
    ASSUME "CreateHousehold" \notin Operations, NobodyInv, [Next]_vars, NEW s \in SessionIds
    PROVE  HouseGone(session'[s], code')
<1>1. IInv
  BY DEF NobodyInv
<1>2. CASE Stays(s)
  <2>1. /\ session'[s].house = session[s].house
        /\ \/ session'[s].orphan = session[s].orphan
           \/ /\ session'[s].orphan
              /\ session[s].house \in Households /\ code'[session[s].house] = NoCode
        /\ session'[s].subject = session[s].subject
    BY <1>2 DEF Stays, SameOwner
  <2>2. CASE session[s].orphan
    BY <1>1, <2>1, <2>2, GoneForGood DEF NobodyInv, HouseGone
  <2>3. CASE session'[s].orphan # session[s].orphan
    BY <2>1, <2>3 DEF HouseGone
  <2> QED
    BY <2>1, <2>2, <2>3 DEF HouseGone
<1>3. CASE session'[s] = NoRow
  BY <1>3 DEF HouseGone, NoRow
<1>4. ASSUME NEW r \in Requests, IssueSession(r), session'[s] = NewSession(request[r])
      PROVE  HouseGone(session'[s], code')
  <2>1. code' = code
    BY <1>4 DEF IssueSession
  <2> QED
    BY <1>1, <1>4, <2>1, NewSessionRemembers DEF HouseGone, Exists
<1> QED
  BY <1>1, <1>2, <1>3, <1>4, RowsRemember

\* A step of one request leaves the others' hands alone.
LEMMA OneMoves ==
    ASSUME IInv, NEW r \in Requests, Receive(r) \/ RequestStep(r) \/ Abort(r),
           NEW p \in Requests, p # r
    PROVE  request'[p] = request[p]
<1>1. request \in [Requests -> InHandType]
  BY DEF IInv
<1> QED
  BY <1>1
  DEF Receive, RequestStep, Abort, FindSession, FindHousehold, Refresh, DiscardSession,
      DiscardFails, Me, LogInFindByCode, AdminLogIn, IssueSession, RevokePrevious, LogOut,
      AssignNewCode, DeleteForHousehold, DeleteHousehold, CreateHousehold, Respond, Goes

\* Only steps of a request change what it has in hand.
LEMMA OthersKeepRequests ==
    ASSUME IInv, [Next]_vars, NEW r \in Requests, request'[r] # request[r]
    PROVE  Receive(r) \/ RequestStep(r) \/ Abort(r)
<1>1. ASSUME NEW p \in Requests, p # r, Receive(p) \/ RequestStep(p) \/ Abort(p)
      PROVE  request'[r] = request[r]
  BY <1>1, OneMoves
<1>2. CASE Tick \/ PurgeExpired \/ UNCHANGED vars
  BY <1>2 DEF Tick, PurgeExpired, vars
<1> QED
  BY <1>1, <1>2 DEF Next

\* One step.
LEMMA NobodyStep ==
    ASSUME "CreateHousehold" \notin Operations, NobodyInv, [Next]_vars
    PROVE  NobodyInv'
<1>1. IInv /\ IInv'
  BY StepKeeps DEF NobodyInv
<1>2. ASSUME NEW r \in Requests PROVE Nobody(request'[r], code')
  <2>1. Nobody(request'[r], code)
    BY <1>1, OwnStepsStayNobody, OthersKeepRequests DEF NobodyInv
  <2> QED
    BY <1>1, <2>1, GoneForGood DEF Nobody, HouseGone
<1> QED
  BY <1>1, <1>2, RowsStayGone DEF NobodyInv

\* A session whose household was deleted admits nobody, as long as no household
\* is created: SQLite may give a new one the id of the deleted one
\* (ResolveSession, FindHousehold).
THEOREM OrphansStayNobody ==
    ASSUME "CreateHousehold" \notin Operations
    PROVE  Spec => []OrphansAreNobody
<1>1. Init => NobodyInv
  <2> SUFFICES ASSUME Init PROVE NobodyInv
    OBVIOUS
  <2>1. IInv
    BY InitInv
  <2>2. /\ \A s \in SessionIds : session[s] = NoRow
        /\ \A r \in Requests : request[r].session = NoRow
    BY DEF Init, Idle
  <2>3. ~NoRow.orphan
    BY DEF NoRow
  <2> QED
    BY <2>1, <2>2, <2>3 DEF NobodyInv, Nobody, HouseGone
<1>2. NobodyInv /\ [Next]_vars => NobodyInv'
  BY NobodyStep
<1>3. NobodyInv => OrphansAreNobody
  BY DEF NobodyInv, Nobody, OrphansAreNobody, At
<1> QED
  BY <1>1, <1>2, <1>3, PTL DEF Spec

(***************************************************************************)
(* With no request dying a reissue gets to its revocation.                 *)
(***************************************************************************)
ReissueInv ==
    /\ IInv
    /\ \A s \in SessionIds :
          session[s].subject = "household" /\ ~session[s].orphan => Exists(session[s].house)
    /\ ReissueRevokes

\* Nothing but the revocation ends a reissue.
LEMMA ReissueGoesOn ==
    ASSUME ~MayDie, IInv, [Next]_vars, NEW r \in Requests, request[r].pc = "revokeAll"
    PROVE  request'[r] = request[r] \/ DeleteForHousehold(r)
<1>1. ~Receive(r) /\ ~Abort(r)
  BY DEF Receive, Abort, At
<1>2. RequestStep(r) => DeleteForHousehold(r)
  BY DEF RequestStep, FindSession, FindHousehold, Refresh, DiscardSession, DiscardFails, Me,
         LogInFindByCode, AdminLogIn, IssueSession, RevokePrevious, LogOut, AssignNewCode,
         DeleteHousehold, CreateHousehold, Respond, Handling, At
<1> QED
  BY <1>1, <1>2, OthersKeepRequests

\* A row that stays is either still good or about to be revoked.
LEMMA ReissueStep ==
    ASSUME ~MayDie, ReissueInv, [Next]_vars, NEW s \in SessionIds,
           session'[s].subject = "household", ~session'[s].orphan
    PROVE  /\ code'[session'[s].house] # NoCode
           /\ session'[s].redeemed # code'[session'[s].house] =>
                session'[s].late \/ Reissuing(session[s].house)'
<1>1. IInv /\ NoRow.subject = "none"
  BY DEF ReissueInv, NoRow
<1>2. CASE Stays(s)
  <2> DEFINE h == session[s].house
  <2>1. /\ session'[s].house = h /\ session'[s].redeemed = session[s].redeemed
        /\ session'[s].late = session[s].late
        /\ session[s].subject = "household" /\ ~session[s].orphan
    BY <1>2 DEF Stays, SameOwner
  <2>2. h \in Households
    BY <1>1, <2>1 DEF IInv, TablesOK, RowOK, SessionRow
  <2>3. code[h] # NoCode
    BY <2>1 DEF ReissueInv, Exists
  <2>4. CASE code'[h] # code[h]
    <3>1. PICK r \in Requests : /\ code'[h] # NoCode
                                /\ request'[r].pc = "revokeAll" /\ request'[r].target = h
      BY <1>1, <2>1, <2>2, <2>3, <2>4, CodeChanges
    <3>2. Reissuing(session[s].house)'
      BY <2>1, <3>1 DEF Reissuing, At
    <3> QED
      BY <2>1, <3>1, <3>2
  <2>5. CASE code'[h] = code[h] /\ Reissuing(h)
    <3>1. PICK r \in Requests : request[r].pc = "revokeAll" /\ request[r].target = h
      BY <2>5 DEF Reissuing, At
    <3>2. ~DeleteForHousehold(r)
      <4> SUFFICES ASSUME DeleteForHousehold(r) PROVE FALSE
        OBVIOUS
      <4>1. session'[s] = NoRow
        BY <2>1, <3>1 DEF DeleteForHousehold
      <4> QED
        BY <1>1, <4>1
    <3>3. request'[r] = request[r]
      BY <1>1, <3>1, <3>2, ReissueGoesOn
    <3>4. Reissuing(session[s].house)'
      BY <2>1, <3>1, <3>3 DEF Reissuing, At
    <3> QED
      BY <2>1, <2>3, <2>5, <3>4
  <2>6. CASE code'[h] = code[h] /\ ~Reissuing(h)
    BY <2>1, <2>3, <2>6 DEF ReissueInv, ReissueRevokes, ReplacedCode
  <2> QED
    BY <2>4, <2>5, <2>6
<1>3. CASE session'[s] = NoRow
  BY <1>1, <1>3
<1>4. ASSUME NEW r \in Requests, IssueSession(r), session'[s] = NewSession(request[r])
      PROVE  /\ code'[session'[s].house] # NoCode
             /\ session'[s].redeemed # code'[session'[s].house] => session'[s].late
  <2>1. code' = code
    BY <1>4 DEF IssueSession
  <2> QED
    BY <1>1, <1>4, <2>1, NewSessionRemembers DEF Exists
<1> QED
  BY <1>1, <1>2, <1>3, <1>4, RowsRemember

\* A session issued for a code that was good then does not survive the reissue
\* of the code, whatever raced with the revocation, as long as no request dies
\* half way through a reissue (AssignNewCode, DeleteForHousehold).
THEOREM ReissueAlwaysRevokes ==
    ASSUME ~MayDie
    PROVE  Spec => []ReissueRevokes
<1>1. Init => ReissueInv
  <2> SUFFICES ASSUME Init PROVE ReissueInv
    OBVIOUS
  <2>1. IInv
    BY InitInv
  <2>2. \A s \in SessionIds : session[s].subject = "none"
    BY DEF Init, NoRow
  <2> QED
    BY <2>1, <2>2 DEF ReissueInv, ReissueRevokes, ReplacedCode
<1>2. ASSUME ReissueInv, [Next]_vars PROVE ReissueInv'
  <2>1. IInv'
    BY <1>2, StepKeeps DEF ReissueInv
  <2>2. \A s \in SessionIds :
          session'[s].subject = "household" /\ ~session'[s].orphan => Exists(session[s].house)'
    BY <1>2, ReissueStep DEF Exists
  <2>3. ReissueRevokes'
    BY <1>2, ReissueStep DEF ReissueRevokes, ReplacedCode
  <2> QED
    BY <2>1, <2>2, <2>3 DEF ReissueInv
<1>3. ReissueInv => ReissueRevokes
  BY DEF ReissueInv
<1> QED
  BY <1>1, <1>2, <1>3, PTL DEF Spec

(***************************************************************************)
(* Whose a session is, and for how long.  A session's id travels from the  *)
(* login that issued it to one browser's cookie and from there into that   *)
(* browser's requests.  The cookie keeps the lifetime the session was      *)
(* issued with; the row's is only ever extended.                           *)
(***************************************************************************)
\* Browser c holds session s, in its cookie or on the way to or from the server.
Belongs(s, c) ==
    \/ cookie[c].sid = s
    \/ \E r \in Requests : request[r].client = c /\ s \in {request[r].cookie, request[r].new}

\* No two browsers ever hold the same session.
OneBrowser ==
    \A s \in SessionIds, c, d \in Clients : Belongs(s, c) /\ Belongs(s, d) => c = d

\* What a step of a request other than a login's insert leaves in its hands was
\* there, or in its browser's cookie.
PassesOn(r) ==
    LET q == request[r]
        n == request'[r]
    IN  /\ \/ n.client = q.client /\ n.cookie = q.cookie /\ n.new \in {q.new, NoSession}
           \/ n.cookie = NoSession /\ n.new = NoSession
           \/ /\ n.client \in Clients /\ n.new = NoSession
              /\ n.cookie \in {NoSession, cookie[n.client].sid}
        /\ \A c \in Clients : \/ cookie'[c].sid = cookie[c].sid
                              \/ cookie'[c].sid = NoSession
                              \/ q.client = c /\ cookie'[c].sid = q.new

\* Every step but the insert hands on what it was given.
LEMMA StepsPassOn ==
    ASSUME IInv, NEW r \in Requests, Receive(r) \/ RequestStep(r) \/ Abort(r), ~IssueSession(r)
    PROVE  PassesOn(r)
<1> DEFINE q == request[r]
<1>1. q \in InHandType /\ request \in [Requests -> InHandType] /\ cookie \in [Clients -> Cookie]
  BY DEF IInv
<1>2. ASSUME NEW n, Goes(r, n) PROVE request'[r] = n
  BY <1>1, <1>2 DEF Goes
<1>3. ASSUME Goes(r, Idle), UNCHANGED cookie PROVE PassesOn(r)
  <2>1. request'[r] = Idle
    BY <1>2, <1>3
  <2> QED
    BY <1>3, <2>1 DEF PassesOn, Idle
<1>4. ASSUME NEW n, Goes(r, n), n.client = q.client, n.cookie = q.cookie,
             n.new \in {q.new, NoSession}, UNCHANGED cookie
      PROVE  PassesOn(r)
  <2>1. request'[r] = n
    BY <1>2, <1>4
  <2> QED
    BY <1>4, <2>1 DEF PassesOn
<1>5. CASE Receive(r)
  <2>1. PICK c \in Clients : \E op, k, h, pc :
          Goes(r, [Idle EXCEPT !.pc = pc, !.op = op, !.client = c, !.code = k, !.target = h,
                               !.startedAt = clock, !.cookie = Presented(c)])
    BY <1>5 DEF Receive
  <2>3. /\ request'[r].client = c /\ request'[r].new = NoSession
        /\ request'[r].cookie = Presented(c)
    BY <1>2, <2>1 DEF Idle
  <2>2. UNCHANGED cookie /\ Presented(c) \in {NoSession, cookie[c].sid}
    BY <1>5 DEF Receive, Presented
  <2> QED
    BY <2>3, <2>2 DEF PassesOn
<1>6. CASE FindSession(r) \/ FindHousehold(r) \/ Refresh(r) \/ DiscardSession(r)
  <2>1. ASSUME NEW k \in InHandType, NEW row
        PROVE  /\ Anonymous(k).client = k.client /\ Anonymous(k).cookie = k.cookie
               /\ Anonymous(k).new = k.new
               /\ Admitted(k, row).client = k.client /\ Admitted(k, row).cookie = k.cookie
               /\ Admitted(k, row).new = k.new
    BY DEF Anonymous, Admitted, InHandType
  <2>2. CASE FindSession(r)
    <3> DEFINE row  == session[q.cookie]
               read == [q EXCEPT !.session = row, !.sid = q.cookie]
    <3>1. q.cookie \in SessionIds
      BY <2>2, Known DEF FindSession, At, RequestOK, InHandType
    <3>2. row \in SessionRow /\ read \in InHandType
      BY <1>1, <3>1, Known DEF InHandType
    <3>3. read.client = q.client /\ read.cookie = q.cookie /\ read.new = q.new
      BY <1>1 DEF InHandType
    <3> DEFINE n == IF ~Stored(q.cookie) THEN Anonymous(q)
                    ELSE IF IsExpired(row, clock) THEN [q EXCEPT !.pc = "discard"]
                    ELSE IF row.subject = "household" THEN [read EXCEPT !.pc = "household"]
                    ELSE Admitted(read, row)
    <3>4. /\ [q EXCEPT !.pc = "discard"].client = q.client
          /\ [q EXCEPT !.pc = "discard"].cookie = q.cookie
          /\ [q EXCEPT !.pc = "discard"].new = q.new
          /\ [read EXCEPT !.pc = "household"].client = read.client
          /\ [read EXCEPT !.pc = "household"].cookie = read.cookie
          /\ [read EXCEPT !.pc = "household"].new = read.new
      BY <1>1, <3>2 DEF InHandType
    <3>5. Goes(r, n) /\ UNCHANGED cookie
      BY <2>2 DEF FindSession
    <3> HIDE DEF read, row
    <3>6. n.client = q.client /\ n.cookie = q.cookie /\ n.new = q.new
      BY <1>1, <2>1, <3>2, <3>3, <3>4
    <3> HIDE DEF n
    <3> QED
      BY <1>4, <3>5, <3>6
  <2>3. CASE FindHousehold(r)
    <3> DEFINE n == IF Exists(q.session.house) THEN Admitted(q, q.session)
                    ELSE [q EXCEPT !.pc = "discard"]
    <3>1. Goes(r, n) /\ UNCHANGED cookie
      BY <2>3 DEF FindHousehold
    <3>2. n.client = q.client /\ n.cookie = q.cookie /\ n.new = q.new
      BY <1>1, <2>1 DEF InHandType
    <3> HIDE DEF n
    <3> QED
      BY <1>4, <3>1, <3>2
  <2>4. CASE Refresh(r)
    <3> DEFINE n == [q EXCEPT !.pc = "handle", !.session = Refreshed(@, q.now)]
    <3>1. Goes(r, n) /\ UNCHANGED cookie
      BY <2>4 DEF Refresh
    <3>2. n.client = q.client /\ n.cookie = q.cookie /\ n.new = q.new
      BY <1>1 DEF InHandType
    <3> HIDE DEF n
    <3> QED
      BY <1>4, <3>1, <3>2
  <2>5. CASE DiscardSession(r)
    <3>1. Goes(r, Anonymous(q)) /\ UNCHANGED cookie
      BY <2>5 DEF DiscardSession
    <3> QED
      BY <1>1, <1>4, <2>1, <3>1
  <2> QED
    BY <1>6, <2>2, <2>3, <2>4, <2>5
<1>7. CASE DiscardFails(r) \/ Abort(r)
  <2>1. CASE Goes(r, Idle)
    BY <1>3, <1>7, <2>1 DEF DiscardFails, Abort
  <2>2. CASE Goes(r, Failed(q)) /\ Abort(r)
    <3>1. q.pc # "idle" /\ UNCHANGED cookie
      BY <2>2 DEF Abort, At
    <3>2. Failed(q).client = q.client /\ Failed(q).cookie = q.cookie /\ Failed(q).new = NoSession
      BY <3>1, FailedOK, Known
    <3> QED
      BY <1>4, <2>2, <3>1, <3>2
  <2> QED
    BY <1>7, <2>1, <2>2 DEF DiscardFails, Abort
<1>8. ASSUME NEW pc
      PROVE  /\ [q EXCEPT !.pc = pc].client = q.client /\ [q EXCEPT !.pc = pc].cookie = q.cookie
             /\ [q EXCEPT !.pc = pc].new = q.new
  BY <1>1 DEF InHandType
<1>9. CASE \/ Me(r) \/ RevokePrevious(r) \/ DeleteForHousehold(r) \/ DeleteHousehold(r)
           \/ CreateHousehold(r) \/ AssignNewCode(r)
  <2>1. UNCHANGED cookie
    BY <1>9 DEF Me, RevokePrevious, DeleteForHousehold, DeleteHousehold, CreateHousehold,
                AssignNewCode
  <2>2. Goes(r, [q EXCEPT !.pc = "respond"]) \/ Goes(r, [q EXCEPT !.pc = "revokeAll"])
    BY <1>9 DEF Me, RevokePrevious, DeleteForHousehold, DeleteHousehold, CreateHousehold,
                AssignNewCode
  <2> QED
    BY <1>4, <1>8, <2>1, <2>2
<1>10. CASE LogInFindByCode(r) \/ AdminLogIn(r) \/ LogOut(r)
  <2>1. UNCHANGED cookie
    BY <1>10 DEF LogInFindByCode, AdminLogIn, LogOut
  <2>2. \/ \E pc : Goes(r, [q EXCEPT !.pc = pc])
        \/ \E pc, clear : Goes(r, [q EXCEPT !.pc = pc, !.clear = clear])
        \/ \E pc, now : Goes(r, [q EXCEPT !.pc = pc, !.now = now])
        \/ \E pc, house, now : Goes(r, [q EXCEPT !.pc = pc, !.house = house, !.now = now])
    BY <1>10 DEF LogInFindByCode, AdminLogIn, LogOut
  <2>3. ASSUME NEW pc, Goes(r, [q EXCEPT !.pc = pc]) PROVE PassesOn(r)
    BY <1>4, <1>8, <2>1, <2>3
  <2>4. ASSUME NEW pc, NEW clear, Goes(r, [q EXCEPT !.pc = pc, !.clear = clear])
        PROVE  PassesOn(r)
    <3> DEFINE n == [q EXCEPT !.pc = pc, !.clear = clear]
    <3>1. n.client = q.client /\ n.cookie = q.cookie /\ n.new = q.new
      BY <1>1 DEF InHandType
    <3>2. Goes(r, n)
      BY <2>4
    <3> HIDE DEF n
    <3> QED
      BY <1>4, <2>1, <3>1, <3>2
  <2>5. ASSUME NEW pc, NEW now, Goes(r, [q EXCEPT !.pc = pc, !.now = now])
        PROVE  PassesOn(r)
    <3> DEFINE n == [q EXCEPT !.pc = pc, !.now = now]
    <3>1. n.client = q.client /\ n.cookie = q.cookie /\ n.new = q.new
      BY <1>1 DEF InHandType
    <3>2. Goes(r, n)
      BY <2>5
    <3> HIDE DEF n
    <3> QED
      BY <1>4, <2>1, <3>1, <3>2
  <2>6. ASSUME NEW pc, NEW house, NEW now,
               Goes(r, [q EXCEPT !.pc = pc, !.house = house, !.now = now])
        PROVE  PassesOn(r)
    <3> DEFINE n == [q EXCEPT !.pc = pc, !.house = house, !.now = now]
    <3>1. n.client = q.client /\ n.cookie = q.cookie /\ n.new = q.new
      BY <1>1 DEF InHandType
    <3>2. Goes(r, n)
      BY <2>6
    <3> HIDE DEF n
    <3> QED
      BY <1>4, <2>1, <3>1, <3>2
  <2> QED
    BY <2>2, <2>3, <2>4, <2>5, <2>6
<1>11. CASE Respond(r)
  <2> DEFINE lasts == q.now + LifetimeOf(IF q.op = "LogIn" THEN "household" ELSE "admin")
  <2>1. /\ cookie' = [cookie EXCEPT ![q.client] =
                        IF q.new # NoSession THEN [sid |-> q.new, expiresAt |-> lasts]
                        ELSE IF q.clear THEN NoCookie ELSE @]
        /\ Goes(r, Idle)
    BY <1>11 DEF Respond
  <2>2. request'[r] = Idle
    BY <1>2, <2>1
  <2> HIDE DEF lasts
  <2>3. ASSUME NEW c \in Clients
        PROVE  \/ cookie'[c].sid = cookie[c].sid
               \/ cookie'[c].sid = NoSession
               \/ q.client = c /\ cookie'[c].sid = q.new
    <3>1. CASE c = q.client
      BY <1>1, <2>1, <3>1 DEF NoCookie
    <3>2. CASE c # q.client
      BY <1>1, <2>1, <3>2
    <3> QED
      BY <3>1, <3>2
  <2> QED
    BY <2>2, <2>3 DEF PassesOn, Idle
<1> QED
  BY <1>5, <1>6, <1>7, <1>9, <1>10, <1>11 DEF RequestStep

\* A login's insert adds the session it inserts to what its browser holds.
LEMMA IssueHandsOver ==
    ASSUME IInv, NEW r \in Requests, IssueSession(r)
    PROVE  /\ UNCHANGED cookie
           /\ request'[r].client = request[r].client /\ request'[r].cookie = request[r].cookie
           /\ request'[r].new = issued + 1 /\ request'[r].now = request[r].now
           /\ request'[r].op = request[r].op /\ request'[r].pc \in {"revoke", "respond"}
           /\ session' = [session EXCEPT ![issued + 1] = NewSession(request[r])]
           /\ issued + 1 \in SessionIds
<1> DEFINE q == request[r]
           pc == IF q.sid = NoSession THEN "respond" ELSE "revoke"
<1>1. q \in InHandType /\ request \in [Requests -> InHandType] /\ issued \in 0 .. MaxSessions
  BY DEF IInv
<1>2. /\ request'[r] = [q EXCEPT !.pc = pc, !.new = issued + 1] /\ UNCHANGED cookie
      /\ session' = [session EXCEPT ![issued + 1] = NewSession(q)] /\ issued < MaxSessions
  BY <1>1 DEF IssueSession, Goes
<1> QED
  BY <1>1, <1>2, SessionsAssumption DEF InHandType, SessionIds

\* Nobody holds a session that was not issued.
LEMMA IssuedFirst ==
    ASSUME IInv, NEW s \in SessionIds, NEW c \in Clients, Belongs(s, c)
    PROVE  s <= issued
  BY DEF IInv, RequestOK, Belongs

\* No step hands a session to a second browser.
LEMMA OneBrowserStep ==
    ASSUME IInv, OneBrowser, [Next]_vars
    PROVE  OneBrowser'
<1>1. CASE UNCHANGED <<cookie, request>>
  BY <1>1 DEF OneBrowser, Belongs
<1>2. ASSUME NEW r \in Requests, Receive(r) \/ RequestStep(r) \/ Abort(r) PROVE OneBrowser'
  <2>1. \A p \in Requests : p # r => request'[p] = request[p]
    BY <1>2, OneMoves
  <2>2. CASE ~IssueSession(r)
    <3>1. PassesOn(r)
      BY <1>2, <2>2, StepsPassOn
    <3>2. ASSUME NEW s \in SessionIds, NEW c \in Clients, Belongs(s, c)' PROVE Belongs(s, c)
      <4>0. s # NoSession
        BY DEF SessionIds, NoSession
      <4>1. CASE cookie'[c].sid = s
        BY <3>1, <4>0, <4>1 DEF PassesOn, Belongs
      <4>2. ASSUME NEW p \in Requests, request'[p].client = c,
                   s \in {request'[p].cookie, request'[p].new}
            PROVE  Belongs(s, c)
        <5>1. CASE p # r
          BY <2>1, <4>2, <5>1 DEF Belongs
        <5>2. CASE p = r
          BY <3>1, <4>0, <4>2, <5>2 DEF PassesOn, Belongs
        <5> QED
          BY <5>1, <5>2
      <4> QED
        BY <3>2, <4>1, <4>2 DEF Belongs
    <3> QED
      BY <3>2 DEF OneBrowser
  <2>3. CASE IssueSession(r)
    <3>1. /\ UNCHANGED cookie /\ request'[r].client = request[r].client
          /\ request'[r].cookie = request[r].cookie /\ request'[r].new = issued + 1
      BY <2>3, IssueHandsOver
    <3>2. ASSUME NEW s \in SessionIds, NEW c \in Clients, Belongs(s, c)'
          PROVE  Belongs(s, c) \/ (s = issued + 1 /\ c = request[r].client)
      <4>1. CASE cookie'[c].sid = s
        BY <3>1, <4>1 DEF Belongs
      <4>2. ASSUME NEW p \in Requests, request'[p].client = c,
                   s \in {request'[p].cookie, request'[p].new}
            PROVE  Belongs(s, c) \/ (s = issued + 1 /\ c = request[r].client)
        BY <2>1, <3>1, <4>2 DEF Belongs
      <4> QED
        BY <3>2, <4>1, <4>2 DEF Belongs
    <3>3. \A c \in Clients : issued + 1 \in SessionIds => ~Belongs(issued + 1, c)
      BY IssuedFirst DEF IInv
    <3> QED
      BY <3>2, <3>3 DEF OneBrowser
  <2> QED
    BY <2>2, <2>3
<1> QED
  BY <1>1, <1>2 DEF Next, Tick, PurgeExpired, vars

\* A session is one browser's: whatever logins, refreshes and revocations race,
\* its id is in no other browser's cookie, request or answer, so that "its own
\* browser" in EndsForAReason means one (IssueSession, Respond, Receive).
THEOREM SessionsHaveOneBrowser == Spec => []OneBrowser
<1>1. Init => OneBrowser
  <2> SUFFICES ASSUME Init, NEW s \in SessionIds, NEW c \in Clients, Belongs(s, c)
               PROVE  FALSE
    BY DEF OneBrowser
  <2> QED
    BY DEF Init, Belongs, Idle, NoCookie, NoSession, SessionIds
<1>2. IInv /\ OneBrowser /\ [Next]_vars => OneBrowser'
  BY OneBrowserStep
<1> QED
  BY <1>1, <1>2, InvAlways, PTL DEF Spec

\* A request that is about to refresh its session has just been admitted.
LEMMA RefreshIsAdmitted ==
    ASSUME IInv, NEW r \in Requests, Receive(r) \/ RequestStep(r) \/ Abort(r),
           request'[r].pc = "refresh"
    PROVE  FindHousehold(r) /\ request'[r].now = clock
<1> DEFINE q == request[r]
<1>1. q \in InHandType /\ request \in [Requests -> InHandType]
  BY DEF IInv
<1>2. ASSUME NEW n, Goes(r, n) PROVE request'[r] = n
  BY <1>1, <1>2 DEF Goes
<1>3. /\ \A k \in InHandType : Anonymous(k).pc = "handle"
      /\ \A k \in InHandType : \A pc : [k EXCEPT !.pc = pc].pc = pc
  BY DEF Anonymous, InHandType
<1>4. ~Receive(r)
  <2> SUFFICES ASSUME Receive(r) PROVE FALSE
    OBVIOUS
  <2>1. \E op, c, k, h, pc : /\ pc \in {"handle", "find"}
          /\ Goes(r, [Idle EXCEPT !.pc = pc, !.op = op, !.client = c, !.code = k, !.target = h,
                                  !.startedAt = clock, !.cookie = Presented(c)])
    BY DEF Receive
  <2> QED
    BY <1>2, <2>1 DEF Idle
<1>5. ~FindSession(r)
  <2> SUFFICES ASSUME FindSession(r) PROVE FALSE
    OBVIOUS
  <2> DEFINE row  == session[q.cookie]
             read == [q EXCEPT !.session = row, !.sid = q.cookie]
  <2> DEFINE n == IF ~Stored(q.cookie) THEN Anonymous(q)
                  ELSE IF IsExpired(row, clock) THEN [q EXCEPT !.pc = "discard"]
                  ELSE IF row.subject = "household" THEN [read EXCEPT !.pc = "household"]
                  ELSE Admitted(read, row)
  <2>1. Goes(r, n)
    BY DEF FindSession
  <2>2. q.cookie \in SessionIds
    BY Known DEF FindSession, At, RequestOK, InHandType
  <2>3. row \in SessionRow /\ read \in InHandType
    BY <1>1, <2>2, Known DEF InHandType
  <2>4. row.subject # "household" => Admitted(read, row).pc = "handle"
    BY <2>3 DEF Admitted, NeedsRefresh, InHandType
  <2>5. /\ [q EXCEPT !.pc = "discard"].pc = "discard"
        /\ [read EXCEPT !.pc = "household"].pc = "household"
        /\ Anonymous(q).pc = "handle"
    BY <1>1, <1>3, <2>3
  <2> HIDE DEF read, row
  <2>6. n.pc # "refresh"
    BY <2>4, <2>5
  <2> HIDE DEF n
  <2> QED
    BY <1>2, <2>1, <2>6
<1>6. ~Refresh(r) /\ ~DiscardSession(r) /\ ~DiscardFails(r) /\ ~Abort(r) /\ ~Respond(r)
  <2>1. [q EXCEPT !.pc = "handle", !.session = Refreshed(@, q.now)].pc = "handle"
    BY <1>1 DEF InHandType
  <2>2. Idle.pc = "idle" /\ Anonymous(q).pc = "handle"
    BY <1>1, <1>3 DEF Idle
  <2>3. Failed(q).pc = "respond"
    BY <1>1 DEF Failed, InHandType
  <2> QED
    BY <1>2, <2>1, <2>2, <2>3 DEF Refresh, DiscardSession, DiscardFails, Abort, Respond
<1>7. ~Me(r) /\ ~RevokePrevious(r) /\ ~DeleteForHousehold(r) /\ ~DeleteHousehold(r)
      /\ ~CreateHousehold(r) /\ ~AssignNewCode(r)
  <2>1. /\ [q EXCEPT !.pc = "respond"].pc = "respond"
        /\ [q EXCEPT !.pc = "revokeAll"].pc = "revokeAll"
    BY <1>1, <1>3
  <2> QED
    BY <1>2, <2>1 DEF Me, RevokePrevious, DeleteForHousehold, DeleteHousehold,
                      CreateHousehold, AssignNewCode
<1>8. ~LogInFindByCode(r)
  <2> SUFFICES ASSUME LogInFindByCode(r) PROVE FALSE
    OBVIOUS
  <2>1. CASE Goes(r, [q EXCEPT !.pc = "respond"])
    <3>1. request'[r] = [q EXCEPT !.pc = "respond"]
      BY <1>2, <2>1
    <3> QED
      BY <1>1, <3>1 DEF InHandType
  <2>2. ASSUME NEW h, Goes(r, [q EXCEPT !.pc = "issue", !.house = h, !.now = clock])
        PROVE  FALSE
    <3>1. request'[r] = [q EXCEPT !.pc = "issue", !.house = h, !.now = clock]
      BY <1>2, <2>2
    <3> QED
      BY <1>1, <3>1 DEF InHandType
  <2> QED
    BY <2>1, <2>2 DEF LogInFindByCode
<1>9. ~AdminLogIn(r) /\ ~LogOut(r)
  <2>1. /\ [q EXCEPT !.pc = "issue", !.now = clock].pc = "issue"
        /\ [q EXCEPT !.pc = "respond", !.clear = TRUE].pc = "respond"
    BY <1>1 DEF InHandType
  <2> QED
    BY <1>2, <2>1 DEF AdminLogIn, LogOut
<1>10. ~IssueSession(r)
  BY IssueHandsOver
<1>11. FindHousehold(r)
  BY <1>4, <1>5, <1>6, <1>7, <1>8, <1>9, <1>10 DEF RequestStep
<1>12. request'[r].now = clock
  <2>1. Goes(r, IF Exists(q.session.house) THEN Admitted(q, q.session)
                ELSE [q EXCEPT !.pc = "discard"])
    BY <1>11 DEF FindHousehold
  <2>2. Admitted(q, q.session).now = clock /\ [q EXCEPT !.pc = "discard"].pc = "discard"
    BY <1>1 DEF Admitted, InHandType
  <2> QED
    BY <1>2, <2>1, <2>2
<1> QED
  BY <1>11, <1>12

\* A row keeps when it was issued and when it was seen, is refreshed, goes, or
\* has just been inserted.
Ages(s) ==
    /\ session[s].subject # "none" /\ session'[s].subject = session[s].subject
    /\ session'[s].issuedAt = session[s].issuedAt
    /\ \/ session'[s].lastSeen = session[s].lastSeen
       \/ \E r \in Requests : /\ request[r].pc = "refresh" /\ request[r].sid = s
                              /\ session'[s].lastSeen = request[r].now

\* That is all that happens to a row.
LEMMA RowsAge ==
    ASSUME IInv, [Next]_vars, NEW s \in SessionIds, session'[s].subject # "none"
    PROVE  \/ Ages(s)
           \/ \E r \in Requests : /\ IssueSession(r) /\ s = issued + 1
                                  /\ session'[s] = NewSession(request[r])
<1>1. session \in [SessionIds -> SessionRow] /\ session[s] \in SessionRow /\ NoRow.subject = "none"
  BY DEF IInv, TablesOK, NoRow
<1>2. ASSUME session'[s] = session[s] PROVE Ages(s)
  BY <1>1, <1>2 DEF Ages
<1>3. ASSUME NEW r \in Requests, Refresh(r) PROVE Ages(s)
  <2>1. \/ session'[s] = session[s]
        \/ /\ session'[s] = Refreshed(session[s], request[r].now)
           /\ request[r].pc = "refresh" /\ request[r].sid = s /\ Stored(s)
    BY <1>1, <1>3 DEF Refresh, At
  <2>2. CASE session'[s] = Refreshed(session[s], request[r].now)
    <3>1. /\ session'[s].subject = session[s].subject /\ session'[s].issuedAt = session[s].issuedAt
          /\ session'[s].lastSeen = request[r].now
      BY <1>1, <2>2 DEF Refreshed, SessionRow
    <3> QED
      BY <1>2, <2>1, <3>1 DEF Ages, Stored
  <2> QED
    BY <1>2, <2>1, <2>2
<1>4. ASSUME NEW r \in Requests, Me(r) PROVE Ages(s)
  <2> DEFINE t == Later(session[s].usedAt, request[r].startedAt)
  <2>1. \/ session'[s] = session[s]
        \/ session'[s] = [session[s] EXCEPT !.usedAt = t]
    BY <1>1, <1>4 DEF Me
  <2> HIDE DEF t
  <2>2. CASE session'[s] = [session[s] EXCEPT !.usedAt = t]
    BY <1>1, <2>2 DEF SessionRow, Ages
  <2> QED
    BY <1>2, <2>1, <2>2
<1>5. ASSUME NEW r \in Requests, DeleteHousehold(r) PROVE Ages(s)
  <2>1. session'[s] = session[s] \/ session'[s] = [session[s] EXCEPT !.orphan = TRUE]
    BY <1>1, <1>5 DEF DeleteHousehold
  <2>2. CASE session'[s] = [session[s] EXCEPT !.orphan = TRUE]
    BY <1>1, <2>2 DEF SessionRow, Ages
  <2> QED
    BY <1>2, <2>1, <2>2
<1>6. ASSUME NEW r \in Requests, IssueSession(r)
      PROVE  session'[s] = session[s] \/ (s = issued + 1 /\ session'[s] = NewSession(request[r]))
  BY <1>1, <1>6, IssueHandsOver
<1>7. ASSUME NEW r \in Requests,
             DiscardSession(r) \/ RevokePrevious(r) \/ LogOut(r) \/ DeleteForHousehold(r)
      PROVE  session'[s] = session[s]
  BY <1>1, <1>7 DEF DiscardSession, RevokePrevious, LogOut, DeleteForHousehold
<1>8. CASE PurgeExpired
  BY <1>1, <1>2, <1>8 DEF PurgeExpired
<1>9. CASE Tick \/ UNCHANGED vars
  BY <1>2, <1>9 DEF Tick, vars
<1>10. ASSUME NEW r \in Requests,
              \/ Receive(r) \/ FindSession(r) \/ FindHousehold(r) \/ DiscardFails(r)
              \/ LogInFindByCode(r) \/ AdminLogIn(r) \/ AssignNewCode(r)
              \/ CreateHousehold(r) \/ Respond(r) \/ Abort(r)
       PROVE  session'[s] = session[s]
  BY <1>10 DEF Receive, FindSession, FindHousehold, DiscardFails, LogInFindByCode, AdminLogIn,
               AssignNewCode, CreateHousehold, Respond, Abort
<1>11. ASSUME NEW r \in Requests, RequestStep(r) \/ Receive(r) \/ Abort(r)
       PROVE  \/ Ages(s)
              \/ /\ IssueSession(r) /\ s = issued + 1
                 /\ session'[s] = NewSession(request[r])
  BY <1>2, <1>3, <1>4, <1>5, <1>6, <1>7, <1>10, <1>11 DEF RequestStep
<1> QED
  BY <1>8, <1>9, <1>11 DEF Next

\* A login's answer is on its way for the session it issued, and a refresh for
\* a session that was issued before.
Carries(q, rows) ==
    /\ q.new # NoSession =>
          /\ q.pc \in {"revoke", "respond"}
          /\ rows[q.new].subject # "none" =>
                /\ rows[q.new].subject = IF q.op = "LogIn" THEN "household" ELSE "admin"
                /\ rows[q.new].issuedAt = q.now
    /\ q.pc = "refresh" /\ rows[q.sid].subject # "none" => rows[q.sid].issuedAt <= q.now

\* A cookie lives as long as its session was issued for.
HoldsCookie(k, rows) ==
    k.sid # NoSession /\ rows[k.sid].subject # "none" =>
        k.expiresAt = rows[k.sid].issuedAt + LifetimeOf(rows[k.sid].subject)

\* Those, and that a session is seen only after it was issued.
CookieInv ==
    /\ IInv
    /\ \A s \in SessionIds :
          session[s].subject # "none" => session[s].issuedAt <= session[s].lastSeen
    /\ \A c \in Clients : HoldsCookie(cookie[c], session)
    /\ \A r \in Requests : Carries(request[r], session)

\* The browser drops a cookie no later than the server ends its session, and an
\* admin's at the same moment.
CookieWithinSession ==
    \A c \in Clients : cookie[c].sid # NoSession /\ Stored(cookie[c].sid) =>
        LET row == session[cookie[c].sid]
        IN  /\ cookie[c].expiresAt <= row.expiresAt
            /\ row.subject = "admin" => cookie[c].expiresAt = row.expiresAt

\* What a login inserts was seen when it was issued.
LEMMA NewSessionAges ==
    ASSUME IInv, NEW r \in Requests, IssueSession(r)
    PROVE  /\ NewSession(request[r]).issuedAt = request[r].now
           /\ NewSession(request[r]).lastSeen = request[r].now
           /\ NewSession(request[r]).subject =
                IF request[r].op = "LogIn" THEN "household" ELSE "admin"
  BY DEF NewSession, NoRow

\* The rows of the next state were seen after they were issued.
LEMMA RowsSeen ==
    ASSUME CookieInv, [Next]_vars, NEW s \in SessionIds, session'[s].subject # "none"
    PROVE  session'[s].issuedAt <= session'[s].lastSeen
<1>1. IInv
  BY DEF CookieInv
<1>2. CASE Ages(s)
  <2>1. CASE session'[s].lastSeen = session[s].lastSeen
    BY <1>2, <2>1 DEF CookieInv, Ages
  <2>2. ASSUME NEW r \in Requests, request[r].pc = "refresh", request[r].sid = s,
               session'[s].lastSeen = request[r].now
        PROVE  session'[s].issuedAt <= session'[s].lastSeen
    BY <1>2, <2>2 DEF CookieInv, Carries, Ages
  <2> QED
    BY <1>2, <2>1, <2>2 DEF Ages
<1>3. ASSUME NEW r \in Requests, IssueSession(r), session'[s] = NewSession(request[r])
      PROVE  session'[s].issuedAt <= session'[s].lastSeen
  <2>1. request[r].now \in Int
    BY <1>1 DEF IInv, InHandType, Time
  <2> QED
    BY <1>1, <1>3, <2>1, NewSessionAges
<1> QED
  BY <1>1, <1>2, <1>3, RowsAge

\* A row that was issued before is the same session.
LEMMA KnownRowsStay ==
    ASSUME IInv, [Next]_vars, NEW s \in SessionIds, s <= issued, session'[s].subject # "none"
    PROVE  /\ session[s].subject # "none" /\ session'[s].subject = session[s].subject
           /\ session'[s].issuedAt = session[s].issuedAt
<1>1. s # issued + 1
  BY DEF IInv, SessionIds
<1> QED
  BY <1>1, RowsAge DEF Ages

\* A request in whose hands nothing changes carries what it did.
LEMMA StillCarries ==
    ASSUME IInv, [Next]_vars, NEW r \in Requests, Carries(request[r], session)
    PROVE  Carries(request[r], session')
<1> DEFINE q == request[r]
<1>1. RequestOK(q, session, issued, clock) /\ q \in InHandType
  BY Known
<1>2. q.new # NoSession => q.new \in SessionIds /\ q.new <= issued
  BY <1>1 DEF RequestOK, InHandType
<1>3. q.pc = "refresh" => q.sid \in SessionIds /\ q.sid <= issued
  BY <1>1 DEF RequestOK, InHandType
<1> QED
  BY <1>2, <1>3, KnownRowsStay DEF Carries

\* What the request that moves carries.
LEMMA MovingCarries ==
    ASSUME CookieInv, [Next]_vars, NEW r \in Requests, Receive(r) \/ RequestStep(r) \/ Abort(r)
    PROVE  Carries(request'[r], session')
<1> DEFINE q == request[r]
           n == request'[r]
<1>1. /\ IInv /\ Carries(q, session) /\ Carries(q, session')
      /\ RequestOK(q, session, issued, clock) /\ q \in InHandType
      /\ request \in [Requests -> InHandType] /\ clock \in Nat
  BY StillCarries, Known DEF CookieInv, IInv
<1>2. CASE IssueSession(r)
  <2>1. /\ n.new = issued + 1 /\ n.now = q.now /\ n.op = q.op /\ n.pc \in {"revoke", "respond"}
        /\ session'[issued + 1] = NewSession(q)
    BY <1>1, <1>2, IssueHandsOver DEF IInv, TablesOK
  <2>2. /\ NewSession(q).issuedAt = q.now
        /\ NewSession(q).subject = IF q.op = "LogIn" THEN "household" ELSE "admin"
    BY <1>1, <1>2, NewSessionAges
  <2> QED
    BY <2>1, <2>2 DEF Carries
<1>3. CASE RevokePrevious(r)
  <2>1. n = [q EXCEPT !.pc = "respond"]
    BY <1>1, <1>3 DEF RevokePrevious, Goes
  <2>2. n.new = q.new /\ n.now = q.now /\ n.op = q.op /\ n.pc = "respond"
    BY <1>1, <2>1 DEF InHandType
  <2> QED
    BY <1>1, <2>2 DEF Carries
<1>4. CASE ~IssueSession(r) /\ ~RevokePrevious(r)
  <2>1. n.new = NoSession
    <3>1. CASE q.new = NoSession
      BY <1>1, <1>4, <3>1, StepsPassOn DEF PassesOn
    <3>2. CASE q.pc \in {"revoke", "respond"}
      <4>1. Respond(r) \/ Abort(r)
        BY <1>4, <3>2 DEF RequestStep, Receive, FindSession, FindHousehold, Refresh,
           DiscardSession, DiscardFails, Me, LogInFindByCode, AdminLogIn, LogOut,
           AssignNewCode, DeleteForHousehold, DeleteHousehold, CreateHousehold, Handling, At
      <4>2. n = Idle \/ n = Failed(q)
        BY <1>1, <4>1 DEF Respond, Abort, Goes
      <4>3. Failed(q).new = NoSession
        BY <1>1 DEF Failed, InHandType
      <4> QED
        BY <4>2, <4>3 DEF Idle
    <3> QED
      BY <1>1, <3>1, <3>2 DEF Carries
  <2>2. CASE n.pc # "refresh"
    <3> QED
      BY <2>1, <2>2 DEF Carries
  <2>3. CASE n.pc = "refresh"
    <3>1. FindHousehold(r) /\ n.now = clock
      BY <1>1, <2>3, RefreshIsAdmitted
    <3>2. session' = session /\ n.sid = q.sid /\ q.sid \in SessionIds \cup {NoSession}
      <4>1. /\ session' = session
            /\ Goes(r, IF Exists(q.session.house) THEN Admitted(q, q.session)
                       ELSE [q EXCEPT !.pc = "discard"])
        BY <3>1 DEF FindHousehold
      <4>2. Admitted(q, q.session).sid = q.sid /\ [q EXCEPT !.pc = "discard"].sid = q.sid
        BY <1>1 DEF Admitted, InHandType
      <4>3. q.sid \in SessionIds \cup {NoSession}
        BY <1>1 DEF InHandType
      <4> QED
        BY <1>1, <4>1, <4>2, <4>3 DEF Goes
    <3>3. q.sid \in SessionIds
      BY <1>1, <3>1, <3>2 DEF FindHousehold, At, RequestOK, NoSession
    <3>4. session[q.sid].subject # "none" => session[q.sid].issuedAt <= clock
      <4>1. /\ RowOK(session[q.sid], clock)
            /\ session[q.sid].issuedAt \in Nat /\ session[q.sid].lastSeen \in Nat
        BY <1>1, <3>3 DEF IInv, TablesOK, RowOK, SessionRow, Time
      <4> QED
        BY <1>1, <3>3, <4>1 DEF CookieInv, RowOK
    <3> QED
      BY <2>1, <3>1, <3>2, <3>4 DEF Carries
  <2> QED
    BY <2>2, <2>3
<1> QED
  BY <1>2, <1>3, <1>4

\* A cookie is left alone, dropped, or brought by the answer to a login.
LEMMA CookiesHold ==
    ASSUME CookieInv, [Next]_vars, NEW c \in Clients
    PROVE  HoldsCookie(cookie'[c], session')
<1>1. /\ IInv /\ cookie[c] \in Cookie /\ cookie[c].sid <= issued
      /\ HoldsCookie(cookie[c], session)
  BY DEF CookieInv, IInv
<1>2. HoldsCookie(cookie[c], session')
  <2>1. cookie[c].sid # NoSession => cookie[c].sid \in SessionIds
    BY <1>1 DEF Cookie
  <2> QED
    BY <1>1, <2>1, KnownRowsStay DEF HoldsCookie
<1>3. ASSUME NEW r \in Requests, Respond(r) PROVE HoldsCookie(cookie'[c], session')
  <2> DEFINE q == request[r]
             kind == IF q.op = "LogIn" THEN "household" ELSE "admin"
             k == [sid |-> q.new, expiresAt |-> q.now + LifetimeOf(kind)]
  <2>1. Carries(q, session')
    BY <1>1, StillCarries DEF CookieInv
  <2>2. \/ cookie'[c] = cookie[c] \/ cookie'[c] = NoCookie
        \/ cookie'[c] = k /\ q.new # NoSession
    BY <1>1, <1>3 DEF Respond, IInv
  <2>3. CASE cookie'[c] = k /\ q.new # NoSession
    <3>1. k.sid = q.new /\ k.expiresAt = q.now + LifetimeOf(kind)
      OBVIOUS
    <3> HIDE DEF k
    <3> QED
      BY <2>1, <2>3, <3>1 DEF Carries, HoldsCookie
  <2>4. CASE cookie'[c] = NoCookie
    BY <2>4 DEF NoCookie, HoldsCookie
  <2> QED
    BY <1>2, <2>2, <2>3, <2>4
<1>4. CASE UNCHANGED cookie
  BY <1>2, <1>4
<1>5. UNCHANGED cookie \/ \E r \in Requests : Respond(r)
  BY DEF Next, vars, Tick, PurgeExpired, Receive, Abort, RequestStep, FindSession,
     FindHousehold, Refresh, DiscardSession, DiscardFails, Me, LogInFindByCode, AdminLogIn,
     IssueSession, RevokePrevious, LogOut, AssignNewCode, DeleteForHousehold,
     DeleteHousehold, CreateHousehold
<1> QED
  BY <1>3, <1>4, <1>5

\* Every step keeps it.
LEMMA CookieStep ==
    ASSUME CookieInv, [Next]_vars
    PROVE  CookieInv'
<1>1. IInv /\ IInv'
  BY StepKeeps DEF CookieInv
<1>2. ASSUME NEW r \in Requests PROVE Carries(request'[r], session')
  <2>1. CASE request'[r] = request[r]
    BY <1>1, <2>1, StillCarries DEF CookieInv
  <2>2. CASE request'[r] # request[r]
    BY <1>1, <2>2, OthersKeepRequests, MovingCarries
  <2> QED
    BY <2>1, <2>2
<1> QED
  BY <1>1, <1>2, RowsSeen, CookiesHold DEF CookieInv

\* The two ends of a session can differ in one direction only, and only for a
\* household: the run SessionsCookie shows a household whose cookie expires
\* although its session was extended; no browser keeps a cookie past the end of
\* its session, and an admin's ends with it (SetSession's Max-Age, ResolveSession
\* refreshing the row alone).
THEOREM CookiesEndInTime == Spec => []CookieWithinSession
<1>1. Init => CookieInv
  <2> SUFFICES ASSUME Init PROVE CookieInv
    OBVIOUS
  <2>1. /\ \A s \in SessionIds : session[s].subject = "none"
        /\ \A c \in Clients : cookie[c].sid = NoSession
        /\ \A r \in Requests : request[r].new = NoSession /\ request[r].pc = "idle"
    BY DEF Init, NoRow, NoCookie, Idle
  <2> QED
    BY <2>1, InitInv DEF CookieInv, HoldsCookie, Carries
<1>2. CookieInv /\ [Next]_vars => CookieInv'
  BY CookieStep
<1>3. CookieInv => CookieWithinSession
  <2> SUFFICES ASSUME CookieInv, NEW c \in Clients, cookie[c].sid # NoSession,
                      Stored(cookie[c].sid)
               PROVE  LET row == session[cookie[c].sid]
                      IN  /\ cookie[c].expiresAt <= row.expiresAt
                          /\ row.subject = "admin" => cookie[c].expiresAt = row.expiresAt
    BY DEF CookieWithinSession
  <2> DEFINE s == cookie[c].sid
             row == session[s]
  <2>1. s \in SessionIds
    BY DEF CookieInv, IInv, Cookie
  <2>2. /\ RowOK(row, clock) /\ row \in SessionRow /\ row.subject # "none"
        /\ row.issuedAt <= row.lastSeen
        /\ cookie[c].expiresAt = row.issuedAt + LifetimeOf(row.subject)
    BY <2>1 DEF CookieInv, IInv, TablesOK, Stored, HoldsCookie
  <2>3. /\ row.issuedAt \in Nat /\ row.lastSeen \in Nat /\ row.expiresAt \in Nat
        /\ row.expiresAt = row.lastSeen + LifetimeOf(row.subject)
        /\ row.subject = "admin" => row.expiresAt <= row.issuedAt + AdminLifetime
    BY <2>2 DEF RowOK, SessionRow, Time, EndsInTime
  <2>4. LifetimeOf(row.subject) \in Nat
    BY SessionsAssumption DEF LifetimeOf
  <2>5. row.subject = "admin" => LifetimeOf(row.subject) = AdminLifetime
    BY DEF LifetimeOf
  <2> HIDE DEF row, s
  <2>6. /\ cookie[c].expiresAt <= row.expiresAt
        /\ row.subject = "admin" => cookie[c].expiresAt = row.expiresAt
    BY <2>2, <2>3, <2>4, <2>5, SessionsAssumption
  <2> QED
    BY <2>6 DEF row, s
<1> QED
  BY <1>1, <1>2, <1>3, PTL DEF Spec
=============================================================================
