------------------------------ MODULE Sessions ------------------------------
(***************************************************************************)
(* Logging in, staying logged in and being logged out: the login codes of  *)
(* the household table, the session table, and the cookie each browser     *)
(* holds (application/auth, persistence/session, middleware/session).      *)
(*                                                                         *)
(* Every request of a browser first has its cookie resolved, then runs its *)
(* handler, and the browser sees the Set-Cookie headers only when the      *)
(* response arrives.  Each database statement is one step, so requests of  *)
(* one browser, of several, and of the admin interleave between them:      *)
(*                                                                         *)
(*   idle -> find -> household -> refresh -> handle -> ... -> respond      *)
(*              \-> discard -------------------^                           *)
(*                                                                         *)
(* Abstracted: the token is the session's id (security hashes it one to    *)
(* one), a code is a model value (module Domain's shape checks accept it), *)
(* last_login_at and the audit rows are not modelled, the admin's password *)
(* is right.  The clock counts an arbitrary unit of time; sub-second       *)
(* truncation of the stored timestamps is below it.                        *)
(***************************************************************************)
EXTENDS Integers, FiniteSets

CONSTANTS
    Clients,            \* browsers
    Requests,           \* requests that may be in flight at once
    Codes,              \* login codes GenerateCode may return
    MaxHouseholds,      \* row ids of households are 1 .. MaxHouseholds
    MaxSessions,        \* how many sessions are issued at most
    FirstCodes,         \* the households at the start, id -> code
    Operations,         \* what the browsers may ask for
    HouseholdLifetime,  \* householdSessionLifetime
    AdminLifetime,      \* adminSessionLifetime
    RefreshInterval,    \* sessionRefreshInterval
    MaxClock,           \* the last moment that is modelled
    MayDie              \* whether a request may end at any point

NoCode == "none"

ASSUME SessionsAssumption ==
    /\ NoCode \notin Codes
    /\ MaxHouseholds \in Nat /\ MaxSessions \in Nat /\ MaxClock \in Nat
    /\ HouseholdLifetime \in Nat /\ AdminLifetime \in Nat \ {0}
    /\ RefreshInterval \in 1 .. HouseholdLifetime
    /\ DOMAIN FirstCodes \subseteq 1 .. MaxHouseholds
    /\ \A h, k \in DOMAIN FirstCodes : FirstCodes[h] = FirstCodes[k] => h = k
    /\ \A h \in DOMAIN FirstCodes : FirstCodes[h] \in Codes
    /\ MayDie \in BOOLEAN

Households == 1 .. MaxHouseholds
SessionIds == 1 .. MaxSessions
Time       == 0 .. MaxClock

NoSession == 0

GuestOperations == {"Me", "LogIn", "LogOut"}
AdminOperations == {"AdminLogIn", "ReissueCode", "DeleteHousehold", "CreateHousehold"}

VARIABLES
    code,       \* household.code; NoCode where there is no household
    session,    \* the session table
    issued,     \* how many sessions were issued so far
    cookie,     \* the session cookie of each browser
    clock,      \* time.Now()
    request     \* what each request has in hand

vars == <<code, session, issued, cookie, clock, request>>

\* redeemed, late, issuedAt, usedAt and orphan are history: the code a session
\* was issued for, whether that code had been replaced by then, when it was
\* issued, when the last request it admitted arrived, and whether its household has been
\* deleted since.
SessionRow == [subject : {"none", "household", "admin"}, house : Households \cup {0},
               expiresAt : Nat, lastSeen : Time,
               redeemed : Codes \cup {NoCode}, issuedAt : Time, usedAt : Time,
               late : BOOLEAN, orphan : BOOLEAN]

NoRow == [subject |-> "none", house |-> 0, expiresAt |-> 0, lastSeen |-> 0,
          redeemed |-> NoCode, issuedAt |-> 0, usedAt |-> 0,
          late |-> FALSE, orphan |-> FALSE]

\* A browser drops a cookie when its Max-Age has passed.
Cookie   == [sid : SessionIds \cup {NoSession}, expiresAt : Nat]
NoCookie == [sid |-> NoSession, expiresAt |-> 0]

Idle == [pc |-> "idle", op |-> "none", client |-> 0, code |-> NoCode, target |-> 0,
         startedAt |-> 0, now |-> 0, cookie |-> NoSession, clear |-> FALSE, session |-> NoRow,
         sid |-> NoSession, house |-> 0, new |-> NoSession]

ProgramCounters == {"idle", "find", "discard", "household", "refresh", "handle",
                    "issue", "revoke", "revokeAll", "respond"}

TypeOK ==
    /\ code \in [Households -> Codes \cup {NoCode}]
    /\ session \in [SessionIds -> SessionRow]
    /\ \A s \in SessionIds : (session[s].subject = "household") = (session[s].house # 0)
    /\ issued \in 0 .. MaxSessions
    /\ cookie \in [Clients -> Cookie]
    /\ clock \in Time
    /\ request \in [Requests ->
          [pc : ProgramCounters, op : Operations \cup {"none"}, client : Clients \cup {0},
           code : Codes \cup {NoCode}, target : Households \cup {0}, startedAt : Time, now : Time,
           cookie : SessionIds \cup {NoSession}, clear : BOOLEAN, session : SessionRow,
           sid : SessionIds \cup {NoSession}, house : Households \cup {0},
           new : SessionIds \cup {NoSession}]]

Init ==
    /\ code = [h \in Households |-> IF h \in DOMAIN FirstCodes THEN FirstCodes[h] ELSE NoCode]
    /\ session = [s \in SessionIds |-> NoRow]
    /\ issued = 0
    /\ cookie = [c \in Clients |-> NoCookie]
    /\ clock = 0
    /\ request = [r \in Requests |-> Idle]

Exists(h)  == code[h] # NoCode
Stored(s)  == session[s].subject # "none"
InFlight   == {r \in Requests : request[r].pc # "idle"}
At(r, pc)  == request[r].pc = pc
Goes(r, q) == request' = [request EXCEPT ![r] = q]

\* SessionLifetime
LifetimeOf(subject) == IF subject = "household" THEN HouseholdLifetime ELSE AdminLifetime

\* IsExpired includes the expiry instant itself.
IsExpired(row, now) == now >= row.expiresAt

\* Variant: an admin session rolls like any other.
NeedsRefreshAnybody(row, now) == now - row.lastSeen >= RefreshInterval

NeedsRefresh(row, now) ==
    row.subject = "household" /\ now - row.lastSeen >= RefreshInterval

(***************************************************************************)
(* Time.  A request is over within one unit: its statements take seconds,  *)
(* the shortest lifetime takes hours.                                      *)
(***************************************************************************)
Tick ==
    /\ clock < MaxClock
    /\ \A r \in InFlight : request[r].startedAt = clock
    /\ clock' = clock + 1
    /\ UNCHANGED <<code, session, issued, cookie, request>>

(***************************************************************************)
(* A request arrives with the cookie its browser holds then.               *)
(***************************************************************************)
Presented(c) ==
    IF clock < cookie[c].expiresAt THEN cookie[c].sid ELSE NoSession

Receive(r) ==
    /\ At(r, "idle")
    /\ \E c \in Clients, op \in Operations, k \in Codes \cup {NoCode},
          h \in Households \cup {0} :
        /\ (k # NoCode) = (op = "LogIn")
        /\ (h # 0) = (op \in {"ReissueCode", "DeleteHousehold"})
        /\ Goes(r, [Idle EXCEPT !.pc = IF Presented(c) = NoSession THEN "handle" ELSE "find",
                                !.op = op, !.client = c, !.code = k, !.target = h,
                                !.startedAt = clock, !.cookie = Presented(c)])
    /\ UNCHANGED <<code, session, issued, cookie, clock>>

(***************************************************************************)
(* SessionGate.Resolve and ResolveSession.                                 *)
(***************************************************************************)
Anonymous(q) ==
    [q EXCEPT !.pc = "handle", !.clear = TRUE, !.sid = NoSession, !.session = NoRow]

\* The session is live: it is refreshed first if that is due.
Admitted(q, row) ==
    [q EXCEPT !.pc = IF NeedsRefresh(row, clock) THEN "refresh" ELSE "handle", !.now = clock]

\* SessionStore.FindByID; an expired row is deleted by the next step.
FindSession(r) ==
    LET q    == request[r]
        row  == session[q.cookie]
        read == [q EXCEPT !.session = row, !.sid = q.cookie]
    IN  /\ At(r, "find")
        /\ Goes(r, IF ~Stored(q.cookie) THEN Anonymous(q)
                   ELSE IF IsExpired(row, clock) THEN [q EXCEPT !.pc = "discard"]
                   ELSE IF row.subject = "household" THEN [read EXCEPT !.pc = "household"]
                   ELSE Admitted(read, row))
        /\ UNCHANGED <<code, session, issued, cookie, clock>>

\* Variant: a household session is taken at its word.
FindHouseholdUnread(r) ==
    /\ At(r, "household")
    /\ Goes(r, Admitted(request[r], request[r].session))
    /\ UNCHANGED <<code, session, issued, cookie, clock>>

\* The household of a household session must still be there.
FindHousehold(r) ==
    LET q == request[r] IN
    /\ At(r, "household")
    /\ Goes(r, IF Exists(q.session.house) THEN Admitted(q, q.session)
               ELSE [q EXCEPT !.pc = "discard"])
    /\ UNCHANGED <<code, session, issued, cookie, clock>>

\* The expired or dangling row goes, and the caller is nobody.
DiscardSession(r) ==
    /\ At(r, "discard")
    /\ session' = [session EXCEPT ![request[r].cookie] = NoRow]
    /\ Goes(r, Anonymous(request[r]))
    /\ UNCHANGED <<code, issued, cookie, clock>>

\* Variant: the session is marked as seen and not extended.
RefreshedLastSeenOnly(row, now) == [row EXCEPT !.lastSeen = now]

Refreshed(row, now) ==
    [row EXCEPT !.expiresAt = now + LifetimeOf(row.subject), !.lastSeen = now]

\* Variant: a refresh that puts the row it read back.
RefreshUpserts(r) ==
    /\ At(r, "refresh")
    /\ session' = [session EXCEPT ![request[r].sid] =
                     Refreshed(request[r].session, request[r].now)]
    /\ Goes(r, [request[r] EXCEPT !.pc = "handle"])
    /\ UNCHANGED <<code, issued, cookie, clock>>

\* An UPDATE: a row that is gone stays gone, and the request goes on with
\* the session it read.
Refresh(r) ==
    LET q == request[r] IN
    /\ At(r, "refresh")
    /\ session' = IF Stored(q.sid)
                  THEN [session EXCEPT ![q.sid] = Refreshed(@, q.now)] ELSE session
    /\ Goes(r, [q EXCEPT !.pc = "handle", !.session = Refreshed(@, q.now)])
    /\ UNCHANGED <<code, issued, cookie, clock>>

(***************************************************************************)
(* Handlers.                                                               *)
(***************************************************************************)
Handling(r, op) == At(r, "handle") /\ request[r].op = op

\* RequireAdmin answers 401 otherwise.
RequireAdmin(q) == q.session.subject = "admin"

Later(t, u) == IF t < u THEN u ELSE t

\* Any request a household makes about itself; it acts for the household of
\* its session, or is answered 401 by RequireHousehold.
Me(r) ==
    LET q == request[r] IN
    /\ Handling(r, "Me")
    /\ session' = IF q.session.subject = "household" /\ Stored(q.sid)
                  THEN [session EXCEPT ![q.sid].usedAt = Later(@, q.startedAt)] ELSE session
    /\ Goes(r, [q EXCEPT !.pc = "respond"])
    /\ UNCHANGED <<code, issued, cookie, clock>>

\* LogInHousehold looks the code up, LogInAdmin only compares.
LogInFindByCode(r) ==
    LET q == request[r] IN
    /\ Handling(r, "LogIn")
    /\ \/ \E h \in Households :
            code[h] = q.code /\ Goes(r, [q EXCEPT !.pc = "issue", !.house = h, !.now = clock])
       \/ /\ \A h \in Households : code[h] # q.code
          /\ Goes(r, [q EXCEPT !.pc = "respond"])
    /\ UNCHANGED <<code, session, issued, cookie, clock>>

AdminLogIn(r) ==
    /\ Handling(r, "AdminLogIn")
    /\ Goes(r, [request[r] EXCEPT !.pc = "issue", !.now = clock])
    /\ UNCHANGED <<code, session, issued, cookie, clock>>

\* Variant: whoever logs in is a household.
NewHouseholdSession(q) ==
    [NoRow EXCEPT !.subject = "household", !.house = q.house,
                  !.expiresAt = q.now + HouseholdLifetime, !.lastSeen = q.now]

NewSession(q) ==
    LET subject == IF q.op = "LogIn" THEN "household" ELSE "admin" IN
    [NoRow EXCEPT !.subject = subject, !.house = q.house,
                  !.expiresAt = q.now + LifetimeOf(subject), !.lastSeen = q.now,
                  !.redeemed = q.code, !.issuedAt = q.now, !.usedAt = q.now,
                  !.late = (subject = "household" /\ code[q.house] # q.code),
                  !.orphan = (subject = "household" /\ ~Exists(q.house))]

\* The new session exists before the previous one is deleted.
IssueSession(r) ==
    LET q == request[r] IN
    /\ At(r, "issue")
    /\ issued < MaxSessions
    /\ issued' = issued + 1
    /\ session' = [session EXCEPT ![issued'] = NewSession(q)]
    /\ Goes(r, [q EXCEPT !.pc = IF q.sid = NoSession THEN "respond" ELSE "revoke",
                         !.new = issued'])
    /\ UNCHANGED <<code, cookie, clock>>

RevokePrevious(r) ==
    /\ At(r, "revoke")
    /\ session' = [session EXCEPT ![request[r].sid] = NoRow]
    /\ Goes(r, [request[r] EXCEPT !.pc = "respond"])
    /\ UNCHANGED <<code, issued, cookie, clock>>

LogOut(r) ==
    LET q == request[r] IN
    /\ Handling(r, "LogOut")
    /\ session' = IF q.sid = NoSession THEN session ELSE [session EXCEPT ![q.sid] = NoRow]
    /\ Goes(r, [q EXCEPT !.pc = "respond", !.clear = TRUE])
    /\ UNCHANGED <<code, issued, cookie, clock>>

\* withGeneratedCode: a code no other household has, for the UNIQUE index
\* refuses others; as long as others have codes every attempt may collide.
UnusedBy(others, k) == \A h \in others : code[h] # k
MayCollide(others)  == \E h \in others : Exists(h)

\* Variant: the new code is all there is to it.
AssignNewCodeOnly(r) ==
    LET q == request[r] IN
    /\ Handling(r, "ReissueCode")
    /\ RequireAdmin(q) /\ Exists(q.target)
    /\ \E k \in Codes : /\ UnusedBy(Households \ {q.target}, k)
                        /\ code' = [code EXCEPT ![q.target] = k]
    /\ Goes(r, [q EXCEPT !.pc = "respond"])
    /\ UNCHANGED <<session, issued, cookie, clock>>

\* ReissueCode: the new code first, the revocation in a statement of its own.
AssignNewCode(r) ==
    LET q == request[r] IN
    /\ Handling(r, "ReissueCode")
    /\ \/ /\ RequireAdmin(q) /\ Exists(q.target)
          /\ \E k \in Codes : /\ UnusedBy(Households \ {q.target}, k)
                              /\ code' = [code EXCEPT ![q.target] = k]
          /\ Goes(r, [q EXCEPT !.pc = "revokeAll"])
       \/ /\ ~(RequireAdmin(q) /\ Exists(q.target)) \/ MayCollide(Households \ {q.target})
          /\ Goes(r, [q EXCEPT !.pc = "respond"])
          /\ UNCHANGED code
    /\ UNCHANGED <<session, issued, cookie, clock>>

\* Variant: the condition on the household is missing.
DeleteEverySession(r) ==
    /\ At(r, "revokeAll")
    /\ session' = [s \in SessionIds |-> IF session[s].subject = "household"
                                       THEN NoRow ELSE session[s]]
    /\ Goes(r, [request[r] EXCEPT !.pc = "respond"])
    /\ UNCHANGED <<code, issued, cookie, clock>>

DeleteForHousehold(r) ==
    LET revoked == {s \in SessionIds : /\ session[s].subject = "household"
                                       /\ session[s].house = request[r].target} IN
    /\ At(r, "revokeAll")
    /\ session' = [s \in SessionIds |-> IF s \in revoked THEN NoRow ELSE session[s]]
    /\ Goes(r, [request[r] EXCEPT !.pc = "respond"])
    /\ UNCHANGED <<code, issued, cookie, clock>>

\* Deleting a household leaves its sessions in the table.
DeleteHousehold(r) ==
    LET q == request[r] IN
    /\ Handling(r, "DeleteHousehold")
    /\ IF RequireAdmin(q)
       THEN /\ code' = [code EXCEPT ![q.target] = NoCode]
            /\ session' = [s \in SessionIds |->
                  IF session[s].subject = "household" /\ session[s].house = q.target
                  THEN [session[s] EXCEPT !.orphan = TRUE] ELSE session[s]]
       ELSE UNCHANGED <<code, session>>
    /\ Goes(r, [q EXCEPT !.pc = "respond"])
    /\ UNCHANGED <<issued, cookie, clock>>

\* SQLite gives the row the id after the largest one in the table, so the id
\* of a deleted last household returns.
NextHouseholdId(h) ==
    /\ \A k \in Households : k >= h => ~Exists(k)
    /\ \A k \in Households : k = h - 1 => Exists(k)

CreateHousehold(r) ==
    LET q == request[r] IN
    /\ Handling(r, "CreateHousehold")
    /\ \/ /\ RequireAdmin(q)
          /\ \E h \in Households, k \in Codes :
               /\ NextHouseholdId(h) /\ UnusedBy(Households, k)
               /\ code' = [code EXCEPT ![h] = k]
       \/ ~RequireAdmin(q) /\ UNCHANGED code
       \/ MayCollide(Households) /\ UNCHANGED code
    /\ Goes(r, [q EXCEPT !.pc = "respond"])
    /\ UNCHANGED <<session, issued, cookie, clock>>

(***************************************************************************)
(* The response reaches the browser.  A login's cookie lives as long as    *)
(* the session did when it was issued.                                     *)
(***************************************************************************)
Respond(r) ==
    LET q == request[r] IN
    /\ At(r, "respond")
    /\ cookie' = [cookie EXCEPT ![q.client] =
                    IF q.new # NoSession
                    THEN [sid |-> q.new,
                          expiresAt |-> q.now + LifetimeOf(IF q.op = "LogIn" THEN "household"
                                                           ELSE "admin")]
                    ELSE IF q.clear THEN NoCookie ELSE @]
    /\ Goes(r, Idle)
    /\ UNCHANGED <<code, session, issued, clock>>

\* The delete fails, and the request with it.
DiscardFails(r) ==
    /\ MayDie /\ At(r, "discard")
    /\ Goes(r, Idle)
    /\ UNCHANGED <<code, session, issued, cookie, clock>>

\* The error of a handler is answered without a new cookie; a dead one is
\* cleared all the same, for the gate wrote that before.
Failed(q) == [q EXCEPT !.pc = "respond", !.new = NoSession]

\* A request that fails anywhere else, or whose response is lost.
Abort(r) ==
    /\ MayDie /\ ~At(r, "idle") /\ ~At(r, "discard")
    /\ Goes(r, Idle) \/ (request[r].clear /\ Goes(r, Failed(request[r])))
    /\ UNCHANGED <<code, session, issued, cookie, clock>>

PurgeExpired ==
    /\ session' = [s \in SessionIds |-> IF IsExpired(session[s], clock) THEN NoRow
                                       ELSE session[s]]
    /\ UNCHANGED <<code, issued, cookie, clock, request>>

-----------------------------------------------------------------------------
RequestStep(r) ==
    \/ FindSession(r) \/ FindHousehold(r) \/ Refresh(r)
    \/ DiscardSession(r) \/ DiscardFails(r)
    \/ Me(r) \/ LogInFindByCode(r) \/ AdminLogIn(r) \/ IssueSession(r) \/ RevokePrevious(r)
    \/ LogOut(r) \/ AssignNewCode(r) \/ DeleteForHousehold(r)
    \/ DeleteHousehold(r) \/ CreateHousehold(r) \/ Respond(r)

Next ==
    \/ Tick \/ PurgeExpired
    \/ \E r \in Requests : Receive(r) \/ RequestStep(r) \/ Abort(r)

Spec == Init /\ [][Next]_vars

(***************************************************************************)
(* Properties.                                                             *)
(***************************************************************************)
\* A session that was revoked, expired or purged never comes back, although a
\* refresh of it may be on its way (Refresh is an UPDATE by id).
RevokedStaysRevoked ==
    [][\A s \in SessionIds : s <= issued /\ ~Stored(s) => ~Stored(s)']_vars

\* A session ends only because it expired, because its own browser logged out
\* or logged in again, because it was found dead, or because its household's
\* code was reissued: nobody is signed out by what another household or the
\* admin does elsewhere (Delete, DeleteForHousehold, PurgeExpired).
EndedBy(r, s) ==
    \/ request[r].cookie = s /\ request[r].pc \in {"discard", "revoke", "handle"}
    \/ request[r].pc = "revokeAll" /\ request[r].target = session[s].house

EndsForAReason ==
    [][\A s \in SessionIds : Stored(s) /\ ~Stored(s)' =>
          \/ IsExpired(session[s], clock)
          \/ \E r \in Requests : request'[r] # request[r] /\ EndedBy(r, s)]_vars

\* An admin session ends adminSessionLifetime after the login, however busy it
\* was kept and whether or not the browser drops its cookie in time: neither
\* the row nor what a request has read of it reaches further (IsExpired,
\* NeedsRefresh, Refreshed).
EndsInTime(row) == row.subject = "admin" => row.expiresAt <= row.issuedAt + AdminLifetime

AdminSessionsEnd ==
    /\ \A s \in SessionIds : EndsInTime(session[s])
    /\ \A r \in Requests : EndsInTime(request[r].session)

\* A household that used its session keeps it for the session lifetime less
\* one refresh interval, whatever refreshes raced (NeedsRefresh, Refreshed).
RollingReach ==
    \A s \in SessionIds : session[s].subject = "household" =>
        session[s].expiresAt >= session[s].usedAt + HouseholdLifetime - RefreshInterval

\* A session issued while its code was good does not survive the reissue of
\* the code (ReissueCode: AssignNewCode, then DeleteForHousehold).
Reissuing(h) == \E r \in Requests : At(r, "revokeAll") /\ request[r].target = h

ReplacedCode(s) ==
    /\ session[s].subject = "household" /\ ~session[s].orphan
    /\ session[s].redeemed # code[session[s].house]

ReissueRevokes ==
    \A s \in SessionIds :
        ReplacedCode(s) => session[s].late \/ Reissuing(session[s].house)

\* A session whose household was deleted admits nobody (ResolveSession).
OrphansAreNobody ==
    \A r \in Requests : At(r, "handle") => ~request[r].session.orphan

(***************************************************************************)
(* What a comment in the code says and the code does not keep.             *)
(***************************************************************************)
\* The cookie and the row in the session table expire at the same time.
CookieExpiresWithSession ==
    \A c \in Clients : cookie[c].sid # NoSession /\ Stored(cookie[c].sid) =>
        cookie[c].expiresAt = session[cookie[c].sid].expiresAt
=============================================================================
