------------------------------- MODULE Server -------------------------------
(***************************************************************************)
(* The server process between its start and its end, the requests it       *)
(* serves and the two connection pools they share (cmd/wedding,            *)
(* configuration/database, persistence/transaction and export).            *)
(*                                                                         *)
(*   down -> opened -> serving -> draining -> closed -> down               *)
(*              \---------\---------------> failed ---^                    *)
(*   new -> (ask -> hold)* -> answer -> over                               *)
(*                                                                         *)
(* Abstracted: a handler is the list of its statements, each of which      *)
(* takes a connection and gives it back; what they do to the tables and    *)
(* what the answer says is the subject of Rsvp and Sessions.  The clock    *)
(* counts the grace period of a shutdown.                                  *)
(***************************************************************************)
EXTENDS Integers, FiniteSets, Sequences

CONSTANTS
    Requests,           \* what the clients send, each of them once
    PlanOf,             \* request -> the statements of its handler
    ReadConnections,    \* maxReadConnections
    WriteTimeout,       \* writeTimeout
    ShutdownTimeout,    \* shutdownTimeout
    MaxStarts           \* how often the process is started at most

Pools == {"write", "read"}

\* log is a write whose failure is only logged, stream a read that lasts as
\* long as the client takes the rows.
PoolOf == [read |-> "read", stream |-> "read", pingRead |-> "read",
           write |-> "write", log |-> "write", pingWrite |-> "write"]

\* What handlers do, a run of reads in a row as one: show an answer, show it
\* and refresh the session, save; log in, with and without a session to
\* revoke, be refused, log out; an admin's write, the download of guests.csv;
\* report readiness.
Plans ==
    {<<"read">>, <<"read", "write", "read">>, <<"read", "write", "log", "read">>,
     <<"read", "write", "write", "write", "read", "log">>,
     <<"read", "write", "write", "read", "log">>, <<"read", "log">>, <<"read", "write">>,
     <<"read", "write", "log">>, <<"read", "stream">>, <<"pingWrite", "pingRead">>}

\* PurgeExpiredPeriodically, the only user of a pool that is no request.
Sweep == "sweep"

ASSUME ServerAssumption ==
    /\ IsFiniteSet(Requests) /\ Sweep \notin Requests
    /\ PlanOf \in [Requests -> Plans]
    /\ ReadConnections \in Nat \ {0}
    /\ WriteTimeout \in Nat /\ ShutdownTimeout \in Nat
    /\ MaxStarts \in Nat

VARIABLES
    phase,      \* what the process is doing
    waited,     \* how long it has been draining
    starts,     \* how often it was started
    held,       \* pool -> who holds a connection of it
    sweep,      \* what the purge is doing
    request     \* what each request is doing

vars == <<phase, waited, starts, held, sweep, request>>

\* Close has run: after the drain, or because the process gives up.
HandlesClosed == phase \in {"closed", "failed"}

Capacity == [write |-> 1, read |-> ReadConnections]

Request == [pc : {"new", "ask", "hold", "answer", "over"}, step : Nat, age : 0 .. WriteTimeout]

New  == [pc |-> "new", step |-> 1, age |-> 0]
Over == [New EXCEPT !.pc = "over"]

At(r, pc)   == request[r].pc = pc
Live(r)     == request[r].pc \in {"ask", "hold", "answer"}
Step(r)     == PlanOf[r][request[r].step]
Goes(r, pc) == request' = [request EXCEPT ![r].pc = pc]

TypeOK ==
    /\ phase \in {"down", "opened", "serving", "draining", "closed", "failed"}
    /\ waited \in 0 .. ShutdownTimeout
    /\ starts \in 0 .. MaxStarts
    /\ sweep \in {"no", "ask", "hold"}
    /\ request \in [Requests -> Request]
    /\ \A r \in Requests : Live(r) => request[r].step \in DOMAIN PlanOf[r]
    /\ \A pool \in Pools :
          /\ held[pool] = {r \in Requests : At(r, "hold") /\ PoolOf[Step(r)] = pool}
                            \cup (IF pool = "write" /\ sweep = "hold" THEN {Sweep} ELSE {})
          /\ Cardinality(held[pool]) <= Capacity[pool]

Init ==
    /\ phase = "down"
    /\ waited = 0
    /\ starts = 0
    /\ held = [pool \in Pools |-> {}]
    /\ sweep = "no"
    /\ request = [r \in Requests |-> New]

Free(pool)         == Cardinality(held[pool]) < Capacity[pool]
Takes(user, pool)  == held' = [held EXCEPT ![pool] = @ \cup {user}]
GivesBack(user)    == held' = [pool \in Pools |-> held[pool] \ {user}]

\* The request goes on to its next statement, or to its answer.
Advanced(r, q) ==
    IF q.step < Len(PlanOf[r]) THEN [q EXCEPT !.pc = "ask", !.step = @ + 1]
    ELSE [q EXCEPT !.pc = "answer"]

Continues(r) == request' = [request EXCEPT ![r] = Advanced(r, @)]
Ends(r)      == request' = [request EXCEPT ![r] = Over]

\* A statement that fails, or gets no connection, ends its handler with an
\* error, unless it is the audit's.
FailsIn(r) == IF Step(r) = "log" THEN Continues(r) ELSE Goes(r, "answer")

(***************************************************************************)
(* Requests.                                                               *)
(***************************************************************************)
Arrive(r) ==
    /\ phase = "serving" /\ At(r, "new")
    /\ Goes(r, "ask")
    /\ UNCHANGED <<phase, waited, starts, held, sweep>>

\* database/sql queues for a connection once all are out.
Acquire(r) ==
    /\ At(r, "ask") /\ ~HandlesClosed /\ Free(PoolOf[Step(r)])
    /\ Takes(r, PoolOf[Step(r)])
    /\ Goes(r, "hold")
    /\ UNCHANGED <<phase, waited, starts, sweep>>

\* Variant: the connection goes with the request to its next statement.
ExecuteAndKeep(r) ==
    /\ At(r, "hold") /\ Step(r) # "stream"
    /\ Continues(r)
    /\ UNCHANGED <<phase, waited, starts, held, sweep>>

\* The statement is done, a transaction committed.
Execute(r) ==
    /\ At(r, "hold") /\ Step(r) # "stream"
    /\ GivesBack(r)
    /\ Continues(r)
    /\ UNCHANGED <<phase, waited, starts, sweep>>

\* Variant: an error returns without the rollback.
NoRollback(r) ==
    /\ At(r, "hold")
    /\ FailsIn(r)
    /\ UNCHANGED <<phase, waited, starts, held, sweep>>

StatementFails(r) ==
    /\ At(r, "hold")
    /\ GivesBack(r)
    /\ FailsIn(r)
    /\ UNCHANGED <<phase, waited, starts, sweep>>

\* sql.DB.Close turns away who is still waiting.
HandleClosed(r) ==
    /\ At(r, "ask") /\ HandlesClosed
    /\ FailsIn(r)
    /\ UNCHANGED <<phase, waited, starts, held, sweep>>

\* pingTimeout: readiness does not queue behind a busy pool.
PingTimesOut(r) ==
    /\ At(r, "ask") /\ Step(r) \in {"pingWrite", "pingRead"}
    /\ Goes(r, "answer")
    /\ UNCHANGED <<phase, waited, starts, held, sweep>>

\* The client has taken every row of the download.
Downloaded(r) ==
    /\ At(r, "hold") /\ Step(r) = "stream"
    /\ GivesBack(r)
    /\ Continues(r)
    /\ UNCHANGED <<phase, waited, starts, sweep>>

\* The write deadline ends a download the client does not take.
Overdue(r) ==
    /\ At(r, "hold") /\ Step(r) = "stream" /\ request[r].age = WriteTimeout
    /\ GivesBack(r)
    /\ Ends(r)
    /\ UNCHANGED <<phase, waited, starts, sweep>>

\* The answer leaves, or finds its deadline passed.
Respond(r) ==
    /\ At(r, "answer")
    /\ Ends(r)
    /\ UNCHANGED <<phase, waited, starts, held, sweep>>

\* The client goes away: the request's context is cancelled, which ends the
\* wait for a connection or the statement, and rolls a transaction back.
HangUp(r) ==
    /\ Live(r)
    /\ GivesBack(r)
    /\ Ends(r)
    /\ UNCHANGED <<phase, waited, starts, sweep>>

(***************************************************************************)
(* The purge: one sweep at the start; the next is a day away.              *)
(***************************************************************************)
SweepAcquires ==
    /\ sweep = "ask" /\ ~HandlesClosed /\ Free("write")
    /\ Takes(Sweep, "write")
    /\ sweep' = "hold"
    /\ UNCHANGED <<phase, waited, starts, request>>

\* Done, failed and logged, or interrupted by the signal.
SweepEnds ==
    /\ sweep = "hold" \/ (sweep = "ask" /\ (phase = "draining" \/ HandlesClosed))
    /\ GivesBack(Sweep)
    /\ sweep' = "no"
    /\ UNCHANGED <<phase, waited, starts, request>>

(***************************************************************************)
(* The process.                                                            *)
(***************************************************************************)
\* OpenDatabase; when it fails nothing is left open.
Open ==
    /\ phase = "down" /\ starts < MaxStarts
    /\ phase' = "opened"
    /\ starts' = starts + 1
    /\ waited' = 0
    /\ UNCHANGED <<held, sweep, request>>

\* The schema is migrated, the handlers are wired, the purge starts.
Listen ==
    /\ phase = "opened"
    /\ phase' = "serving"
    /\ sweep' = "ask"
    /\ UNCHANGED <<waited, starts, held, request>>

\* A migration fails: the deferred Close still runs.
StartFails ==
    /\ phase = "opened"
    /\ phase' = "failed"
    /\ UNCHANGED <<waited, starts, held, sweep, request>>

\* The port is taken, or the listener ends later: the error returns without a
\* drain, and the deferred Close runs under whoever is being served.
ListenFails ==
    /\ phase = "serving"
    /\ phase' = "failed"
    /\ UNCHANGED <<waited, starts, held, sweep, request>>

Signal ==
    /\ phase = "serving"
    /\ phase' = "draining"
    /\ UNCHANGED <<waited, starts, held, sweep, request>>

\* Variant: what waits for a connection is not waited for.
ShutdownWhenPoolsAreIdle ==
    /\ phase = "draining"
    /\ (\A pool \in Pools : held[pool] = {}) \/ waited = ShutdownTimeout
    /\ phase' = "closed"
    /\ UNCHANGED <<waited, starts, held, sweep, request>>

\* Shutdown returns when every request is over or the grace period is, and the
\* deferred Close follows.
ShutdownReturns ==
    /\ phase = "draining"
    /\ (\A r \in Requests : ~Live(r)) \/ waited = ShutdownTimeout
    /\ phase' = "closed"
    /\ UNCHANGED <<waited, starts, held, sweep, request>>

\* The process is gone, and whatever it was doing with it.
Gone ==
    /\ phase' = "down"
    /\ held' = [pool \in Pools |-> {}]
    /\ sweep' = "no"
    /\ request' = [r \in Requests |-> IF Live(r) THEN Over ELSE request[r]]
    /\ UNCHANGED <<waited, starts>>

Exit == HandlesClosed /\ Gone

\* SIGKILL, a crash, or a signal before anybody listens for it.
Kill == phase \in {"opened", "serving", "draining"} /\ Gone

Older(q) == [q EXCEPT !.age = IF @ < WriteTimeout THEN @ + 1 ELSE @]

Tick ==
    /\ \/ phase = "draining"
       \/ \E r \in Requests : Live(r) /\ request[r].age < WriteTimeout
    /\ phase = "draining" => waited < ShutdownTimeout
    /\ waited' = IF phase = "draining" THEN waited + 1 ELSE waited
    /\ request' = [r \in Requests |-> IF Live(r) THEN Older(request[r]) ELSE request[r]]
    /\ UNCHANGED <<phase, starts, held, sweep>>

-----------------------------------------------------------------------------
\* What the server does by itself, sooner or later.
RequestStep(r) ==
    \/ Acquire(r) \/ Execute(r) \/ HandleClosed(r)
    \/ PingTimesOut(r) \/ Overdue(r) \/ Respond(r)

ProcessStep == ShutdownReturns \/ Exit

Next ==
    \/ \E r \in Requests :
          \/ Arrive(r) \/ RequestStep(r)
          \/ Downloaded(r) \/ StatementFails(r) \/ HangUp(r)
    \/ SweepAcquires \/ SweepEnds
    \/ Open \/ Listen \/ StartFails \/ ListenFails \/ Signal \/ Kill \/ ProcessStep
    \/ Tick

Spec == Init /\ [][Next]_vars

\* Statements end and the clock runs; no statement has to fail, no client has
\* to take its rows, to hang up or to come, and nobody has to stop the server.
FairSpec ==
    /\ Spec
    /\ \A r \in Requests : WF_vars(RequestStep(r))
    /\ WF_vars(SweepAcquires) /\ WF_vars(SweepEnds)
    /\ WF_vars(ProcessStep) /\ WF_vars(Tick)

(***************************************************************************)
(* Properties.                                                             *)
(***************************************************************************)
\* Every request comes to an end, though downloads may hold every connection
\* to read: no statement waits for a second connection, none keeps the one it
\* has, and a client that takes no rows is cut off (inTransaction,
\* StreamGuests and main's writeTimeout).
EveryRequestEnds == \A r \in Requests : Live(r) ~> ~Live(r)

\* A request in flight when the signal comes keeps usable handles through the
\* drain: they are closed under it only once the grace period is over (run
\* closes the database after Shutdown has returned; the comment at main.go:72-73
\* says so of a shutdown, not of a listener that fails).
HandlesOutliveRequests ==
    phase = "closed" /\ (\E r \in Requests : Live(r)) => waited = ShutdownTimeout
=============================================================================
