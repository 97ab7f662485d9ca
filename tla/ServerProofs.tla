----------------------------- MODULE ServerProofs -----------------------------
(***************************************************************************)
(* Theorems about Server, for any requests, any number of connections and  *)
(* any deadlines.  The pools are the difficulty: that a connection is out  *)
(* with whoever executes a statement, and with nobody else, is shown once  *)
(* for a request that changes alone (OneMoves) and cited per action.       *)
(***************************************************************************)
EXTENDS Server, FiniteSetTheorems, TLAPS

\* Who executes a statement in a pool, read off the requests and the sweep.
Executing(pool) ==
    {r \in Requests : At(r, "hold") /\ PoolOf[Step(r)] = pool}
        \cup (IF pool = "write" /\ sweep = "hold" THEN {Sweep} ELSE {})

\* A request is always at a statement of its plan.
RequestOK(r, q) == q \in Request /\ q.step \in DOMAIN PlanOf[r]

\* The types without the pools.
Typed ==
    /\ phase \in {"down", "opened", "serving", "draining", "closed", "failed"}
    /\ waited \in 0 .. ShutdownTimeout
    /\ starts \in 0 .. MaxStarts
    /\ sweep \in {"no", "ask", "hold"}
    /\ request \in [Requests -> Request]
    /\ \A r \in Requests : RequestOK(r, request[r])

Pooled ==
    /\ held \in [Pools -> SUBSET (Requests \cup {Sweep})]
    /\ \A pool \in Pools : held[pool] = Executing(pool)

Bounded == \A pool \in Pools : Cardinality(held[pool]) <= Capacity[pool]

\* Before the process listens nobody is served and nothing is swept.
QuietBefore ==
    phase \in {"down", "opened"} => sweep = "no" /\ \A r \in Requests : ~Live(r)

IInv == Typed /\ Pooled /\ Bounded /\ QuietBefore /\ HandlesOutliveRequests

\* The invariant says what TypeOK says.
LEMMA InvIsTyped == IInv => TypeOK
  BY DEF IInv, Typed, Pooled, Bounded, TypeOK, RequestOK, Executing, Live, At, Step

(***************************************************************************)
(* Plans, and connections taken and given back.                            *)
(***************************************************************************)
Statements == {"read", "stream", "pingRead", "write", "log", "pingWrite"}

\* Every statement of a plan has a pool.
LEMMA PlansHavePools ==
    ASSUME NEW r \in Requests
    PROVE  /\ PlanOf[r] \in Seq(Statements)
           /\ \A i \in DOMAIN PlanOf[r] : PoolOf[PlanOf[r][i]] \in Pools
<1>1. PlanOf[r] \in Plans
  BY ServerAssumption
<1>2. /\ <<"read">> \in Seq(Statements)
      /\ <<"read", "write", "read">> \in Seq(Statements)
      /\ <<"read", "write", "log", "read">> \in Seq(Statements)
      /\ <<"read", "write", "write", "write", "read", "log">> \in Seq(Statements)
      /\ <<"read", "write", "write", "read", "log">> \in Seq(Statements)
      /\ <<"read", "log">> \in Seq(Statements)
      /\ <<"read", "write">> \in Seq(Statements)
      /\ <<"read", "write", "log">> \in Seq(Statements)
      /\ <<"read", "stream">> \in Seq(Statements)
      /\ <<"pingWrite", "pingRead">> \in Seq(Statements)
  BY DEF Statements
<1>3. \A s \in Statements : PoolOf[s] \in Pools
  BY DEF Statements, PoolOf, Pools
<1>4. PlanOf[r] \in Seq(Statements)
  BY <1>1, <1>2 DEF Plans
<1> QED
  BY <1>3, <1>4

\* A request that goes on is at its next statement or at its answer.
LEMMA AdvancedOK ==
    ASSUME NEW r \in Requests, NEW q, RequestOK(r, q), q.pc \in {"ask", "hold"}
    PROVE  /\ RequestOK(r, Advanced(r, q))
           /\ Advanced(r, q).pc \in {"ask", "answer"}
<1>1. PlanOf[r] \in Seq(Statements)
  BY PlansHavePools
<1>2. q \in Request /\ q.step \in DOMAIN PlanOf[r] /\ q.step \in Nat
  BY DEF RequestOK, Request
<1>3. CASE q.step < Len(PlanOf[r])
  <2>1. q.step + 1 \in DOMAIN PlanOf[r]
    BY <1>1, <1>2, <1>3
  <2>2. Advanced(r, q) = [pc |-> "ask", step |-> q.step + 1, age |-> q.age]
    BY <1>2, <1>3 DEF Advanced, Request
  <2>3. /\ Advanced(r, q) \in Request
        /\ Advanced(r, q).pc = "ask" /\ Advanced(r, q).step = q.step + 1
    BY <1>2, <2>2 DEF Request
  <2> QED
    BY <2>1, <2>3 DEF RequestOK
<1>4. CASE ~(q.step < Len(PlanOf[r]))
  <2>1. Advanced(r, q) = [q EXCEPT !.pc = "answer"]
    BY <1>4 DEF Advanced
  <2> QED
    BY <1>2, <2>1 DEF RequestOK, Request
<1> QED
  BY <1>3, <1>4

\* The capacities are numbers and what is held is finite.
LEMMA PoolsAreFinite ==
    ASSUME Pooled, NEW pool \in Pools
    PROVE  /\ Capacity[pool] \in Nat \ {0}
           /\ IsFiniteSet(held[pool]) /\ Cardinality(held[pool]) \in Nat
<1>1. Capacity[pool] \in Nat \ {0}
  BY ServerAssumption DEF Capacity, Pools
<1>2. IsFiniteSet(Requests \cup {Sweep})
  BY ServerAssumption, FS_AddElement
<1>3. held[pool] \subseteq Requests \cup {Sweep}
  BY DEF Pooled
<1>4. IsFiniteSet(held[pool])
  BY <1>2, <1>3, FS_Subset
<1> QED
  BY <1>1, <1>4, FS_CardinalityType

\* A connection given back makes room.
LEMMA GivesBackBounds ==
    ASSUME Pooled, Bounded, NEW user, GivesBack(user)
    PROVE  Bounded'
<1> SUFFICES ASSUME NEW pool \in Pools PROVE Cardinality(held'[pool]) <= Capacity[pool]
  BY DEF Bounded
<1>1. held'[pool] = held[pool] \ {user}
  BY DEF GivesBack
<1>2. IsFiniteSet(held[pool]) /\ Cardinality(held[pool]) \in Nat /\ Capacity[pool] \in Nat
  BY PoolsAreFinite
<1>3. /\ Cardinality(held'[pool]) \in Nat
      /\ Cardinality(held'[pool]) <= Cardinality(held[pool])
  BY <1>1, <1>2, FS_Subset, FS_CardinalityType
<1> QED
  BY <1>2, <1>3 DEF Bounded

\* A connection is taken only where one is free.
LEMMA TakesBounds ==
    ASSUME Pooled, Bounded, NEW user, NEW pool \in Pools, Free(pool), Takes(user, pool)
    PROVE  Bounded'
<1> SUFFICES ASSUME NEW p \in Pools PROVE Cardinality(held'[p]) <= Capacity[p]
  BY DEF Bounded
<1>1. CASE p # pool
  BY <1>1 DEF Bounded, Pooled, Takes
<1>2. CASE p = pool
  <2>1. held'[p] = held[p] \cup {user}
    BY <1>2 DEF Pooled, Takes
  <2>2. /\ IsFiniteSet(held[p]) /\ Cardinality(held[p]) \in Nat /\ Capacity[p] \in Nat
        /\ Cardinality(held[p]) < Capacity[p]
    BY <1>2, PoolsAreFinite DEF Free
  <2>3. \/ Cardinality(held'[p]) = Cardinality(held[p])
        \/ Cardinality(held'[p]) = Cardinality(held[p]) + 1
    BY <2>1, <2>2, FS_AddElement
  <2> QED
    BY <2>2, <2>3
<1> QED
  BY <1>1, <1>2
(***************************************************************************)
(* Steps of one request.                                                   *)
(***************************************************************************)
\* A request that changes alone keeps the invariant if it executes after the
\* step exactly if it has a connection then, and is not served from nowhere:
\* every step of a request.
LEMMA OneMoves ==
    ASSUME IInv, NEW r \in Requests, NEW q, RequestOK(r, q),
           request' = [request EXCEPT ![r] = q],
           UNCHANGED <<phase, waited, starts, sweep>>,
           \/ held' = held /\ q.pc # "hold" /\ ~At(r, "hold")
           \/ GivesBack(r) /\ q.pc # "hold"
           \/ /\ At(r, "ask") /\ Free(PoolOf[Step(r)]) /\ Takes(r, PoolOf[Step(r)])
              /\ q = [request[r] EXCEPT !.pc = "hold"],
           q.pc \in {"ask", "hold", "answer"} => Live(r) \/ phase = "serving"
    PROVE  IInv'
<1> USE DEF IInv
<1>1. /\ request \in [Requests -> Request] /\ q \in Request
      /\ request'[r] = q
      /\ \A s \in Requests \ {r} : request'[s] = request[s]
  BY DEF Typed, RequestOK
<1>2. Typed'
  <2>1. request' \in [Requests -> Request]
    BY <1>1
  <2>2. \A s \in Requests : RequestOK(s, request'[s])
    BY <1>1 DEF Typed
  <2> QED
    BY <2>1, <2>2 DEF Typed, RequestOK
<1>3. Pooled' /\ Bounded'
  <2>1. CASE held' = held /\ q.pc # "hold" /\ ~At(r, "hold")
    BY <1>1, <2>1 DEF Pooled, Bounded, Executing, At, Step
  <2>2. CASE GivesBack(r) /\ q.pc # "hold"
    <3>1. Bounded'
      BY <2>2, GivesBackBounds
    <3>2. r # Sweep
      BY ServerAssumption
    <3>3. \A pool \in Pools : Executing(pool)' = Executing(pool) \ {r}
      BY <1>1, <2>2, <3>2 DEF Executing, At, Step
    <3> QED
      BY <2>2, <3>1, <3>3 DEF Pooled, GivesBack
  <2>3. CASE /\ At(r, "ask") /\ Free(PoolOf[Step(r)]) /\ Takes(r, PoolOf[Step(r)])
             /\ q = [request[r] EXCEPT !.pc = "hold"]
    <3>1. PoolOf[Step(r)] \in Pools
      BY <2>3, PlansHavePools DEF Typed, RequestOK, At, Step
    <3>2. Bounded'
      BY <2>3, <3>1, TakesBounds
    <3>3. q.pc = "hold" /\ q.step = request[r].step
      BY <1>1, <2>3 DEF Request
    <3>4. \A pool \in Pools :
            Executing(pool)' = IF pool = PoolOf[Step(r)] THEN Executing(pool) \cup {r}
                               ELSE Executing(pool)
      BY <1>1, <2>3, <3>3 DEF Executing, At, Step
    <3> QED
      BY <2>3, <3>1, <3>2, <3>4 DEF Pooled, Takes
  <2> QED
    BY <2>1, <2>2, <2>3
<1>4. QuietBefore'
  BY <1>1 DEF QuietBefore, Live
<1>5. HandlesOutliveRequests'
  <2>1. \A s \in Requests : Live(s)' => Live(s) \/ phase = "serving"
    BY <1>1 DEF Live
  <2> QED
    BY <2>1 DEF HandlesOutliveRequests
<1> QED
  BY <1>2, <1>3, <1>4, <1>5

\* A request that has not come, or is over, stands at its first statement.
LEMMA NewOK ==
    ASSUME NEW r \in Requests
    PROVE  RequestOK(r, New) /\ RequestOK(r, Over)
<1>1. PlanOf[r] \in Plans /\ PlanOf[r] \in Seq(Statements)
  BY ServerAssumption, PlansHavePools
<1>2. 1 \in DOMAIN PlanOf[r]
  BY <1>1 DEF Plans
<1> QED
  BY <1>2, ServerAssumption DEF New, Over, RequestOK, Request

\* A request that only changes what it is doing stays at its statement.
LEMMA GoesOK ==
    ASSUME NEW r \in Requests, NEW q, RequestOK(r, q),
           NEW pc \in {"ask", "hold", "answer", "over"}
    PROVE  RequestOK(r, [q EXCEPT !.pc = pc]) /\ [q EXCEPT !.pc = pc].pc = pc
  BY DEF RequestOK, Request

\* Every step of a request keeps the invariant.
LEMMA RequestSteps ==
    ASSUME IInv, NEW r \in Requests,
           \/ Arrive(r) \/ RequestStep(r)
           \/ Downloaded(r) \/ StatementFails(r) \/ HangUp(r)
    PROVE  IInv'
<1> DEFINE old     == request[r]
           next    == Advanced(r, old)
           to(pc)  == [old EXCEPT !.pc = pc]
<1>1. RequestOK(r, old) /\ RequestOK(r, Over) /\ Over.pc = "over"
  BY NewOK DEF IInv, Typed, Over, New
<1>2. \A pc \in {"ask", "hold", "answer", "over"} : RequestOK(r, to(pc)) /\ to(pc).pc = pc
  BY <1>1, GoesOK
<1>3. old.pc \in {"ask", "hold"} => RequestOK(r, next) /\ next.pc \in {"ask", "answer"}
  BY <1>1, AdvancedOK
<1> HIDE DEF next, to
<1>4. CASE Arrive(r)
  <2>1. request' = [request EXCEPT ![r] = to("ask")]
    BY <1>4 DEF Arrive, Goes, to
  <2> QED
    BY <1>2, <1>4, <2>1, OneMoves DEF Arrive, At
<1>5. CASE Acquire(r)
  <2>1. request' = [request EXCEPT ![r] = to("hold")]
    BY <1>5 DEF Acquire, Goes, to
  <2> QED
    BY <1>2, <1>5, <2>1, OneMoves DEF Acquire, At, Live, to
<1>6. CASE Execute(r) \/ Downloaded(r)
  <2>1. request' = [request EXCEPT ![r] = next] /\ At(r, "hold")
    BY <1>6 DEF Execute, Downloaded, Continues, next
  <2> QED
    BY <1>3, <1>6, <2>1, OneMoves DEF Execute, Downloaded, At, Live
<1>7. CASE StatementFails(r) \/ HandleClosed(r)
  <2>1. \/ request' = [request EXCEPT ![r] = next]
        \/ request' = [request EXCEPT ![r] = to("answer")]
    BY <1>7 DEF StatementFails, HandleClosed, FailsIn, Continues, Goes, next, to
  <2>2. Live(r) /\ old.pc \in {"ask", "hold"}
    BY <1>7 DEF StatementFails, HandleClosed, At, Live
  <2>3. \/ held' = held /\ ~At(r, "hold")
        \/ GivesBack(r)
    BY <1>7 DEF StatementFails, HandleClosed, At
  <2>4. UNCHANGED <<phase, waited, starts, sweep>>
    BY <1>7 DEF StatementFails, HandleClosed
  <2>5. CASE request' = [request EXCEPT ![r] = next]
    BY <1>3, <2>2, <2>3, <2>4, <2>5, OneMoves
  <2>6. CASE request' = [request EXCEPT ![r] = to("answer")]
    BY <1>2, <2>2, <2>3, <2>4, <2>6, OneMoves
  <2> QED
    BY <2>1, <2>5, <2>6
<1>8. CASE PingTimesOut(r)
  <2>1. request' = [request EXCEPT ![r] = to("answer")]
    BY <1>8 DEF PingTimesOut, Goes, to
  <2> QED
    BY <1>2, <1>8, <2>1, OneMoves DEF PingTimesOut, At, Live
<1>9. CASE Overdue(r) \/ Respond(r) \/ HangUp(r)
  <2>1. request' = [request EXCEPT ![r] = Over]
    BY <1>9 DEF Overdue, Respond, HangUp, Ends
  <2>2. \/ held' = held /\ ~At(r, "hold")
        \/ GivesBack(r)
    BY <1>9 DEF Overdue, Respond, HangUp, At
  <2>3. UNCHANGED <<phase, waited, starts, sweep>>
    BY <1>9 DEF Overdue, Respond, HangUp
  <2> QED
    BY <1>1, <2>1, <2>2, <2>3, OneMoves
<1> QED
  BY <1>4, <1>5, <1>6, <1>7, <1>8, <1>9 DEF RequestStep

(***************************************************************************)
(* Steps of the purge, the process and the clock.                          *)
(***************************************************************************)
\* The purge keeps the invariant: it counts as one more user of the pool.
LEMMA SweepSteps ==
    ASSUME IInv, SweepAcquires \/ SweepEnds
    PROVE  IInv'
<1> USE DEF IInv
<1>1. Typed' /\ QuietBefore' /\ HandlesOutliveRequests'
  BY DEF SweepAcquires, SweepEnds, Typed, QuietBefore, HandlesOutliveRequests, Live
<1>2. CASE SweepAcquires
  <2>1. "write" \in Pools
    BY DEF Pools
  <2>2. Bounded'
    BY <1>2, <2>1, TakesBounds DEF SweepAcquires
  <2>3. \A pool \in Pools :
          Executing(pool)' = IF pool = "write" THEN Executing(pool) \cup {Sweep}
                             ELSE Executing(pool)
    BY <1>2 DEF SweepAcquires, Executing, At, Step
  <2>4. Pooled'
    BY <1>2, <2>1, <2>3 DEF SweepAcquires, Takes, Pooled
  <2> QED
    BY <1>1, <2>2, <2>4
<1>3. CASE SweepEnds
  <2>1. GivesBack(Sweep) /\ sweep' = "no" /\ request' = request
    BY <1>3 DEF SweepEnds
  <2>2. Bounded'
    BY <2>1, GivesBackBounds
  <2>3. \A pool \in Pools : Executing(pool)' = Executing(pool) \ {Sweep}
    BY <2>1, ServerAssumption DEF Executing, At, Step
  <2>4. Pooled'
    BY <2>1, <2>3 DEF GivesBack, Pooled
  <2> QED
    BY <1>1, <2>2, <2>4
<1> QED
  BY <1>2, <1>3

\* A process that is gone leaves nothing behind.
LEMMA GoneKeeps ==
    ASSUME IInv, Gone
    PROVE  IInv'
<1>1. \A r \in Requests : ~Live(r)' /\ ~At(r, "hold")' /\ RequestOK(r, request'[r])
  BY NewOK DEF Gone, IInv, Typed, Live, At, Over, New
<1>2. request' \in [Requests -> Request]
  BY <1>1 DEF Gone, RequestOK
<1>3. Typed'
  BY <1>1, <1>2 DEF Gone, IInv, Typed, RequestOK
<1>4. Pooled'
  BY <1>1 DEF Gone, Pooled, Executing
<1>5. Bounded'
  <2>1. \A pool \in Pools : held'[pool] = {} /\ Capacity[pool] \in Nat
    BY PoolsAreFinite DEF Gone, IInv
  <2> QED
    BY <2>1, FS_EmptySet DEF Bounded
<1> QED
  BY <1>1, <1>3, <1>4, <1>5 DEF Gone, IInv, QuietBefore, HandlesOutliveRequests

\* Starting, listening, failing to and being told to stop keep the invariant:
\* nobody is served before, and nobody is forgotten after.
LEMMA PhaseSteps ==
    ASSUME IInv, Open \/ Listen \/ StartFails \/ ListenFails \/ Signal \/ ShutdownReturns
    PROVE  IInv'
<1> USE DEF IInv
<1>1. held' = held /\ request' = request
  BY DEF Open, Listen, StartFails, ListenFails, Signal, ShutdownReturns
<1>2. Typed'
  BY <1>1, ServerAssumption
  DEF Open, Listen, StartFails, ListenFails, Signal, ShutdownReturns, Typed, RequestOK
<1>3. sweep' = sweep \/ (sweep = "no" /\ sweep' = "ask")
  BY DEF Open, Listen, StartFails, ListenFails, Signal, ShutdownReturns, QuietBefore
<1>4. Pooled' /\ Bounded'
  BY <1>1, <1>3 DEF Pooled, Bounded, Executing, At, Step
<1>5. \A r \in Requests : Live(r)' <=> Live(r)
  BY <1>1 DEF Live
<1>6. QuietBefore' /\ HandlesOutliveRequests'
  BY <1>5 DEF Open, Listen, StartFails, ListenFails, Signal, ShutdownReturns, QuietBefore, HandlesOutliveRequests
<1> QED
  BY <1>2, <1>4, <1>6

\* Time changes nothing but ages.
LEMMA TickKeeps ==
    ASSUME IInv, Tick
    PROVE  IInv'
<1> USE DEF IInv
<1>1. ASSUME NEW q \in Request
      PROVE  Older(q) \in Request /\ Older(q).pc = q.pc /\ Older(q).step = q.step
  <2>1. CASE q.age < WriteTimeout
    BY <1>1, <2>1, ServerAssumption DEF Older, Request
  <2>2. CASE ~(q.age < WriteTimeout)
    BY <1>1, <2>2 DEF Older, Request
  <2> QED
    BY <2>1, <2>2
<1>2. \A r \in Requests :
        /\ request'[r] \in Request
        /\ request'[r].pc = request[r].pc /\ request'[r].step = request[r].step
  BY <1>1 DEF Tick, Typed
<1>3. request' \in [Requests -> Request]
  BY <1>2 DEF Tick
<1>4. waited' \in 0 .. ShutdownTimeout /\ (phase = "closed" => waited' = waited)
  BY ServerAssumption DEF Tick, Typed
<1>5. Typed'
  BY <1>2, <1>3, <1>4 DEF Tick, Typed, RequestOK
<1>6. Pooled' /\ Bounded'
  BY <1>2 DEF Tick, Pooled, Bounded, Executing, At, Step
<1>7. \A r \in Requests : Live(r)' <=> Live(r)
  BY <1>2 DEF Live
<1>8. QuietBefore' /\ HandlesOutliveRequests'
  BY <1>4, <1>7 DEF Tick, QuietBefore, HandlesOutliveRequests
<1> QED
  BY <1>5, <1>6, <1>8

(***************************************************************************)
(* The theorems.                                                           *)
(***************************************************************************)
\* At the start nothing runs.
LEMMA InitInv == Init => IInv
<1> SUFFICES ASSUME Init PROVE IInv
  OBVIOUS
<1>1. \A r \in Requests : request[r] = New /\ ~Live(r) /\ ~At(r, "hold")
  BY DEF Init, Live, At, New
<1>2. \A r \in Requests : RequestOK(r, New)
  BY NewOK
<1>3. Typed
  BY <1>1, <1>2, ServerAssumption DEF Init, Typed, RequestOK
<1>4. Pooled
  BY <1>1 DEF Init, Pooled, Executing
<1>5. Bounded
  <2>1. \A pool \in Pools : held[pool] = {} /\ Capacity[pool] \in Nat
    BY <1>4, PoolsAreFinite DEF Init
  <2> QED
    BY <2>1, FS_EmptySet DEF Bounded
<1> QED
  BY <1>1, <1>3, <1>4, <1>5 DEF Init, IInv, QuietBefore, HandlesOutliveRequests

\* Every step keeps the invariant.
LEMMA NextInv == IInv /\ [Next]_vars => IInv'
<1> SUFFICES ASSUME IInv, [Next]_vars PROVE IInv'
  OBVIOUS
<1>1. CASE UNCHANGED vars
  BY <1>1 DEF vars, IInv, Typed, Pooled, Bounded, QuietBefore, HandlesOutliveRequests,
              Executing, Live, At, Step
<1>2. CASE \E r \in Requests :
             \/ Arrive(r) \/ RequestStep(r)
             \/ Downloaded(r) \/ StatementFails(r) \/ HangUp(r)
  BY <1>2, RequestSteps
<1>3. CASE SweepAcquires \/ SweepEnds
  BY <1>3, SweepSteps
<1>4. CASE Open \/ Listen \/ StartFails \/ ListenFails \/ Signal \/ ShutdownReturns
  BY <1>4, PhaseSteps
<1>5. CASE Kill \/ Exit
  BY <1>5, GoneKeeps DEF Kill, Exit
<1>6. CASE Tick
  BY <1>6, TickKeeps
<1> QED
  BY <1>1, <1>2, <1>3, <1>4, <1>5, <1>6 DEF Next, ProcessStep

\* The invariant holds in every reachable state.
LEMMA InvAlways == Spec => []IInv
  BY InitInv, NextInv, PTL DEF Spec

\* Each connection that is out is with the one request, or the sweep, that
\* executes a statement of that pool, and there are never more than the pool
\* has, whatever fails, hangs up or is killed (inTransaction, StreamGuests,
\* OpenDatabase).
THEOREM NoConnectionIsLost == Spec => []TypeOK
  BY InvAlways, InvIsTyped, PTL

\* The handles are closed under a request only once the grace period is over
\* (run: the deferred Close follows Shutdown).
THEOREM HandlesOutlive == Spec => []HandlesOutliveRequests
<1>1. IInv => HandlesOutliveRequests
  BY DEF IInv
<1> QED
  BY <1>1, InvAlways, PTL
=============================================================================
