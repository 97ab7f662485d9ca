---------------------------- MODULE RateLimiter ----------------------------
(***************************************************************************)
(* The sliding window of failed logins per client address                  *)
(* (web/middleware/ratelimit.go), with the requests that go through it:    *)
(*                                                                         *)
(*   idle -> check -> handling -> record -> idle                           *)
(*              \-> refused -> idle                                        *)
(*                                                                         *)
(* Times are kept as ages: how many ticks ago.  A request reads the clock  *)
(* before it asks for the mutex, so what it holds when the mutex is its    *)
(* own may be up to MaxLag ticks old, and the timestamps of a key need not *)
(* be in order.  An absent key of the map is an empty sequence.            *)
(*                                                                         *)
(* Ages stop growing where no comparison of the code tells them apart.     *)
(***************************************************************************)
EXTENDS Integers, Sequences, FiniteSets

CONSTANTS
    Keys,              \* client addresses
    Requests,          \* login requests that may be in flight at once
    ComesFrom,         \* the addresses each of them may come from
    Limit,             \* how many failures a key may have
    Window,            \* for how many ticks a failure counts
    EvictionInterval,  \* how often idle keys are dropped
    TicksPerSecond,
    MaxLag,            \* how long a request may wait for the mutex
    Watched,           \* the address whose refusals and failures are remembered
    Memory             \* how long the history of failures reaches back

ASSUME LimiterAssumption ==
    /\ Limit \in Nat \ {0} /\ Window \in Nat \ {0} /\ MaxLag \in Nat
    /\ Memory \in Nat /\ Memory >= Window + 2 * MaxLag
    /\ IsFiniteSet(Requests) /\ Requests # {} /\ ComesFrom \in [Requests -> SUBSET Keys]
    /\ Watched \in Keys /\ EvictionInterval \in Nat /\ EvictionInterval >= Window
    /\ TicksPerSecond \in Nat \ {0}

VARIABLES
    failures,       \* per key, the ages of its failures in the order recorded
    sinceEviction,  \* the age of lastEviction
    request,        \* what each request has in hand
    failed          \* history: the ages of Watched's attempts answered 401

vars == <<failures, sinceEviction, request, failed>>

LongAgo  == Window + EvictionInterval + 2 * MaxLag + 1
Capped(n, max) == IF n < max THEN n ELSE max
Later(ages)    == [i \in DOMAIN ages |-> Capped(ages[i] + 1, LongAgo)]

Idle == [pc |-> "idle", key |-> "none", lag |-> 0, left |-> 0, still |-> FALSE]

TypeOK ==
    /\ failures \in [Keys -> Seq(0 .. LongAgo)]
    /\ \A k \in Keys : Len(failures[k]) <= Limit
    /\ sinceEviction \in 0 .. EvictionInterval + MaxLag
    /\ request \in [Requests ->
          [pc : {"idle", "check", "handling", "record", "refused"}, key : Keys \cup {"none"},
           lag : 0 .. MaxLag, left : Nat \cup {-1}, still : BOOLEAN]]
    /\ failed \in Seq(0 .. Memory)

\* lastEviction is the zero time, which is longer ago than any interval.
Init ==
    /\ failures = [k \in Keys |-> <<>>]
    /\ sinceEviction = EvictionInterval + MaxLag
    /\ request = [r \in Requests |-> Idle]
    /\ failed = <<>>

\* Variant: what has been recorded stays.
PrunedNever(ages, lag) == ages

\* What is left of a list when the prefix older than max is dropped.
Since(ages, max) ==
    LET old == {i \in DOMAIN ages : \A j \in 1 .. i : ages[j] > max}
    IN  SubSeq(ages, Cardinality(old) + 1, Len(ages))

\* A key's failures for a caller whose clock is lag ticks old: what was recorded
\* before its cutoff is dropped, the cutoff itself is not.
pruned(ages, lag) == Since(ages, Window + lag)

Limited(ages, lag) == Len(pruned(ages, lag)) >= Limit

-----------------------------------------------------------------------------
\* A client that was refused counts down what Retry-After told it, for as long
\* as the key is limited, which is what still says; -1 is longer than it was told.
Waited(q, limited) ==
    IF q.still /\ limited
    THEN [q EXCEPT !.left = IF @ >= 0 THEN @ - 1 ELSE @]
    ELSE [q EXCEPT !.left = 0, !.still = FALSE]

\* Time passes, unless a request has waited for the mutex as long as it may.
Tick ==
    /\ \A r \in Requests : request[r].pc \in {"check", "record"} => request[r].lag < MaxLag
    /\ failures' = [k \in Keys |-> Later(failures[k])]
    /\ sinceEviction' = Capped(sinceEviction + 1, EvictionInterval + MaxLag)
    /\ request' = [r \in Requests |->
          CASE request[r].pc \in {"check", "record"} -> [request[r] EXCEPT !.lag = @ + 1]
            [] request[r].pc = "refused" ->
                 Waited(request[r], Limited(failures'[request[r].key], 0))
            [] OTHER -> request[r]]
    /\ failed' = Since([i \in DOMAIN failed |-> failed[i] + 1], Memory)

Goes(r, q) == request' = [request EXCEPT ![r] = q]

\* A login request arrives, and reads the clock.
Arrive(r) ==
    /\ request[r].pc = "idle"
    /\ \E k \in ComesFrom[r] : Goes(r, [Idle EXCEPT !.pc = "check", !.key = k])
    /\ UNCHANGED <<failures, sinceEviction, failed>>

\* Variant: the wait is cut down to whole seconds.
SecondsCutDown(wait) == wait \div TicksPerSecond

\* Rounded up to whole seconds.
Seconds(wait) == (wait + TicksPerSecond - 1) \div TicksPerSecond

\* Variant: refused only beyond the limit.
RetryAfterOffByOne(r) ==
    /\ request[r].pc = "check"
    /\ Len(pruned(failures[request[r].key], request[r].lag)) <= Limit
    /\ Goes(r, [request[r] EXCEPT !.pc = "handling", !.lag = 0])
    /\ UNCHANGED <<failures, sinceEviction, failed>>

\* RetryAfter under the mutex: refused with the wait until the first failure
\* of the key ages out, or on to the handler.
RetryAfter(r) ==
    LET q      == request[r]
        recent == pruned(failures[q.key], q.lag)
    IN  /\ q.pc = "check"
        /\ failures' = [failures EXCEPT ![q.key] = recent]
        /\ Goes(r, IF Len(recent) >= Limit
                   THEN [q EXCEPT !.pc = "refused", !.lag = 0,
                                  !.still = (q.key = Watched /\ Limited(recent, 0)),
                                  !.left = TicksPerSecond * Seconds(Window - (recent[1] - q.lag))]
                   ELSE [q EXCEPT !.pc = "handling", !.lag = 0])
        /\ UNCHANGED <<sinceEviction, failed>>

\* Variant: whatever the handler answered is charged.
AnswersAnything(r) ==
    /\ request[r].pc = "handling"
    /\ Goes(r, [request[r] EXCEPT !.pc = "record"])
    /\ UNCHANGED <<failures, sinceEviction, failed>>

\* The handler writes another status than 401, or panics: nothing is charged.
Answers(r) ==
    /\ request[r].pc = "handling"
    /\ Goes(r, Idle)
    /\ UNCHANGED <<failures, sinceEviction, failed>>

\* The handler writes 401, and the clock is read again.
Unauthorized(r) ==
    /\ request[r].pc = "handling"
    /\ failed' = IF request[r].key = Watched THEN Append(failed, 0) ELSE failed
    /\ Goes(r, [request[r] EXCEPT !.pc = "record"])
    /\ UNCHANGED <<failures, sinceEviction>>

\* Variant: no key is ever dropped for being idle.
EvictedNever(lag) == failures

\* The sweep, at most once in an EvictionInterval.
evict(lag) ==
    IF sinceEviction - lag < EvictionInterval THEN failures
    ELSE [k \in Keys |-> pruned(failures[k], lag)]

\* Variant: nothing caps the list.
ChargedAlways(recent, lag) == Append(recent, lag)

\* Capped at the limit: attempts over budget do not move the window.
Charged(recent, lag) == IF Len(recent) < Limit THEN Append(recent, lag) ELSE recent

\* RecordFailure under the mutex.
RecordFailure(r) ==
    LET q      == request[r]
        swept  == evict(q.lag)
    IN  /\ q.pc = "record"
        /\ failures' = [swept EXCEPT ![q.key] = Charged(pruned(@, q.lag), q.lag)]
        /\ sinceEviction' = IF sinceEviction - q.lag < EvictionInterval THEN sinceEviction
                            ELSE q.lag
        /\ Goes(r, Idle)
        /\ UNCHANGED failed

\* A client that was refused comes back, or does not.
GiveUp(r) ==
    /\ request[r].pc = "refused"
    /\ Goes(r, Idle)
    /\ UNCHANGED <<failures, sinceEviction, failed>>

UnderTheMutex(r) == RetryAfter(r) \/ RecordFailure(r)

Next ==
    \/ Tick
    \/ \E r \in Requests :
          UnderTheMutex(r) \/ Arrive(r) \/ Answers(r) \/ Unauthorized(r) \/ GiveUp(r)

\* Time passes and the mutex is handed on (sync.Mutex does not starve anyone);
\* no client has to do anything.
Spec     == Init /\ [][Next]_vars
FairSpec == Spec /\ WF_vars(Tick) /\ (\A r \in Requests : WF_vars(UnderTheMutex(r)))

(***************************************************************************)
(* Properties.                                                             *)
(***************************************************************************)
\* The limit expires on its own: no key stays limited for good, whoever else
\* keeps trying behind the same address (RetryAfter, RecordFailure's cap).
LimitExpires == \A k \in Keys : []<>~Limited(failures[k], 0)

\* A client that waits as long as Retry-After said, and no longer than that,
\* has been let in by the next tick: attempts made meanwhile through other
\* requests of the same address do not move the window (RecordFailure), and
\* the wait is not rounded down (RetryAfter).
RefusalEndsAsTold ==
    \A r \in Requests :
        request[r].pc = "refused" /\ request[r].still => request[r].left >= 0

\* Nobody is refused for logins that succeeded or for old failures: at a refusal
\* the address has had Limit failures within the window, give or take the time
\* spent waiting for the mutex (LimitLoginFailures, pruned).
InWindow(slack) == {i \in DOMAIN failed : failed[i] <= Window + slack}

RefusalIsEarned ==
    [][\A r \in Requests :
          request[r].pc = "check" /\ request'[r].pc = "refused" /\ request[r].key = Watched =>
              Cardinality(InWindow(2 * MaxLag)) >= Limit]_vars

\* The map does not keep addresses that fell silent: after a failure is
\* recorded every key in it has failed within the last window and eviction
\* interval (evict).
SilentKeysGo ==
    [][\A r \in Requests : request[r].pc = "record" /\ request'[r].pc = "idle" =>
          \A k \in Keys : failures'[k] # <<>> =>
              \E i \in DOMAIN failures'[k] :
                  failures'[k][i] <= Window + EvictionInterval + 2 * MaxLag]_vars

\* Requests in flight together overrun the budget, but not without bound: with
\* N of them, N - 1 that were let in before the list was full, and N for each of
\* the Limit places that come free (RetryAfter, RecordFailure).  It is the window
\* less a wait for the mutex that is counted: a place may be taken again by a
\* failure that waited so long that it is out of the window already.
OverrunIsBounded ==
    Cardinality(InWindow(-MaxLag)) < (Limit + 1) * Cardinality(Requests)
=============================================================================
