-------------------------- MODULE RateLimiterProofs --------------------------
(***************************************************************************)
(* Theorems about RateLimiter, for any addresses, requests, limit, window  *)
(* and waits for the mutex.                                                *)
(***************************************************************************)
EXTENDS RateLimiter, FiniteSetTheorems, TLAPS

Ages == 0 .. LongAgo

\* The constants as the provers need them.
LEMMA Constants ==
    /\ Limit \in Nat /\ Limit >= 1 /\ Window \in Nat /\ MaxLag \in Nat
    /\ EvictionInterval \in Nat /\ TicksPerSecond \in Nat /\ TicksPerSecond >= 1
    /\ LongAgo \in Nat /\ LongAgo > Window /\ LongAgo >= MaxLag /\ Ages \subseteq Nat
  BY LimiterAssumption DEF LongAgo, Ages

\* An age is a number of ticks.
LEMMA AgeType == \A age \in Ages : age \in Nat /\ age \in Int
  BY Constants

(***************************************************************************)
(* What pruning leaves.                                                    *)
(***************************************************************************)
\* A list without its first c entries, which are the old ones.
Suffix(rest, ages, max, c) ==
    /\ c \in 0 .. Len(ages) /\ Len(rest) = Len(ages) - c
    /\ \A i \in 1 .. Len(ages) - c : rest[i] = ages[c + i]
    /\ \A i \in 1 .. c : ages[i] > max
    /\ c < Len(ages) => ages[c + 1] <= max
    /\ c = 0 => rest = ages

\* The old ones are a prefix: dropping as many from the front as there are of
\* them leaves a suffix that begins with one that is not old.
LEMMA SinceFacts ==
    ASSUME NEW S, S \subseteq Nat, NEW ages \in Seq(S), NEW max \in Nat
    PROVE  Since(ages, max) \in Seq(S) /\ \E c \in Nat : Suffix(Since(ages, max), ages, max, c)
<1> DEFINE old == {i \in DOMAIN ages : \A j \in 1 .. i : ages[j] > max}
           c == Cardinality(old)
           rest == SubSeq(ages, c + 1, Len(ages))
<1>1. /\ Len(ages) \in Nat /\ DOMAIN ages = 1 .. Len(ages)
      /\ \A i \in DOMAIN ages : ages[i] \in Nat
  <2>1. \A i \in DOMAIN ages : ages[i] \in S
    OBVIOUS
  <2>2. Len(ages) \in Nat /\ DOMAIN ages = 1 .. Len(ages)
    OBVIOUS
  <2> QED
    BY <2>1, <2>2
<1>2. IsFiniteSet(1 .. Len(ages)) /\ Cardinality(1 .. Len(ages)) = Len(ages)
  BY <1>1, FS_Interval
<1>3. old \subseteq 1 .. Len(ages)
  BY <1>1
<1>4. IsFiniteSet(old) /\ c \in Nat /\ c <= Len(ages)
  BY <1>2, <1>3, FS_Subset, FS_CardinalityType
<1>5. /\ \A i \in old : \A j \in 1 .. i : j \in old
      /\ \A i \in old : ages[i] > max
  BY <1>1
<1>6. \A j \in 1 .. c : j \in old
  <2> HIDE DEF old
  <2>1. CASE c = 0
    BY <2>1
  <2>2. CASE c > 0 /\ c \in old
    BY <1>5, <2>2
  <2>3. CASE c > 0 /\ c \notin old
    <3>1. \A i \in old : i < c
      <4> SUFFICES ASSUME NEW i \in old, i >= c PROVE FALSE
        BY <1>3, <1>4
      <4>1. c \in 1 .. i
        BY <1>3, <1>4, <2>3
      <4> QED
        BY <1>5, <2>3, <4>1
    <3>2. old \subseteq 1 .. (c - 1)
      <4> SUFFICES ASSUME NEW i \in old PROVE i \in 1 .. (c - 1)
        OBVIOUS
      <4>1. i \in Nat /\ i >= 1 /\ i < c /\ c \in Nat
        BY <1>3, <1>4, <3>1
      <4>2. \A n \in Nat : i < n => i \in 1 .. (n - 1)
        BY <4>1
      <4> QED
        BY <4>1, <4>2
    <3>3. Cardinality(1 .. (c - 1)) = c - 1 /\ IsFiniteSet(1 .. (c - 1))
      <4>1. \A n \in Nat : Cardinality(1 .. n) = n /\ IsFiniteSet(1 .. n)
        BY FS_Interval
      <4>2. c - 1 \in Nat
        BY <1>4, <2>3
      <4> QED
        BY <4>1, <4>2
    <3>4. c <= c - 1
      BY <3>2, <3>3, FS_Subset
    <3> QED
      BY <1>4, <3>4
  <2> QED
    BY <1>4, <2>1, <2>2, <2>3
<1>7. ASSUME c < Len(ages) PROVE ages[c + 1] <= max
  <2>1. c + 1 \notin old
    <3> SUFFICES ASSUME c + 1 \in old PROVE FALSE
      OBVIOUS
    <3> HIDE DEF old
    <3>1. 1 .. (c + 1) \subseteq old
      BY <1>5
    <3>2. Cardinality(1 .. (c + 1)) = c + 1
      BY <1>4, FS_Interval
    <3>3. Cardinality(1 .. (c + 1)) <= c
      BY <1>4, <3>1, FS_Subset
    <3> QED
      BY <1>4, <3>2, <3>3
  <2>2. c + 1 \in DOMAIN ages
    BY <1>1, <1>4, <1>7
  <2>3. PICK j \in 1 .. (c + 1) : ~(ages[j] > max)
    BY <2>1, <2>2
  <2>4. j \notin 1 .. c
    BY <1>5, <1>6, <2>3
  <2>5. j = c + 1
    BY <1>4, <2>4
  <2> QED
    BY <1>1, <2>2, <2>3, <2>5
<1>8. Since(ages, max) = rest
  BY DEF Since
<1>9. \A i \in 1 .. c : ages[i] > max
  BY <1>5, <1>6
<1> HIDE DEF c
<1>10. /\ rest \in Seq(S) /\ Len(rest) = Len(ages) - c
       /\ \A i \in 1 .. Len(ages) - c : rest[i] = ages[c + i]
       /\ c = 0 => rest = ages
  <2>1. c \in Nat /\ c <= Len(ages) /\ Len(ages) \in Nat
    BY <1>1, <1>4
  <2>2. rest \in Seq(S)
    BY <2>1
  <2>3. Len(rest) = Len(ages) - c
    BY <2>1
  <2>4. \A i \in 1 .. Len(ages) - c : rest[i] = ages[c + i]
    BY <2>1
  <2>5. c = 0 => rest = ages
    BY <2>1
  <2> HIDE DEF rest
  <2> QED
    BY <2>2, <2>3, <2>4, <2>5
<1>11. c \in 0 .. Len(ages)
  BY <1>1, <1>4
<1> QED
  BY <1>4, <1>7, <1>8, <1>9, <1>10, <1>11 DEF Suffix

\* Pruning keeps a suffix that begins with a recent entry, and everything if
\* the first entry is recent.
LEMMA PrunedFacts ==
    ASSUME NEW ages \in Seq(Ages), NEW lag \in Nat
    PROVE  /\ pruned(ages, lag) \in Seq(Ages)
           /\ Len(pruned(ages, lag)) <= Len(ages)
           /\ Len(pruned(ages, lag)) > 0 => pruned(ages, lag)[1] - lag <= Window
           /\ Len(ages) > 0 /\ ages[1] - lag <= Window => pruned(ages, lag) = ages
           /\ Len(pruned(ages, lag)) = Len(ages) /\ Len(ages) > 0 => ages[1] - lag <= Window
<1> DEFINE rest == pruned(ages, lag)
           max == Window + lag
<1>1. rest = Since(ages, max) /\ max \in Nat /\ Window \in Nat /\ Ages \subseteq Nat
  BY Constants DEF pruned
<1> HIDE DEF rest
<1>2. rest \in Seq(Ages) /\ \E c \in Nat : Suffix(rest, ages, max, c)
  BY <1>1, SinceFacts
<1>3. PICK c \in Nat : Suffix(rest, ages, max, c)
  BY <1>2
<1>4. Len(ages) \in Nat /\ \A i \in 1 .. Len(ages) : ages[i] \in Nat
  <2>1. Len(ages) \in Nat /\ \A i \in 1 .. Len(ages) : ages[i] \in Ages
    OBVIOUS
  <2> QED
    BY <1>1, <2>1
<1>5. Len(rest) > 0 => rest[1] = ages[c + 1] /\ ages[c + 1] <= max /\ ages[c + 1] \in Nat
  BY <1>3, <1>4 DEF Suffix
<1>6. c > 0 => ages[1] > max
  BY <1>3, <1>4 DEF Suffix
<1> QED
  BY <1>1, <1>2, <1>3, <1>4, <1>5, <1>6 DEF rest, Suffix

(***************************************************************************)
(* The invariant.                                                          *)
(***************************************************************************)
InHandType ==
    [pc : {"idle", "check", "handling", "record", "refused"}, key : Keys \cup {"none"},
     lag : 0 .. MaxLag, left : Nat \cup {-1}, still : BOOLEAN]

\* A full list.
ListOK(ages) == ages \in Seq(Ages) /\ Len(ages) <= Limit

\* What a refused client was told reaches to where the first failure ages out,
\* for as long as its address is limited.
Told(q, ages) ==
    q.pc = "refused" /\ q.still =>
        /\ Limited(ages, 0)
        /\ q.left >= 0 /\ q.left + ages[1] >= Window

RequestOK(q, map) ==
    /\ q \in InHandType
    /\ q.pc # "idle" => q.key \in Keys /\ Told(q, map[q.key])

\* Some failure of the address is as recent as the last sweep made sure of.
Recent(ages, since) ==
    ages # <<>> /\ since < EvictionInterval + MaxLag =>
        \E i \in DOMAIN ages : ages[i] <= Window + MaxLag + since

IInv ==
    /\ failures \in [Keys -> Seq(Ages)]
    /\ \A k \in Keys : ListOK(failures[k]) /\ Recent(failures[k], sinceEviction)
    /\ sinceEviction \in 0 .. EvictionInterval + MaxLag
    /\ request \in [Requests -> InHandType]
    /\ \A r \in Requests : RequestOK(request[r], failures)

\* An address is limited exactly if its list is full and begins in the window.
LEMMA LimitedFirst ==
    ASSUME NEW ages, ListOK(ages)
    PROVE  Limited(ages, 0) <=> Len(ages) = Limit /\ ages[1] <= Window
<1>1. ages \in Seq(Ages) /\ Len(ages) <= Limit /\ Len(ages) \in Nat
  BY DEF ListOK
<1>2. /\ pruned(ages, 0) \in Seq(Ages)
      /\ Len(pruned(ages, 0)) <= Len(ages)
      /\ Len(ages) > 0 /\ ages[1] - 0 <= Window => pruned(ages, 0) = ages
      /\ Len(pruned(ages, 0)) = Len(ages) /\ Len(ages) > 0 => ages[1] - 0 <= Window
  BY <1>1, PrunedFacts
<1>3. Len(pruned(ages, 0)) \in Nat
  BY <1>2
<1>4. Len(ages) > 0 => ages[1] \in Int
  <2>1. Len(ages) > 0 => ages[1] \in Ages
    BY <1>1
  <2> QED
    BY <2>1, AgeType
<1> QED
  BY <1>1, <1>2, <1>3, <1>4, Constants DEF Limited

\* One list may take the place of another if it is in order and the address
\* stays limited on the same failures.
Replaces(new, old) == ListOK(new) /\ (Limited(old, 0) => new = old)

\* Pruning a list, with whatever clock, and charging what is left of it.
LEMMA PrunedReplaces ==
    ASSUME NEW ages, ListOK(ages), NEW lag \in 0 .. MaxLag
    PROVE  /\ Replaces(pruned(ages, lag), ages)
           /\ Replaces(Charged(pruned(ages, lag), lag), ages)
           /\ \A since \in Nat : /\ Recent(pruned(ages, lag), since)
                                 /\ Recent(Charged(pruned(ages, lag), lag), since)
<1> DEFINE rest == pruned(ages, lag)
           charged == Charged(rest, lag)
<1>1. /\ ages \in Seq(Ages) /\ Len(ages) <= Limit /\ Len(ages) \in Nat /\ lag \in Nat
      /\ lag <= MaxLag /\ lag \in Ages
  BY Constants DEF ListOK, Ages
<1>2. /\ rest \in Seq(Ages) /\ Len(rest) <= Len(ages)
      /\ Len(rest) > 0 => rest[1] - lag <= Window
      /\ Len(ages) > 0 /\ ages[1] - lag <= Window => rest = ages
  BY <1>1, PrunedFacts
<1> HIDE DEF rest
<1>3. Len(rest) \in Nat /\ (Len(rest) > 0 => rest[1] \in Ages) /\ (rest # <<>> => Len(rest) > 0)
  BY <1>2
<1>4. charged \in Seq(Ages) /\ Len(charged) <= Limit
  BY <1>1, <1>2, <1>3, Constants DEF Charged
<1>5. ASSUME Limited(ages, 0) PROVE rest = ages /\ charged = ages
  <2>1. Len(ages) = Limit /\ ages[1] <= Window
    BY <1>5, LimitedFirst
  <2>2. ages[1] \in Nat /\ Len(ages) > 0
    <3>1. Len(ages) > 0
      BY <2>1, Constants
    <3>2. ages[1] \in Ages
      BY <1>1, <3>1
    <3> QED
      BY <3>1, <3>2, AgeType
  <2>3. ages[1] - lag <= Window
    BY <1>1, <2>1, <2>2, Constants
  <2>4. rest = ages
    BY <1>2, <2>2, <2>3
  <2> QED
    BY <2>1, <2>4, Constants DEF Charged
<1>6. Replaces(rest, ages) /\ Replaces(charged, ages)
  BY <1>1, <1>2, <1>3, <1>4, <1>5, Constants DEF Replaces, ListOK
<1>7. ASSUME NEW since \in Nat, Len(rest) > 0
      PROVE  1 \in DOMAIN rest /\ rest[1] <= Window + MaxLag + since
  <2>1. 1 \in DOMAIN rest /\ rest[1] \in Nat
    BY <1>2, <1>3, <1>7, AgeType
  <2>2. rest[1] - lag <= Window /\ Window \in Nat /\ MaxLag \in Nat
    BY <1>2, <1>7, Constants
  <2> QED
    BY <1>1, <2>1, <2>2
<1>8. ASSUME NEW since \in Nat
      PROVE  Recent(charged, since)
  <2>1. CASE Len(rest) > 0
    <3>1. 1 \in DOMAIN charged /\ charged[1] = rest[1]
      BY <1>1, <1>2, <1>3, <2>1 DEF Charged
    <3> QED
      BY <1>7, <2>1, <3>1 DEF Recent
  <2>2. CASE Len(rest) = 0
    <3>1. charged = Append(rest, lag)
      BY <2>2, Constants DEF Charged
    <3>2. 1 \in DOMAIN charged /\ charged[1] = lag
      BY <1>1, <1>2, <2>2, <3>1
    <3> QED
      BY <1>1, <3>2, Constants DEF Recent
  <2> QED
    BY <1>3, <2>1, <2>2
<1>9. \A since \in Nat : Recent(rest, since)
  BY <1>3, <1>7 DEF Recent
<1> QED
  BY <1>6, <1>8, <1>9 DEF rest

(***************************************************************************)
(* Steps of a request.                                                     *)
(***************************************************************************)
Moves(r, q) ==
    /\ request' = [request EXCEPT ![r] = q]
    /\ RequestOK(q, failures')
    /\ failures' \in [Keys -> Seq(Ages)]
    /\ \A k \in Keys : Replaces(failures'[k], failures[k]) /\ Recent(failures'[k], sinceEviction')
    /\ sinceEviction' \in 0 .. EvictionInterval + MaxLag

\* What a request was told stays true while others use the map.
LEMMA MovesKeeps ==
    ASSUME IInv, NEW r \in Requests, NEW q, Moves(r, q)
    PROVE  IInv'
<1>1. ASSUME NEW s \in Requests PROVE RequestOK(request'[s], failures')
  <2>1. CASE s = r
    BY <2>1 DEF Moves, IInv
  <2>2. CASE s # r
    <3>1. request'[s] = request[s] /\ RequestOK(request[s], failures)
      BY <2>2 DEF Moves, IInv
    <3> QED
      BY <3>1 DEF Moves, RequestOK, Told, Replaces
  <2> QED
    BY <2>1, <2>2
<1>2. request' \in [Requests -> InHandType]
  BY DEF Moves, IInv, RequestOK
<1> QED
  BY <1>1, <1>2 DEF Moves, IInv, Replaces

\* A list takes its own place.
LEMMA SameReplaces ==
    ASSUME IInv, UNCHANGED <<failures, sinceEviction>>, NEW k \in Keys
    PROVE  Replaces(failures'[k], failures[k]) /\ Recent(failures'[k], sinceEviction')
  BY DEF IInv, Replaces

\* An idle request has been told nothing.
LEMMA IdleOK ==
    ASSUME NEW map
    PROVE  RequestOK(Idle, map) /\ Idle \in InHandType
  BY Constants DEF Idle, RequestOK, InHandType

\* Steps that leave the map alone.
LEMMA QuietMoves ==
    ASSUME IInv, NEW r \in Requests, Arrive(r) \/ Answers(r) \/ Unauthorized(r) \/ GiveUp(r)
    PROVE  IInv'
<1> DEFINE q == request[r]
<1>1. q \in InHandType /\ RequestOK(q, failures)
  BY DEF IInv
<1>2. UNCHANGED <<failures, sinceEviction>>
  BY DEF Arrive, Answers, Unauthorized, GiveUp
<1>3. ASSUME NEW p, RequestOK(p, failures), Goes(r, p) PROVE IInv'
  <2>1. Moves(r, p)
    BY <1>2, <1>3, SameReplaces DEF Moves, Goes, IInv
  <2> QED
    BY <2>1, MovesKeeps
<1>4. CASE Answers(r) \/ GiveUp(r)
  BY <1>3, <1>4, IdleOK DEF Answers, GiveUp
<1>5. CASE Unauthorized(r)
  <2> DEFINE p == [q EXCEPT !.pc = "record"]
  <2>1. p \in InHandType /\ p.pc = "record" /\ p.key = q.key
    BY <1>1 DEF InHandType
  <2>2. RequestOK(p, failures)
    BY <1>1, <1>5, <2>1 DEF Unauthorized, RequestOK, Told
  <2> QED
    BY <1>3, <1>5, <2>2 DEF Unauthorized
<1>6. CASE Arrive(r)
  <2>1. PICK k \in ComesFrom[r] : Goes(r, [Idle EXCEPT !.pc = "check", !.key = k])
    BY <1>6 DEF Arrive
  <2>2. k \in Keys
    BY <2>1, LimiterAssumption
  <2> DEFINE p == [Idle EXCEPT !.pc = "check", !.key = k]
  <2>3. p \in InHandType /\ p.pc = "check" /\ p.key = k
    BY <2>2, IdleOK DEF InHandType
  <2>4. RequestOK(p, failures)
    BY <2>2, <2>3 DEF RequestOK, Told
  <2> QED
    BY <1>3, <2>1, <2>4
<1> QED
  BY <1>4, <1>5, <1>6

\* The wait is not rounded down.
LEMMA SecondsRoundUp ==
    ASSUME NEW wait \in Nat
    PROVE  TicksPerSecond * Seconds(wait) \in Nat /\ TicksPerSecond * Seconds(wait) >= wait
<1>1. \A w \in Nat, t \in Nat : t >= 1 =>
        t * ((w + t - 1) \div t) \in Nat /\ t * ((w + t - 1) \div t) >= w
  OBVIOUS
<1> QED
  BY <1>1, Constants DEF Seconds

\* Being asked prunes the list, and a refusal tells when its first entry ages
\* out.
LEMMA RetryAfterKeeps ==
    ASSUME IInv, NEW r \in Requests, RetryAfter(r)
    PROVE  IInv'
<1> DEFINE q == request[r]
           recent == pruned(failures[q.key], q.lag)
           told == TicksPerSecond * Seconds(Window - (recent[1] - q.lag))
           still == (q.key = Watched /\ Limited(recent, 0))
           refused == [q EXCEPT !.pc = "refused", !.lag = 0, !.still = still, !.left = told]
           passed == [q EXCEPT !.pc = "handling", !.lag = 0]
           p == IF Len(recent) >= Limit THEN refused ELSE passed
<1>1. /\ q \in InHandType /\ q.key \in Keys /\ q.pc = "check"
      /\ q.lag \in 0 .. MaxLag /\ q.lag \in Nat /\ 0 \in 0 .. MaxLag
  BY Constants DEF IInv, RequestOK, RetryAfter, InHandType
<1>2. /\ failures' = [failures EXCEPT ![q.key] = recent]
      /\ request' = [request EXCEPT ![r] = p] /\ UNCHANGED sinceEviction
  BY DEF RetryAfter, Goes
<1>3. ListOK(failures[q.key]) /\ failures[q.key] \in Seq(Ages)
  BY <1>1 DEF IInv
<1>4. /\ Replaces(recent, failures[q.key]) /\ Recent(recent, sinceEviction)
      /\ ListOK(recent) /\ recent \in Seq(Ages)
  <2>1. sinceEviction \in Nat
    BY Constants DEF IInv
  <2> QED
    BY <1>1, <1>3, <2>1, PrunedReplaces DEF Replaces, ListOK
<1>5. Len(recent) > 0 => recent[1] \in Nat /\ recent[1] - q.lag <= Window
  <2>1. Len(recent) > 0 => recent[1] \in Ages
    BY <1>4
  <2> QED
    BY <1>1, <1>3, <2>1, PrunedFacts, AgeType
<1> HIDE DEF recent
<1>6. failures'[q.key] = recent
  BY <1>1, <1>2 DEF IInv
<1>7. CASE Len(recent) >= Limit
  <2>1. /\ recent[1] \in Nat /\ recent[1] - q.lag <= Window
        /\ Window - (recent[1] - q.lag) \in Nat
    BY <1>1, <1>4, <1>5, <1>7, Constants
  <2>2. told \in Nat /\ told >= Window - (recent[1] - q.lag)
    BY <2>1, SecondsRoundUp
  <2> HIDE DEF told
  <2>3. told >= 0 /\ told + recent[1] >= Window
    BY <1>1, <2>1, <2>2, Constants
  <2>4. still \in BOOLEAN /\ (still => Limited(recent, 0))
    OBVIOUS
  <2> HIDE DEF still
  <2>5. /\ refused \in InHandType /\ refused.key = q.key
        /\ refused.still = still /\ refused.left = told
    BY <1>1, <2>2, <2>4 DEF InHandType
  <2>6. p = refused
    BY <1>7
  <2> HIDE DEF refused, p
  <2>7. RequestOK(p, failures')
    BY <1>1, <1>6, <2>3, <2>4, <2>5, <2>6 DEF RequestOK, Told
  <2> QED
    BY <2>7, <1>1, <1>2, <1>4, SameReplaces, MovesKeeps DEF Moves, IInv, Replaces
<1>8. CASE ~(Len(recent) >= Limit)
  <2>1. passed \in InHandType /\ passed.pc = "handling" /\ passed.key = q.key
    BY <1>1 DEF InHandType
  <2>2. p = passed
    BY <1>8
  <2> HIDE DEF passed, p
  <2>3. RequestOK(p, failures')
    BY <1>1, <2>1, <2>2 DEF RequestOK, Told
  <2> QED
    BY <2>3, <1>1, <1>2, <1>4, SameReplaces, MovesKeeps DEF Moves, IInv, Replaces
<1> QED
  BY <1>7, <1>8

\* A failure is charged to its own address; the sweep prunes them all.
LEMMA RecordFailureMoves ==
    ASSUME IInv, NEW r \in Requests, RecordFailure(r)
    PROVE  Moves(r, Idle)
<1> DEFINE q == request[r]
           lag == q.lag
           swept == evict(lag)
<1>1. /\ q.key \in Keys /\ lag \in 0 .. MaxLag /\ lag \in Nat /\ lag <= MaxLag
      /\ sinceEviction \in Nat /\ failures \in [Keys -> Seq(Ages)]
  BY Constants DEF IInv, RequestOK, RecordFailure, InHandType
<1>2. /\ failures' = [swept EXCEPT ![q.key] = Charged(pruned(@, lag), lag)]
      /\ sinceEviction' = IF sinceEviction - lag < EvictionInterval THEN sinceEviction ELSE lag
      /\ request' = [request EXCEPT ![r] = Idle]
  BY DEF RecordFailure, Goes
<1>3. ASSUME NEW k \in Keys PROVE ListOK(failures[k]) /\ Recent(failures[k], sinceEviction)
  BY DEF IInv
<1> HIDE DEF lag
<1>4. CASE sinceEviction - lag < EvictionInterval
  <2>1. \A k \in Keys : failures'[k] = IF k = q.key
                                       THEN Charged(pruned(failures[k], lag), lag)
                                       ELSE failures[k]
    BY <1>1, <1>2, <1>4 DEF evict
  <2>2. ASSUME NEW k \in Keys
        PROVE  Replaces(failures'[k], failures[k]) /\ Recent(failures'[k], sinceEviction')
    <3>1. sinceEviction' = sinceEviction
      BY <1>2, <1>4
    <3> QED
      BY <1>1, <1>3, <2>1, <3>1, PrunedReplaces DEF Replaces
  <2>3. failures' \in [Keys -> Seq(Ages)]
    <3>1. \A k \in Keys : failures'[k] \in Seq(Ages)
      BY <2>2 DEF Replaces, ListOK
    <3>2. failures' = [k \in Keys |-> failures'[k]]
      BY <1>1, <1>2, <1>4 DEF evict
    <3> QED
      BY <3>1, <3>2
  <2>4. sinceEviction' \in 0 .. EvictionInterval + MaxLag
    BY <1>2, <1>4 DEF IInv
  <2> QED
    BY <1>2, <2>2, <2>3, <2>4, IdleOK DEF Moves
<1>5. CASE ~(sinceEviction - lag < EvictionInterval)
  <2>1. swept = [k \in Keys |-> pruned(failures[k], lag)]
    BY <1>5 DEF evict
  <2>2. \A k \in Keys : failures'[k] = IF k = q.key THEN Charged(pruned(swept[k], lag), lag)
                                                    ELSE swept[k]
    BY <1>1, <1>2, <2>1
  <2>3. ASSUME NEW k \in Keys
        PROVE  Replaces(swept[k], failures[k]) /\ Recent(swept[k], lag)
    BY <1>1, <1>3, <2>1, PrunedReplaces
  <2>4. ASSUME NEW k \in Keys
        PROVE  Replaces(failures'[k], failures[k]) /\ Recent(failures'[k], lag)
    <3>1. ListOK(swept[k])
      BY <2>3 DEF Replaces
    <3> HIDE DEF swept
    <3>2. /\ Replaces(Charged(pruned(swept[k], lag), lag), swept[k])
          /\ Recent(Charged(pruned(swept[k], lag), lag), lag)
      BY <1>1, <3>1, PrunedReplaces
    <3> QED
      BY <2>2, <2>3, <3>2 DEF Replaces
  <2>5. failures' \in [Keys -> Seq(Ages)]
    <3>1. \A k \in Keys : failures'[k] \in Seq(Ages)
      BY <2>4 DEF Replaces, ListOK
    <3>2. failures' = [k \in Keys |-> failures'[k]]
      BY <1>2, <2>1
    <3> QED
      BY <3>1, <3>2
  <2>6. sinceEviction' = lag /\ lag \in 0 .. EvictionInterval + MaxLag
    BY <1>1, <1>2, <1>5, Constants
  <2> QED
    BY <1>2, <2>4, <2>5, <2>6, IdleOK DEF Moves
<1> QED
  BY <1>4, <1>5

(***************************************************************************)
(* Time.                                                                   *)
(***************************************************************************)
\* Every failure is a tick older, and an address that is still limited is so
\* on the same failures.
LEMMA LaterFacts ==
    ASSUME NEW ages, ListOK(ages)
    PROVE  /\ ListOK(Later(ages)) /\ DOMAIN Later(ages) = DOMAIN ages
           /\ \A i \in DOMAIN ages : Later(ages)[i] \in Nat /\ Later(ages)[i] <= ages[i] + 1
           /\ Limited(Later(ages), 0) =>
                 Limited(ages, 0) /\ Later(ages)[1] = ages[1] + 1
<1>1. ages \in Seq(Ages) /\ Len(ages) \in Nat /\ DOMAIN ages = 1 .. Len(ages)
      /\ Len(ages) <= Limit
  BY DEF ListOK
<1>2. ASSUME NEW i \in DOMAIN ages
      PROVE  /\ ages[i] \in Nat /\ Later(ages)[i] \in Ages /\ Later(ages)[i] \in Nat
             /\ Later(ages)[i] <= ages[i] + 1
             /\ Later(ages)[i] <= Window => Later(ages)[i] = ages[i] + 1
  <2>1. ages[i] \in Ages /\ ages[i] \in Nat
    <3>1. ages[i] \in Ages
      BY <1>1
    <3> QED
      BY <3>1, AgeType
  <2>2. Later(ages)[i] = IF ages[i] + 1 < LongAgo THEN ages[i] + 1 ELSE LongAgo
    BY <1>1 DEF Later, Capped
  <2>3. LongAgo \in Nat /\ LongAgo > Window /\ Window \in Nat
    BY Constants
  <2>4. Later(ages)[i] \in 0 .. LongAgo /\ ages[i] <= LongAgo
    BY <2>1, <2>2, <2>3 DEF Ages
  <2> QED
    BY <2>1, <2>2, <2>3, <2>4 DEF Ages
<1>3. DOMAIN Later(ages) = 1 .. Len(ages)
  BY <1>1 DEF Later
<1>4. Later(ages) \in Seq(Ages) /\ Len(Later(ages)) = Len(ages)
  <2>1. Later(ages) = [i \in 1 .. Len(ages) |-> Later(ages)[i]]
    BY <1>1 DEF Later
  <2>2. Later(ages) \in [1 .. Len(ages) -> Ages]
    BY <1>1, <1>2, <2>1
  <2>3. Later(ages) \in Seq(Ages)
    BY <1>1, <2>2
  <2> QED
    BY <1>1, <1>3, <2>3
<1>5. ListOK(Later(ages))
  BY <1>1, <1>4 DEF ListOK
<1>6. ASSUME Limited(Later(ages), 0)
      PROVE  Limited(ages, 0) /\ Later(ages)[1] = ages[1] + 1
  <2>1. Len(ages) = Limit /\ Later(ages)[1] <= Window
    BY <1>4, <1>5, <1>6, LimitedFirst
  <2>2. 1 \in DOMAIN ages
    BY <1>1, <2>1, Constants
  <2>3. Later(ages)[1] = ages[1] + 1 /\ ages[1] \in Nat
    BY <1>2, <2>1, <2>2
  <2>4. ages[1] <= Window
    BY <2>1, <2>3, Constants
  <2> QED
    BY <2>1, <2>3, <2>4, LimitedFirst
<1> QED
  BY <1>1, <1>2, <1>3, <1>5, <1>6

\* A refused client counts down while the failure that refused it ages.
LEMMA TickRequest ==
    ASSUME IInv, Tick, NEW r \in Requests
    PROVE  RequestOK(request'[r], failures')
<1> DEFINE q == request[r]
           n == request'[r]
<1>1. q \in InHandType /\ RequestOK(q, failures)
  BY DEF IInv
<1>2. CASE q.pc \in {"check", "record"}
  <2>1. n = [q EXCEPT !.lag = @ + 1] /\ q.lag < MaxLag
    BY <1>2 DEF Tick
  <2>2. q.lag + 1 \in 0 .. MaxLag
    BY <1>1, <2>1, Constants DEF InHandType
  <2>3. n \in InHandType /\ n.pc = q.pc /\ n.key = q.key
    BY <1>1, <2>1, <2>2 DEF InHandType
  <2> QED
    BY <1>1, <1>2, <2>3 DEF RequestOK, Told
<1>3. CASE q.pc = "refused"
  <2> DEFINE ages == failures[q.key]
             older == failures'[q.key]
             limited == Limited(older, 0)
  <2>1. n = Waited(q, limited)
    BY <1>3 DEF Tick
  <2>2. q.key \in Keys /\ Told(q, ages) /\ ListOK(ages)
    BY <1>1, <1>3 DEF RequestOK, IInv
  <2>3. older = Later(ages)
    BY <2>2 DEF Tick
  <2>4. CASE q.still /\ limited
    <3>1. /\ Limited(ages, 0) /\ q.left >= 0 /\ q.left + ages[1] >= Window
          /\ older[1] = ages[1] + 1
      BY <1>3, <2>2, <2>3, <2>4, LaterFacts DEF Told
    <3>2. older[1] <= Window /\ ListOK(older)
      BY <2>2, <2>3, <2>4, LaterFacts, LimitedFirst
    <3>3. older[1] \in Nat /\ ages[1] \in Nat /\ Len(ages) > 0
      <4>1. Len(ages) = Limit /\ ages \in Seq(Ages)
        BY <2>2, <3>1, LimitedFirst DEF ListOK
      <4>2. 1 \in DOMAIN ages /\ ages[1] \in Ages
        BY <4>1, Constants
      <4>3. ages[1] \in Nat
        BY <4>2, AgeType
      <4>4. Len(ages) > 0
        BY <4>1, Constants
      <4>5. older[1] = ages[1] + 1
        BY <3>1
      <4> HIDE DEF older, ages
      <4> QED
        BY <4>3, <4>4, <4>5
    <3>4. q.left \in Nat /\ q.left - 1 \in Nat
      <4>1. q.left \in Nat
        BY <1>1, <3>1 DEF InHandType
      <4> QED
        BY <3>1, <3>2, <3>3, <4>1, Constants
    <3>5. n = [q EXCEPT !.left = q.left - 1]
      BY <2>1, <2>4, <3>1 DEF Waited
    <3>6. /\ n \in InHandType /\ n.key = q.key /\ n.pc = q.pc
          /\ n.still = q.still /\ n.left = q.left - 1
      BY <1>1, <3>4, <3>5 DEF InHandType
    <3>7. n.left >= 0 /\ n.left + older[1] >= Window
      BY <3>1, <3>3, <3>4, <3>6, Constants
    <3> HIDE DEF n, older, ages
    <3>8. Told(n, older)
      BY <2>4, <3>7 DEF Told
    <3> QED
      BY <2>2, <3>6, <3>8 DEF RequestOK, n, older
  <2>5. CASE ~(q.still /\ limited)
    <3>1. n = [q EXCEPT !.left = 0, !.still = FALSE]
      BY <2>1, <2>5 DEF Waited
    <3>2. q \in InHandType /\ 0 \in Nat \cup {-1} /\ FALSE \in BOOLEAN
      BY <1>1
    <3> HIDE DEF n, q
    <3>3. n \in InHandType /\ n.still = FALSE /\ n.key = q.key
      BY <3>1, <3>2 DEF InHandType
    <3> QED
      BY <2>2, <3>3 DEF RequestOK, Told, n
  <2> QED
    BY <2>4, <2>5
<1>4. CASE q.pc \notin {"check", "record", "refused"}
  <2>1. n = q
    BY <1>4 DEF Tick
  <2> QED
    BY <1>1, <1>4, <2>1 DEF RequestOK, Told
<1> QED
  BY <1>2, <1>3, <1>4

\* Time keeps the invariant.
LEMMA TickKeeps ==
    ASSUME IInv, Tick
    PROVE  IInv'
<1> DEFINE next == sinceEviction + 1
           most == EvictionInterval + MaxLag
<1>1. /\ failures' = [k \in Keys |-> Later(failures[k])]
      /\ sinceEviction' = IF next < most THEN next ELSE most
  BY DEF Tick, Capped
<1>2. ASSUME NEW k \in Keys
      PROVE  /\ ListOK(failures[k]) /\ Recent(failures[k], sinceEviction)
             /\ failures[k] \in Seq(Ages) /\ failures'[k] = Later(failures[k])
  BY <1>1 DEF IInv
<1>3. sinceEviction \in Nat /\ most \in Nat /\ sinceEviction <= most
  BY Constants DEF IInv
<1>4. sinceEviction' \in 0 .. EvictionInterval + MaxLag
  BY <1>1, <1>3
<1>5. ASSUME NEW k \in Keys
      PROVE  ListOK(failures'[k]) /\ failures'[k] \in Seq(Ages)
  BY <1>2, LaterFacts DEF ListOK
<1>6. failures' \in [Keys -> Seq(Ages)]
  <2>1. failures' = [k \in Keys |-> failures'[k]]
    BY <1>1
  <2> QED
    BY <1>5, <2>1
<1>7. ASSUME NEW k \in Keys
      PROVE  Recent(failures'[k], sinceEviction')
  <2> DEFINE ages == failures[k]
             older == failures'[k]
  <2> SUFFICES ASSUME older # <<>>, sinceEviction' < EvictionInterval + MaxLag
               PROVE  \E i \in DOMAIN older : older[i] <= Window + MaxLag + sinceEviction'
    BY DEF Recent
  <2>1. sinceEviction' = sinceEviction + 1 /\ sinceEviction < EvictionInterval + MaxLag
    BY <1>1, <1>3
  <2>2. ages # <<>>
    <3>1. older \in Seq(Ages) /\ 1 \in DOMAIN older
      BY <1>5
    <3>2. DOMAIN older = DOMAIN ages
      BY <1>2, LaterFacts
    <3> HIDE DEF older, ages
    <3> QED
      BY <3>1, <3>2
  <2>3. PICK i \in DOMAIN ages : ages[i] <= Window + MaxLag + sinceEviction
    BY <1>2, <2>1, <2>2 DEF Recent
  <2>4. i \in DOMAIN older /\ older[i] \in Nat /\ older[i] <= ages[i] + 1
    BY <1>2, LaterFacts
  <2>5. ages[i] \in Nat
    <3>1. ages[i] \in Ages
      BY <1>2
    <3> QED
      BY <3>1, AgeType
  <2> HIDE DEF ages, older
  <2>6. older[i] <= Window + MaxLag + sinceEviction'
    BY <1>3, <2>1, <2>3, <2>4, <2>5, Constants
  <2> QED
    BY <2>4, <2>6
<1>8. \A r \in Requests : RequestOK(request'[r], failures')
  BY TickRequest
<1>9. request' \in [Requests -> InHandType]
  <2>1. request' = [r \in Requests |-> request'[r]]
    BY DEF Tick
  <2> QED
    BY <1>8, <2>1 DEF RequestOK
<1> QED
  BY <1>4, <1>5, <1>6, <1>7, <1>8, <1>9 DEF IInv

(***************************************************************************)
(* The history.                                                            *)
(*                                                                         *)
(* What is on the list of the watched address, and what is about to be put *)
(* there, was answered 401: each entry that is not too old has an entry of *)
(* the history to itself, of the same age.                                 *)
(***************************************************************************)
Horizon == Window + 2 * MaxLag

\* An entry that is put on the list later is not older than another by more
\* than its request waited.
Ordered(list) == \A i, j \in DOMAIN list : i < j => list[j] <= list[i] + MaxLag

Recording(requests) ==
    {r \in Requests : requests[r].pc = "record" /\ requests[r].key = Watched}

Covers(g, h, list, requests, hist) ==
    /\ \A i \in DOMAIN list : list[i] <= Horizon => g[i] \in DOMAIN hist /\ hist[g[i]] = list[i]
    /\ \A i, j \in DOMAIN list :
          list[i] <= Horizon /\ list[j] <= Horizon /\ g[i] = g[j] => i = j
    /\ \A r \in Recording(requests) : h[r] \in DOMAIN hist /\ hist[h[r]] = requests[r].lag
    /\ \A r, s \in Recording(requests) : h[r] = h[s] => r = s
    /\ \A i \in DOMAIN list, r \in Recording(requests) : list[i] <= Horizon => g[i] # h[r]

Accounted(list, requests, hist) ==
    /\ Ordered(list)
    /\ \E g \in [Nat -> Nat], h \in [Requests -> Nat] : Covers(g, h, list, requests, hist)

HInv ==
    /\ \A r \in Requests : request[r].pc = "handling" => request[r].lag = 0
    /\ failed \in Seq(0 .. Memory)
    /\ \A i, j \in DOMAIN failed : i < j => failed[j] <= failed[i]
    /\ Accounted(failures[Watched], request, failed)

\* An index is added at the end.
LEMMA OneMore == \A n \in Nat : 1 .. (n + 1) = (1 .. n) \cup {n + 1} /\ n + 1 \notin 1 .. n
  OBVIOUS

\* The history reaches as far back as the ages that are told apart.
LEMMA HistoryConstants ==
    /\ Memory \in Nat /\ Memory >= Horizon /\ Horizon \in Nat /\ LongAgo > Horizon
    /\ MaxLag <= Horizon /\ Watched \in Keys
  BY LimiterAssumption DEF Horizon, LongAgo

\* What is pruned from the list is pruned from the account.
LEMMA PrunedAccounted ==
    ASSUME NEW list, ListOK(list), NEW lag \in Nat, NEW requests, NEW hist,
           Accounted(list, requests, hist)
    PROVE  Accounted(pruned(list, lag), requests, hist)
<1> DEFINE rest == pruned(list, lag)
           max  == Window + lag
<1>1. list \in Seq(Ages) /\ Ages \subseteq Nat /\ max \in Nat
  BY Constants DEF ListOK
<1>2. rest = Since(list, max)
  BY DEF pruned
<1> HIDE DEF rest, max
<1>3. rest \in Seq(Ages) /\ \E c \in Nat : Suffix(rest, list, max, c)
  BY <1>1, <1>2, SinceFacts
<1>4. PICK c \in Nat : Suffix(rest, list, max, c)
  BY <1>3
<1>5. \A i \in DOMAIN rest : c + i \in DOMAIN list /\ rest[i] = list[c + i] /\ i \in Nat
  <2>1. Len(rest) = Len(list) - c
    BY <1>4 DEF Suffix
  <2>2. DOMAIN rest = 1 .. Len(rest)
    BY <1>3
  <2>3. DOMAIN list = 1 .. Len(list) /\ Len(list) \in Nat
    BY <1>1
  <2>4. \A i \in 1 .. Len(list) - c : rest[i] = list[c + i]
    BY <1>4 DEF Suffix
  <2> QED
    BY <2>1, <2>2, <2>3, <2>4
<1>6. PICK g \in [Nat -> Nat], h \in [Requests -> Nat] : Covers(g, h, list, requests, hist)
  BY DEF Accounted
<1> DEFINE shifted == [n \in Nat |-> g[c + n]]
<1>7. shifted \in [Nat -> Nat] /\ \A n \in Nat : shifted[n] = g[c + n]
  OBVIOUS
<1> HIDE DEF shifted
<1>8. Covers(shifted, h, rest, requests, hist)
  <2>1. \A i \in DOMAIN rest : shifted[i] = g[c + i]
    BY <1>5, <1>7
  <2>2. \A i \in DOMAIN rest : rest[i] <= Horizon =>
           shifted[i] \in DOMAIN hist /\ hist[shifted[i]] = rest[i]
    BY <1>5, <1>6, <2>1 DEF Covers
  <2>3. \A i, j \in DOMAIN rest :
           rest[i] <= Horizon /\ rest[j] <= Horizon /\ shifted[i] = shifted[j] => i = j
    <3> SUFFICES ASSUME NEW i \in DOMAIN rest, NEW j \in DOMAIN rest,
                        rest[i] <= Horizon, rest[j] <= Horizon, shifted[i] = shifted[j]
                 PROVE  i = j
      OBVIOUS
    <3>1. c + i = c + j
      BY <1>5, <1>6, <2>1 DEF Covers
    <3> QED
      BY <1>5, <3>1
  <2>4. \A i \in DOMAIN rest, r \in Recording(requests) :
           rest[i] <= Horizon => shifted[i] # h[r]
    BY <1>5, <1>6, <2>1 DEF Covers
  <2> QED
    BY <1>6, <2>2, <2>3, <2>4 DEF Covers
<1>9. Ordered(rest)
  BY <1>5 DEF Accounted, Ordered
<1> QED
  BY <1>6, <1>7, <1>8, <1>9 DEF Accounted, rest

\* Where fewer requests are about to be charged, the account still holds.
LEMMA FewerAccounted ==
    ASSUME NEW list, NEW old, NEW new, NEW hist, Accounted(list, old, hist),
           \A r \in Recording(new) : r \in Recording(old) /\ new[r].lag = old[r].lag
    PROVE  Accounted(list, new, hist)
<1>1. PICK g \in [Nat -> Nat], h \in [Requests -> Nat] : Covers(g, h, list, old, hist)
  BY DEF Accounted
<1>2. Covers(g, h, list, new, hist)
  BY <1>1 DEF Covers
<1> QED
  BY <1>1, <1>2 DEF Accounted

\* A request that is charged hands its entry of the history to the list.
LEMMA ChargedAccounted ==
    ASSUME NEW list \in Seq(Ages), NEW requests \in [Requests -> InHandType], NEW hist,
           Accounted(list, requests, hist), NEW r \in Recording(requests)
    PROVE  Accounted(Charged(list, requests[r].lag), [requests EXCEPT ![r] = Idle], hist)
<1> DEFINE lag  == requests[r].lag
           new  == [requests EXCEPT ![r] = Idle]
           next == Len(list) + 1
           more == Append(list, lag)
<1>1. Recording(new) = Recording(requests) \ {r} /\ \A s \in Recording(new) : new[s] = requests[s]
  BY DEF Recording, Idle
<1>2. CASE ~(Len(list) < Limit)
  <2>1. Charged(list, lag) = list
    BY <1>2 DEF Charged
  <2>2. \A s \in Recording(new) : s \in Recording(requests) /\ new[s].lag = requests[s].lag
    BY <1>1
  <2> HIDE DEF new
  <2>3. Accounted(list, new, hist)
    BY <2>2, FewerAccounted
  <2> QED
    BY <2>1, <2>3 DEF new
<1>3. CASE Len(list) < Limit
  <2>1. lag \in Nat /\ lag <= MaxLag /\ MaxLag \in Nat /\ r \in Requests
    <3>1. requests[r] \in InHandType /\ r \in Requests
      BY DEF Recording
    <3> QED
      BY <3>1, Constants DEF InHandType
  <2>2. PICK g \in [Nat -> Nat], h \in [Requests -> Nat] : Covers(g, h, list, requests, hist)
    BY DEF Accounted
  <2> DEFINE found == [g EXCEPT ![next] = h[r]]
  <2>3. Len(list) \in Nat /\ DOMAIN list = 1 .. Len(list) /\ next \in Nat
    OBVIOUS
  <2>4. /\ DOMAIN more = DOMAIN list \cup {next} /\ next \notin DOMAIN list
        /\ more[next] = lag /\ \A i \in DOMAIN list : more[i] = list[i] /\ i < next /\ i \in Nat
    <3>1. DOMAIN more = 1 .. next /\ more[next] = lag
      BY <2>3
    <3>2. \A i \in 1 .. Len(list) : more[i] = list[i]
      OBVIOUS
    <3>3. \A i \in 1 .. Len(list) : i < next /\ i \in Nat
      BY <2>3
    <3>4. 1 .. next = (1 .. Len(list)) \cup {next} /\ next \notin 1 .. Len(list)
      BY <2>3, OneMore
    <3> QED
      BY <2>3, <3>1, <3>2, <3>3, <3>4
  <2>5. /\ found \in [Nat -> Nat] /\ found[next] = h[r]
        /\ \A i \in DOMAIN list : found[i] = g[i]
    <3>1. h[r] \in Nat
      BY <2>1
    <3>2. \A i \in DOMAIN list : i \in Nat /\ i # next
      BY <2>4
    <3> HIDE DEF next
    <3>3. found \in [Nat -> Nat] /\ found[next] = h[r]
      BY <2>3, <3>1
    <3>4. \A i \in DOMAIN list : found[i] = g[i]
      BY <3>2
    <3> QED
      BY <3>3, <3>4
  <2> HIDE DEF found, more, new, lag, next
  <2>6. Covers(found, h, more, new, hist)
    <3>1. h[r] \in DOMAIN hist /\ hist[h[r]] = lag
      BY <2>2 DEF Covers, lag
    <3>2. \A i \in DOMAIN more : more[i] <= Horizon =>
             found[i] \in DOMAIN hist /\ hist[found[i]] = more[i]
      <4>1. \A i \in DOMAIN list : list[i] <= Horizon => g[i] \in DOMAIN hist /\ hist[g[i]] = list[i]
        BY <2>2 DEF Covers
      <4>2. \A i \in DOMAIN list : more[i] <= Horizon =>
               found[i] \in DOMAIN hist /\ hist[found[i]] = more[i]
        BY <2>4, <2>5, <4>1
      <4>3. found[next] \in DOMAIN hist /\ hist[found[next]] = more[next]
        BY <2>4, <2>5, <3>1
      <4> QED
        BY <2>4, <4>2, <4>3
    <3>3. \A i, j \in DOMAIN more :
             more[i] <= Horizon /\ more[j] <= Horizon /\ found[i] = found[j] => i = j
      <4>1. \A i, j \in DOMAIN list :
               list[i] <= Horizon /\ list[j] <= Horizon /\ g[i] = g[j] => i = j
        BY <2>2 DEF Covers
      <4>2. \A i \in DOMAIN list : list[i] <= Horizon => g[i] # h[r]
        BY <2>2 DEF Covers
      <4>3. \A i \in DOMAIN list : more[i] <= Horizon => found[i] # found[next]
        BY <2>4, <2>5, <4>2
      <4>4. \A i, j \in DOMAIN list :
               more[i] <= Horizon /\ more[j] <= Horizon /\ found[i] = found[j] => i = j
        BY <2>4, <2>5, <4>1
      <4> QED
        BY <2>4, <4>3, <4>4
    <3>4. \A i \in DOMAIN more, s \in Recording(new) : more[i] <= Horizon => found[i] # h[s]
      <4>1. \A i \in DOMAIN list, s \in Recording(requests) : list[i] <= Horizon => g[i] # h[s]
        BY <2>2 DEF Covers
      <4>2. \A s \in Recording(requests) : h[s] = h[r] => s = r
        BY <2>2 DEF Covers
      <4>3. \A i \in DOMAIN list, s \in Recording(new) : more[i] <= Horizon => found[i] # h[s]
        BY <1>1, <2>4, <2>5, <4>1
      <4>4. \A s \in Recording(new) : found[next] # h[s]
        BY <1>1, <2>5, <4>2
      <4> QED
        BY <2>4, <4>3, <4>4
    <3>5. \A s \in Recording(new) : h[s] \in DOMAIN hist /\ hist[h[s]] = new[s].lag
      BY <1>1, <2>2 DEF Covers
    <3>6. \A s, t \in Recording(new) : h[s] = h[t] => s = t
      BY <1>1, <2>2 DEF Covers
    <3> QED
      BY <3>2, <3>3, <3>4, <3>5, <3>6 DEF Covers
  <2>7. Ordered(more)
    <3>1. \A i \in DOMAIN list : list[i] \in Nat
      <4>1. \A i \in DOMAIN list : list[i] \in Ages
        OBVIOUS
      <4> QED
        BY <4>1, AgeType
    <3>2. \A i \in DOMAIN list : more[next] <= more[i] + MaxLag
      BY <2>1, <2>4, <3>1
    <3>3. \A i, j \in DOMAIN list : i < j => more[j] <= more[i] + MaxLag
      BY <2>4 DEF Accounted, Ordered
    <3>4. \A i \in DOMAIN list : ~(next < i)
      BY <2>3, <2>4 DEF next
    <3>5. ~(next < next)
      BY <2>3
    <3> QED
      BY <2>4, <3>2, <3>3, <3>4, <3>5 DEF Ordered
  <2>8. Charged(list, lag) = more
    BY <1>3 DEF Charged, more
  <2> QED
    BY <2>2, <2>5, <2>6, <2>7, <2>8 DEF Accounted, lag, new
<1> QED
  BY <1>2, <1>3

\* A request that is answered 401 has the entry that is just made.
LEMMA UnauthorizedAccounted ==
    ASSUME NEW list, NEW old \in [Requests -> InHandType], NEW hist \in Seq(0 .. Memory),
           Accounted(list, old, hist), NEW r \in Requests,
           old[r].pc = "handling", old[r].key = Watched, old[r].lag = 0
    PROVE  Accounted(list, [old EXCEPT ![r] = [old[r] EXCEPT !.pc = "record"]], Append(hist, 0))
<1> DEFINE p    == [old[r] EXCEPT !.pc = "record"]
           new  == [old EXCEPT ![r] = p]
           next == Len(hist) + 1
           more == Append(hist, 0)
<1>1. p.pc = "record" /\ p.key = Watched /\ p.lag = 0
  BY DEF InHandType
<1> HIDE DEF p
<1>2. /\ Recording(new) = Recording(old) \cup {r} /\ r \notin Recording(old)
      /\ new[r].lag = 0 /\ \A s \in Recording(old) : new[s] = old[s]
  BY <1>1 DEF Recording
<1>3. PICK g \in [Nat -> Nat], h \in [Requests -> Nat] : Covers(g, h, list, old, hist)
  BY DEF Accounted
<1> DEFINE found == [h EXCEPT ![r] = next]
<1>4. /\ next \in Nat /\ DOMAIN more = DOMAIN hist \cup {next} /\ next \notin DOMAIN hist
      /\ more[next] = 0 /\ \A i \in DOMAIN hist : more[i] = hist[i]
  <2>1. Len(hist) \in Nat /\ DOMAIN hist = 1 .. Len(hist) /\ next \in Nat
    OBVIOUS
  <2>2. DOMAIN more = 1 .. next /\ more[next] = 0
    BY <2>1
  <2>3. \A i \in 1 .. Len(hist) : more[i] = hist[i]
    OBVIOUS
  <2>4. 1 .. next = (1 .. Len(hist)) \cup {next} /\ next \notin 1 .. Len(hist)
    BY <2>1, OneMore
  <2> QED
    BY <2>1, <2>2, <2>3, <2>4
<1>5. /\ found \in [Requests -> Nat] /\ found[r] = next
      /\ \A s \in Requests : s # r => found[s] = h[s]
  BY <1>4
<1>6. Recording(old) \subseteq Requests
  BY DEF Recording
<1> HIDE DEF found, more, new, next
<1>7. Covers(g, found, list, new, more)
  <2>1. \A i \in DOMAIN list : list[i] <= Horizon =>
           g[i] \in DOMAIN more /\ more[g[i]] = list[i] /\ g[i] # next
    BY <1>3, <1>4 DEF Covers
  <2>2. \A i, j \in DOMAIN list :
           list[i] <= Horizon /\ list[j] <= Horizon /\ g[i] = g[j] => i = j
    BY <1>3 DEF Covers
  <2>3. \A s \in Recording(old) : /\ found[s] = h[s] /\ h[s] \in DOMAIN hist
                                  /\ hist[h[s]] = old[s].lag
    BY <1>2, <1>3, <1>5, <1>6 DEF Covers
  <2>4. \A s \in Recording(new) : found[s] \in DOMAIN more /\ more[found[s]] = new[s].lag
    BY <1>2, <1>4, <1>5, <2>3
  <2>5. \A s, t \in Recording(new) : found[s] = found[t] => s = t
    BY <1>2, <1>3, <1>4, <1>5, <2>3 DEF Covers
  <2>6. \A i \in DOMAIN list, s \in Recording(new) : list[i] <= Horizon => g[i] # found[s]
    <3>1. \A i \in DOMAIN list, s \in Recording(old) : list[i] <= Horizon => g[i] # h[s]
      BY <1>3 DEF Covers
    <3>2. \A i \in DOMAIN list, s \in Recording(old) : list[i] <= Horizon => g[i] # found[s]
      BY <2>3, <3>1
    <3>3. \A i \in DOMAIN list : list[i] <= Horizon => g[i] # found[r]
      BY <1>5, <2>1
    <3> QED
      BY <1>2, <3>2, <3>3
  <2> QED
    BY <2>1, <2>2, <2>4, <2>5, <2>6 DEF Covers
<1> QED
  BY <1>3, <1>5, <1>7 DEF Accounted, new, more, p

\* The history is a tick older, without what is forgotten.
Aged(hist) == [i \in DOMAIN hist |-> hist[i] + 1]

\* What is forgotten is too old for the history; the rest stays in order.
LEMMA AgedFacts ==
    ASSUME NEW hist \in Seq(0 .. Memory), \A i, j \in DOMAIN hist : i < j => hist[j] <= hist[i]
    PROVE  LET rest == Since(Aged(hist), Memory) IN
           /\ rest \in Seq(0 .. Memory)
           /\ \A i, j \in DOMAIN rest : i < j => rest[j] <= rest[i]
           /\ \E c \in Nat : \A i \in DOMAIN hist : hist[i] < Memory =>
                 i > c /\ i - c \in DOMAIN rest /\ rest[i - c] = hist[i] + 1
<1> DEFINE older == Aged(hist)
           rest  == Since(older, Memory)
<1>1. /\ Len(hist) \in Nat /\ DOMAIN hist = 1 .. Len(hist) /\ Memory \in Nat
      /\ \A i \in 1 .. Len(hist) : hist[i] \in Nat /\ hist[i] <= Memory
  <2>1. /\ Len(hist) \in Nat /\ DOMAIN hist = 1 .. Len(hist)
        /\ \A i \in 1 .. Len(hist) : hist[i] \in 0 .. Memory
    <3> DEFINE numbers == 0 .. Memory
    <3>1. hist \in Seq(numbers)
      OBVIOUS
    <3> HIDE DEF numbers
    <3>2. /\ Len(hist) \in Nat /\ DOMAIN hist = 1 .. Len(hist)
          /\ \A i \in 1 .. Len(hist) : hist[i] \in numbers
      BY <3>1
    <3> QED
      BY <3>2 DEF numbers
  <2> QED
    BY <2>1, HistoryConstants
<1>2. DOMAIN older = 1 .. Len(hist) /\ \A i \in 1 .. Len(hist) : older[i] = hist[i] + 1
  BY <1>1 DEF Aged
<1>3. older \in Seq(Nat) /\ Len(older) = Len(hist)
  <2>1. older \in [1 .. Len(hist) -> Nat]
    BY <1>1, <1>2 DEF Aged
  <2> HIDE DEF older
  <2> QED
    BY <1>1, <1>2, <2>1
<1> HIDE DEF older
<1>4. rest \in Seq(Nat) /\ \E c \in Nat : Suffix(rest, older, Memory, c)
  BY <1>1, <1>3, SinceFacts
<1> HIDE DEF rest
<1>5. PICK c \in Nat : Suffix(rest, older, Memory, c)
  BY <1>4
<1>6. /\ c <= Len(hist) /\ Len(rest) = Len(hist) - c /\ DOMAIN rest = 1 .. Len(rest)
      /\ \A i \in 1 .. Len(hist) - c : rest[i] = older[c + i]
      /\ \A i \in 1 .. c : older[i] > Memory
      /\ c < Len(hist) => older[c + 1] <= Memory
  <2>1. DOMAIN rest = 1 .. Len(rest)
    BY <1>4
  <2> QED
    BY <1>1, <1>3, <1>5, <2>1 DEF Suffix
<1>7. ASSUME NEW i \in DOMAIN rest
      PROVE  c + i \in 1 .. Len(hist) /\ rest[i] = hist[c + i] + 1 /\ rest[i] <= Memory
  <2>1. i \in 1 .. Len(hist) - c /\ c + i \in 1 .. Len(hist) /\ c < Len(hist)
    BY <1>1, <1>6
  <2>2. rest[i] = hist[c + i] + 1
    BY <1>2, <1>6, <2>1
  <2>3. c + 1 \in 1 .. Len(hist) /\ hist[c + 1] + 1 <= Memory
    BY <1>1, <1>2, <1>6, <2>1
  <2>4. hist[c + i] <= hist[c + 1]
    <3>1. CASE i = 1
      <4>1. c + i = c + 1 /\ hist[c + 1] \in Nat
        BY <1>1, <2>3, <3>1
      <4> QED
        BY <4>1
    <3>2. CASE i > 1
      <4>1. c + 1 \in DOMAIN hist /\ c + i \in DOMAIN hist /\ c + 1 < c + i
        BY <1>1, <2>1, <2>3, <3>2
      <4> QED
        BY <4>1
    <3> QED
      BY <2>1, <3>1, <3>2
  <2> QED
    BY <1>1, <2>1, <2>2, <2>3, <2>4
<1>8. rest \in Seq(0 .. Memory)
  <2>1. ASSUME NEW i \in 1 .. Len(rest) PROVE rest[i] \in 0 .. Memory
    <3>1. rest[i] \in Nat
      BY <1>4
    <3>2. rest[i] <= Memory
      BY <1>6, <1>7
    <3> QED
      BY <1>1, <3>1, <3>2
  <2> DEFINE numbers == 0 .. Memory
  <2>2. \A i \in 1 .. Len(rest) : rest[i] \in numbers
    BY <2>1
  <2> HIDE DEF numbers
  <2>3. rest \in Seq(numbers)
    BY <1>4, <2>2
  <2> QED
    BY <2>3 DEF numbers
<1>9. ASSUME NEW i \in DOMAIN rest, NEW j \in DOMAIN rest, i < j PROVE rest[j] <= rest[i]
  <2>1. c + i \in DOMAIN hist /\ c + j \in DOMAIN hist /\ c + i < c + j
    BY <1>1, <1>6, <1>7, <1>9
  <2>2. hist[c + j] <= hist[c + i] /\ hist[c + i] \in Nat /\ hist[c + j] \in Nat
    BY <1>1, <2>1
  <2> QED
    BY <1>7, <2>2
<1>10. ASSUME NEW i \in DOMAIN hist, hist[i] < Memory
       PROVE  i > c /\ i - c \in DOMAIN rest /\ rest[i - c] = hist[i] + 1
  <2>1. i > c
    BY <1>1, <1>2, <1>6, <1>10
  <2>2. i - c \in DOMAIN rest
    BY <1>1, <1>6, <2>1
  <2>3. rest[i - c] = hist[c + (i - c)] + 1 /\ c + (i - c) = i
    BY <1>1, <1>7, <2>2
  <2> QED
    BY <2>1, <2>2, <2>3
<1> QED
  BY <1>8, <1>9, <1>10 DEF rest, older

\* Numbers that differ from a third by as much are the same.
LEMMA SameRest == \A x, y, c \in Nat : x - c = y - c => x = y
  OBVIOUS

\* Time keeps the account: both ages grow until nothing tells them apart.
LEMMA LaterAccounted ==
    ASSUME NEW list, ListOK(list), NEW old, NEW new, NEW hist \in Seq(0 .. Memory),
           \A i, j \in DOMAIN hist : i < j => hist[j] <= hist[i],
           Accounted(list, old, hist),
           \A r \in Recording(new) : /\ r \in Recording(old) /\ old[r].lag \in Nat
                                     /\ new[r].lag = old[r].lag + 1 /\ new[r].lag <= MaxLag
    PROVE  Accounted(Later(list), new, Since(Aged(hist), Memory))
<1> DEFINE later == Later(list)
           rest  == Since(Aged(hist), Memory)
<1>1. \A i \in DOMAIN list : /\ list[i] \in Nat /\ list[i] <= LongAgo
                             /\ later[i] = IF list[i] + 1 < LongAgo THEN list[i] + 1 ELSE LongAgo
  <2>1. \A i \in DOMAIN list : list[i] \in Ages
    BY DEF ListOK
  <2> QED
    BY <2>1, Constants DEF Ages, Later, Capped
<1>2. DOMAIN later = DOMAIN list
  BY DEF Later
<1>3. LongAgo \in Nat /\ LongAgo > Horizon /\ Horizon \in Nat /\ MaxLag \in Nat
      /\ Memory \in Nat /\ Horizon <= Memory /\ MaxLag <= Horizon
  BY Constants, HistoryConstants
<1> HIDE DEF later
<1>4. \A i \in DOMAIN list : later[i] <= Horizon =>
         later[i] = list[i] + 1 /\ list[i] <= Horizon /\ list[i] < Memory
  BY <1>1, <1>3
<1>5. Ordered(later)
  <2> SUFFICES ASSUME NEW i \in DOMAIN list, NEW j \in DOMAIN list, i < j
               PROVE  later[j] <= later[i] + MaxLag
    BY <1>2 DEF Ordered
  <2>1. list[j] <= list[i] + MaxLag
    BY DEF Accounted, Ordered
  <2>2. /\ list[i] \in Nat /\ later[i] = IF list[i] + 1 < LongAgo THEN list[i] + 1 ELSE LongAgo
        /\ list[j] \in Nat /\ later[j] = IF list[j] + 1 < LongAgo THEN list[j] + 1 ELSE LongAgo
    BY <1>1
  <2> QED
    BY <1>3, <2>1, <2>2
<1>6. PICK g \in [Nat -> Nat], h \in [Requests -> Nat] : Covers(g, h, list, old, hist)
  BY DEF Accounted
<1>7. PICK c \in Nat : \A i \in DOMAIN hist : hist[i] < Memory =>
         i > c /\ i - c \in DOMAIN rest /\ rest[i - c] = hist[i] + 1
  BY AgedFacts
<1>8. DOMAIN hist \subseteq Nat
  OBVIOUS
<1> DEFINE back(n) == IF n > c THEN n - c ELSE 0
           g2 == [n \in Nat |-> back(g[n])]
           h2 == [r \in Requests |-> back(h[r])]
<1> HIDE DEF rest
<1>9. g2 \in [Nat -> Nat] /\ h2 \in [Requests -> Nat]
  <2>1. \A n \in Nat : back(n) \in Nat
    OBVIOUS
  <2> HIDE DEF back
  <2>2. \A n \in Nat : g[n] \in Nat
    BY <1>6
  <2>3. \A r \in Requests : h[r] \in Nat
    BY <1>6
  <2> QED
    BY <2>1, <2>2, <2>3
<1>10. ASSUME NEW i \in DOMAIN list, later[i] <= Horizon
       PROVE  /\ list[i] <= Horizon /\ g[i] \in Nat /\ g[i] > c /\ g2[i] = g[i] - c
              /\ g2[i] \in DOMAIN rest /\ rest[g2[i]] = later[i]
  <2>1. /\ list[i] <= Horizon /\ list[i] < Memory /\ later[i] = list[i] + 1
        /\ g[i] \in DOMAIN hist /\ hist[g[i]] = list[i]
    BY <1>4, <1>6, <1>10 DEF Covers
  <2>2. g[i] > c /\ g[i] - c \in DOMAIN rest /\ rest[g[i] - c] = hist[g[i]] + 1 /\ g[i] \in Nat
    BY <1>7, <1>8, <2>1
  <2>3. i \in Nat
    BY DEF ListOK
  <2>4. g2[i] = g[i] - c
    BY <2>2, <2>3
  <2> HIDE DEF g2
  <2> QED
    BY <2>1, <2>2, <2>4
<1>11. ASSUME NEW r \in Recording(new)
       PROVE  /\ r \in Recording(old) /\ h[r] \in Nat /\ h[r] > c /\ h2[r] = h[r] - c
              /\ h2[r] \in DOMAIN rest /\ rest[h2[r]] = new[r].lag
  <2>1. /\ r \in Recording(old) /\ old[r].lag < Memory /\ new[r].lag = old[r].lag + 1
        /\ r \in Requests
    <3>1. /\ r \in Recording(old) /\ old[r].lag \in Nat /\ new[r].lag = old[r].lag + 1
          /\ new[r].lag <= MaxLag
      BY <1>11
    <3>2. r \in Requests
      BY <3>1 DEF Recording
    <3>3. old[r].lag < Memory
      <4>1. \A n \in Nat : n + 1 <= MaxLag => n < Memory
        BY <1>3
      <4>2. old[r].lag + 1 <= MaxLag
        BY <3>1
      <4> QED
        BY <3>1, <4>1, <4>2
    <3> QED
      BY <3>1, <3>2, <3>3
  <2>2. h[r] \in DOMAIN hist /\ hist[h[r]] = old[r].lag
    BY <1>6, <2>1 DEF Covers
  <2>3. h[r] > c /\ h[r] - c \in DOMAIN rest /\ rest[h[r] - c] = hist[h[r]] + 1 /\ h[r] \in Nat
    BY <1>7, <1>8, <2>1, <2>2
  <2>4. h2[r] = h[r] - c
    BY <2>1, <2>3
  <2> HIDE DEF h2
  <2> QED
    BY <2>1, <2>2, <2>3, <2>4
<1> HIDE DEF g2, h2
<1>12. Covers(g2, h2, later, new, rest)
  <2>1. \A i \in DOMAIN later : later[i] <= Horizon =>
           g2[i] \in DOMAIN rest /\ rest[g2[i]] = later[i]
    BY <1>2, <1>10
  <2>2. \A i, j \in DOMAIN later :
           later[i] <= Horizon /\ later[j] <= Horizon /\ g2[i] = g2[j] => i = j
    <3> SUFFICES ASSUME NEW i \in DOMAIN list, NEW j \in DOMAIN list,
                        later[i] <= Horizon, later[j] <= Horizon, g2[i] = g2[j]
                 PROVE  i = j
      BY <1>2
    <3>1. g[i] = g[j] /\ list[i] <= Horizon /\ list[j] <= Horizon
      <4>1. g[i] \in Nat /\ g[j] \in Nat /\ g[i] - c = g[j] - c
        BY <1>10
      <4>2. g[i] = g[j]
        BY <4>1, SameRest
      <4> QED
        BY <1>10, <4>2
    <3> QED
      BY <1>6, <3>1 DEF Covers
  <2>3. \A r \in Recording(new) : h2[r] \in DOMAIN rest /\ rest[h2[r]] = new[r].lag
    BY <1>11
  <2>4. \A r, s \in Recording(new) : h2[r] = h2[s] => r = s
    <3> SUFFICES ASSUME NEW r \in Recording(new), NEW s \in Recording(new), h2[r] = h2[s]
                 PROVE  r = s
      OBVIOUS
    <3>1. h[r] \in Nat /\ h[s] \in Nat /\ h[r] - c = h[s] - c
      BY <1>11
    <3>2. h[r] = h[s]
      BY <3>1, SameRest
    <3>3. r \in Recording(old) /\ s \in Recording(old)
      BY <1>11
    <3> QED
      BY <1>6, <3>2, <3>3 DEF Covers
  <2>5. \A i \in DOMAIN later, r \in Recording(new) : later[i] <= Horizon => g2[i] # h2[r]
    <3> SUFFICES ASSUME NEW i \in DOMAIN list, NEW r \in Recording(new),
                        later[i] <= Horizon, g2[i] = h2[r]
                 PROVE  FALSE
      BY <1>2
    <3>1. g[i] \in Nat /\ h[r] \in Nat /\ g[i] - c = h[r] - c
      BY <1>10, <1>11
    <3>2. g[i] = h[r]
      BY <3>1, SameRest
    <3>3. list[i] <= Horizon /\ r \in Recording(old)
      BY <1>10, <1>11
    <3> QED
      BY <1>6, <3>2, <3>3 DEF Covers
  <2> QED
    BY <2>1, <2>2, <2>3, <2>4, <2>5 DEF Covers
<1> QED
  BY <1>5, <1>9, <1>12 DEF Accounted, later, rest

\* A request that goes where nothing is about to be charged leaves the others
\* as they are.
LEMMA GoesAccounted ==
    ASSUME IInv, NEW r \in Requests, NEW q, Goes(r, q), ~(q.pc = "record" /\ q.key = Watched),
           NEW list, NEW hist, Accounted(list, request, hist)
    PROVE  Accounted(list, request', hist)
<1>1. \A s \in Requests : request'[s] = IF s = r THEN q ELSE request[s]
  BY DEF Goes, IInv
<1>2. \A s \in Recording(request') : s \in Recording(request) /\ request'[s].lag = request[s].lag
  BY <1>1 DEF Recording
<1> QED
  BY <1>2, FewerAccounted

\* A request that goes on keeps the rule about handling, if it does itself.
LEMMA GoesHandling ==
    ASSUME IInv, HInv, NEW r \in Requests, NEW q, Goes(r, q), q.pc = "handling" => q.lag = 0
    PROVE  \A s \in Requests : request'[s].pc = "handling" => request'[s].lag = 0
  BY DEF Goes, IInv, HInv

\* Requests that leave the map alone keep the account.
LEMMA QuietAccounted ==
    ASSUME IInv, HInv, NEW r \in Requests, Arrive(r) \/ Answers(r) \/ Unauthorized(r) \/ GiveUp(r)
    PROVE  HInv'
<1> DEFINE q == request[r]
<1>1. q \in InHandType /\ UNCHANGED failures
  BY DEF IInv, Arrive, Answers, Unauthorized, GiveUp
<1>2. ASSUME NEW p, Goes(r, p), ~(p.pc = "record" /\ p.key = Watched),
             p.pc = "handling" => p.lag = 0, UNCHANGED failed
      PROVE  HInv'
  <2>1. Accounted(failures[Watched], request', failed)
    BY <1>2, GoesAccounted DEF HInv
  <2>2. \A s \in Requests : request'[s].pc = "handling" => request'[s].lag = 0
    BY <1>2, GoesHandling
  <2> QED
    BY <1>1, <1>2, <2>1, <2>2 DEF HInv
<1>3. CASE Answers(r) \/ GiveUp(r)
  <2>1. Goes(r, Idle) /\ UNCHANGED failed
    BY <1>3 DEF Answers, GiveUp
  <2>2. Idle.pc = "idle"
    BY DEF Idle
  <2> QED
    BY <1>2, <2>1, <2>2
<1>4. CASE Arrive(r)
  <2>1. PICK k \in ComesFrom[r] : Goes(r, [Idle EXCEPT !.pc = "check", !.key = k])
    BY <1>4 DEF Arrive
  <2> DEFINE p == [Idle EXCEPT !.pc = "check", !.key = k]
  <2>2. p.pc = "check"
    BY DEF Idle
  <2>3. UNCHANGED failed /\ Goes(r, p)
    BY <1>4, <2>1 DEF Arrive
  <2> HIDE DEF p
  <2> QED
    BY <1>2, <2>2, <2>3
<1>5. CASE Unauthorized(r)
  <2> DEFINE p == [q EXCEPT !.pc = "record"]
  <2>1. /\ q.pc = "handling" /\ q.lag = 0 /\ Goes(r, p)
        /\ failed' = IF q.key = Watched THEN Append(failed, 0) ELSE failed
    BY <1>5 DEF Unauthorized, HInv
  <2>2. p.pc = "record" /\ p.key = q.key
    BY <1>1 DEF InHandType
  <2>3. CASE q.key # Watched
    <3> HIDE DEF p
    <3> QED
      BY <1>2, <2>1, <2>2, <2>3
  <2>4. CASE q.key = Watched
    <3>1. request \in [Requests -> InHandType] /\ failed \in Seq(0 .. Memory)
      BY DEF IInv, HInv
    <3>2. request' = [request EXCEPT ![r] = p]
      BY <2>1 DEF Goes
    <3>3. failed' = Append(failed, 0)
      BY <2>1, <2>4
    <3>4. Accounted(failures[Watched], request', failed')
      <4>1. Accounted(failures[Watched], request, failed)
        BY DEF HInv
      <4>2. Accounted(failures[Watched],
                      [request EXCEPT ![r] = [request[r] EXCEPT !.pc = "record"]],
                      Append(failed, 0))
        BY <2>1, <2>4, <3>1, <4>1, UnauthorizedAccounted
      <4> QED
        BY <3>2, <3>3, <4>2
    <3>5. \A s \in Requests : request'[s].pc = "handling" => request'[s].lag = 0
      <4> HIDE DEF p
      <4> QED
        BY <2>1, <2>2, GoesHandling
    <3>6. failed' \in Seq(0 .. Memory)
      BY <3>1, <3>3, HistoryConstants
    <3>7. \A i, j \in DOMAIN failed' : i < j => failed'[j] <= failed'[i]
      <4> DEFINE n == Len(failed)
      <4>1. /\ n \in Nat /\ DOMAIN failed = 1 .. n /\ DOMAIN failed' = 1 .. (n + 1)
            /\ failed'[n + 1] = 0
        BY <3>1, <3>3
      <4>2. \A i \in 1 .. n : failed'[i] = failed[i]
        BY <3>1, <3>3
      <4>3. \A i \in 1 .. n : failed[i] >= 0
        <5>1. \A i \in 1 .. n : failed[i] \in 0 .. Memory
          <6> DEFINE numbers == 0 .. Memory
          <6>1. failed \in Seq(numbers)
            BY <3>1
          <6> HIDE DEF numbers
          <6>2. \A i \in 1 .. n : failed[i] \in numbers
            BY <6>1
          <6> QED
            BY <6>2 DEF numbers
        <5> QED
          BY <5>1, HistoryConstants
      <4>4. \A i, j \in 1 .. n : i < j => failed[j] <= failed[i]
        BY <4>1 DEF HInv
      <4>5. 1 .. (n + 1) = (1 .. n) \cup {n + 1}
        BY <4>1, OneMore
      <4> HIDE DEF n
      <4>6. \A i \in 1 .. (n + 1) : ~(n + 1 < i)
        BY <4>1
      <4> QED
        BY <4>1, <4>2, <4>3, <4>4, <4>5, <4>6
    <3> QED
      BY <1>1, <3>4, <3>5, <3>6, <3>7 DEF HInv
  <2> QED
    BY <2>3, <2>4
<1> QED
  BY <1>3, <1>4, <1>5

\* What is left of the watched address's list is accounted for when a request
\* is checked.
LEMMA CheckedAccounted ==
    ASSUME IInv, HInv, NEW r \in Requests, RetryAfter(r)
    PROVE  /\ HInv'
           /\ request[r].key = Watched =>
                 Accounted(pruned(failures[Watched], request[r].lag), request, failed)
<1> DEFINE q      == request[r]
           recent == pruned(failures[q.key], q.lag)
<1>1. q \in InHandType /\ q.key \in Keys /\ q.lag \in Nat /\ failures \in [Keys -> Seq(Ages)]
  BY Constants DEF IInv, RequestOK, RetryAfter, InHandType
<1>2. /\ failures' = [failures EXCEPT ![q.key] = recent] /\ UNCHANGED failed
      /\ \E p \in InHandType : Goes(r, p) /\ p.pc \in {"refused", "handling"} /\ p.lag = 0
  <2>1. /\ failures' = [failures EXCEPT ![q.key] = recent] /\ UNCHANGED failed
        /\ \E p : Goes(r, p) /\ p.pc \in {"refused", "handling"} /\ p.lag = 0
    <3> DEFINE still == (q.key = Watched /\ Limited(recent, 0))
               told  == TicksPerSecond * Seconds(Window - (recent[1] - q.lag))
               refused == [q EXCEPT !.pc = "refused", !.lag = 0, !.still = still, !.left = told]
               passed  == [q EXCEPT !.pc = "handling", !.lag = 0]
    <3>1. Goes(r, IF Len(recent) >= Limit THEN refused ELSE passed)
      BY DEF RetryAfter
    <3>2. failures' = [failures EXCEPT ![q.key] = recent] /\ UNCHANGED failed
      BY DEF RetryAfter
    <3> HIDE DEF still, told, recent, q
    <3>3. refused.pc = "refused" /\ refused.lag = 0 /\ passed.pc = "handling" /\ passed.lag = 0
      BY <1>1 DEF InHandType
    <3> HIDE DEF refused, passed
    <3> QED
      BY <3>1, <3>2, <3>3
  <2>2. request' \in [Requests -> InHandType] /\ request \in [Requests -> InHandType]
    BY RetryAfterKeeps DEF IInv
  <2>3. \A p : Goes(r, p) => p \in InHandType
    BY <2>2 DEF Goes
  <2> QED
    BY <2>1, <2>3
<1>3. q.key = Watched => Accounted(recent, request, failed)
  <2>1. ListOK(failures[Watched]) /\ Accounted(failures[Watched], request, failed)
    BY HistoryConstants DEF IInv, HInv
  <2> QED
    BY <1>1, <2>1, PrunedAccounted
<1>4. Accounted(failures'[Watched], request, failed)
  <2>1. failures'[Watched] = IF q.key = Watched THEN recent ELSE failures[Watched]
    BY <1>1, <1>2, HistoryConstants
  <2> QED
    BY <1>3, <2>1 DEF HInv
<1>5. Accounted(failures'[Watched], request', failed)
  BY <1>2, <1>4, GoesAccounted
<1>6. \A s \in Requests : request'[s].pc = "handling" => request'[s].lag = 0
  BY <1>2, GoesHandling
<1>7. HInv'
  BY <1>2, <1>5, <1>6 DEF HInv
<1> QED
  BY <1>3, <1>7

\* A request that is charged keeps the account.
LEMMA RecordedAccounted ==
    ASSUME IInv, HInv, NEW r \in Requests, RecordFailure(r)
    PROVE  HInv'
<1> DEFINE q     == request[r]
           lag   == q.lag
           swept == evict(lag)
           kept  == swept[Watched]
<1>1. /\ q.pc = "record" /\ q.key \in Keys /\ lag \in 0 .. MaxLag /\ lag \in Nat
      /\ failures \in [Keys -> Seq(Ages)] /\ request \in [Requests -> InHandType]
  BY Constants DEF IInv, RequestOK, RecordFailure, InHandType
<1>2. /\ failures' = [swept EXCEPT ![q.key] = Charged(pruned(@, lag), lag)]
      /\ Goes(r, Idle) /\ UNCHANGED failed
  BY DEF RecordFailure
<1>3. ListOK(failures[Watched]) /\ Accounted(failures[Watched], request, failed)
  BY HistoryConstants DEF IInv, HInv
<1>4. DOMAIN swept = Keys
  BY <1>1 DEF evict
<1>5. kept = failures[Watched] \/ kept = pruned(failures[Watched], lag)
  BY HistoryConstants DEF evict
<1> HIDE DEF swept, lag
<1>6. ListOK(kept) /\ Accounted(kept, request, failed)
  <2>1. ListOK(pruned(failures[Watched], lag))
    BY <1>1, <1>3, PrunedReplaces DEF Replaces
  <2>2. Accounted(pruned(failures[Watched], lag), request, failed)
    BY <1>1, <1>3, PrunedAccounted
  <2> QED
    BY <1>3, <1>5, <2>1, <2>2
<1>7. failures'[Watched] = IF q.key = Watched THEN Charged(pruned(kept, lag), lag) ELSE kept
  BY <1>2, <1>4, HistoryConstants
<1> HIDE DEF kept
<1>8. Idle.pc = "idle"
  BY DEF Idle
<1>9. Accounted(failures'[Watched], request', failed)
  <2>1. CASE q.key = Watched
    <3> DEFINE rest == pruned(kept, lag)
    <3>1. rest \in Seq(Ages)
      BY <1>1, <1>6, PrunedFacts DEF ListOK
    <3>2. Accounted(rest, request, failed)
      BY <1>1, <1>6, PrunedAccounted
    <3> HIDE DEF rest
    <3>3. r \in Recording(request)
      BY <1>1, <2>1 DEF Recording
    <3>4. Accounted(Charged(rest, lag), [request EXCEPT ![r] = Idle], failed)
      BY <1>1, <3>1, <3>2, <3>3, ChargedAccounted DEF lag
    <3> QED
      BY <1>2, <1>7, <2>1, <3>4 DEF Goes, rest
  <2>2. CASE q.key # Watched
    BY <1>2, <1>6, <1>7, <1>8, <2>2, GoesAccounted
  <2> QED
    BY <2>1, <2>2
<1>10. \A s \in Requests : request'[s].pc = "handling" => request'[s].lag = 0
  BY <1>2, <1>8, GoesHandling
<1> QED
  BY <1>2, <1>9, <1>10 DEF HInv

\* Time keeps the account.
LEMMA TickAccounted ==
    ASSUME IInv, HInv, Tick
    PROVE  HInv'
<1>1. failures'[Watched] = Later(failures[Watched]) /\ failed' = Since(Aged(failed), Memory)
  BY HistoryConstants DEF Tick, Aged
<1>2. /\ failed' \in Seq(0 .. Memory)
      /\ \A i, j \in DOMAIN failed' : i < j => failed'[j] <= failed'[i]
  BY <1>1, AgedFacts DEF HInv
<1>3. ASSUME NEW r \in Requests
      PROVE  /\ request[r] \in InHandType
             /\ request[r].pc \in {"check", "record"} =>
                   request'[r] = [request[r] EXCEPT !.lag = @ + 1] /\ request[r].lag < MaxLag
             /\ request[r].pc = "refused" => request'[r].pc = "refused"
             /\ request[r].pc \notin {"check", "record", "refused"} => request'[r] = request[r]
  <2>1. request[r] \in InHandType
    BY DEF IInv
  <2>2. ASSUME request[r].pc = "refused" PROVE request'[r].pc = "refused"
    <3>1. request'[r] = Waited(request[r], Limited(failures'[request[r].key], 0))
      BY <2>2 DEF Tick
    <3>2. \/ request'[r] = [request[r] EXCEPT !.left = IF @ >= 0 THEN @ - 1 ELSE @]
          \/ request'[r] = [request[r] EXCEPT !.left = 0, !.still = FALSE]
      BY <3>1 DEF Waited
    <3> QED
      BY <2>1, <2>2, <3>2 DEF InHandType
  <2> QED
    BY <2>1, <2>2 DEF Tick
<1>4. ASSUME NEW r \in Requests, request'[r].pc = "handling" PROVE request'[r].lag = 0
  <2>1. request[r].pc \notin {"check", "record"}
    <3> SUFFICES ASSUME request[r].pc \in {"check", "record"} PROVE FALSE
      OBVIOUS
    <3>1. request'[r].pc = request[r].pc
      BY <1>3 DEF InHandType
    <3> QED
      BY <1>4, <3>1
  <2>2. request'[r] = request[r]
    BY <1>3, <1>4, <2>1
  <2> QED
    BY <1>4, <2>2 DEF HInv
<1>5. ASSUME NEW r \in Recording(request')
      PROVE  /\ r \in Recording(request) /\ request[r].lag \in Nat
             /\ request'[r].lag = request[r].lag + 1 /\ request'[r].lag <= MaxLag
  <2>1. r \in Requests /\ request'[r].pc = "record" /\ request'[r].key = Watched
    BY DEF Recording
  <2>2. request[r].pc \in {"check", "record"}
    BY <1>3, <2>1
  <2>3. /\ request'[r] = [request[r] EXCEPT !.lag = @ + 1] /\ request[r].lag < MaxLag
        /\ request[r] \in InHandType
    BY <1>3, <2>1, <2>2
  <2>4. /\ request'[r].pc = request[r].pc /\ request'[r].key = request[r].key
        /\ request'[r].lag = request[r].lag + 1 /\ request[r].lag \in 0 .. MaxLag
    BY <2>3 DEF InHandType
  <2> QED
    BY <2>1, <2>3, <2>4, Constants DEF Recording
<1>6. ListOK(failures[Watched]) /\ failed \in Seq(0 .. Memory)
  BY HistoryConstants DEF IInv, HInv
<1>7. Accounted(failures'[Watched], request', failed')
  BY <1>1, <1>5, <1>6, LaterAccounted DEF HInv
<1> QED
  BY <1>2, <1>4, <1>7 DEF HInv

(***************************************************************************)
(* The theorems.                                                           *)
(***************************************************************************)
\* After a failure is recorded, whatever is in the map is recent.
LEMMA RecordedRecent ==
    ASSUME IInv, NEW r \in Requests, RecordFailure(r), NEW k \in Keys, failures'[k] # <<>>
    PROVE  \E i \in DOMAIN failures'[k] :
              failures'[k][i] <= Window + EvictionInterval + 2 * MaxLag
<1> DEFINE lag == request[r].lag
<1>1. lag \in Nat /\ lag <= MaxLag /\ sinceEviction \in Nat
  BY Constants DEF IInv, RequestOK, RecordFailure, InHandType
<1>2. sinceEviction' = IF sinceEviction - lag < EvictionInterval THEN sinceEviction ELSE lag
  BY DEF RecordFailure
<1>3. Recent(failures'[k], sinceEviction') /\ failures'[k] \in Seq(Ages)
  BY RecordFailureMoves DEF Moves
<1> HIDE DEF lag
<1>4. CASE sinceEviction' < EvictionInterval + MaxLag
  <2>1. PICK i \in DOMAIN failures'[k] : failures'[k][i] <= Window + MaxLag + sinceEviction'
    BY <1>3, <1>4 DEF Recent
  <2>2. failures'[k][i] \in Nat
    BY <1>3, <2>1, AgeType
  <2>3. sinceEviction' \in Nat
    BY <1>1, <1>2
  <2>4. failures'[k][i] <= Window + EvictionInterval + 2 * MaxLag
    BY <1>4, <2>1, <2>2, <2>3, Constants
  <2> QED
    BY <2>4
<1>5. CASE ~(sinceEviction' < EvictionInterval + MaxLag)
  <2>1. sinceEviction' = lag /\ EvictionInterval = 0 /\ lag = MaxLag
    BY <1>1, <1>2, <1>5, Constants
  <2> QED
    BY <2>1, LimiterAssumption
<1> QED
  BY <1>4, <1>5

\* An empty map promises nothing to nobody.
LEMMA InitIInv == Init => IInv
<1> SUFFICES ASSUME Init PROVE IInv
  OBVIOUS
<1>1. /\ failures = [k \in Keys |-> <<>>] /\ sinceEviction = EvictionInterval + MaxLag
      /\ request = [r \in Requests |-> Idle]
  BY DEF Init
<1>2. ListOK(<<>>) /\ <<>> \in Seq(Ages)
  BY Constants DEF ListOK
<1>3. \A k \in Keys : ListOK(failures[k]) /\ Recent(failures[k], sinceEviction)
  BY <1>1, <1>2 DEF Recent
<1>4. \A r \in Requests : RequestOK(request[r], failures)
  BY <1>1, IdleOK
<1>5. failures \in [Keys -> Seq(Ages)] /\ request \in [Requests -> InHandType]
  BY <1>1, <1>2, IdleOK
<1>6. sinceEviction \in 0 .. EvictionInterval + MaxLag
  BY <1>1, Constants
<1> QED
  BY <1>3, <1>4, <1>5, <1>6 DEF IInv

\* Every step keeps the invariant.
LEMMA StepKeeps == IInv /\ [Next]_vars => IInv'
<1> SUFFICES ASSUME IInv, [Next]_vars PROVE IInv'
  OBVIOUS
<1>1. CASE UNCHANGED vars
  BY <1>1 DEF vars, IInv, RequestOK, Told, InHandType
<1>2. CASE Tick
  BY <1>2, TickKeeps
<1>3. ASSUME NEW r \in Requests,
             UnderTheMutex(r) \/ Arrive(r) \/ Answers(r) \/ Unauthorized(r) \/ GiveUp(r)
      PROVE  IInv'
  <2>1. CASE RetryAfter(r)
    BY <2>1, RetryAfterKeeps
  <2>2. CASE RecordFailure(r)
    BY <2>2, RecordFailureMoves, MovesKeeps
  <2>3. CASE Arrive(r) \/ Answers(r) \/ Unauthorized(r) \/ GiveUp(r)
    BY <2>3, QuietMoves
  <2> QED
    BY <1>3, <2>1, <2>2, <2>3 DEF UnderTheMutex
<1> QED
  BY <1>1, <1>2, <1>3 DEF Next

\* The invariant holds throughout.
LEMMA AlwaysIInv == Spec => []IInv
  BY InitIInv, StepKeeps, PTL DEF Spec

\* Before anything is recorded there is nothing to account for.
LEMMA InitHInv == Init => HInv
<1> SUFFICES ASSUME Init PROVE HInv
  OBVIOUS
<1>1. /\ failures = [k \in Keys |-> <<>>] /\ failed = <<>>
      /\ request = [r \in Requests |-> Idle]
  BY DEF Init
<1>2. Idle.pc = "idle" /\ Idle.lag = 0
  BY DEF Idle
<1>3. Recording(request) = {}
  BY <1>1, <1>2 DEF Recording
<1>4. failures[Watched] = <<>> /\ DOMAIN failures[Watched] = {} /\ DOMAIN failed = {}
  BY <1>1, HistoryConstants
<1>5. [n \in Nat |-> 0] \in [Nat -> Nat] /\ [r \in Requests |-> 0] \in [Requests -> Nat]
  OBVIOUS
<1>6. Covers([n \in Nat |-> 0], [r \in Requests |-> 0], failures[Watched], request, failed)
  BY <1>3, <1>4 DEF Covers
<1>7. Accounted(failures[Watched], request, failed)
  BY <1>4, <1>5, <1>6 DEF Accounted, Ordered
<1>8. failed \in Seq(0 .. Memory)
  BY <1>1
<1> QED
  BY <1>1, <1>2, <1>4, <1>7, <1>8 DEF HInv

\* Every step keeps the account.
LEMMA StepAccounted == IInv /\ HInv /\ [Next]_vars => HInv'
<1> SUFFICES ASSUME IInv, HInv, [Next]_vars PROVE HInv'
  OBVIOUS
<1>1. CASE UNCHANGED vars
  <2>1. failures' = failures /\ request' = request /\ failed' = failed
    BY <1>1 DEF vars
  <2>2. Accounted(failures'[Watched], request', failed')
    BY <2>1 DEF HInv
  <2> QED
    BY <2>1, <2>2 DEF HInv
<1>2. CASE Tick
  BY <1>2, TickAccounted
<1>3. ASSUME NEW r \in Requests,
             UnderTheMutex(r) \/ Arrive(r) \/ Answers(r) \/ Unauthorized(r) \/ GiveUp(r)
      PROVE  HInv'
  <2>1. CASE RetryAfter(r)
    BY <2>1, CheckedAccounted
  <2>2. CASE RecordFailure(r)
    BY <2>2, RecordedAccounted
  <2>3. CASE Arrive(r) \/ Answers(r) \/ Unauthorized(r) \/ GiveUp(r)
    BY <2>3, QuietAccounted
  <2> QED
    BY <1>3, <2>1, <2>2, <2>3 DEF UnderTheMutex
<1> QED
  BY <1>1, <1>2, <1>3 DEF Next

\* The account holds throughout.
LEMMA AlwaysHInv == Spec => []HInv
  BY InitHInv, StepAccounted, AlwaysIInv, PTL, InitIInv, StepKeeps DEF Spec

\* Lists of ages that are at most as long as the limit, clocks, requests and
\* the history stay what they are meant to be.
THEOREM LimiterTyped == Spec => []TypeOK
<1>1. IInv /\ HInv => TypeOK
  BY DEF IInv, HInv, TypeOK, ListOK, InHandType, Ages
<1> QED
  BY <1>1, AlwaysIInv, AlwaysHInv, PTL

\* A list that is full for a caller is a full window of the history: the first
\* entry is the oldest but for what requests waited, and each has an entry of
\* the history to itself.
LEMMA FullIsEarned ==
    ASSUME IInv, HInv, NEW lag \in 0 .. MaxLag,
           Accounted(pruned(failures[Watched], lag), request, failed),
           Limited(failures[Watched], lag)
    PROVE  Cardinality(InWindow(2 * MaxLag)) >= Limit
<1> DEFINE recent == pruned(failures[Watched], lag)
           places == 1 .. Limit
<1>1. lag \in Nat /\ lag <= MaxLag /\ failures[Watched] \in Seq(Ages) /\ MaxLag \in Nat
  BY Constants, HistoryConstants DEF IInv, ListOK
<1>2. /\ recent \in Seq(Ages) /\ Len(recent) >= Limit
      /\ Len(recent) > 0 => recent[1] - lag <= Window
  BY <1>1, PrunedFacts DEF Limited
<1>3. PICK g \in [Nat -> Nat], h \in [Requests -> Nat] : Covers(g, h, recent, request, failed)
  BY DEF Accounted
<1>4. Ordered(recent)
  BY DEF Accounted
<1> HIDE DEF recent
<1>5. /\ Len(recent) \in Nat /\ DOMAIN recent = 1 .. Len(recent)
      /\ \A i \in 1 .. Len(recent) : recent[i] \in Ages
  BY <1>2
<1>6. \A i \in places : i \in DOMAIN recent /\ i \in Nat /\ recent[i] \in Nat
  <2> DEFINE n == Len(recent)
  <2>1. places \subseteq 1 .. n /\ places \subseteq Nat
    <3>1. n \in Nat /\ n >= Limit /\ Limit \in Nat
      BY <1>2, <1>5, Constants
    <3> HIDE DEF n
    <3> QED
      BY <3>1
  <2> HIDE DEF places
  <2> QED
    BY <1>5, <2>1, AgeType
<1>7. \A i \in places : recent[i] <= Horizon
  <2>1. 1 \in places /\ recent[1] <= Window + lag
    <3>1. 1 \in places
      BY Constants
    <3>2. Len(recent) > 0
      BY <1>2, <1>5, Constants
    <3>3. recent[1] - lag <= Window /\ recent[1] \in Nat
      BY <1>2, <1>6, <3>1, <3>2
    <3> QED
      BY <1>1, <3>1, <3>3, Constants
  <2>2. \A i \in places : i # 1 => recent[i] <= recent[1] + MaxLag
    BY <1>4, <1>6, <2>1, Constants DEF Ordered
  <2>3. \A i \in places : recent[i] <= recent[1] + MaxLag
    BY <1>1, <1>6, <2>1, <2>2
  <2> QED
    BY <1>1, <1>6, <2>1, <2>3, Constants DEF Horizon
<1> DEFINE earned == [i \in places |-> g[i]]
<1>8. \A i \in places : g[i] \in DOMAIN failed /\ failed[g[i]] = recent[i]
  BY <1>3, <1>6, <1>7 DEF Covers
<1>9. \A i, j \in places : g[i] = g[j] => i = j
  <2>1. \A i, j \in DOMAIN recent :
           recent[i] <= Horizon /\ recent[j] <= Horizon /\ g[i] = g[j] => i = j
    BY <1>3 DEF Covers
  <2> QED
    BY <1>6, <1>7, <2>1
<1>10. \A i \in places : g[i] \in InWindow(2 * MaxLag)
  BY <1>7, <1>8 DEF InWindow, Horizon
<1> HIDE DEF places
<1>11. earned \in Injection(places, InWindow(2 * MaxLag))
  BY <1>9, <1>10 DEF Injection, IsInjective
<1>12. IsFiniteSet(InWindow(2 * MaxLag))
  <2>1. DOMAIN failed = 1 .. Len(failed) /\ Len(failed) \in Int
    BY DEF HInv
  <2>2. IsFiniteSet(DOMAIN failed)
    BY <2>1, FS_Interval
  <2>3. InWindow(2 * MaxLag) \in SUBSET DOMAIN failed
    BY DEF InWindow
  <2> QED
    BY <2>2, <2>3, FS_Subset
<1>13. Cardinality(places) <= Cardinality(InWindow(2 * MaxLag))
  BY <1>11, <1>12, FS_Injection
<1>14. Cardinality(places) = Limit
  BY FS_Interval, Constants DEF places
<1>15. Cardinality(InWindow(2 * MaxLag)) \in Nat
  BY <1>12, FS_CardinalityType
<1> QED
  BY <1>13, <1>14, <1>15, Constants

\* Only RetryAfter refuses, and only where the list is full.
LEMMA OnlyTheLimitRefuses ==
    ASSUME IInv, Next, NEW r \in Requests, request[r].pc = "check", request'[r].pc = "refused"
    PROVE  RetryAfter(r) /\ Limited(failures[request[r].key], request[r].lag)
<1>1. request[r] \in InHandType /\ request \in [Requests -> InHandType]
  BY DEF IInv
<1>2. CASE Tick
  <2>1. request'[r] = [request[r] EXCEPT !.lag = @ + 1]
    BY <1>2 DEF Tick
  <2>2. request'[r].pc = request[r].pc
    BY <1>1, <2>1 DEF InHandType
  <2> QED
    BY <2>2
<1>3. ASSUME NEW s \in Requests,
             RecordFailure(s) \/ Arrive(s) \/ Answers(s) \/ Unauthorized(s) \/ GiveUp(s)
      PROVE  s # r /\ request'[r] = request[r]
  <2>1. request[s].pc # "check" /\ \E q : Goes(s, q)
    BY <1>3 DEF RecordFailure, Arrive, Answers, Unauthorized, GiveUp
  <2> QED
    BY <1>1, <2>1 DEF Goes
<1>4. ASSUME NEW s \in Requests, RetryAfter(s) PROVE RetryAfter(r)
  <2>1. s # r => request'[r] = request[r]
    BY <1>1, <1>4 DEF RetryAfter, Goes
  <2> QED
    BY <1>4, <2>1
<1>5. RetryAfter(r)
  BY <1>2, <1>3, <1>4 DEF Next, UnderTheMutex
<1>6. Limited(failures[request[r].key], request[r].lag)
  <2> DEFINE q      == request[r]
             recent == pruned(failures[q.key], q.lag)
             passed == [q EXCEPT !.pc = "handling", !.lag = 0]
  <2>1. ~(Len(recent) >= Limit) => Goes(r, passed)
    BY <1>5 DEF RetryAfter
  <2>2. passed.pc = "handling"
    BY <1>1 DEF InHandType
  <2> HIDE DEF passed, recent
  <2>3. Len(recent) >= Limit
    BY <1>1, <2>1, <2>2 DEF Goes
  <2> QED
    BY <2>3 DEF recent, Limited
<1> QED
  BY <1>5, <1>6

\* A client that waits as long as Retry-After said is let in by the next tick,
\* whatever the other requests of its address do (RetryAfter, RecordFailure).
THEOREM RefusalsEndAsTold == Spec => []RefusalEndsAsTold
<1>1. IInv => RefusalEndsAsTold
  BY DEF IInv, RequestOK, Told, RefusalEndsAsTold
<1> QED
  BY <1>1, AlwaysIInv, PTL

\* After a failure is recorded every address in the map has failed within the
\* last window and eviction interval (evict).
THEOREM SilentKeysGoAlways == Spec => SilentKeysGo
<1> DEFINE gone(k) == failures'[k] # <<>> =>
              \E i \in DOMAIN failures'[k] :
                  failures'[k][i] <= Window + EvictionInterval + 2 * MaxLag
           step == \A r \in Requests : request[r].pc = "record" /\ request'[r].pc = "idle" =>
                      \A k \in Keys : gone(k)
<1>1. ASSUME IInv, Next, NEW r \in Requests, request[r].pc = "record", request'[r].pc = "idle"
      PROVE  RecordFailure(r)
  <2>1. request[r] \in InHandType /\ request \in [Requests -> InHandType]
    BY <1>1 DEF IInv
  <2>2. CASE Tick
    <3>1. request'[r] = [request[r] EXCEPT !.lag = @ + 1]
      BY <1>1, <2>2 DEF Tick
    <3>2. request'[r].pc = request[r].pc
      BY <2>1, <3>1 DEF InHandType
    <3> QED
      BY <1>1, <3>2
  <2>3. ASSUME NEW s \in Requests, RetryAfter(s) \/ Arrive(s) \/ Answers(s) \/ Unauthorized(s)
                                   \/ GiveUp(s)
        PROVE  s # r /\ request'[r] = request[r]
    <3>1. request[s].pc # "record" /\ \E q : Goes(s, q)
      BY <2>3 DEF RetryAfter, Arrive, Answers, Unauthorized, GiveUp
    <3> QED
      BY <1>1, <2>1, <3>1 DEF Goes
  <2>4. ASSUME NEW s \in Requests, RecordFailure(s) PROVE RecordFailure(r)
    <3>1. s # r => request'[r] = request[r]
      BY <2>1, <2>4 DEF RecordFailure, Goes
    <3> QED
      BY <1>1, <2>4, <3>1
  <2> QED
    BY <1>1, <2>2, <2>3, <2>4 DEF Next, UnderTheMutex
<1>2. ASSUME IInv, [Next]_vars PROVE step \/ UNCHANGED vars
  BY <1>1, <1>2, RecordedRecent
<1>3. IInv /\ [Next]_vars => [step]_vars
  BY <1>2
<1> QED
  BY <1>3, AlwaysIInv, PTL DEF Spec, SilentKeysGo
\* Nobody is refused for logins that succeeded or for old failures: at a
\* refusal the address has had Limit failures within the window, give or take
\* the time spent waiting for the mutex (LimitLoginFailures, pruned).
THEOREM RefusalsAreEarned == Spec => RefusalIsEarned
<1> DEFINE step ==
      \A r \in Requests :
          request[r].pc = "check" /\ request'[r].pc = "refused" /\ request[r].key = Watched =>
              Cardinality(InWindow(2 * MaxLag)) >= Limit
<1>1. ASSUME IInv, HInv, Next, NEW r \in Requests, request[r].pc = "check",
             request'[r].pc = "refused", request[r].key = Watched
      PROVE  Cardinality(InWindow(2 * MaxLag)) >= Limit
  <2>1. RetryAfter(r) /\ Limited(failures[Watched], request[r].lag)
    BY <1>1, OnlyTheLimitRefuses
  <2>2. Accounted(pruned(failures[Watched], request[r].lag), request, failed)
    BY <1>1, <2>1, CheckedAccounted
  <2>3. request[r].lag \in 0 .. MaxLag
    BY <1>1 DEF IInv, InHandType
  <2> QED
    BY <1>1, <2>1, <2>2, <2>3, FullIsEarned
<1>2. ASSUME IInv, HInv, [Next]_vars PROVE step \/ UNCHANGED vars
  BY <1>1, <1>2
<1>3. IInv /\ HInv /\ [Next]_vars => [step]_vars
  BY <1>2
<1> QED
  BY <1>3, AlwaysIInv, AlwaysHInv, PTL DEF Spec, RefusalIsEarned

(***************************************************************************)
(* The budget.                                                             *)
(*                                                                         *)
(* While the list of the watched address is full nobody is let in, and the *)
(* one who filled it is not at the handler.  Each place of the list stands *)
(* for N failures at most: of the one who took it and of those let in      *)
(* before.                                                                 *)
(***************************************************************************)
N == Cardinality(Requests)

Inside(pc, requests) == {r \in Requests : requests[r].pc = pc /\ requests[r].key = Watched}
UpTo(list, v)        == {i \in DOMAIN list : list[i] <= v}

\* With f failures, c of them on the list, h requests at the handler and p about
\* to be charged.
Within(full, f, c, h, p) ==
    /\ full => f + h < N * c + N
    /\ ~full => f < N * c + N + p

Full(list) == Len(list) = Limit

Budget(list, requests, hist) ==
    /\ Full(list) => Cardinality(Inside("handling", requests)) < N
    /\ \A v \in 0 .. Window - MaxLag :
          Within(Full(list), Cardinality(UpTo(hist, v)), Cardinality(UpTo(list, v + MaxLag)),
                 Cardinality(Inside("handling", requests)),
                 Cardinality(Inside("record", requests)))

\* There are requests, and finitely many.
LEMMA Many == IsFiniteSet(Requests) /\ N \in Nat /\ N >= 1
  BY LimiterAssumption, FS_EmptySet, FS_CardinalityType DEF N

\* A request is at the handler or about to be charged, not both.
LEMMA InsideCounts ==
    ASSUME NEW requests
    PROVE  /\ IsFiniteSet(Inside("handling", requests)) /\ IsFiniteSet(Inside("record", requests))
           /\ Cardinality(Inside("handling", requests)) \in Nat
           /\ Cardinality(Inside("record", requests)) \in Nat
           /\ Cardinality(Inside("handling", requests)) + Cardinality(Inside("record", requests)) <= N
<1> DEFINE H == Inside("handling", requests)
           P == Inside("record", requests)
<1>1. H \subseteq Requests /\ P \subseteq Requests /\ H \cap P = {}
  BY DEF Inside
<1> HIDE DEF H, P
<1>2. IsFiniteSet(H) /\ IsFiniteSet(P) /\ Cardinality(H) \in Nat /\ Cardinality(P) \in Nat
  BY <1>1, Many, FS_Subset, FS_CardinalityType
<1>3. Cardinality(H \cup P) = Cardinality(H) + Cardinality(P) - Cardinality({})
  BY <1>1, <1>2, FS_Union
<1>4. Cardinality(H \cup P) <= N
  <2>1. H \cup P \in SUBSET Requests
    BY <1>1
  <2> QED
    BY <2>1, Many, FS_Subset DEF N
<1> QED
  BY <1>2, <1>3, <1>4, FS_EmptySet DEF H, P

\* The entries of a list up to an age can be counted.
LEMMA UpToCounts ==
    ASSUME NEW S, NEW list \in Seq(S), NEW v
    PROVE  IsFiniteSet(UpTo(list, v)) /\ Cardinality(UpTo(list, v)) \in Nat
           /\ Cardinality(UpTo(list, v)) <= Len(list)
<1>1. Len(list) \in Nat /\ UpTo(list, v) \subseteq 1 .. Len(list)
  BY DEF UpTo
<1>2. IsFiniteSet(1 .. Len(list)) /\ Cardinality(1 .. Len(list)) = Len(list)
  <2>1. \A n \in Nat : IsFiniteSet(1 .. n) /\ Cardinality(1 .. n) = n
    BY FS_Interval
  <2> QED
    BY <1>1, <2>1
<1> QED
  BY <1>1, <1>2, FS_Subset, FS_CardinalityType

\* What is cut off is older than what is counted.
LEMMA UpToSince ==
    ASSUME NEW S, S \subseteq Nat, NEW list \in Seq(S), NEW max \in Nat, NEW v \in Int
    PROVE  /\ Cardinality(UpTo(Since(list, max), v)) <= Cardinality(UpTo(list, v))
           /\ v <= max => Cardinality(UpTo(list, v)) <= Cardinality(UpTo(Since(list, max), v))
<1> DEFINE rest == Since(list, max)
           A == UpTo(list, v)
           B == UpTo(rest, v)
<1>1. rest \in Seq(S) /\ \E c \in Nat : Suffix(rest, list, max, c)
  BY SinceFacts
<1> HIDE DEF rest
<1>2. PICK c \in Nat : Suffix(rest, list, max, c)
  BY <1>1
<1>3. /\ Len(list) \in Nat /\ DOMAIN list = 1 .. Len(list) /\ DOMAIN rest = 1 .. Len(rest)
      /\ Len(rest) = Len(list) - c /\ c <= Len(list)
      /\ \A i \in 1 .. Len(list) - c : rest[i] = list[c + i]
      /\ \A i \in 1 .. c : list[i] > max
      /\ \A i \in DOMAIN list : list[i] \in Nat
  <2>1. DOMAIN list = 1 .. Len(list) /\ Len(list) \in Nat /\ \A i \in DOMAIN list : list[i] \in S
    OBVIOUS
  <2>2. DOMAIN rest = 1 .. Len(rest)
    BY <1>1
  <2>3. \A i \in DOMAIN list : list[i] \in Nat
    BY <2>1
  <2>4. Len(rest) = Len(list) - c /\ c <= Len(list)
    BY <1>2 DEF Suffix
  <2>5. \A i \in 1 .. Len(list) - c : rest[i] = list[c + i]
    BY <1>2 DEF Suffix
  <2>6. \A i \in 1 .. c : list[i] > max
    BY <1>2 DEF Suffix
  <2> QED
    BY <2>1, <2>2, <2>3, <2>4, <2>5, <2>6
<1>4. IsFiniteSet(A) /\ IsFiniteSet(B)
  BY <1>1, UpToCounts
<1>5. \A i \in B : i \in Nat /\ c + i \in A
  BY <1>3 DEF UpTo
<1>6. v <= max => \A i \in A : i \in Nat /\ i - c \in B
  BY <1>3 DEF UpTo
<1> HIDE DEF A, B
<1>7. Cardinality(B) <= Cardinality(A)
  <2> DEFINE shift == [i \in B |-> c + i]
  <2>1. shift \in [B -> A]
    BY <1>5
  <2>2. \A i, j \in B : shift[i] = shift[j] => i = j
    <3>1. \A i, j \in Nat : c + i = c + j => i = j
      OBVIOUS
    <3> QED
      BY <1>5, <3>1
  <2>3. shift \in Injection(B, A)
    BY <2>1, <2>2 DEF Injection, IsInjective
  <2> QED
    BY <1>4, <2>3, FS_Injection
<1>8. ASSUME v <= max PROVE Cardinality(A) <= Cardinality(B)
  <2> DEFINE shift == [i \in A |-> i - c]
  <2>1. shift \in [A -> B]
    BY <1>6, <1>8
  <2>2. \A i, j \in A : shift[i] = shift[j] => i = j
    <3>1. \A i, j \in Nat : i - c = j - c => i = j
      OBVIOUS
    <3> QED
      BY <1>6, <1>8, <3>1
  <2>3. shift \in Injection(A, B)
    BY <2>1, <2>2 DEF Injection, IsInjective
  <2> QED
    BY <1>4, <2>3, FS_Injection
<1> QED
  BY <1>7, <1>8 DEF A, B, rest

\* An entry more.
LEMMA UpToAppend ==
    ASSUME NEW S, NEW list \in Seq(S), NEW age \in S, NEW v
    PROVE  Cardinality(UpTo(Append(list, age), v)) =
              Cardinality(UpTo(list, v)) + (IF age <= v THEN 1 ELSE 0)
<1> DEFINE more == Append(list, age)
           next == Len(list) + 1
<1>1. /\ DOMAIN more = DOMAIN list \cup {next} /\ next \notin DOMAIN list /\ more[next] = age
      /\ \A i \in DOMAIN list : more[i] = list[i]
  <2>1. Len(list) \in Nat /\ DOMAIN list = 1 .. Len(list) /\ DOMAIN more = 1 .. next
    OBVIOUS
  <2>2. more[next] = age /\ \A i \in 1 .. Len(list) : more[i] = list[i]
    OBVIOUS
  <2>3. 1 .. next = (1 .. Len(list)) \cup {next} /\ next \notin 1 .. Len(list)
    BY <2>1, OneMore
  <2> QED
    BY <2>1, <2>2, <2>3
<1> HIDE DEF more, next
<1>2. IsFiniteSet(UpTo(list, v)) /\ Cardinality(UpTo(list, v)) \in Nat
  BY UpToCounts
<1>3. CASE age <= v
  <2>1. UpTo(more, v) = UpTo(list, v) \cup {next} /\ next \notin UpTo(list, v)
    BY <1>1, <1>3 DEF UpTo
  <2> QED
    BY <1>2, <1>3, <2>1, FS_AddElement DEF more
<1>4. CASE ~(age <= v)
  <2>1. UpTo(more, v) = UpTo(list, v)
    BY <1>1, <1>4 DEF UpTo
  <2> QED
    BY <1>2, <1>4, <2>1 DEF more
<1> QED
  BY <1>3, <1>4

\* Times N.
LEMMA Times ==
    ASSUME NEW a \in Nat, NEW b \in Nat
    PROVE  /\ N * a \in Nat /\ N * (a + 1) = N * a + N
           /\ a <= b => N * a <= N * b
           /\ a < b => N * a + N <= N * b
<1>1. \A n, x, y \in Nat : /\ n * x \in Nat /\ n * (x + 1) = n * x + n
                           /\ x <= y => n * x <= n * y
  OBVIOUS
<1>2. a < b => a + 1 <= b /\ a + 1 \in Nat
  OBVIOUS
<1>3. /\ N * a \in Nat /\ N * (a + 1) = N * a + N /\ N * b \in Nat
      /\ a <= b => N * a <= N * b
      /\ a < b => N * (a + 1) <= N * b
  BY <1>1, <1>2, Many
<1> HIDE DEF N
<1> QED
  BY <1>3

\* Fewer failures, or more places, are within it.
LEMMA WithinMore ==
    ASSUME NEW full \in BOOLEAN, NEW f \in Nat, NEW c \in Nat, NEW h \in Nat, NEW p \in Nat,
           NEW f2 \in Nat, NEW c2 \in Nat, Within(full, f, c, h, p), f2 <= f, c <= c2
    PROVE  Within(full, f2, c2, h, p)
<1>1. N * c \in Nat /\ N * c2 \in Nat /\ N * c <= N * c2 /\ N \in Nat
  BY Times, Many
<1> DEFINE m == N * c
           m2 == N * c2
<1>2. /\ full => f + h < m + N
      /\ ~full => f < m + N + p
  BY DEF Within
<1> HIDE DEF m, m2, N
<1>3. /\ full => f2 + h < m2 + N
      /\ ~full => f2 < m2 + N + p
  BY <1>1, <1>2 DEF m, m2
<1> QED
  BY <1>3 DEF Within, m, m2

\* Where nobody is let in, or the list is no longer full, it stays.
LEMMA WithinOpens ==
    ASSUME NEW full, NEW full2, NEW f \in Nat, NEW c \in Nat,
           NEW h \in Nat, NEW p \in Nat, NEW h2 \in Nat, NEW p2 \in Nat,
           Within(full, f, c, h, p), full2 => full /\ h2 <= h, ~full => p <= p2
    PROVE  Within(full2, f, c, h2, p2)
<1>1. N * c \in Nat /\ N \in Nat
  BY Times, Many
<1> DEFINE m == N * c
<1>2. /\ full => f + h < m + N
      /\ ~full => f < m + N + p
  BY DEF Within
<1> HIDE DEF m, N
<1>3. full2 => f + h2 < m + N
  BY <1>1, <1>2 DEF m
<1>4. ~full2 => f < m + N + p2
  <2>1. CASE full
    BY <1>1, <1>2, <2>1 DEF m
  <2>2. CASE ~full
    BY <1>1, <1>2, <2>2 DEF m
  <2> QED
    BY <2>1, <2>2
<1> QED
  BY <1>3, <1>4 DEF Within, m

\* A failure is about to be charged that was not.
LEMMA WithinFails ==
    ASSUME NEW full \in BOOLEAN, NEW f \in Nat, NEW c \in Nat, NEW h \in Nat, NEW p \in Nat,
           Within(full, f, c, h + 1, p)
    PROVE  Within(full, f + 1, c, h, p + 1)
<1>1. N * c \in Nat /\ N \in Nat
  BY Times, Many
<1> DEFINE m == N * c
<1>2. /\ full => f + (h + 1) < m + N
      /\ ~full => f < m + N + p
  BY DEF Within
<1> HIDE DEF m, N
<1>3. /\ full => (f + 1) + h < m + N
      /\ ~full => f + 1 < m + N + (p + 1)
  BY <1>1, <1>2 DEF m
<1> QED
  BY <1>3 DEF Within, m

\* A place is taken, and may have been the last.
LEMMA WithinCharged ==
    ASSUME NEW f \in Nat, NEW c \in Nat, NEW h \in Nat, NEW p \in Nat,
           NEW full2 \in BOOLEAN, NEW c2 \in Nat,
           Within(FALSE, f, c, h, p + 1), c < c2, h + (p + 1) <= N
    PROVE  Within(full2, f, c2, h, p)
<1>1. N * c \in Nat /\ N * c2 \in Nat /\ N * c + N <= N * c2 /\ N \in Nat
  BY Times, Many
<1> DEFINE m == N * c
           m2 == N * c2
<1>2. f < m + N + (p + 1)
  BY DEF Within
<1> HIDE DEF m, m2, N
<1>3. f + h < m2 + N /\ f < m2 + N + p
  BY <1>1, <1>2 DEF m, m2
<1> QED
  BY <1>3 DEF Within, m, m2

\* Where nothing has failed, only who is at the handler matters.
LEMMA WithinNone ==
    ASSUME NEW full \in BOOLEAN, NEW c \in Nat, NEW h \in Nat, NEW p \in Nat, full => h < N
    PROVE  Within(full, 0, c, h, p)
<1>1. N * c \in Nat /\ N \in Nat /\ N >= 1
  BY Times, Many
<1> DEFINE m == N * c
<1> HIDE DEF m, N
<1>2. /\ full => 0 + h < m + N
      /\ ~full => 0 < m + N + p
  BY <1>1 DEF m
<1> QED
  BY <1>2 DEF Within, m

\* The ages that are compared with those on the list.
LEMMA BudgetAges ==
    ASSUME NEW v \in 0 .. Window - MaxLag
    PROVE  v \in Nat /\ v + MaxLag \in 0 .. Window /\ v + MaxLag \in Nat /\ MaxLag \in Nat
  BY Constants

\* The budget stays when no place is taken.
LEMMA BudgetLess ==
    ASSUME NEW list \in Seq(Ages), NEW list2 \in Seq(Ages), NEW old, NEW new,
           NEW S, NEW hist \in Seq(S), Budget(list, old, hist),
           Full(list2) => /\ Full(list)
                          /\ Cardinality(Inside("handling", new)) <= Cardinality(Inside("handling", old)),
           ~Full(list) => Cardinality(Inside("record", old)) <= Cardinality(Inside("record", new)),
           \A v \in 0 .. Window : Cardinality(UpTo(list, v)) <= Cardinality(UpTo(list2, v))
    PROVE  Budget(list2, new, hist)
<1> DEFINE h  == Cardinality(Inside("handling", old))
           h2 == Cardinality(Inside("handling", new))
           p  == Cardinality(Inside("record", old))
           p2 == Cardinality(Inside("record", new))
           full == Full(list)
           full2 == Full(list2)
<1>1. h \in Nat /\ h2 \in Nat /\ p \in Nat /\ p2 \in Nat /\ N \in Nat
  BY InsideCounts, Many
<1>2. full \in BOOLEAN /\ full2 \in BOOLEAN
  BY DEF Full
<1>3. Full(list2) => h2 < N
  <2>1. Full(list2) => h2 <= h /\ h < N
    BY DEF Budget
  <2> HIDE DEF h, h2, N
  <2> QED
    BY <1>1, <2>1
<1>4. ASSUME NEW v \in 0 .. Window - MaxLag
      PROVE  Within(Full(list2), Cardinality(UpTo(hist, v)), Cardinality(UpTo(list2, v + MaxLag)), h2, p2)
  <2> DEFINE f == Cardinality(UpTo(hist, v))
             c == Cardinality(UpTo(list, v + MaxLag))
             c2 == Cardinality(UpTo(list2, v + MaxLag))
  <2>1. f \in Nat /\ c \in Nat /\ c2 \in Nat
    BY UpToCounts
  <2>2. c <= c2
    BY BudgetAges
  <2>3. Within(full, f, c, h, p)
    BY DEF Budget
  <2> HIDE DEF f, c, c2, h, h2, p, p2, full, full2
  <2>4. f <= f
    BY <2>1
  <2>5. (full2 => full /\ h2 <= h) /\ (~full => p <= p2)
    BY DEF h, h2, p, p2, full, full2
  <2>6. Within(full, f, c2, h, p)
    BY <1>1, <1>2, <2>1, <2>2, <2>3, <2>4, WithinMore
  <2>7. Within(full2, f, c2, h2, p2)
    BY <1>1, <2>1, <2>5, <2>6, WithinOpens
  <2> QED
    BY <2>7 DEF f, c2, full2
<1> QED
  BY <1>3, <1>4 DEF Budget

\* A request that goes on is where it is now.
LEMMA GoesInside ==
    ASSUME IInv, NEW r \in Requests, NEW q, Goes(r, q), NEW pc
    PROVE  /\ q.pc = pc /\ q.key = Watched => Inside(pc, request') = Inside(pc, request) \cup {r}
           /\ ~(q.pc = pc /\ q.key = Watched) => Inside(pc, request') = Inside(pc, request) \ {r}
<1>1. \A s \in Requests : request'[s] = IF s = r THEN q ELSE request[s]
  BY DEF Goes, IInv
<1> QED
  BY <1>1 DEF Inside

\* What the invariants say of the watched address.
LEMMA WatchedFacts ==
    ASSUME IInv, HInv
    PROVE  /\ ListOK(failures[Watched]) /\ failures[Watched] \in Seq(Ages)
           /\ Len(failures[Watched]) \in Nat /\ Len(failures[Watched]) <= Limit
           /\ failed \in Seq(0 .. Memory)
<1>1. ListOK(failures[Watched]) /\ failed \in Seq(0 .. Memory)
  BY HistoryConstants DEF IInv, HInv
<1> QED
  BY <1>1 DEF ListOK

\* Pruning keeps what is counted.
LEMMA PrunedCounts ==
    ASSUME NEW list, ListOK(list), NEW lag \in Nat
    PROVE  /\ ListOK(pruned(list, lag)) /\ pruned(list, lag) \in Seq(Ages)
           /\ Len(pruned(list, lag)) <= Len(list)
           /\ \A v \in 0 .. Window : Cardinality(UpTo(list, v)) <= Cardinality(UpTo(pruned(list, lag), v))
<1>1. list \in Seq(Ages) /\ Ages \subseteq Nat /\ Window \in Nat /\ Limit \in Nat /\ Len(list) <= Limit
  BY Constants DEF ListOK
<1>2. pruned(list, lag) \in Seq(Ages) /\ Len(pruned(list, lag)) <= Len(list)
  BY <1>1, PrunedFacts
<1>3. ListOK(pruned(list, lag))
  <2>1. Len(pruned(list, lag)) \in Nat /\ Len(list) \in Nat
    BY <1>1, <1>2
  <2> QED
    BY <1>1, <1>2, <2>1 DEF ListOK
<1>4. ASSUME NEW v \in 0 .. Window
      PROVE  Cardinality(UpTo(list, v)) <= Cardinality(UpTo(pruned(list, lag), v))
  <2>1. v \in Int /\ v <= Window + lag /\ Window + lag \in Nat
    BY <1>1
  <2> QED
    BY <1>1, <2>1, UpToSince DEF pruned
<1> QED
  BY <1>2, <1>3, <1>4

\* Steps that leave the list alone.
LEMMA QuietBudget ==
    ASSUME IInv, HInv, Budget(failures[Watched], request, failed), NEW r \in Requests,
           Arrive(r) \/ Answers(r) \/ Unauthorized(r) \/ GiveUp(r)
    PROVE  Budget(failures'[Watched], request', failed')
<1> DEFINE list == failures[Watched]
           q    == request[r]
           H    == Inside("handling", request)
           P    == Inside("record", request)
<1>1. list \in Seq(Ages) /\ failed \in Seq(0 .. Memory) /\ failures'[Watched] = list
  BY WatchedFacts DEF Arrive, Answers, Unauthorized, GiveUp
<1>2. /\ IsFiniteSet(H) /\ IsFiniteSet(P) /\ Cardinality(H) \in Nat /\ Cardinality(P) \in Nat
      /\ q \in InHandType
  BY InsideCounts DEF IInv
<1>3. /\ r \in H <=> q.pc = "handling" /\ q.key = Watched
      /\ r \in P <=> q.pc = "record" /\ q.key = Watched
  BY DEF Inside
<1>4. \A v \in 0 .. Window : Cardinality(UpTo(list, v)) <= Cardinality(UpTo(list, v))
  BY <1>1, UpToCounts
<1>5. ASSUME NEW p, Goes(r, p), p.pc \notin {"handling", "record"} \/ p.key # Watched,
             q.pc # "record" \/ q.key # Watched, UNCHANGED failed
      PROVE  Budget(failures'[Watched], request', failed')
  <2>1. Inside("handling", request') = H \ {r} /\ Inside("record", request') = P
    BY <1>3, <1>5, GoesInside
  <2>2. Cardinality(Inside("handling", request')) <= Cardinality(H)
    <3> HIDE DEF H, P
    <3>1. H \ {r} \in SUBSET H
      OBVIOUS
    <3> QED
      BY <1>2, <2>1, <3>1, FS_Subset
  <2>3. Cardinality(P) <= Cardinality(Inside("record", request'))
    BY <1>2, <2>1
  <2> HIDE DEF list
  <2>4. Budget(list, request', failed)
    BY <1>1, <1>4, <2>2, <2>3, BudgetLess DEF list
  <2> QED
    BY <1>1, <1>5, <2>4
<1>6. CASE Answers(r) \/ GiveUp(r)
  <2>1. Goes(r, Idle) /\ Idle.pc = "idle" /\ q.pc # "record" /\ UNCHANGED failed
    BY <1>6 DEF Answers, GiveUp, Idle
  <2> QED
    BY <1>5, <2>1
<1>7. CASE Arrive(r)
  <2>1. PICK k \in ComesFrom[r] : Goes(r, [Idle EXCEPT !.pc = "check", !.key = k])
    BY <1>7 DEF Arrive
  <2>2. [Idle EXCEPT !.pc = "check", !.key = k].pc = "check"
    BY DEF Idle
  <2>3. q.pc # "record" /\ UNCHANGED failed
    BY <1>7 DEF Arrive
  <2> QED
    BY <1>5, <2>1, <2>2, <2>3
<1>8. CASE Unauthorized(r) /\ q.key # Watched
  <2> DEFINE p == [q EXCEPT !.pc = "record"]
  <2>1. Goes(r, p) /\ p.key # Watched /\ UNCHANGED failed
    BY <1>2, <1>8 DEF Unauthorized, InHandType
  <2> HIDE DEF p
  <2> QED
    BY <1>5, <1>8, <2>1
<1>9. CASE Unauthorized(r) /\ q.key = Watched
  <2> DEFINE p == [q EXCEPT !.pc = "record"]
             h == Cardinality(Inside("handling", request'))
             n == Cardinality(P)
  <2>1. /\ Goes(r, p) /\ p.key = Watched /\ p.pc = "record" /\ q.pc = "handling"
        /\ failed' = Append(failed, 0)
    BY <1>2, <1>9 DEF Unauthorized, InHandType
  <2> HIDE DEF p
  <2>2. /\ Inside("handling", request') = H \ {r} /\ r \in H
        /\ Inside("record", request') = P \cup {r} /\ r \notin P
    BY <1>3, <1>9, <2>1, GoesInside
  <2>3. /\ h \in Nat /\ n \in Nat /\ Cardinality(H) = h + 1
        /\ Cardinality(Inside("record", request')) = n + 1
    <3>1. h = Cardinality(H) - 1 /\ h \in Nat
      BY <1>2, <2>2, FS_RemoveElement, InsideCounts
    <3>2. Cardinality(Inside("record", request')) = n + 1
      BY <1>2, <2>2, FS_AddElement
    <3> HIDE DEF H, h
    <3> QED
      BY <1>2, <3>1, <3>2
  <2>4. Full(list) => h < N
    <3>1. Full(list) => Cardinality(H) < N
      BY DEF Budget
    <3> HIDE DEF h, H, list
    <3> QED
      BY <2>3, <3>1, Many
  <2>5. ASSUME NEW v \in 0 .. Window - MaxLag
        PROVE  Within(Full(list), Cardinality(UpTo(failed', v)), Cardinality(UpTo(list, v + MaxLag)),
                      h, n + 1)
    <3> DEFINE f == Cardinality(UpTo(failed, v))
               c == Cardinality(UpTo(list, v + MaxLag))
               full == Full(list)
    <3>1. f \in Nat /\ c \in Nat /\ full \in BOOLEAN
      BY <1>1, UpToCounts DEF Full
    <3>2. Cardinality(UpTo(failed', v)) = f + 1
      <4>1. 0 \in 0 .. Memory /\ 0 <= v
        BY BudgetAges, HistoryConstants
      <4> QED
        BY <1>1, <2>1, <4>1, UpToAppend
    <3>3. Within(full, f, c, h + 1, n)
      BY <2>3 DEF Budget
    <3> HIDE DEF f, c, full, h, n
    <3>4. Within(full, f + 1, c, h, n + 1)
      BY <2>3, <3>1, <3>3, WithinFails
    <3> QED
      BY <3>2, <3>4 DEF c, full
  <2> QED
    BY <1>1, <2>3, <2>4, <2>5 DEF Budget
<1> QED
  BY <1>6, <1>7, <1>8, <1>9

\* Where a request that is asked goes, and who is let in: only one whose clock
\* finds the list no longer full, and then it no longer is.
LEMMA AskedGoes ==
    ASSUME IInv, NEW r \in Requests, RetryAfter(r)
    PROVE  \E p : /\ Goes(r, p) /\ p.pc \in {"refused", "handling"} /\ p.key = request[r].key
                  /\ p.pc = "handling" =>
                        Len(pruned(failures[request[r].key], request[r].lag)) < Limit
<1> DEFINE q      == request[r]
           recent == pruned(failures[q.key], q.lag)
           still  == (q.key = Watched /\ Limited(recent, 0))
           told   == TicksPerSecond * Seconds(Window - (recent[1] - q.lag))
           refused == [q EXCEPT !.pc = "refused", !.lag = 0, !.still = still, !.left = told]
           passed  == [q EXCEPT !.pc = "handling", !.lag = 0]
<1>1. q \in InHandType
  BY DEF IInv
<1>2. Goes(r, IF Len(recent) >= Limit THEN refused ELSE passed)
  BY DEF RetryAfter
<1>3. Len(recent) \in Nat /\ Limit \in Nat
  <2>1. q.key \in Keys /\ q.lag \in Nat
    BY Constants DEF IInv, RequestOK, RetryAfter, InHandType
  <2>2. failures[q.key] \in Seq(Ages)
    BY <2>1 DEF IInv
  <2>3. recent \in Seq(Ages)
    BY <2>1, <2>2, PrunedFacts
  <2> HIDE DEF recent
  <2> QED
    BY <2>3, Constants
<1> HIDE DEF still, told, recent, q
<1>4. /\ refused.pc = "refused" /\ refused.key = q.key
      /\ passed.pc = "handling" /\ passed.key = q.key
  BY <1>1 DEF InHandType
<1> HIDE DEF refused, passed
<1>5. CASE Len(recent) >= Limit
  BY <1>2, <1>4, <1>5 DEF q
<1>6. CASE ~(Len(recent) >= Limit)
  <2>1. Goes(r, passed) /\ Len(recent) < Limit
    BY <1>2, <1>3, <1>6
  <2> QED
    BY <1>4, <2>1 DEF q, recent
<1> QED
  BY <1>5, <1>6

\* Being asked keeps the budget.
LEMMA AskedBudget ==
    ASSUME IInv, HInv, Budget(failures[Watched], request, failed), NEW r \in Requests,
           RetryAfter(r)
    PROVE  Budget(failures'[Watched], request', failed')
<1> DEFINE list == failures[Watched]
           list2 == failures'[Watched]
           q    == request[r]
           H    == Inside("handling", request)
           P    == Inside("record", request)
<1>1. /\ list \in Seq(Ages) /\ ListOK(list) /\ Len(list) \in Nat /\ Len(list) <= Limit
      /\ failed \in Seq(0 .. Memory) /\ UNCHANGED failed
  BY WatchedFacts DEF RetryAfter
<1>2. /\ q.key \in Keys /\ q.lag \in Nat /\ q.pc = "check" /\ failures \in [Keys -> Seq(Ages)]
      /\ failures' = [failures EXCEPT ![q.key] = pruned(failures[q.key], q.lag)]
  BY Constants DEF IInv, RequestOK, RetryAfter, InHandType
<1>3. list2 = IF q.key = Watched THEN pruned(list, q.lag) ELSE list
  BY <1>2, HistoryConstants
<1>4. PICK p : /\ Goes(r, p) /\ p.pc \in {"refused", "handling"} /\ p.key = q.key
               /\ p.pc = "handling" => Len(pruned(failures[q.key], q.lag)) < Limit
  BY AskedGoes
<1>5. r \notin H /\ r \notin P
  BY <1>2 DEF Inside
<1>6. Inside("record", request') = P
  <2>1. Goes(r, p) /\ p.pc # "record"
    BY <1>4
  <2>2. Inside("record", request') = Inside("record", request) \ {r}
    BY <2>1, GoesInside
  <2> QED
    BY <1>5, <2>2
<1>7. Inside("handling", request') = H \/ Len(list2) < Limit
  <2>1. CASE p.pc = "handling" /\ p.key = Watched
    BY <1>3, <1>4, <2>1
  <2>2. CASE ~(p.pc = "handling" /\ p.key = Watched)
    <3>1. Goes(r, p)
      BY <1>4
    <3>2. Inside("handling", request') = Inside("handling", request) \ {r}
      BY <2>2, <3>1, GoesInside
    <3> QED
      BY <1>5, <3>2
  <2> QED
    BY <2>1, <2>2
<1> HIDE DEF list
<1>8. /\ list2 \in Seq(Ages) /\ Len(list2) <= Len(list)
      /\ \A v \in 0 .. Window : Cardinality(UpTo(list, v)) <= Cardinality(UpTo(list2, v))
  <2>1. CASE q.key = Watched
    BY <1>1, <1>2, <1>3, <2>1, PrunedCounts
  <2>2. CASE q.key # Watched
    BY <1>1, <1>3, <2>2, UpToCounts
  <2> QED
    BY <2>1, <2>2
<1> HIDE DEF list2
<1>9. /\ Cardinality(H) <= Cardinality(H) /\ Cardinality(P) <= Cardinality(P)
      /\ Cardinality(H) \in Nat /\ Cardinality(P) \in Nat
  BY InsideCounts
<1> HIDE DEF H, P
<1>10. Full(list2) => Full(list) /\ Inside("handling", request') = H
  <2>1. Len(list2) \in Nat /\ Limit \in Nat
    BY <1>8, Constants
  <2> QED
    BY <1>1, <1>7, <1>8, <2>1 DEF Full
<1>11. Budget(list2, request', failed)
  BY <1>1, <1>6, <1>8, <1>9, <1>10, BudgetLess DEF list, H, P
<1> QED
  BY <1>1, <1>11 DEF list2

\* Being charged keeps the budget: a list that is full charges nobody, and one
\* that is not charges whoever comes.
LEMMA ChargedBudget ==
    ASSUME IInv, HInv, Budget(failures[Watched], request, failed), NEW r \in Requests,
           RecordFailure(r)
    PROVE  Budget(failures'[Watched], request', failed')
<1> DEFINE q     == request[r]
           lag   == q.lag
           list  == failures[Watched]
           list2 == failures'[Watched]
           swept == evict(lag)
           kept  == swept[Watched]
           rest  == pruned(kept, lag)
           H     == Inside("handling", request)
           P     == Inside("record", request)
<1>1. /\ q.pc = "record" /\ q.key \in Keys /\ lag \in 0 .. MaxLag /\ lag \in Nat /\ lag \in Ages
      /\ failures \in [Keys -> Seq(Ages)] /\ MaxLag \in Nat
  BY Constants DEF IInv, RequestOK, RecordFailure, InHandType, Ages
<1>2. /\ failures' = [swept EXCEPT ![q.key] = Charged(pruned(@, lag), lag)]
      /\ Goes(r, Idle) /\ UNCHANGED failed
  BY DEF RecordFailure
<1>3. /\ list \in Seq(Ages) /\ ListOK(list) /\ Len(list) \in Nat /\ Len(list) <= Limit
      /\ failed \in Seq(0 .. Memory) /\ Limit \in Nat
  BY WatchedFacts, Constants
<1>4. DOMAIN swept = Keys
  BY <1>1 DEF evict
<1>5. kept = list \/ kept = pruned(list, lag)
  BY HistoryConstants DEF evict
<1> HIDE DEF swept, lag
<1>6. list2 = IF q.key = Watched THEN Charged(rest, lag) ELSE kept
  BY <1>2, <1>4, HistoryConstants
<1> HIDE DEF kept, list, list2
<1>7. /\ ListOK(kept) /\ kept \in Seq(Ages) /\ Len(kept) \in Nat /\ Len(kept) <= Len(list)
      /\ \A v \in 0 .. Window : Cardinality(UpTo(list, v)) <= Cardinality(UpTo(kept, v))
  <2>1. CASE kept = list
    BY <1>3, <2>1, UpToCounts
  <2>2. CASE kept = pruned(list, lag)
    BY <1>1, <1>3, <2>2, PrunedCounts
  <2> QED
    BY <1>5, <2>1, <2>2
<1>8. /\ rest \in Seq(Ages) /\ Len(rest) \in Nat /\ Len(rest) <= Len(list)
      /\ \A v \in 0 .. Window : Cardinality(UpTo(list, v)) <= Cardinality(UpTo(rest, v))
  <2>1. /\ rest \in Seq(Ages) /\ Len(rest) <= Len(kept)
        /\ \A v \in 0 .. Window : Cardinality(UpTo(kept, v)) <= Cardinality(UpTo(rest, v))
    BY <1>1, <1>7, PrunedCounts
  <2> HIDE DEF rest
  <2>2. Len(rest) \in Nat
    BY <2>1
  <2>3. ASSUME NEW v \in 0 .. Window
        PROVE  Cardinality(UpTo(list, v)) <= Cardinality(UpTo(rest, v))
    <3>1. /\ Cardinality(UpTo(list, v)) <= Cardinality(UpTo(kept, v))
          /\ Cardinality(UpTo(kept, v)) <= Cardinality(UpTo(rest, v))
      BY <1>7, <2>1
    <3>2. /\ Cardinality(UpTo(list, v)) \in Nat /\ Cardinality(UpTo(kept, v)) \in Nat
          /\ Cardinality(UpTo(rest, v)) \in Nat
      BY <1>3, <1>7, <2>1, UpToCounts
    <3> QED
      BY <3>1, <3>2
  <2> QED
    BY <1>3, <1>7, <2>1, <2>2, <2>3
<1> HIDE DEF rest
<1>9. Inside("handling", request') = H
  <2>1. Idle.pc = "idle" /\ r \notin H
    BY <1>1 DEF Idle, Inside
  <2> QED
    BY <1>2, <2>1, GoesInside
<1>10. Inside("record", request') = P \ {r} /\ (r \in P <=> q.key = Watched)
  <2>1. Idle.pc = "idle" /\ (r \in P <=> q.key = Watched)
    BY <1>1 DEF Idle, Inside
  <2> QED
    BY <1>2, <2>1, GoesInside
<1>11. /\ IsFiniteSet(H) /\ IsFiniteSet(P) /\ Cardinality(H) \in Nat /\ Cardinality(P) \in Nat
       /\ Cardinality(H) + Cardinality(P) <= N /\ N \in Nat
  BY InsideCounts, Many
<1> HIDE DEF H, P
<1>12. /\ Cardinality(H) <= Cardinality(H) /\ Cardinality(P) <= Cardinality(P)
  BY <1>11
<1>13. CASE q.key # Watched
  <2>1. list2 = kept /\ Inside("record", request') = P
    BY <1>6, <1>10, <1>13
  <2>2. Full(list2) => Full(list)
    BY <1>3, <1>7, <2>1 DEF Full
  <2>3. Budget(kept, request', failed)
    BY <1>3, <1>7, <1>9, <1>12, <2>1, <2>2, BudgetLess DEF list, H, P
  <2> QED
    BY <1>2, <2>1, <2>3 DEF list2
<1>14. CASE q.key = Watched /\ Full(list)
  <2>1. list2 = Charged(rest, lag)
    BY <1>6, <1>14
  <2>2. list2 \in Seq(Ages)
    BY <1>1, <1>8, <2>1 DEF Charged
  <2>3. ASSUME NEW v \in 0 .. Window
        PROVE  Cardinality(UpTo(list, v)) <= Cardinality(UpTo(list2, v))
    <3>1. /\ Cardinality(UpTo(list, v)) <= Cardinality(UpTo(rest, v))
          /\ Cardinality(UpTo(list, v)) \in Nat /\ Cardinality(UpTo(rest, v)) \in Nat
      BY <1>3, <1>8, UpToCounts
    <3>2. \/ list2 = rest
          \/ list2 = Append(rest, lag)
      BY <2>1 DEF Charged
    <3>3. Cardinality(UpTo(Append(rest, lag), v)) =
             Cardinality(UpTo(rest, v)) + (IF lag <= v THEN 1 ELSE 0)
      BY <1>1, <1>8, UpToAppend
    <3>4. CASE list2 = rest
      BY <3>1, <3>4
    <3>5. CASE list2 = Append(rest, lag)
      <4> DEFINE a == Cardinality(UpTo(list, v))
                 b == Cardinality(UpTo(rest, v))
                 c == Cardinality(UpTo(list2, v))
      <4>1. a \in Nat /\ b \in Nat /\ a <= b /\ c = b + (IF lag <= v THEN 1 ELSE 0)
        BY <3>1, <3>3, <3>5
      <4> HIDE DEF a, b, c
      <4>2. a <= c
        BY <4>1
      <4> QED
        BY <4>2 DEF a, c
    <3> QED
      BY <3>2, <3>4, <3>5
  <2>4. Budget(list2, request', failed)
    BY <1>3, <1>9, <1>12, <1>14, <2>2, <2>3, BudgetLess DEF list, H, P
  <2> QED
    BY <1>2, <2>4 DEF list2
<1>15. CASE q.key = Watched /\ ~Full(list)
  <2> DEFINE h == Cardinality(H)
             p == Cardinality(P \ {r})
  <2>1. Len(rest) < Limit
    BY <1>3, <1>8, <1>15 DEF Full
  <2>2. list2 = Append(rest, lag)
    BY <1>6, <1>15, <2>1 DEF Charged
  <2>3. h \in Nat /\ p \in Nat /\ Cardinality(P) = p + 1 /\ h + (p + 1) <= N
    <3>1. p = Cardinality(P) - 1 /\ p \in Nat
      BY <1>10, <1>11, <1>15, FS_RemoveElement, FS_CardinalityType
    <3> HIDE DEF p
    <3> QED
      BY <1>11, <3>1
  <2>4. ASSUME NEW v \in 0 .. Window - MaxLag
        PROVE  Within(Full(list2), Cardinality(UpTo(failed, v)),
                      Cardinality(UpTo(list2, v + MaxLag)), h, p)
    <3> DEFINE w  == v + MaxLag
               f  == Cardinality(UpTo(failed, v))
               c  == Cardinality(UpTo(list, w))
               c2 == Cardinality(UpTo(list2, w))
               full2 == Full(list2)
    <3>1. w \in 0 .. Window /\ v \in Nat /\ lag <= w
      <4>1. w \in 0 .. Window /\ v \in Nat
        BY BudgetAges
      <4> QED
        BY <1>1, <4>1
    <3> HIDE DEF w
    <3>2. c2 = Cardinality(UpTo(rest, w)) + 1
      BY <1>1, <1>8, <2>2, <3>1, UpToAppend
    <3>3. f \in Nat /\ c \in Nat /\ Cardinality(UpTo(rest, w)) \in Nat /\ full2 \in BOOLEAN
      BY <1>3, <1>8, UpToCounts DEF Full
    <3>4. c2 \in Nat /\ c < c2
      <4>1. c <= Cardinality(UpTo(rest, w))
        BY <1>8, <3>1
      <4> HIDE DEF c, c2
      <4> QED
        BY <3>2, <3>3, <4>1
    <3>5. Within(FALSE, f, c, h, p + 1)
      <4>1. Within(Full(list), f, c, Cardinality(H), Cardinality(P))
        BY DEF Budget, list, H, P, w
      <4>2. Full(list) = FALSE
        BY <1>15 DEF Full
      <4> QED
        BY <2>3, <4>1, <4>2
    <3> HIDE DEF f, c, c2, full2, h, p
    <3>6. Within(full2, f, c2, h, p)
      BY <2>3, <3>3, <3>4, <3>5, WithinCharged
    <3> QED
      BY <3>6 DEF full2, f, c2, w
  <2>5. h < N
    <3> HIDE DEF h, p
    <3> QED
      BY <1>11, <2>3
  <2>6. Budget(list2, request', failed)
    BY <1>9, <1>10, <2>4, <2>5 DEF Budget
  <2> QED
    BY <1>2, <2>6 DEF list2
<1> QED
  BY <1>13, <1>14, <1>15

\* Time moves nobody.
LEMMA TickInside ==
    ASSUME IInv, Tick, NEW pc \in {"handling", "record"}
    PROVE  Inside(pc, request') = Inside(pc, request)
<1>1. ASSUME NEW r \in Requests
      PROVE  request'[r].pc = request[r].pc /\ request'[r].key = request[r].key
  <2> DEFINE q == request[r]
  <2>1. q \in InHandType
    BY DEF IInv
  <2>2. CASE q.pc \in {"check", "record"}
    <3>1. request'[r] = [q EXCEPT !.lag = @ + 1]
      BY <2>2 DEF Tick
    <3> QED
      BY <2>1, <3>1 DEF InHandType
  <2>3. CASE q.pc = "refused"
    <3>1. request'[r] = Waited(q, Limited(failures'[q.key], 0))
      BY <2>3 DEF Tick
    <3>2. \/ request'[r] = [q EXCEPT !.left = IF @ >= 0 THEN @ - 1 ELSE @]
          \/ request'[r] = [q EXCEPT !.left = 0, !.still = FALSE]
      BY <3>1 DEF Waited
    <3> QED
      BY <2>1, <3>2 DEF InHandType
  <2>4. CASE q.pc \notin {"check", "record", "refused"}
    BY <2>4 DEF Tick
  <2> QED
    BY <2>2, <2>3, <2>4
<1> QED
  BY <1>1 DEF Inside

\* Failures of an age are, a tick later, of the next.
LEMMA AgedCounts ==
    ASSUME NEW hist \in Seq(0 .. Memory), NEW v \in Nat
    PROVE  LET later == Since(Aged(hist), Memory)
           IN  /\ Cardinality(UpTo(later, 0)) = 0
               /\ Cardinality(UpTo(later, v + 1)) <= Cardinality(UpTo(hist, v))
<1> DEFINE older == Aged(hist)
           later == Since(older, Memory)
           numbers == 0 .. Memory
<1>1. /\ Len(hist) \in Nat /\ DOMAIN hist = 1 .. Len(hist) /\ Memory \in Nat
      /\ \A i \in 1 .. Len(hist) : hist[i] \in Nat
  <2>1. hist \in Seq(numbers) /\ numbers \subseteq Nat /\ Memory \in Nat
    BY HistoryConstants
  <2> HIDE DEF numbers
  <2> QED
    BY <2>1
<1>2. DOMAIN older = 1 .. Len(hist) /\ \A i \in 1 .. Len(hist) : older[i] = hist[i] + 1
  BY <1>1 DEF Aged
<1>3. older \in Seq(Nat)
  <2>1. older \in [1 .. Len(hist) -> Nat]
    BY <1>1, <1>2 DEF Aged
  <2> HIDE DEF older
  <2> QED
    BY <1>1, <2>1
<1> HIDE DEF older
<1>4. UpTo(older, v + 1) = UpTo(hist, v) /\ UpTo(older, 0) = {}
  BY <1>1, <1>2 DEF UpTo
<1>5. later \in Seq(Nat)
  BY <1>1, <1>3, SinceFacts
<1>6. /\ Cardinality(UpTo(later, v + 1)) <= Cardinality(UpTo(older, v + 1))
      /\ Cardinality(UpTo(later, 0)) <= Cardinality(UpTo(older, 0))
  <2>1. v + 1 \in Int /\ 0 \in Int
    OBVIOUS
  <2> QED
    BY <1>1, <1>3, <2>1, UpToSince
<1>7. Cardinality(UpTo(later, 0)) \in Nat
  BY <1>5, UpToCounts
<1> HIDE DEF later
<1>8. Cardinality(UpTo(later, 0)) = 0
  <2>1. Cardinality(UpTo(older, 0)) = 0
    BY <1>4, FS_EmptySet
  <2> QED
    BY <1>6, <1>7, <2>1
<1> QED
  BY <1>4, <1>6, <1>8 DEF later, older

\* And so are those on the list.
LEMMA LaterCounts ==
    ASSUME NEW list, ListOK(list), NEW v \in Nat
    PROVE  /\ Later(list) \in Seq(Ages) /\ Len(Later(list)) = Len(list)
           /\ Cardinality(UpTo(list, v)) <= Cardinality(UpTo(Later(list), v + 1))
<1> DEFINE older == Later(list)
<1>1. list \in Seq(Ages) /\ Len(list) \in Nat /\ DOMAIN list = 1 .. Len(list)
  BY DEF ListOK
<1>2. \A i \in DOMAIN list : list[i] \in Nat
  <2>1. \A i \in DOMAIN list : list[i] \in Ages
    BY <1>1
  <2> QED
    BY <2>1, AgeType
<1>3. /\ older \in Seq(Ages) /\ DOMAIN older = DOMAIN list
      /\ \A i \in DOMAIN list : older[i] \in Nat /\ older[i] <= list[i] + 1
  BY LaterFacts DEF ListOK
<1> HIDE DEF older
<1>4. Len(older) = Len(list)
  BY <1>1, <1>3
<1>5. UpTo(list, v) \subseteq UpTo(older, v + 1)
  BY <1>2, <1>3 DEF UpTo
<1>6. IsFiniteSet(UpTo(older, v + 1))
  BY <1>3, UpToCounts
<1>7. Cardinality(UpTo(list, v)) <= Cardinality(UpTo(older, v + 1))
  BY <1>5, <1>6, FS_Subset
<1> QED
  BY <1>3, <1>4, <1>7 DEF older

\* Time keeps the budget.
LEMMA TickBudget ==
    ASSUME IInv, HInv, Budget(failures[Watched], request, failed), Tick
    PROVE  Budget(failures'[Watched], request', failed')
<1> DEFINE list  == failures[Watched]
           list2 == failures'[Watched]
           h     == Cardinality(Inside("handling", request))
           p     == Cardinality(Inside("record", request))
           full  == Full(list)
<1>1. /\ list2 = Later(list) /\ failed' = Since(Aged(failed), Memory)
      /\ ListOK(list) /\ list \in Seq(Ages) /\ failed \in Seq(0 .. Memory)
  BY WatchedFacts, HistoryConstants DEF Tick, Aged
<1>2. /\ Inside("handling", request') = Inside("handling", request)
      /\ Inside("record", request') = Inside("record", request)
  BY TickInside
<1>3. h \in Nat /\ p \in Nat /\ full \in BOOLEAN
  BY InsideCounts DEF Full
<1>4. list2 \in Seq(Ages) /\ Full(list2) = full
  BY <1>1, LaterCounts DEF Full
<1>5. full => h < N
  BY DEF Budget
<1>6. ASSUME NEW v \in 0 .. Window - MaxLag
      PROVE  Within(full, Cardinality(UpTo(failed', v)), Cardinality(UpTo(list2, v + MaxLag)), h, p)
  <2> DEFINE f2 == Cardinality(UpTo(failed', v))
             c2 == Cardinality(UpTo(list2, v + MaxLag))
  <2>1. c2 \in Nat
    BY <1>4, UpToCounts
  <2>2. CASE v = 0
    <3>1. f2 = 0
      BY <1>1, <2>2, AgedCounts
    <3> HIDE DEF full, h, p, c2
    <3>2. Within(full, 0, c2, h, p)
      BY <1>3, <1>5, <2>1, WithinNone
    <3> QED
      BY <3>1, <3>2 DEF c2
  <2>3. CASE v > 0
    <3> DEFINE w == v - 1
               x == w + MaxLag
               f == Cardinality(UpTo(failed, w))
               c == Cardinality(UpTo(list, x))
    <3>1. w \in 0 .. Window - MaxLag /\ w \in Nat /\ v = w + 1 /\ x \in Nat /\ v + MaxLag = x + 1
      BY <2>3, Constants
    <3> HIDE DEF w, x
    <3>2. f2 <= f
      BY <1>1, <3>1, AgedCounts
    <3>3. c <= c2
      BY <1>1, <3>1, LaterCounts
    <3>4. f \in Nat /\ c \in Nat
      BY <1>1, UpToCounts
    <3>5. f2 \in Nat
      <4>1. failed' \in Seq(0 .. Memory)
        BY TickAccounted DEF HInv
      <4> QED
        BY <4>1, UpToCounts
    <3>6. Within(full, f, c, h, p)
      BY <3>1 DEF Budget, x
    <3> HIDE DEF f, c, f2, c2, full, h, p
    <3>7. Within(full, f2, c2, h, p)
      BY <1>3, <2>1, <3>2, <3>3, <3>4, <3>5, <3>6, WithinMore
    <3> QED
      BY <3>7 DEF f2, c2
  <2>4. v = 0 \/ v > 0
    BY BudgetAges
  <2> QED
    BY <2>2, <2>3, <2>4
<1> QED
  BY <1>2, <1>4, <1>5, <1>6 DEF Budget

\* Nobody has failed, and the list is not full.
LEMMA InitBudget == Init => Budget(failures[Watched], request, failed)
<1> SUFFICES ASSUME Init PROVE Budget(failures[Watched], request, failed)
  OBVIOUS
<1> DEFINE list == failures[Watched]
           h    == Cardinality(Inside("handling", request))
           p    == Cardinality(Inside("record", request))
<1>1. list = <<>> /\ failed = <<>>
  BY HistoryConstants DEF Init
<1>2. ~Full(list)
  BY <1>1, Constants DEF Full
<1>3. ASSUME NEW v \in 0 .. Window - MaxLag
      PROVE  Within(Full(list), Cardinality(UpTo(failed, v)), Cardinality(UpTo(list, v + MaxLag)), h, p)
  <2> DEFINE c == Cardinality(UpTo(list, v + MaxLag))
             full == Full(list)
  <2>1. UpTo(failed, v) = {} /\ UpTo(list, v + MaxLag) = {}
    BY <1>1 DEF UpTo
  <2>2. Cardinality(UpTo(failed, v)) = 0 /\ c \in Nat /\ h \in Nat /\ p \in Nat
        /\ full \in BOOLEAN /\ ~full
    <3>1. Cardinality(UpTo(failed, v)) = 0 /\ c = 0
      BY <2>1, FS_EmptySet
    <3>2. h \in Nat /\ p \in Nat
      BY InsideCounts
    <3>3. full \in BOOLEAN /\ ~full
      BY <1>2 DEF Full
    <3> HIDE DEF c, full, h, p
    <3> QED
      BY <3>1, <3>2, <3>3
  <2> HIDE DEF c, full, h, p
  <2>3. Within(full, 0, c, h, p)
    BY <2>2, WithinNone
  <2> QED
    BY <2>2, <2>3 DEF c, full
<1> QED
  BY <1>2, <1>3 DEF Budget

\* Every step keeps the budget.
LEMMA StepBudget ==
    /\ IInv /\ HInv /\ [Next]_vars /\ Budget(failures[Watched], request, failed)
    => Budget(failures[Watched], request, failed)'
<1> SUFFICES ASSUME IInv, HInv, [Next]_vars, Budget(failures[Watched], request, failed)
             PROVE  Budget(failures'[Watched], request', failed')
  OBVIOUS
<1>1. CASE UNCHANGED vars
  BY <1>1 DEF vars
<1>2. CASE Tick
  BY <1>2, TickBudget
<1>3. ASSUME NEW r \in Requests,
             UnderTheMutex(r) \/ Arrive(r) \/ Answers(r) \/ Unauthorized(r) \/ GiveUp(r)
      PROVE  Budget(failures'[Watched], request', failed')
  <2>1. CASE RetryAfter(r)
    BY <2>1, AskedBudget
  <2>2. CASE RecordFailure(r)
    BY <2>2, ChargedBudget
  <2>3. CASE Arrive(r) \/ Answers(r) \/ Unauthorized(r) \/ GiveUp(r)
    BY <2>3, QuietBudget
  <2> QED
    BY <1>3, <2>1, <2>2, <2>3 DEF UnderTheMutex
<1> QED
  BY <1>1, <1>2, <1>3 DEF Next

\* Within the budget, the overrun is bounded: Limit places stand for N failures
\* each, and N - 1 are left.
LEMMA BudgetBounds ==
    ASSUME IInv, HInv, Budget(failures[Watched], request, failed)
    PROVE  OverrunIsBounded
<1> DEFINE list == failures[Watched]
           v    == Window - MaxLag
           f    == Cardinality(UpTo(failed, v))
           c    == Cardinality(UpTo(list, Window))
           h    == Cardinality(Inside("handling", request))
           p    == Cardinality(Inside("record", request))
<1>1. /\ list \in Seq(Ages) /\ Len(list) \in Nat /\ Len(list) <= Limit
      /\ failed \in Seq(0 .. Memory) /\ Limit \in Nat /\ Window \in Nat /\ MaxLag \in Nat
  BY WatchedFacts, Constants
<1>2. /\ f \in Nat /\ c \in Nat /\ c <= Len(list) /\ h \in Nat /\ p \in Nat /\ h + p <= N
      /\ N \in Nat /\ N >= 1
  BY <1>1, UpToCounts, InsideCounts, Many
<1>3. InWindow(-MaxLag) = UpTo(failed, v)
  BY <1>1 DEF InWindow, UpTo
<1>4. (Limit + 1) * N = N * Limit + N
  <2>1. \A n, m \in Nat : (m + 1) * n = n * m + n
    OBVIOUS
  <2> HIDE DEF N
  <2> QED
    BY <1>1, <1>2, <2>1
<1>5. f < N * Limit + N
  <2>1. CASE v >= 0
    <3>1. v \in 0 .. Window - MaxLag /\ v + MaxLag = Window
      BY <1>1, <2>1
    <3> HIDE DEF v
    <3>2. Within(Full(list), f, c, h, p)
      BY <3>1 DEF Budget
    <3> DEFINE m == N * c
               most == N * Limit
    <3>3. /\ Full(list) => f + h < m + N
          /\ ~Full(list) => f < m + N + p
      BY <3>2 DEF Within
    <3>4. /\ m \in Nat /\ most \in Nat /\ m <= most
          /\ ~Full(list) => m + N <= most
      <4>1. c <= Limit /\ (~Full(list) => c < Limit)
        <5> HIDE DEF c, list
        <5> QED
          BY <1>1, <1>2 DEF Full
      <4> HIDE DEF c, list
      <4> QED
        BY <1>1, <1>2, <4>1, Times
    <3> HIDE DEF f, c, h, p, m, most, N, list
    <3>5. f < most + N
      <4>1. CASE Full(list)
        BY <1>2, <3>3, <3>4, <4>1
      <4>2. CASE ~Full(list)
        BY <1>2, <3>3, <3>4, <4>2
      <4> QED
        BY <4>1, <4>2
    <3> QED
      BY <3>5 DEF most
  <2>2. CASE ~(v >= 0)
    <3>1. UpTo(failed, v) = {}
      <4>1. \A i \in DOMAIN failed : failed[i] \in Nat
        <5> DEFINE numbers == 0 .. Memory
        <5>1. failed \in Seq(numbers) /\ numbers \subseteq Nat
          BY <1>1
        <5> HIDE DEF numbers
        <5>2. \A i \in DOMAIN failed : failed[i] \in numbers
          BY <5>1
        <5> QED
          BY <5>1, <5>2
      <4>2. v \in Int /\ v < 0
        BY <1>1, <2>2
      <4> HIDE DEF v
      <4> QED
        BY <4>1, <4>2 DEF UpTo
    <3>2. f = 0
      BY <3>1, FS_EmptySet
    <3>3. N * Limit \in Nat
      BY <1>1, Times
    <3> HIDE DEF f, N
    <3> QED
      BY <1>2, <3>2, <3>3
  <2> QED
    BY <2>1, <2>2
<1> QED
  BY <1>3, <1>4, <1>5 DEF OverrunIsBounded, N

\* Requests that are in flight together overrun the budget by no more than was
\* let in before the list was full.
THEOREM OverrunsAreBounded == Spec => []OverrunIsBounded
<1>1. Init => IInv /\ HInv /\ Budget(failures[Watched], request, failed)
  BY InitIInv, InitHInv, InitBudget
<1>2. /\ IInv /\ HInv /\ Budget(failures[Watched], request, failed) /\ [Next]_vars
      => (IInv /\ HInv /\ Budget(failures[Watched], request, failed))'
  BY StepKeeps, StepAccounted, StepBudget
<1>3. IInv /\ HInv /\ Budget(failures[Watched], request, failed) => OverrunIsBounded
  BY BudgetBounds
<1> QED
  BY <1>1, <1>2, <1>3, PTL DEF Spec
=============================================================================
