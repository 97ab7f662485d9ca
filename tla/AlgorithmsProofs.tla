-------------------------- MODULE AlgorithmsProofs --------------------------
(***************************************************************************)
(* Theorems about the pure functions, for every question.                  *)
(*                                                                         *)
(* A loop is a recursive function, and what it computes is shown by the    *)
(* least number of rounds after which it would be wrong (LeastNumber).     *)
(***************************************************************************)
EXTENDS Algorithms, FiniteSetTheorems, WellFoundedInduction, TLAPS

\* A set of numbers has a least one.
LEMMA LeastNumber ==
    ASSUME NEW T, T \subseteq Nat, T # {}
    PROVE  \E m \in T : \A n \in T : m <= n
<1> DEFINE Smaller  == StrictSubsetOrdering(Nat)
           Initials == {0 .. n : n \in T}
<1>1. IsWellFoundedOn(Smaller, FiniteSubsetsOf(Nat))
  BY FS_StrictSubsetOrderingWellFounded
<1>2. Initials \subseteq FiniteSubsetsOf(Nat)
  <2> SUFFICES ASSUME NEW n \in T PROVE 0 .. n \in FiniteSubsetsOf(Nat)
    OBVIOUS
  <2>1. n \in Nat /\ IsFiniteSet(0 .. n) /\ 0 .. n \subseteq Nat
    BY FS_Interval
  <2> QED
    BY <2>1 DEF FiniteSubsetsOf
<1>3. Initials # {}
  OBVIOUS
<1>4. PICK initial \in Initials : \A other \in Initials : ~(<<other, initial>> \in Smaller)
  <2> HIDE DEF Initials, Smaller
  <2> QED
    BY <1>1, <1>2, <1>3, WFMin, Zenon
<1>5. PICK m \in T : initial = 0 .. m
  OBVIOUS
<1>6. ASSUME NEW n \in T, n < m PROVE FALSE
  <2>1. /\ 0 .. n \subseteq 0 .. m /\ m \in 0 .. m /\ m \notin 0 .. n
        /\ 0 .. n \subseteq Nat /\ 0 .. m \subseteq Nat
    BY <1>6
  <2>2. <<0 .. n, 0 .. m>> \in Smaller
    BY <2>1 DEF StrictSubsetOrdering
  <2> QED
    BY <1>4, <1>5, <2>2
<1> QED
  BY <1>6

(***************************************************************************)
(* Matching.  Rsvp accepts a save whose ids are the members; this is what  *)
(* the loop over the submission and the one over the members amount to.    *)
(***************************************************************************)
\* What is collected after each round.
Rounds(after, submitted, last) ==
    after = [n \in 0 .. last |->
               IF n = 0 THEN [ok |-> TRUE, answers |-> NoAnswers]
               ELSE Collect(after[n - 1], submitted[n])]

\* The loop of matchSubmissionToMembers can be run.
LEMMA RoundsExist ==
    ASSUME NEW submitted, NEW last \in Nat
    PROVE  \E after : Rounds(after, submitted, last)
<1> DEFINE lacking == {n \in Nat : ~\E after : Rounds(after, submitted, n)}
<1> SUFFICES ASSUME lacking # {} PROVE FALSE
  OBVIOUS
<1>1. PICK m \in lacking : \A n \in lacking : m <= n
  <2>1. lacking \subseteq Nat
    OBVIOUS
  <2> HIDE DEF lacking
  <2> QED
    BY <2>1, LeastNumber
<1>2. m # 0
  <2> SUFFICES ASSUME m = 0 PROVE FALSE
    OBVIOUS
  <2> DEFINE none == [n \in 0 .. 0 |-> [ok |-> TRUE, answers |-> NoAnswers]]
  <2>1. Rounds(none, submitted, 0)
    BY DEF Rounds
  <2> QED
    BY <2>1
<1>3. m \in Nat /\ m - 1 \in Nat /\ m - 1 \notin lacking
  BY <1>1, <1>2
<1>4. PICK before : Rounds(before, submitted, m - 1)
  BY <1>3
<1> DEFINE found == Collect(before[m - 1], submitted[m])
           more == [n \in 0 .. m |-> IF n = m THEN found ELSE before[n]]
           round(n, f) == IF n = 0 THEN [ok |-> TRUE, answers |-> NoAnswers]
                          ELSE Collect(f[n - 1], submitted[n])
<1>5. /\ 0 .. m = (0 .. (m - 1)) \cup {m} /\ m \notin 0 .. (m - 1)
      /\ \A n \in 0 .. m : n # 0 => n - 1 \in 0 .. (m - 1)
  BY <1>2, <1>3
<1>6. \A n \in 0 .. (m - 1) : before[n] = round(n, before)
  BY <1>4 DEF Rounds
<1>7. more[m] = found /\ \A n \in 0 .. (m - 1) : more[n] = before[n]
  BY <1>5
<1>8. \A n \in 0 .. m : more[n] = round(n, more)
  <2>1. ASSUME NEW n \in 0 .. (m - 1) PROVE more[n] = round(n, more)
    <3>1. n # 0 => more[n - 1] = before[n - 1]
      BY <1>5, <1>7
    <3> HIDE DEF more
    <3> QED
      BY <1>6, <1>7, <3>1
  <2>2. more[m] = round(m, more)
    BY <1>2, <1>5, <1>7
  <2> HIDE DEF more
  <2> QED
    BY <1>5, <2>1, <2>2
<1>9. Rounds(more, submitted, m)
  <2>1. more = [n \in 0 .. m |-> more[n]]
    OBVIOUS
  <2> HIDE DEF more
  <2> QED
    BY <1>8, <2>1 DEF Rounds
<1> QED
  BY <1>9

\* What has been collected of the first n entries.
FirstIds(submitted, n) == {submitted[i].id : i \in 1 .. n}

Paired(collected, submitted, n) ==
    /\ collected.ok \in BOOLEAN
    /\ collected.ok <=> \A i, j \in 1 .. n : submitted[i].id = submitted[j].id => i = j
    /\ collected.ok =>
          /\ DOMAIN collected.answers = FirstIds(submitted, n)
          /\ \A i \in 1 .. n : collected.answers[submitted[i].id] = submitted[i].answer

\* A round collects one more.
LEMMA CollectPairs ==
    ASSUME NEW submitted, NEW n \in Nat, NEW before, Paired(before, submitted, n)
    PROVE  Paired(Collect(before, submitted[n + 1]), submitted, n + 1)
<1> DEFINE entry == submitted[n + 1]
           after == Collect(before, entry)
           full  == [ok |-> TRUE,
                     answers |-> [id \in DOMAIN before.answers \cup {entry.id} |->
                         IF id = entry.id THEN entry.answer ELSE before.answers[id]]]
<1>1. 1 .. (n + 1) = (1 .. n) \cup {n + 1} /\ n + 1 \notin 1 .. n
  OBVIOUS
<1>2. Mismatch.ok = FALSE /\ full.ok = TRUE
  BY DEF Mismatch
<1>3. CASE ~before.ok
  <2>1. after = Mismatch
    BY <1>3 DEF Collect
  <2>2. ~\A i, j \in 1 .. n : submitted[i].id = submitted[j].id => i = j
    BY <1>3 DEF Paired
  <2>3. ~\A i, j \in 1 .. (n + 1) : submitted[i].id = submitted[j].id => i = j
    BY <1>1, <2>2
  <2> QED
    BY <1>2, <2>1, <2>3 DEF Paired
<1>4. CASE before.ok /\ entry.id \in DOMAIN before.answers
  <2>1. after = Mismatch
    BY <1>4 DEF Collect
  <2>2. PICK i \in 1 .. n : submitted[i].id = entry.id
    BY <1>4 DEF Paired, FirstIds
  <2>3. ~\A k, j \in 1 .. (n + 1) : submitted[k].id = submitted[j].id => k = j
    BY <1>1, <2>2
  <2> QED
    BY <1>2, <2>1, <2>3 DEF Paired
<1>5. CASE before.ok /\ entry.id \notin DOMAIN before.answers
  <2>1. after = full
    BY <1>5 DEF Collect
  <2>2. DOMAIN before.answers = FirstIds(submitted, n)
    BY <1>5 DEF Paired
  <2>3. \A i \in 1 .. n : submitted[i].id \in FirstIds(submitted, n)
    BY DEF FirstIds
  <2>4. \A i \in 1 .. n : submitted[i].id # entry.id
    BY <1>5, <2>2, <2>3
  <2>5. \A i, j \in 1 .. n : submitted[i].id = submitted[j].id => i = j
    BY <1>5 DEF Paired
  <2>6. \A i, j \in 1 .. (n + 1) : submitted[i].id = submitted[j].id => i = j
    BY <1>1, <2>4, <2>5
  <2>7. FirstIds(submitted, n + 1) = FirstIds(submitted, n) \cup {entry.id}
    BY <1>1 DEF FirstIds
  <2>8. DOMAIN full.answers = FirstIds(submitted, n + 1)
    BY <2>2, <2>7
  <2>9. full.answers[entry.id] = entry.answer
    OBVIOUS
  <2>10. \A i \in 1 .. n : full.answers[submitted[i].id] = submitted[i].answer
    <3> SUFFICES ASSUME NEW i \in 1 .. n
                 PROVE  full.answers[submitted[i].id] = submitted[i].answer
      OBVIOUS
    <3>1. full.answers[submitted[i].id] = before.answers[submitted[i].id]
      BY <2>2, <2>3, <2>4
    <3> QED
      BY <1>5, <3>1 DEF Paired
  <2>11. \A i \in 1 .. (n + 1) : full.answers[submitted[i].id] = submitted[i].answer
    <3> HIDE DEF full
    <3> QED
      BY <1>1, <2>9, <2>10
  <2> HIDE DEF full
  <2>12. Paired(full, submitted, n + 1)
    BY <1>2, <2>6, <2>8, <2>11 DEF Paired
  <2> QED
    BY <2>1, <2>12
<1> QED
  BY <1>3, <1>4, <1>5

\* The loop pairs every id with the answer sent for it, or finds one twice.
LEMMA CollectedPairs ==
    ASSUME NEW submitted, Len(submitted) \in Nat
    PROVE  Paired(Collected(submitted), submitted, Len(submitted))
<1> DEFINE after == CHOOSE after : Rounds(after, submitted, Len(submitted))
           wrong == {n \in 0 .. Len(submitted) : ~Paired(after[n], submitted, n)}
<1>1. Collected(submitted) = after[Len(submitted)]
  BY DEF Collected, Rounds
<1>2. Rounds(after, submitted, Len(submitted))
  BY RoundsExist
<1> HIDE DEF after
<1>3. \A n \in 0 .. Len(submitted) :
         after[n] = IF n = 0 THEN [ok |-> TRUE, answers |-> NoAnswers]
                    ELSE Collect(after[n - 1], submitted[n])
  BY <1>2 DEF Rounds
<1>4. Paired(after[0], submitted, 0)
  <2>1. after[0] = [ok |-> TRUE, answers |-> NoAnswers]
    <3> DEFINE start == [ok |-> TRUE, answers |-> NoAnswers]
    <3>1. 0 \in 0 .. Len(submitted)
      OBVIOUS
    <3>2. after[0] = IF 0 = 0 THEN start ELSE Collect(after[0 - 1], submitted[0])
      BY <1>3, <3>1
    <3> QED
      BY <3>2
  <2>2. 1 .. 0 = {} /\ DOMAIN NoAnswers = {}
    BY DEF NoAnswers
  <2>3. FirstIds(submitted, 0) = {}
    BY <2>2 DEF FirstIds
  <2> QED
    BY <2>1, <2>2, <2>3 DEF Paired
<1>5. wrong = {}
  <2> SUFFICES ASSUME wrong # {} PROVE FALSE
    OBVIOUS
  <2>1. PICK m \in wrong : \A n \in wrong : m <= n
    <3>1. wrong \subseteq Nat
      OBVIOUS
    <3> HIDE DEF wrong
    <3> QED
      BY <3>1, LeastNumber
  <2>2. m \in Nat /\ m # 0 /\ m \in 0 .. Len(submitted)
    BY <1>4, <2>1
  <2>3. m - 1 \in 0 .. Len(submitted) /\ m - 1 \in Nat /\ m - 1 \notin wrong /\ (m - 1) + 1 = m
    BY <2>1, <2>2
  <2>4. Paired(after[m - 1], submitted, m - 1)
    BY <2>3
  <2>5. Paired(Collect(after[m - 1], submitted[(m - 1) + 1]), submitted, (m - 1) + 1)
    BY <2>3, <2>4, CollectPairs
  <2>6. after[m] = Collect(after[m - 1], submitted[m])
    BY <1>3, <2>2
  <2> QED
    BY <2>1, <2>3, <2>5, <2>6
<1> QED
  BY <1>1, <1>5

\* As many different values as places.
LEMMA AsManyAsPlaces ==
    ASSUME NEW n \in Nat, NEW f, DOMAIN f = 1 .. n, \A i, j \in 1 .. n : f[i] = f[j] => i = j,
           NEW values, values = {f[i] : i \in 1 .. n}
    PROVE  IsFiniteSet(values) /\ Cardinality(values) = n
<1> DEFINE g      == [i \in 1 .. n |-> f[i]]
<1>1. IsFiniteSet(1 .. n) /\ Cardinality(1 .. n) = n
  BY FS_Interval
<1>2. g \in Surjection(1 .. n, values)
  BY DEF Surjection
<1>3. g \in Injection(1 .. n, values)
  BY DEF Injection, IsInjective
<1> HIDE DEF g
<1>4. IsFiniteSet(values) /\ Cardinality(values) = Cardinality(1 .. n)
  BY <1>1, <1>2, <1>3, FS_Surjection
<1> QED
  BY <1>1, <1>4

\* Matching a submission with the members loses no answer and invents none:
\* it is accepted exactly if its entries are the members', each once, and each
\* member gets the answer sent for it (matchSubmissionToMembers).  The ids of
\* members differ, for they are a primary key.
THEOREM MatchingIsExact ==
    ASSUME NEW submitted \in Seq([id : Ids, answer : Replies]), NEW members \in Seq(Ids),
           \A i, j \in DOMAIN members : members[i] = members[j] => i = j
    PROVE  ExactMatch(submitted, members)
<1> DEFINE collected == Collected(submitted)
           matched   == matchSubmissionToMembers(submitted, members)
           ids       == {submitted[i].id : i \in DOMAIN submitted}
           distinct  == \A i, j \in DOMAIN submitted : submitted[i].id = submitted[j].id => i = j
           Sayings   == [id : Ids, answer : Replies]
<1>1. /\ Len(members) \in Nat /\ DOMAIN members = 1 .. Len(members)
  OBVIOUS
<1>2. Len(submitted) \in Nat /\ DOMAIN submitted = 1 .. Len(submitted)
  <2>1. submitted \in Seq(Sayings)
    OBVIOUS
  <2> HIDE DEF Sayings
  <2> QED
    BY <2>1
<1>3. Paired(collected, submitted, Len(submitted))
  BY <1>2, CollectedPairs
<1> HIDE DEF collected
<1>4. /\ collected.ok \in BOOLEAN /\ (collected.ok <=> distinct)
      /\ collected.ok => /\ DOMAIN collected.answers = ids
                         /\ \A i \in DOMAIN submitted :
                               collected.answers[submitted[i].id] = submitted[i].answer
  BY <1>2, <1>3 DEF Paired, FirstIds
<1>5. IsFiniteSet(Range(members)) /\ Cardinality(Range(members)) = Len(members)
  <2>1. Range(members) = {members[i] : i \in 1 .. Len(members)}
    BY <1>1 DEF Range
  <2> QED
    BY <1>1, <2>1, AsManyAsPlaces
<1>6. distinct => IsFiniteSet(ids) /\ Cardinality(ids) = Len(submitted)
  <2> SUFFICES ASSUME distinct PROVE IsFiniteSet(ids) /\ Cardinality(ids) = Len(submitted)
    OBVIOUS
  <2> DEFINE named == [i \in 1 .. Len(submitted) |-> submitted[i].id]
  <2>1. /\ DOMAIN named = 1 .. Len(submitted)
        /\ \A i \in 1 .. Len(submitted) : named[i] = submitted[i].id
    OBVIOUS
  <2>2. ids = {named[i] : i \in 1 .. Len(submitted)}
    BY <1>2, <2>1
  <2>3. \A i, j \in 1 .. Len(submitted) : named[i] = named[j] => i = j
    BY <1>2, <2>1
  <2> HIDE DEF named, ids
  <2> QED
    BY <1>2, <2>1, <2>2, <2>3, AsManyAsPlaces
<1> DEFINE unanswered == \E i \in DOMAIN members : members[i] \notin DOMAIN collected.answers
           refused    == Len(submitted) # Len(members) \/ ~collected.ok \/ unanswered
<1>7. matched = IF refused THEN Mismatch ELSE collected
  BY DEF matchSubmissionToMembers, collected
<1>8. ASSUME ~refused PROVE ids = Range(members) /\ distinct
  <2>1. collected.ok /\ distinct /\ DOMAIN collected.answers = ids
    BY <1>4, <1>8
  <2>2. Range(members) \in SUBSET ids
    BY <1>8, <2>1 DEF Range
  <2> HIDE DEF ids, distinct
  <2>3. Cardinality(Range(members)) = Cardinality(ids) /\ IsFiniteSet(ids)
    BY <1>5, <1>6, <1>8, <2>1
  <2> QED
    BY <2>1, <2>2, <2>3, FS_Subset
<1>9. ASSUME ids = Range(members), distinct PROVE ~refused
  <2>1. collected.ok /\ DOMAIN collected.answers = Range(members)
    BY <1>4, <1>9
  <2>2. \A i \in DOMAIN members : members[i] \in Range(members)
    BY DEF Range
  <2> HIDE DEF ids, distinct
  <2>3. Len(submitted) = Len(members)
    BY <1>5, <1>6, <1>9
  <2> QED
    BY <2>1, <2>2, <2>3
<1>10. Describes(submitted, members) = (ids = Range(members) /\ distinct)
  BY DEF Describes
<1> HIDE DEF refused, matched, ids, distinct
<1>11. CASE refused
  <2>1. matched.ok = FALSE
    BY <1>7, <1>11 DEF Mismatch
  <2>2. ~Describes(submitted, members)
    BY <1>9, <1>10, <1>11
  <2>3. Describes(submitted, members) \in BOOLEAN
    BY <1>10 DEF distinct
  <2> QED
    BY <2>1, <2>2, <2>3 DEF ExactMatch, matched
<1>12. CASE ~refused
  <2>1. matched = collected /\ collected.ok
    BY <1>7, <1>12 DEF refused
  <2>2. Describes(submitted, members) /\ ids = Range(members)
    BY <1>8, <1>10, <1>12
  <2>3. Describes(submitted, members) \in BOOLEAN
    BY <1>10 DEF distinct
  <2> QED
    BY <1>4, <2>1, <2>2, <2>3 DEF ExactMatch, matched
<1> QED
  BY <1>11, <1>12

(***************************************************************************)
(* The keys.  The rightmost entry of the header that is foreign or no      *)
(* address decides whom a request is attributed to.                        *)
(***************************************************************************)
\* The answers of the search, with more and more of the entries to go through.
Searched(from, peer, hops, last) ==
    from = [n \in 0 .. last |->
              IF n = 0 \/ hops[n] = Garbage THEN peer
              ELSE IF ~isTrustedAddr(hops[n]) THEN hops[n]
              ELSE from[n - 1]]

\* The recursion of Believed has a solution.
LEMMA SearchExists ==
    ASSUME NEW peer, NEW hops, NEW last \in Nat
    PROVE  \E from : Searched(from, peer, hops, last)
<1> DEFINE lacking == {n \in Nat : ~\E from : Searched(from, peer, hops, n)}
<1> SUFFICES ASSUME lacking # {} PROVE FALSE
  OBVIOUS
<1>1. PICK m \in lacking : \A n \in lacking : m <= n
  <2>1. lacking \subseteq Nat
    OBVIOUS
  <2> HIDE DEF lacking
  <2> QED
    BY <2>1, LeastNumber
<1>2. m # 0
  <2> SUFFICES ASSUME m = 0 PROVE FALSE
    OBVIOUS
  <2> DEFINE none == [n \in 0 .. 0 |-> peer]
  <2>1. Searched(none, peer, hops, 0)
    BY DEF Searched
  <2> QED
    BY <2>1
<1>3. m \in Nat /\ m - 1 \in Nat /\ m - 1 \notin lacking
  BY <1>1, <1>2
<1>4. PICK before : Searched(before, peer, hops, m - 1)
  BY <1>3
<1> DEFINE found == IF hops[m] = Garbage THEN peer
                    ELSE IF ~isTrustedAddr(hops[m]) THEN hops[m] ELSE before[m - 1]
           after == [n \in 0 .. m |-> IF n = m THEN found ELSE before[n]]
<1>5. /\ 0 .. m = (0 .. (m - 1)) \cup {m} /\ m \notin 0 .. (m - 1)
      /\ \A n \in 0 .. m : n # 0 => n - 1 \in 0 .. (m - 1)
  BY <1>2, <1>3
<1>6. \A n \in 0 .. (m - 1) :
         before[n] = IF n = 0 \/ hops[n] = Garbage THEN peer
                     ELSE IF ~isTrustedAddr(hops[n]) THEN hops[n] ELSE before[n - 1]
  BY <1>4 DEF Searched
<1>7. after[m] = found /\ \A n \in 0 .. (m - 1) : after[n] = before[n]
  BY <1>5
<1>8. \A n \in 0 .. m :
         after[n] = IF n = 0 \/ hops[n] = Garbage THEN peer
                    ELSE IF ~isTrustedAddr(hops[n]) THEN hops[n] ELSE after[n - 1]
  <2>1. ASSUME NEW n \in 0 .. (m - 1)
        PROVE  after[n] = IF n = 0 \/ hops[n] = Garbage THEN peer
                          ELSE IF ~isTrustedAddr(hops[n]) THEN hops[n] ELSE after[n - 1]
    <3>1. n # 0 => after[n - 1] = before[n - 1]
      BY <1>5, <1>7
    <3> HIDE DEF after
    <3> QED
      BY <1>6, <1>7, <3>1
  <2>2. after[m] = IF m = 0 \/ hops[m] = Garbage THEN peer
                   ELSE IF ~isTrustedAddr(hops[m]) THEN hops[m] ELSE after[m - 1]
    BY <1>2, <1>5, <1>7
  <2> HIDE DEF after
  <2> QED
    BY <1>5, <2>1, <2>2
<1>9. Searched(after, peer, hops, m)
  <2>1. after = [n \in 0 .. m |-> after[n]]
    OBVIOUS
  <2> HIDE DEF after
  <2> QED
    BY <1>8, <2>1 DEF Searched
<1> QED
  BY <1>9

\* The rightmost entry that stops the search.
Rightmost(s, hops) ==
    /\ s \in 1 .. Len(hops) /\ Stops(hops[s])
    /\ \A n \in s + 1 .. Len(hops) : ~Stops(hops[n])

\* It decides the search.
LEMMA RightmostDecides ==
    ASSUME NEW peer, NEW hops, Len(hops) \in Nat, NEW s, Rightmost(s, hops)
    PROVE  Believed(peer, hops) = IF hops[s] = Garbage THEN peer ELSE hops[s]
<1> DEFINE search == CHOOSE from : Searched(from, peer, hops, Len(hops))
           answer == IF hops[s] = Garbage THEN peer ELSE hops[s]
           wrong  == {n \in s .. Len(hops) : search[n] # answer}
<1>1. Believed(peer, hops) = search[Len(hops)]
  BY DEF Believed, Searched
<1>2. Searched(search, peer, hops, Len(hops))
  BY SearchExists
<1> HIDE DEF search
<1>3. \A n \in 0 .. Len(hops) :
         search[n] = IF n = 0 \/ hops[n] = Garbage THEN peer
                     ELSE IF ~isTrustedAddr(hops[n]) THEN hops[n] ELSE search[n - 1]
  BY <1>2 DEF Searched
<1>4. s \in 0 .. Len(hops) /\ s # 0
  BY DEF Rightmost
<1>5. search[s] = answer
  BY <1>3, <1>4 DEF Rightmost, Stops
<1>6. wrong = {}
  <2> SUFFICES ASSUME wrong # {} PROVE FALSE
    OBVIOUS
  <2>1. PICK m \in wrong : \A n \in wrong : m <= n
    <3>1. wrong \subseteq Nat
      BY <1>4
    <3> HIDE DEF wrong
    <3> QED
      BY <3>1, LeastNumber
  <2>2. m \in Nat /\ m \in s .. Len(hops) /\ m # s /\ m \in 0 .. Len(hops) /\ m # 0
    BY <1>4, <1>5, <2>1
  <2>3. m \in s + 1 .. Len(hops) /\ m - 1 \in s .. Len(hops) /\ m - 1 \notin wrong
    BY <1>4, <2>1, <2>2
  <2>4. search[m - 1] = answer
    BY <2>3
  <2>5. search[m] = search[m - 1]
    BY <1>3, <2>2, <2>3 DEF Rightmost, Stops
  <2> QED
    BY <2>1, <2>4, <2>5
<1>7. Len(hops) \in s .. Len(hops)
  BY <1>4
<1> QED
  BY <1>1, <1>6, <1>7

\* Where an entry stops the search, there is a rightmost one.
LEMMA RightmostExists ==
    ASSUME NEW hops, Len(hops) \in Nat, NEW i \in 1 .. Len(hops), Stops(hops[i])
    PROVE  \E s : Rightmost(s, hops)
<1> DEFINE beyond == {s \in 0 .. Len(hops) : \A n \in s + 1 .. Len(hops) : ~Stops(hops[n])}
<1>1. PICK s \in beyond : \A n \in beyond : s <= n
  <2>1. Len(hops) \in beyond /\ beyond \subseteq Nat
    OBVIOUS
  <2> HIDE DEF beyond
  <2> QED
    BY <2>1, LeastNumber
<1>2. s # 0
  BY <1>1
<1>3. Stops(hops[s])
  <2> SUFFICES ASSUME ~Stops(hops[s]) PROVE FALSE
    OBVIOUS
  <2>1. s - 1 \in 0 .. Len(hops) /\ s \in Nat
    BY <1>1, <1>2
  <2>2. \A n \in s .. Len(hops) : n = s \/ n \in s + 1 .. Len(hops)
    BY <2>1
  <2>3. s - 1 \in beyond
    BY <1>1, <2>1, <2>2
  <2>4. s <= s - 1
    BY <1>1, <2>3
  <2> QED
    BY <2>1, <2>4
<1> QED
  BY <1>1, <1>2, <1>3 DEF Rightmost

\* An entry that is foreign or no address ends the search: what is written left
\* of it, however long, has no say (resolveClientIP).
THEOREM LeftIsIgnored ==
    ASSUME NEW peer, NEW left \in Seq(Addresses \cup {Garbage}),
           NEW hops \in Seq(Addresses \cup {Garbage})
    PROVE  LeftHasNoSay(peer, left, hops)
<1> SUFFICES ASSUME NEW i \in DOMAIN hops, Stops(hops[i])
             PROVE  resolveClientIP(peer, left \o hops) = resolveClientIP(peer, hops)
  BY DEF LeftHasNoSay
<1> DEFINE entries == Addresses \cup {Garbage}
           long == left \o hops
<1> HIDE DEF entries
<1>1. /\ Len(hops) \in Nat /\ DOMAIN hops = 1 .. Len(hops) /\ Len(left) \in Nat
      /\ Len(long) = Len(left) + Len(hops) /\ Len(long) \in Nat
      /\ \A n \in 1 .. Len(hops) : long[Len(left) + n] = hops[n]
  BY DEF entries
<1>2. PICK s : Rightmost(s, hops)
  BY <1>1, RightmostExists
<1>8. s \in 1 .. Len(hops) /\ Stops(hops[s]) /\ \A n \in s + 1 .. Len(hops) : ~Stops(hops[n])
  BY <1>2 DEF Rightmost
<1> DEFINE t == Len(left) + s
<1>3. t \in 1 .. Len(long) /\ long[t] = hops[s]
  BY <1>1, <1>8
<1>4. \A n \in t + 1 .. Len(long) : ~Stops(long[n])
  <2> SUFFICES ASSUME NEW n \in t + 1 .. Len(long) PROVE ~Stops(long[n])
    OBVIOUS
  <2>1. /\ n - Len(left) \in s + 1 .. Len(hops) /\ n - Len(left) \in 1 .. Len(hops)
        /\ Len(left) + (n - Len(left)) = n
    BY <1>1, <1>8
  <2>2. long[n] = hops[n - Len(left)]
    <3> DEFINE k == n - Len(left)
    <3>1. k \in 1 .. Len(hops) /\ Len(left) + k = n
      BY <2>1
    <3> HIDE DEF k
    <3>2. long[n] = hops[k]
      BY <1>1, <3>1
    <3> QED
      BY <3>2 DEF k
  <2> QED
    BY <1>8, <2>1, <2>2
<1> HIDE DEF long, t
<1>5. Rightmost(t, long)
  BY <1>8, <1>3, <1>4 DEF Rightmost
<1>7. Believed(peer, long) = IF hops[s] = Garbage THEN peer ELSE hops[s]
  BY <1>1, <1>3, <1>5, RightmostDecides
<1>6. Believed(peer, hops) = IF hops[s] = Garbage THEN peer ELSE hops[s]
  BY <1>1, <1>2, RightmostDecides
<1> QED
  BY <1>6, <1>7 DEF resolveClientIP, long

\* A request is attributed to the client that made it, whatever header it brings
\* along and through however many of our proxies it comes (resolveClientIP).
THEOREM ClientsAreAttributed ==
    ASSUME NEW header \in Seq(Addresses \cup {Garbage}), NEW client \in Addresses,
           NEW route \in Seq({address \in Addresses : isTrustedAddr(address)})
    PROVE  AttributedTo(header, client, route)
<1> DEFINE entries == Addresses \cup {Garbage}
           proxies == {address \in Addresses : isTrustedAddr(address)}
<1> SUFFICES ASSUME ~isTrustedAddr(client)
             PROVE  resolveClientIP(PeerOf(client, route), Received(header, client, route)) = client
  BY DEF AttributedTo
<1>1. CASE route = <<>>
  BY <1>1 DEF resolveClientIP, PeerOf
<1>2. CASE route # <<>>
  <2> DEFINE peer == route[Len(route)]
             ours == SubSeq(route, 1, Len(route) - 1)
             hops == header \o <<client>> \o ours
             s    == Len(header) + 1
  <2>1. PeerOf(client, route) = peer /\ Received(header, client, route) = hops
    BY <1>2 DEF PeerOf, Received, Forwarded
  <2>2. client \in entries /\ proxies \subseteq entries /\ client # Garbage
    BY ClientAddressAssumption
  <2>3. \A address \in proxies : isTrustedAddr(address) /\ address # Garbage
    BY ClientAddressAssumption
  <2> HIDE DEF proxies, entries
  <2>4. route \in Seq(proxies) /\ header \in Seq(entries)
    BY DEF proxies, entries
  <2>5. /\ Len(route) \in Nat /\ Len(route) >= 1 /\ peer \in proxies
        /\ ours \in Seq(proxies) /\ Len(ours) = Len(route) - 1
    <3>1. Len(route) \in Nat /\ Len(route) >= 1
      BY <1>2, <2>4
    <3>2. peer \in proxies /\ 1 \in 1 .. Len(route)
      BY <2>4, <3>1
    <3>3. \A n \in 1 .. Len(route) - 1 : route[n] \in proxies
      BY <2>4, <3>1
    <3>4. /\ ours \in Seq(proxies) /\ Len(ours) = Len(route) - 1
      <4> DEFINE last == Len(route) - 1
      <4>1. last \in Nat /\ last <= Len(route)
        BY <3>1
      <4>2. ours = SubSeq(route, 1, last)
        OBVIOUS
      <4> HIDE DEF last, ours
      <4>3. Len(ours) = last /\ DOMAIN ours = 1 .. last
        BY <2>4, <4>1, <4>2
      <4>4. \A n \in 1 .. last : ours[n] = route[n]
        BY <2>4, <4>1, <4>2
      <4>5. ours = [n \in 1 .. last |-> route[n]]
        BY <2>4, <4>1, <4>2, <4>4
      <4>6. ours \in [1 .. last -> proxies]
        BY <3>3, <4>5 DEF last
      <4> QED
        BY <4>1, <4>3, <4>6 DEF last
    <3> QED
      BY <3>1, <3>2, <3>4
  <2>6. \A n \in 1 .. Len(ours) : ours[n] \in proxies
    BY <2>5
  <2> HIDE DEF ours, peer
  <2>7. /\ Len(header) \in Nat /\ Len(ours) \in Nat /\ Len(hops) = Len(header) + 1 + Len(ours)
        /\ hops[s] = client /\ \A n \in 1 .. Len(ours) : hops[s + n] = ours[n]
    <3>1. ours \in Seq(entries) /\ <<client>> \in Seq(entries)
      BY <2>2, <2>5
    <3> DEFINE first == header \o <<client>>
    <3>2. first \in Seq(entries) /\ Len(first) = s /\ first[s] = client /\ Len(header) \in Nat
      BY <2>2, <2>4
    <3>3. hops = first \o ours
      OBVIOUS
    <3> HIDE DEF first
    <3>4. Len(hops) = Len(first) + Len(ours) /\ Len(ours) \in Nat
      BY <3>1, <3>2, <3>3
    <3>5. hops[s] = client
      BY <3>1, <3>2, <3>3
    <3>6. \A n \in 1 .. Len(ours) : hops[s + n] = ours[n]
      BY <3>1, <3>2, <3>3
    <3> QED
      BY <3>2, <3>4, <3>5, <3>6
  <2> HIDE DEF hops
  <2>8. s \in 1 .. Len(hops) /\ Len(hops) \in Nat /\ Stops(hops[s])
    BY <2>7 DEF Stops
  <2>9. \A n \in s + 1 .. Len(hops) : ~Stops(hops[n])
    <3> SUFFICES ASSUME NEW n \in s + 1 .. Len(hops) PROVE ~Stops(hops[n])
      OBVIOUS
    <3> DEFINE k == n - s
    <3>1. k \in 1 .. Len(ours) /\ s + k = n
      BY <2>7
    <3> HIDE DEF k
    <3> QED
      BY <2>3, <2>6, <2>7, <3>1 DEF Stops
  <2> HIDE DEF s
  <2>10. Rightmost(s, hops)
    BY <2>8, <2>9 DEF Rightmost
  <2>11. Believed(peer, hops) = client
    BY <2>2, <2>7, <2>8, <2>10, RightmostDecides
  <2> QED
    BY <2>1, <2>3, <2>5, <2>11 DEF resolveClientIP
<1> QED
  BY <1>1, <1>2

(***************************************************************************)
(* Codes.  AssignNewCode stores a code no other household has, or none at  *)
(* all; this is what the loop over the drawn codes amounts to.             *)
(***************************************************************************)
\* What each attempt of withGeneratedCode leaves.
Attempts(answer, exists, others, generated) ==
    answer = [n \in 0 .. 5 |->
                IF n = 0 THEN Collision
                ELSE IF answer[n - 1] = Collision THEN UpdateCode(exists, others, generated[n])
                ELSE answer[n - 1]]

\* Only a collision is a collision.
LEMMA OutcomesDiffer == NotFound # Collision /\ \A drawn : Assigned(drawn) # Collision
<1>1. /\ NotFound.outcome = "not found" /\ Collision.outcome = "collision"
      /\ \A drawn : Assigned(drawn).outcome = "stored"
  BY DEF NotFound, Collision, Assigned
<1> QED
  BY <1>1

\* The loop of withGeneratedCode can be run.
LEMMA AttemptsExist ==
    ASSUME NEW exists, NEW others, NEW generated
    PROVE  \E answer : Attempts(answer, exists, others, generated)
<1> DEFINE write(n)   == UpdateCode(exists, others, generated[n])
           next(n, a) == IF a = Collision THEN write(n) ELSE a
           first  == next(1, Collision)
           second == next(2, first)
           third  == next(3, second)
           fourth == next(4, third)
           fifth  == next(5, fourth)
           answer == [n \in 0 .. 5 |->
                        IF n = 0 THEN Collision ELSE IF n = 1 THEN first
                        ELSE IF n = 2 THEN second ELSE IF n = 3 THEN third
                        ELSE IF n = 4 THEN fourth ELSE fifth]
<1> HIDE DEF first, second, third, fourth, fifth, next
<1>1. /\ answer[0] = Collision /\ answer[1] = first /\ answer[2] = second
      /\ answer[3] = third /\ answer[4] = fourth /\ answer[5] = fifth
  OBVIOUS
<1>2. answer = [n \in 0 .. 5 |-> answer[n]]
  OBVIOUS
<1> HIDE DEF answer
<1>3. \A n \in 0 .. 5 : answer[n] = IF n = 0 THEN Collision ELSE next(n, answer[n - 1])
  <2>1. \A n \in 0 .. 5 : n = 0 \/ n = 1 \/ n = 2 \/ n = 3 \/ n = 4 \/ n = 5
    OBVIOUS
  <2>2. /\ answer[1] = next(1, answer[0]) /\ answer[2] = next(2, answer[1])
        /\ answer[3] = next(3, answer[2]) /\ answer[4] = next(4, answer[3])
        /\ answer[5] = next(5, answer[4])
    BY <1>1 DEF first, second, third, fourth, fifth
  <2>3. 1 - 1 = 0 /\ 2 - 1 = 1 /\ 3 - 1 = 2 /\ 4 - 1 = 3 /\ 5 - 1 = 4
    OBVIOUS
  <2> SUFFICES ASSUME NEW n \in 0 .. 5
               PROVE  answer[n] = IF n = 0 THEN Collision ELSE next(n, answer[n - 1])
    OBVIOUS
  <2> QED
    BY <1>1, <2>1, <2>2, <2>3
<1>4. Attempts(answer, exists, others, generated)
  BY <1>2, <1>3 DEF Attempts, next
<1> QED
  BY <1>4

\* A household gets the first of five drawn codes that no other has, or none:
\* a collision is the only outcome that is tried again (withGeneratedCode).
THEOREM CollidingCodesAreRetried ==
    ASSUME NEW exists \in BOOLEAN, NEW others, NEW generated
    PROVE  CollisionsRetried(exists, others, generated)
<1> DEFINE answer == CHOOSE answer : Attempts(answer, exists, others, generated)
           good   == {i \in 1 .. 5 : generated[i] \notin others}
           result == withGeneratedCode(exists, others, generated)
<1>1. result = answer[5]
  BY DEF withGeneratedCode, Attempted, Attempts, codeAssignmentAttempts
<1>2. Attempts(answer, exists, others, generated)
  BY AttemptsExist
<1> HIDE DEF answer, result
<1>3. /\ answer[0] = Collision
      /\ \A n \in 1 .. 5 :
            answer[n] = IF answer[n - 1] = Collision
                        THEN UpdateCode(exists, others, generated[n]) ELSE answer[n - 1]
  BY <1>2 DEF Attempts
<1>4. ASSUME NEW a, NEW n \in 1 .. 5, a = answer[n - 1]
      PROVE  /\ a # Collision => answer[n] = a
             /\ a = Collision /\ ~exists => answer[n] = NotFound
             /\ a = Collision /\ exists /\ generated[n] \in others => answer[n] = Collision
             /\ a = Collision /\ exists /\ generated[n] \notin others =>
                   answer[n] = Assigned(generated[n])
  BY <1>3, <1>4 DEF UpdateCode
<1>5. /\ 1 - 1 = 0 /\ 2 - 1 = 1 /\ 3 - 1 = 2 /\ 4 - 1 = 3 /\ 5 - 1 = 4
      /\ \A i \in 1 .. 5 : i = 1 \/ i = 2 \/ i = 3 \/ i = 4 \/ i = 5
      /\ 1 \in 1 .. 5 /\ 2 \in 1 .. 5 /\ 3 \in 1 .. 5 /\ 4 \in 1 .. 5 /\ 5 \in 1 .. 5
  OBVIOUS
<1>6. CASE ~exists
  <2>1. answer[1] = NotFound
    BY <1>3, <1>4, <1>5, <1>6
  <2>2. answer[5] = NotFound
    BY <1>4, <1>5, <2>1, OutcomesDiffer
  <2> QED
    BY <1>1, <1>6, <2>2 DEF CollisionsRetried, result
<1>7. CASE exists /\ good = {}
  <2>1. \A i \in 1 .. 5 : generated[i] \in others
    BY <1>7
  <2>2. answer[1] = Collision /\ answer[2] = Collision /\ answer[3] = Collision
    BY <1>3, <1>4, <1>5, <1>7, <2>1
  <2>3. answer[5] = Collision
    BY <1>4, <1>5, <1>7, <2>1, <2>2
  <2> QED
    BY <1>1, <1>7, <2>3 DEF CollisionsRetried, result
<1>8. CASE exists /\ good # {}
  <2>1. ASSUME NEW m \in 1 .. 5, generated[m] \notin others,
               \A i \in 1 .. 5 : i < m => generated[i] \in others
        PROVE  answer[5] = Assigned(generated[m])
    <3> DEFINE stored == Assigned(generated[m])
    <3>1. stored # Collision
      BY OutcomesDiffer
    <3>2. answer[m - 1] = Collision => answer[m] = stored
      BY <1>4, <1>8, <2>1
    <3> HIDE DEF stored
    <3>3. /\ answer[1] = stored => answer[2] = stored
          /\ answer[2] = stored => answer[3] = stored
          /\ answer[3] = stored => answer[4] = stored
          /\ answer[4] = stored => answer[5] = stored
      BY <1>4, <1>5, <3>1
    <3>4. /\ 1 < m => answer[1] = Collision
          /\ 2 < m /\ answer[1] = Collision => answer[2] = Collision
          /\ 3 < m /\ answer[2] = Collision => answer[3] = Collision
          /\ 4 < m /\ answer[3] = Collision => answer[4] = Collision
      BY <1>3, <1>4, <1>5, <1>8, <2>1
    <3>5. CASE m = 1
      BY <1>3, <1>5, <3>2, <3>3, <3>5 DEF stored
    <3>6. CASE m = 2
      BY <1>5, <3>2, <3>3, <3>4, <3>6 DEF stored
    <3>7. CASE m = 3
      BY <1>5, <3>2, <3>3, <3>4, <3>7 DEF stored
    <3>8. CASE m = 4
      BY <1>5, <3>2, <3>3, <3>4, <3>8 DEF stored
    <3>9. CASE m = 5
      BY <1>5, <3>2, <3>4, <3>9 DEF stored
    <3> QED
      BY <1>5, <3>5, <3>6, <3>7, <3>8, <3>9
  <2>2. PICK m \in 1 .. 5 : /\ generated[m] \notin others
                            /\ \A i \in 1 .. 5 : i < m => generated[i] \in others
    <3>1. \E i \in 1 .. 5 : generated[i] \notin others
      BY <1>8
    <3>2. ASSUME NEW m \in 1 .. 5, generated[m] \notin others,
                 \A i \in 1 .. 5 : generated[i] \notin others => i >= m
          PROVE  \A i \in 1 .. 5 : i < m => generated[i] \in others
      BY <3>2
    <3>3. \E m \in 1 .. 5 : /\ generated[m] \notin others
                            /\ \A i \in 1 .. 5 : generated[i] \notin others => i >= m
      BY <1>5, <3>1
    <3> QED
      BY <3>2, <3>3
  <2>3. answer[5] = Assigned(generated[m]) /\ m \in good
    BY <2>1, <2>2
  <2>4. \A j \in good : m <= j
    BY <2>2
  <2> QED
    BY <1>1, <1>8, <2>3, <2>4 DEF CollisionsRetried, result
<1> QED
  BY <1>6, <1>7, <1>8

(***************************************************************************)
(* What is typed for a code.  NormalizeCode's loop is followed place by    *)
(* place: a first character that is wrongly written does not exist.        *)
(***************************************************************************)
\* What NormalizeCode has written after each character.
Written(written, input, last) ==
    written = [n \in 0 .. last |->
                 IF n = 0 THEN <<>>
                 ELSE IF input[n] \in Separators THEN written[n - 1]
                 ELSE Append(written[n - 1], ToUpper(input[n]))]

\* The loop of NormalizeCode can be run.
LEMMA WrittenExists ==
    ASSUME NEW input, NEW last \in Nat
    PROVE  \E written : Written(written, input, last)
<1> DEFINE lacking == {n \in Nat : ~\E written : Written(written, input, n)}
           next(n, text) == IF input[n] \in Separators THEN text
                            ELSE Append(text, ToUpper(input[n]))
<1> SUFFICES ASSUME lacking # {} PROVE FALSE
  OBVIOUS
<1>1. PICK m \in lacking : \A n \in lacking : m <= n
  <2>1. lacking \subseteq Nat
    OBVIOUS
  <2> HIDE DEF lacking
  <2> QED
    BY <2>1, LeastNumber
<1>2. m # 0
  <2> SUFFICES ASSUME m = 0 PROVE FALSE
    OBVIOUS
  <2> DEFINE none == [n \in 0 .. 0 |-> <<>>]
  <2>1. Written(none, input, 0)
    BY DEF Written
  <2> QED
    BY <2>1
<1>3. m \in Nat /\ m - 1 \in Nat /\ m - 1 \notin lacking
  BY <1>1, <1>2
<1>4. PICK before : Written(before, input, m - 1)
  BY <1>3
<1> DEFINE found == next(m, before[m - 1])
           more == [n \in 0 .. m |-> IF n = m THEN found ELSE before[n]]
           step(n, f) == IF n = 0 THEN <<>> ELSE next(n, f[n - 1])
<1>5. /\ 0 .. m = (0 .. (m - 1)) \cup {m} /\ m \notin 0 .. (m - 1)
      /\ \A n \in 0 .. m : n # 0 => n - 1 \in 0 .. (m - 1)
  BY <1>2, <1>3
<1>6. \A n \in 0 .. (m - 1) : before[n] = step(n, before)
  BY <1>4 DEF Written
<1> HIDE DEF next
<1>7. more[m] = found /\ \A n \in 0 .. (m - 1) : more[n] = before[n]
  BY <1>5
<1>8. \A n \in 0 .. m : more[n] = step(n, more)
  <2>1. ASSUME NEW n \in 0 .. (m - 1) PROVE more[n] = step(n, more)
    <3>1. n # 0 => more[n - 1] = before[n - 1]
      BY <1>5, <1>7
    <3> HIDE DEF more
    <3> QED
      BY <1>6, <1>7, <3>1
  <2>2. more[m] = step(m, more)
    BY <1>2, <1>5, <1>7
  <2> HIDE DEF more
  <2> QED
    BY <1>5, <2>1, <2>2
<1>9. Written(more, input, m)
  <2>1. more = [n \in 0 .. m |-> more[n]]
    OBVIOUS
  <2> HIDE DEF more
  <2> QED
    BY <1>8, <2>1 DEF Written, next
<1> QED
  BY <1>9

\* Another character that is no separator is another place.
LEMMA NextPlace ==
    ASSUME NEW input, NEW n \in Nat
    PROVE  /\ Place(input, 0) = 0 /\ Place(input, n) \in Nat
           /\ input[n + 1] \in Separators => Place(input, n + 1) = Place(input, n)
           /\ input[n + 1] \notin Separators => Place(input, n + 1) = Place(input, n) + 1
<1> DEFINE before == {i \in 1 .. n : input[i] \notin Separators}
           after  == {i \in 1 .. (n + 1) : input[i] \notin Separators}
<1>1. 1 .. (n + 1) = (1 .. n) \cup {n + 1} /\ n + 1 \notin 1 .. n
  OBVIOUS
<1>2. IsFiniteSet(1 .. n)
  BY FS_Interval
<1>3. before \subseteq 1 .. n /\ n + 1 \notin before
  BY <1>1
<1>4. /\ input[n + 1] \in Separators => after = before
      /\ input[n + 1] \notin Separators => after = before \cup {n + 1}
  BY <1>1
<1>5. Place(input, n) = Cardinality(before) /\ Place(input, n + 1) = Cardinality(after)
  BY DEF Place
<1>6. Place(input, 0) = 0
  <2>1. {i \in 1 .. 0 : input[i] \notin Separators} = {}
    OBVIOUS
  <2> QED
    BY <2>1, FS_EmptySet DEF Place
<1> HIDE DEF before, after
<1>7. IsFiniteSet(before) /\ Cardinality(before) \in Nat
  BY <1>2, <1>3, FS_Subset, FS_CardinalityType
<1>8. Cardinality(before \cup {n + 1}) = Cardinality(before) + 1
  BY <1>3, <1>7, FS_AddElement
<1> QED
  BY <1>4, <1>5, <1>6, <1>7, <1>8

\* There are no more places before than after.
LEMMA FewerPlaces ==
    ASSUME NEW input, NEW m \in Nat, NEW n \in Nat, m <= n
    PROVE  Place(input, m) <= Place(input, n)
<1> DEFINE before == {i \in 1 .. m : input[i] \notin Separators}
           after  == {i \in 1 .. n : input[i] \notin Separators}
<1>1. IsFiniteSet(1 .. n)
  BY FS_Interval
<1>2. after \subseteq 1 .. n /\ before \subseteq after
  OBVIOUS
<1>3. Place(input, m) = Cardinality(before) /\ Place(input, n) = Cardinality(after)
  BY DEF Place
<1> HIDE DEF before, after
<1> QED
  BY <1>1, <1>2, <1>3, FS_Subset

\* What is written of the first n characters is as much of the printed code as
\* they have places.
Copied(text, input, printed, n) ==
    /\ text \in Seq({printed[i] : i \in 1 .. Len(printed)})
    /\ Len(text) = Place(input, n)
    /\ \A i \in 1 .. Place(input, n) : text[i] = printed[i]

\* A character more is written where it belongs.
LEMMA CopiedNext ==
    ASSUME NEW input, NEW printed, Len(printed) \in Nat, NEW n \in Nat, NEW text,
           Copied(text, input, printed, n), Place(input, n + 1) <= Len(printed),
           input[n + 1] \notin Separators => ToUpper(input[n + 1]) = printed[Place(input, n + 1)]
    PROVE  Copied(IF input[n + 1] \in Separators THEN text ELSE Append(text, ToUpper(input[n + 1])),
                  input, printed, n + 1)
<1> DEFINE C == {printed[i] : i \in 1 .. Len(printed)}
           k == Place(input, n)
<1>1. CASE input[n + 1] \in Separators
  <2>1. Place(input, n + 1) = k
    BY <1>1, NextPlace
  <2> QED
    BY <1>1, <2>1 DEF Copied
<1>2. CASE input[n + 1] \notin Separators
  <2> DEFINE more == Append(text, printed[k + 1])
  <2>1. Place(input, n + 1) = k + 1 /\ k \in Nat
    BY <1>2, NextPlace
  <2>2. ToUpper(input[n + 1]) = printed[k + 1] /\ k + 1 <= Len(printed)
    BY <1>2, <2>1
  <2>3. text \in Seq(C) /\ Len(text) = k /\ \A i \in 1 .. k : text[i] = printed[i]
    BY DEF Copied
  <2> HIDE DEF k
  <2>4. printed[k + 1] \in C
    BY <2>1, <2>2
  <2> HIDE DEF C
  <2>5. more \in Seq(C) /\ Len(more) = k + 1 /\ more[k + 1] = printed[k + 1]
    BY <2>1, <2>3, <2>4
  <2>6. \A i \in 1 .. k : more[i] = printed[i]
    BY <2>1, <2>3, <2>4
  <2>7. 1 .. (k + 1) = (1 .. k) \cup {k + 1}
    BY <2>1
  <2> HIDE DEF more
  <2>8. \A i \in 1 .. (k + 1) : more[i] = printed[i]
    BY <2>5, <2>6, <2>7
  <2>9. Copied(more, input, printed, n + 1)
    BY <2>1, <2>5, <2>8 DEF Copied, C
  <2> QED
    BY <1>2, <2>2, <2>9 DEF more
<1> QED
  BY <1>1, <1>2

\* Typed from the card, a code is written as it is printed.
LEMMA TypedIsCopied ==
    ASSUME NEW S, NEW input \in Seq(S), NEW printed, Len(printed) \in Nat, TypedFor(input, printed),
           \A i \in 1 .. Len(printed) : printed[i] \notin DOMAIN Upper
    PROVE  Copied(NormalizeCode(input), input, printed, Len(input))
<1> DEFINE written == CHOOSE written : Written(written, input, Len(input))
           wrong   == {n \in 0 .. Len(input) : ~Copied(written[n], input, printed, n)}
<1>1. Len(input) \in Nat /\ DOMAIN input = 1 .. Len(input)
  OBVIOUS
<1>2. NormalizeCode(input) = written[Len(input)]
  BY DEF NormalizeCode, Normalized, Written
<1>3. Written(written, input, Len(input))
  BY <1>1, WrittenExists
<1> HIDE DEF written
<1>4. SUFFICES ASSUME wrong # {} PROVE FALSE
  BY <1>1, <1>2
<1>5. PICK m \in wrong : \A n \in wrong : m <= n
  <2>1. wrong \subseteq Nat
    BY <1>1
  <2> HIDE DEF wrong
  <2> QED
    BY <1>4, <2>1, LeastNumber
<1>6. m # 0
  <2> SUFFICES ASSUME m = 0 PROVE FALSE
    OBVIOUS
  <2>1. written[0] = <<>>
    BY <1>1, <1>3 DEF Written
  <2>2. Place(input, 0) = 0
    BY NextPlace
  <2>3. Copied(written[0], input, printed, 0)
    BY <2>1, <2>2 DEF Copied
  <2> QED
    BY <2>3
<1> DEFINE n == m - 1
<1>7. n \in Nat /\ n + 1 = m /\ n \in 0 .. Len(input) /\ m \in 1 .. Len(input) /\ n \notin wrong
  BY <1>1, <1>5, <1>6
<1>8. Copied(written[n], input, printed, n)
  BY <1>7
<1>9. written[n + 1] = IF input[n + 1] \in Separators THEN written[n]
                       ELSE Append(written[n], ToUpper(input[n + 1]))
  BY <1>1, <1>3, <1>6, <1>7 DEF Written
<1> HIDE DEF wrong
<1>10. Place(input, n + 1) <= Len(printed)
  BY <1>1, <1>7, FewerPlaces DEF TypedFor
<1>11. ASSUME input[n + 1] \notin Separators
       PROVE  ToUpper(input[n + 1]) = printed[Place(input, n + 1)]
  <2> DEFINE place == Place(input, n + 1)
  <2>1. Prints(input[n + 1], printed[place])
    BY <1>1, <1>7, <1>11 DEF TypedFor
  <2>2. place \in 1 .. Len(printed)
    <3>1. place = Place(input, n) + 1 /\ Place(input, n) \in Nat
      BY <1>7, <1>11, NextPlace
    <3> HIDE DEF place
    <3> QED
      BY <1>10, <3>1 DEF place
  <2>3. printed[place] \notin DOMAIN Upper
    BY <2>2
  <2> HIDE DEF place
  <2> QED
    BY <2>1, <2>3 DEF Prints, ToUpper, place
<1> HIDE DEF n
<1>12. Copied(written[n + 1], input, printed, n + 1)
  BY <1>7, <1>8, <1>9, <1>10, <1>11, CopiedNext
<1> QED
  BY <1>5, <1>7, <1>12 DEF wrong

\* The alphabet has 32 characters, each of them once.
LEMMA AlphabetFacts ==
    /\ Len(codeAlphabet) = 32
    /\ \A i \in 1 .. 32 : codeAlphabet[i] \in Range(codeAlphabet)
    /\ \A i, j \in 1 .. 32 : codeAlphabet[i] = codeAlphabet[j] => i = j
    /\ \A character \in Range(codeAlphabet) : \E i \in 1 .. 32 : codeAlphabet[i] = character
<1>1. Len(codeAlphabet) = 32
  BY DEF codeAlphabet
<1>2. DOMAIN codeAlphabet = 1 .. 32
  BY DEF codeAlphabet
<1>3. \A i, j \in 1 .. 32 : codeAlphabet[i] = codeAlphabet[j] => i = j
  BY SMTT(60) DEF codeAlphabet
<1> QED
  BY <1>1, <1>2, <1>3 DEF Range

\* A character that was drawn is one of the alphabet.
LEMMA CharacterInAlphabet ==
    ASSUME NEW byte \in Byte
    PROVE  CharacterOf(byte) \in Range(codeAlphabet)
<1>1. byte \in Nat /\ (byte % 32) + 1 \in 1 .. 32
  BY DEF Byte
<1>2. CharacterOf(byte) = codeAlphabet[(byte % 32) + 1]
  BY AlphabetFacts DEF CharacterOf
<1> QED
  BY <1>1, <1>2, AlphabetFacts

\* Whatever bytes are drawn, the code that is made of them has the shape that a
\* login asks for, and any input that types it from the card is normalised to that
\* very code.
THEOREM CodesAreFound ==
    ASSUME NEW random \in [1 .. codeLength -> Byte], NEW S, NEW input \in Seq(S)
    PROVE  ReadBack(random, input)
<1> DEFINE drawn == GenerateCode(random)
<1>1. Len(drawn) = 6 /\ DOMAIN drawn = 1 .. 6 /\ codeLength = 6
  BY DEF GenerateCode, codeLength
<1>2. \A i \in 1 .. 6 : drawn[i] \in Range(codeAlphabet)
  BY CharacterInAlphabet, <1>1 DEF GenerateCode
<1> HIDE DEF drawn
<1>3. ValidateCode(drawn)
  BY <1>1, <1>2 DEF ValidateCode, Range
<1>4. ASSUME TypedFor(input, drawn) PROVE NormalizeCode(input) = drawn
  <2>1. \A i \in 1 .. Len(drawn) : drawn[i] \notin DOMAIN Upper
    BY <1>1, <1>2, LoginCodeAssumption
  <2>2. Copied(NormalizeCode(input), input, drawn, Len(input))
    BY <1>1, <1>4, <2>1, TypedIsCopied
  <2>3. Place(input, Len(input)) = 6
    BY <1>1, <1>4 DEF TypedFor
  <2> DEFINE text == NormalizeCode(input)
             C == {drawn[i] : i \in 1 .. Len(drawn)}
  <2>4. text \in Seq(C) /\ Len(text) = 6 /\ \A i \in 1 .. 6 : text[i] = drawn[i]
    BY <2>2, <2>3 DEF Copied
  <2>5. drawn = [i \in 1 .. 6 |-> drawn[i]]
    <3>1. drawn = [i \in 1 .. 6 |-> CharacterOf(random[i])]
      BY <1>1 DEF drawn, GenerateCode
    <3> QED
      BY <3>1
  <2> HIDE DEF text, C
  <2>6. text = [i \in 1 .. 6 |-> text[i]]
    BY <2>4
  <2> QED
    BY <2>4, <2>5, <2>6 DEF text
<1> QED
  BY <1>3, <1>4 DEF ReadBack, drawn

\* The bytes that draw a character are those with its place as their remainder.
LEMMA BytesOfCharacter ==
    ASSUME NEW i \in 1 .. 32
    PROVE  {byte \in Byte : CharacterOf(byte) = codeAlphabet[i]}
           = {byte \in Byte : byte % 32 = i - 1}
<1> SUFFICES ASSUME NEW byte \in Byte
             PROVE  CharacterOf(byte) = codeAlphabet[i] <=> byte % 32 = i - 1
  OBVIOUS
<1>1. byte \in Nat /\ (byte % 32) + 1 \in 1 .. 32 /\ byte % 32 \in 0 .. 31
  BY DEF Byte
<1>2. CharacterOf(byte) = codeAlphabet[(byte % 32) + 1]
  BY AlphabetFacts DEF CharacterOf
<1>3. codeAlphabet[(byte % 32) + 1] = codeAlphabet[i] => (byte % 32) + 1 = i
  BY <1>1, AlphabetFacts
<1> QED
  BY <1>1, <1>2, <1>3

\* Any two remainders have as many bytes.
LEMMA RemaindersAreEven ==
    ASSUME NEW r \in 0 .. 31, NEW s \in 0 .. 31
    PROVE  /\ IsFiniteSet({byte \in Byte : byte % 32 = r})
           /\ Cardinality({byte \in Byte : byte % 32 = r})
              <= Cardinality({byte \in Byte : byte % 32 = s})
<1> DEFINE from == {byte \in Byte : byte % 32 = r}
           into == {byte \in Byte : byte % 32 = s}
           move == [byte \in from |-> (byte - r) + s]
<1>1. IsFiniteSet(Byte)
  <2>1. \A n \in Int : IsFiniteSet(0 .. n)
    BY FS_Interval
  <2>2. 255 \in Int
    OBVIOUS
  <2> QED
    BY <2>1, <2>2 DEF Byte
<1>2. IsFiniteSet(from) /\ IsFiniteSet(into)
  BY <1>1, FS_Subset
<1>3. ASSUME NEW byte \in from PROVE (byte - r) + s \in into
  <2>1. byte \in 0 .. 255 /\ byte % 32 = r
    BY DEF Byte
  <2>2. PICK q \in 0 .. 7 : byte = 32 * q + r
    <3> DEFINE q == byte \div 32
    <3>1. byte = 32 * q + r /\ q \in 0 .. 7
      BY <2>1
    <3> QED
      BY <3>1
  <2>3. (byte - r) + s = 32 * q + s /\ (byte - r) + s \in 0 .. 255
    BY <2>2
  <2>4. (32 * q + s) % 32 = s
    BY <2>2
  <2> QED
    BY <2>3, <2>4 DEF Byte
<1>4. \A one, other \in from : move[one] = move[other] => one = other
  BY DEF Byte
<1>5. move \in Injection(from, into)
  <2>1. move \in [from -> into]
    BY <1>3
  <2> HIDE DEF from, into
  <2> QED
    BY <2>1, <1>4 DEF Injection, IsInjective
<1> HIDE DEF from, into, move
<1>6. Cardinality(from) <= Cardinality(into)
  BY <1>2, <1>5, FS_Injection
<1> QED
  BY <1>2, <1>6 DEF from, into

\* GenerateCode takes a byte modulo the length of the alphabet, and still every
\* character is as likely as any other.
THEOREM CodesAreEvenlyDrawn == EvenlyDrawn
<1> SUFFICES ASSUME NEW character \in Range(codeAlphabet), NEW other \in Range(codeAlphabet)
             PROVE  Chances(character) = Chances(other)
  BY DEF EvenlyDrawn
<1>1. PICK i \in 1 .. 32 : codeAlphabet[i] = character
  BY AlphabetFacts
<1>2. PICK j \in 1 .. 32 : codeAlphabet[j] = other
  BY AlphabetFacts
<1> DEFINE r == i - 1
           s == j - 1
           ofR == {byte \in Byte : byte % 32 = r}
           ofS == {byte \in Byte : byte % 32 = s}
<1>3. Chances(character) = Cardinality(ofR) /\ Chances(other) = Cardinality(ofS)
  BY <1>1, <1>2, BytesOfCharacter DEF Chances
<1>4. r \in 0 .. 31 /\ s \in 0 .. 31
  OBVIOUS
<1> HIDE DEF r, s
<1>5. /\ IsFiniteSet(ofR) /\ IsFiniteSet(ofS)
      /\ Cardinality(ofR) <= Cardinality(ofS) /\ Cardinality(ofS) <= Cardinality(ofR)
  BY <1>4, RemaindersAreEven
<1>6. Cardinality(ofR) \in Nat /\ Cardinality(ofS) \in Nat
  BY <1>5, FS_CardinalityType
<1> QED
  BY <1>3, <1>5, <1>6

(***************************************************************************)
(* The questions.  Whatever is asked is answered rightly, so the run's     *)
(* properties hold of any set of questions.                                *)
(***************************************************************************)
\* The question stays what it was.
LEMMA AskedOnce == Spec => [](question \in Questions)
<1>1. Init => question \in Questions
  BY DEF Init
<1>2. question \in Questions /\ [Next]_question => (question \in Questions)'
  BY DEF Next
<1> QED
  BY <1>1, <1>2, PTL DEF Spec

\* What a question is about says what it holds.
LEMMA QuestionFacts ==
    ASSUME question \in Questions
    PROVE  /\ question.about = "members" => AboutMembers(question)
           /\ question.about = "address" => AboutAddress(question)
           /\ question.about = "left" => AboutLeft(question)
           /\ question.about = "code" => AboutCode(question)
           /\ question.about = "assign" => AboutAssigning(question)
  BY QuestionsAssumption
     DEF AboutMembers, AboutAddress, AboutLeft, AboutCode, AboutAssigning

\* Matching loses no answer and invents none, whatever is submitted for whatever
\* household (matchSubmissionToMembers).
THEOREM MatchesAreExact == Spec => []MatchIsExact
<1>1. question \in Questions => MatchIsExact
  <2> SUFFICES ASSUME question \in Questions, question.about = "members"
               PROVE  ExactMatch(question.submitted, question.members)
    BY DEF MatchIsExact
  <2>1. AboutMembers(question)
    BY QuestionFacts
  <2>2. /\ question.submitted \in Seq([id : Ids, answer : Replies])
        /\ question.members \in Seq(Ids)
        /\ \A i, j \in DOMAIN question.members :
              question.members[i] = question.members[j] => i = j
    BY <2>1 DEF AboutMembers, IsInjective
  <2> QED
    BY <2>2, MatchingIsExact
<1> QED
  BY <1>1, AskedOnce, PTL

\* A request is its client's, whatever it brings along and however it comes, and
\* what is left of an entry that stops the search has no say (resolveClientIP).
THEOREM RequestsAreAttributed == Spec => []AttributedToClient
<1>1. question \in Questions => AttributedToClient
  <2> SUFFICES ASSUME question \in Questions PROVE AttributedToClient
    OBVIOUS
  <2>1. ASSUME question.about = "address"
        PROVE  AttributedTo(question.header, question.client, question.route)
    <3>1. AboutAddress(question)
      BY <2>1, QuestionFacts
    <3> QED
      BY <3>1, ClientsAreAttributed DEF AboutAddress
  <2>2. ASSUME question.about = "left"
        PROVE  LeftHasNoSay(question.peer, question.left, question.header)
    <3>1. AboutLeft(question)
      BY <2>2, QuestionFacts
    <3> QED
      BY <3>1, LeftIsIgnored DEF AboutLeft
  <2> QED
    BY <2>1, <2>2 DEF AttributedToClient
<1> QED
  BY <1>1, AskedOnce, PTL

\* A drawn code is found again however it is typed, and the drawing favours no
\* character (GenerateCode, NormalizeCode, ValidateCode).
THEOREM CodesAlwaysReadBack == Spec => []CodesAreReadBack
<1>1. question \in Questions => CodesAreReadBack
  <2> SUFFICES ASSUME question \in Questions, question.about = "code"
               PROVE  ReadBack(question.random, question.input)
    BY CodesAreEvenlyDrawn DEF CodesAreReadBack
  <2>1. AboutCode(question)
    BY QuestionFacts
  <2> QED
    BY <2>1, CodesAreFound DEF AboutCode
<1> QED
  BY <1>1, AskedOnce, PTL

\* Only a collision is tried again, five times (withGeneratedCode).
THEOREM CollisionsAlwaysRetried == Spec => []CollisionsAreRetried
<1>1. question \in Questions => CollisionsAreRetried
  <2> SUFFICES ASSUME question \in Questions, question.about = "assign"
               PROVE  CollisionsRetried(question.exists, question.others, question.generated)
    BY DEF CollisionsAreRetried
  <2>1. question.exists \in BOOLEAN
    BY QuestionFacts DEF AboutAssigning
  <2> QED
    BY <2>1, CollidingCodesAreRetried
<1> QED
  BY <1>1, AskedOnce, PTL
=============================================================================
