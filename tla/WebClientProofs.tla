-------------------------- MODULE WebClientProofs --------------------------
(***************************************************************************)
(* Theorems about WebClient, for any households, scopes and numbers of     *)
(* guests, logins, calls and disturbances.                                 *)
(*                                                                         *)
(* The invariant is that of the types, with one turn of the screw: what    *)
(* anybody is said to do, on the server, in the cache, in the draft and on *)
(* the way, was chosen by somebody or is still open (Sayable).             *)
(***************************************************************************)
EXTENDS WebClient, FiniteSetTheorems, WellFoundedInduction, TLAPS

Guests  == 1 .. MaxGuests
Sayable == Scopes \cup {"nil"}
Codes   == {"none", "ok", "unauthenticated", "rsvp_closed", "member_set_mismatch",
            "validation_failed", "plus_one_not_allowed", "internal", "not_found", "network"}

Sheets(ids, values) == UNION {[some -> values] : some \in SUBSET ids}

Entry        == [id : Guests, attending : Sayable, child : BOOLEAN, aged : BOOLEAN]
Asked        == [id : Guests, attending : Scopes]
AnswerType   == [household : Households \cup {0}, members : Seq(Entry), half : Half,
                 submitted : BOOLEAN, editable : BOOLEAN, canAdd : BOOLEAN]
DraftType    == [half : Half, members : Sheets(Guests, Sayable), ages : SUBSET Guests]
FormType     == [mounted : BOOLEAN, draft : DraftType, seeded : Seq(Guests), summary : BOOLEAN,
                 error : Codes, at : 0 .. MaxGuests, closedWhileOpen : BOOLEAN]
RequestType  == [half : Half, ages : SUBSET Guests, members : Seq(Asked)]
ResponseType == [code : Codes, answer : AnswerType, guest : 0 .. MaxGuests]
Stages       == {"none", "sent", "served", "settling"}
CallType     == [stage : Stages, session : Nat, request : RequestType,
                 guest : 0 .. MaxGuests, response : ResponseType, ours : BOOLEAN]
StoredType   == [members : Sheets(Guests, Sayable), children : SUBSET Guests, ages : SUBSET Guests,
                 half : Half, submitted : BOOLEAN]
SessionType  == [household : Households, live : BOOLEAN]

(***************************************************************************)
(* The invariant.                                                          *)
(***************************************************************************)
\* An age is a child's, and a child a member.
AgesOK(row) == row.ages \subseteq row.children /\ row.children \subseteq DOMAIN row.members

\* A household is among its members, nobody has an id that was not given, and
\* ages are children's.
RowsOK(rows, given) ==
    /\ rows \in [Households -> StoredType]
    /\ given \in Nat /\ given <= MaxGuests
    /\ \A h \in Households : /\ h \in DOMAIN rows[h].members
                             /\ DOMAIN rows[h].members \subseteq 1 .. given
                             /\ AgesOK(rows[h])

SessionsOK(list) == list \in Seq(SessionType) /\ Len(list) <= MaxSessions

\* A mounted form has a card for each member of the cached answer.
FormOK(f, who, shown) ==
    /\ f \in FormType
    /\ f.mounted => /\ who # 0 /\ f.seeded = Ids(shown)
                    /\ DOMAIN f.draft.members = Range(Ids(shown))
                    /\ f.draft.ages \subseteq Range(Ids(shown))

\* A call under way has a session to be served with, and the companion it is
\* about is nobody invited.
CallOK(kind, call, logins) ==
    /\ call \in CallType
    /\ call.stage = "sent" => call.session \in 1 .. logins
    /\ call.stage = "sent" /\ kind = "remove" => call.guest \in Guests \ Households
    /\ call.stage = "served" /\ kind = "add" /\ call.response.code = "ok" =>
          call.response.guest \in Guests

ServerOK == RowsOK(stored, guests) /\ SessionsOK(sessions) /\ closed \in BOOLEAN

ClientOK ==
    /\ me \in Households \cup {0} /\ (me # 0 => Len(sessions) > 0)
    /\ cache \in AnswerType
    /\ FormOK(form, me, cache)

CallsOK ==
    /\ DOMAIN calls = Kinds /\ calls = [kind \in Kinds |-> calls[kind]]
    /\ \A kind \in Kinds : CallOK(kind, calls[kind], Len(sessions))

IInv == ServerOK /\ ClientOK /\ CallsOK /\ disturbed \in 0 .. MaxDisturbances

(***************************************************************************)
(* Numbers.                                                                *)
(***************************************************************************)
\* The constants as the provers need them.
LEMMA Constants ==
    /\ MaxGuests \in Nat /\ MaxSessions \in Nat /\ MaxDisturbances \in Nat
    /\ Households \subseteq Guests
    /\ \A start \in Starts : /\ start.children \subseteq Households
                            /\ start.guests \in Cardinality(Households) .. MaxGuests
    /\ Households = 1 .. Cardinality(Households)
    /\ Cardinality(Households) \in Nat /\ Cardinality(Households) <= MaxGuests
    /\ Scopes \subseteq AllScopes /\ "nil" \notin Scopes
    /\ Directions \subseteq {"needed", "offered"} /\ 0 \notin Households
    /\ Guests \subseteq Nat
<1>1. /\ MaxGuests \in Nat /\ MaxSessions \in Nat /\ MaxDisturbances \in Nat
      /\ Households = 1 .. Cardinality(Households)
      /\ Cardinality(Households) \in 1 .. MaxGuests
      /\ Scopes \subseteq AllScopes /\ Directions \subseteq {"needed", "offered"}
      /\ Starts \subseteq [children : SUBSET Households,
                           guests : Cardinality(Households) .. MaxGuests]
  BY WebClientAssumption
<1>2. Households \subseteq Guests /\ 0 \notin Households
  <2> SUFFICES ASSUME NEW h \in Households PROVE h \in Guests /\ h # 0
    OBVIOUS
  <2>1. h \in 1 .. Cardinality(Households)
    BY <1>1
  <2> QED
    BY <1>1, <2>1 DEF Guests
<1> QED
  BY <1>1, <1>2 DEF AllScopes, Guests

\* A set of numbers has a least one.
LEMMA LeastNumber ==
    ASSUME NEW T, T \subseteq Nat, T # {}
    PROVE  \E m \in T : \A n \in T : m <= n
<1> DEFINE Smaller  == StrictSubsetOrdering(Nat)
           Initials == {0 .. n : n \in T}
<1>1. IsWellFoundedOn(Smaller, FiniteSubsetsOf(Nat))
  BY FS_StrictSubsetOrderingWellFounded
<1>2. Initials \subseteq FiniteSubsetsOf(Nat)
  <2> SUFFICES ASSUME NEW n \in T PROVE 0 .. n \in FiniteSubsetsOf(Nat)
    OBVIOUS
  <2>1. n \in Nat /\ IsFiniteSet(0 .. n) /\ 0 .. n \subseteq Nat
    BY FS_Interval
  <2> QED
    BY <2>1 DEF FiniteSubsetsOf
<1>3. Initials # {}
  OBVIOUS
<1>4. PICK initial \in Initials : \A other \in Initials : ~(<<other, initial>> \in Smaller)
  <2> HIDE DEF Initials, Smaller
  <2> QED
    BY <1>1, <1>2, <1>3, WFMin, Zenon
<1>5. PICK m \in T : initial = 0 .. m
  OBVIOUS
<1>6. ASSUME NEW n \in T, n < m PROVE FALSE
  <2>1. /\ 0 .. n \subseteq 0 .. m /\ m \in 0 .. m /\ m \notin 0 .. n
        /\ 0 .. n \subseteq Nat /\ 0 .. m \subseteq Nat
    BY <1>6
  <2>2. <<0 .. n, 0 .. m>> \in Smaller
    BY <2>1 DEF StrictSubsetOrdering
  <2> QED
    BY <1>4, <1>5, <2>2
<1> QED
  BY <1>6

\* A set of numbers up to some number has a greatest one.
LEMMA GreatestNumber ==
    ASSUME NEW bound \in Nat, NEW T, T \subseteq 0 .. bound, T # {}
    PROVE  \E m \in T : \A n \in T : n <= m
<1> DEFINE turned == {bound - n : n \in T}
<1>1. turned \subseteq Nat /\ turned # {}
  OBVIOUS
<1>2. PICK least \in turned : \A n \in turned : least <= n
  <2> HIDE DEF turned
  <2> QED
    BY <1>1, LeastNumber
<1>3. PICK m \in T : least = bound - m
  OBVIOUS
<1>4. ASSUME NEW n \in T PROVE n <= m
  <2>1. least <= bound - n /\ n \in 0 .. bound /\ m \in 0 .. bound
    BY <1>2
  <2> QED
    BY <1>3, <2>1
<1> QED
  BY <1>4

\* How many there are up to some number, in a set of numbers.
UpTo(n, ids) == {other \in ids : other <= n}

\* The n-th least element exists.
LEMMA NthExists ==
    ASSUME NEW bound \in Nat, NEW ids, ids \subseteq 1 .. bound,
           NEW i \in 1 .. Cardinality(ids)
    PROVE  Nth(i, ids) \in ids
<1> DEFINE rank(n) == Cardinality(UpTo(n, ids))
           enough == {n \in ids : rank(n) >= i}
<1>1. IsFiniteSet(ids) /\ ids \subseteq Nat
  <2>1. IsFiniteSet(1 .. bound)
    BY FS_Interval
  <2>2. IsFiniteSet(ids)
    BY <2>1, FS_Subset
  <2> QED
    BY <2>2
<1>2. ASSUME NEW n \in Nat
      PROVE  IsFiniteSet(UpTo(n, ids)) /\ rank(n) \in Nat
  <2>1. UpTo(n, ids) \subseteq ids
    BY DEF UpTo
  <2> QED
    BY <1>1, <2>1, FS_Subset, FS_CardinalityType
<1>3. Cardinality(ids) \in Nat
  BY <1>1, FS_CardinalityType
<1>4. enough # {}
  <2>1. ids # {}
    BY <1>3, FS_EmptySet
  <2>2. PICK most \in ids : \A n \in ids : n <= most
    <3>1. ids \subseteq 0 .. bound
      OBVIOUS
    <3> QED
      BY <2>1, <3>1, GreatestNumber
  <2>3. UpTo(most, ids) = ids
    BY <2>2 DEF UpTo
  <2> QED
    BY <1>3, <2>2, <2>3
<1>5. PICK m \in enough : \A n \in enough : m <= n
  BY <1>1, <1>4, LeastNumber
<1>6. rank(m) = i
  <2> SUFFICES ASSUME rank(m) > i PROVE FALSE
    BY <1>1, <1>2, <1>3, <1>5
  <2> DEFINE before == UpTo(m, ids) \ {m}
  <2>1. m \in ids /\ m \in Nat /\ m \in UpTo(m, ids)
    BY <1>1, <1>5 DEF UpTo
  <2>2. IsFiniteSet(before) /\ Cardinality(before) = rank(m) - 1
    BY <1>2, <2>1, FS_RemoveElement
  <2>3. before # {}
    BY <1>2, <1>3, <2>1, <2>2, FS_EmptySet
  <2>4. PICK last \in before : \A n \in before : n <= last
    <3>1. before \subseteq ids
      BY DEF UpTo
    <3>2. ids \subseteq 0 .. bound
      OBVIOUS
    <3> HIDE DEF before
    <3> QED
      BY <2>3, <3>1, <3>2, GreatestNumber
  <2>5. last \in ids /\ last \in Nat /\ last < m
    BY <1>1, <2>1, <2>4 DEF UpTo
  <2>6. UpTo(last, ids) = before
    <3>1. ASSUME NEW n \in UpTo(last, ids) PROVE n \in before
      BY <1>1, <2>1, <2>5, <3>1 DEF UpTo
    <3>2. ASSUME NEW n \in before PROVE n \in ids /\ n <= last
      BY <2>4, <3>2 DEF UpTo
    <3> HIDE DEF before
    <3> QED
      BY <3>1, <3>2 DEF UpTo
  <2>7. last \in enough
    BY <1>2, <1>3, <2>1, <2>2, <2>5, <2>6
  <2> QED
    BY <1>5, <2>1, <2>5, <2>7
<1>7. m \in ids
  BY <1>5
<1> HIDE DEF enough
<1> QED
  BY <1>6, <1>7 DEF Nth, UpTo

(***************************************************************************)
(* Answers, drafts and requests.                                           *)
(***************************************************************************)
\* A function on some of the ids.
LEMMA SheetType ==
    ASSUME NEW ids, NEW values, NEW f
    PROVE  f \in Sheets(ids, values) <=>
              /\ f = [x \in DOMAIN f |-> f[x]] /\ DOMAIN f \subseteq ids
              /\ \A x \in DOMAIN f : f[x] \in values
<1>1. ASSUME f \in Sheets(ids, values)
      PROVE  /\ f = [x \in DOMAIN f |-> f[x]] /\ DOMAIN f \subseteq ids
             /\ \A x \in DOMAIN f : f[x] \in values
  <2>1. PICK some \in SUBSET ids : f \in [some -> values]
    BY <1>1 DEF Sheets
  <2> QED
    BY <2>1
<1>2. ASSUME f = [x \in DOMAIN f |-> f[x]], DOMAIN f \subseteq ids,
             \A x \in DOMAIN f : f[x] \in values
      PROVE  f \in Sheets(ids, values)
  <2>1. f \in [DOMAIN f -> values] /\ DOMAIN f \in SUBSET ids
    BY <1>2
  <2> QED
    BY <2>1 DEF Sheets
<1> QED
  BY <1>1, <1>2

\* Whom an answer is about, and what it says of each.
LEMMA AnswerFacts ==
    ASSUME NEW answer \in AnswerType
    PROVE  /\ Ids(answer) \in Seq(Guests) /\ Range(Ids(answer)) \subseteq Guests
           /\ \A i \in DOMAIN answer.members : answer.members[i].id \in Range(Ids(answer))
           /\ \A id \in Range(Ids(answer)) : /\ MemberOf(answer, id) \in Entry
                                             /\ MemberOf(answer, id).id = id
<1> DEFINE list == answer.members
           ids  == Ids(answer)
<1>1. list \in Seq(Entry) /\ Len(list) \in Nat /\ DOMAIN list = 1 .. Len(list)
  BY DEF AnswerType
<1>2. \A i \in 1 .. Len(list) : list[i] \in Entry /\ list[i].id \in Guests
  <2>1. \A i \in 1 .. Len(list) : list[i] \in Entry
    BY <1>1
  <2>2. \A entry \in Entry : entry.id \in Guests
    BY DEF Entry
  <2> QED
    BY <2>1, <2>2
<1>3. ids = [i \in 1 .. Len(list) |-> list[i].id]
  BY <1>1 DEF Ids
<1>4. ids \in Seq(Guests) /\ DOMAIN ids = 1 .. Len(list)
  <2>1. ids \in [1 .. Len(list) -> Guests]
    BY <1>2, <1>3
  <2> QED
    BY <1>1, <2>1
<1>5. \A i \in 1 .. Len(list) : ids[i] = list[i].id
  BY <1>3
<1> HIDE DEF ids, list
<1>6. Range(ids) \subseteq Guests /\ \A i \in 1 .. Len(list) : list[i].id \in Range(ids)
  BY <1>2, <1>4, <1>5 DEF Range
<1>7. ASSUME NEW id \in Range(ids)
      PROVE  MemberOf(answer, id) \in Entry /\ MemberOf(answer, id).id = id
  <2> DEFINE at == {i \in 1 .. Len(list) : list[i].id = id}
  <2>1. at # {} /\ at \subseteq 0 .. Len(list)
    BY <1>1, <1>4, <1>5, <1>7 DEF Range
  <2>2. PICK last \in at : \A i \in at : i <= last
    <3> HIDE DEF at
    <3> QED
      BY <1>1, <2>1, GreatestNumber
  <2>3. Max(at) \in at
    BY <1>1, <2>2 DEF Max
  <2>4. SelectLastInSeq(list, LAMBDA m : m.id = id) = Max(at)
    BY <2>1 DEF SelectLastInSeq
  <2>5. MemberOf(answer, id) = list[Max(at)]
    BY <2>4 DEF MemberOf, list
  <2> QED
    BY <1>2, <2>3, <2>5
<1> QED
  BY <1>1, <1>4, <1>6, <1>7 DEF ids, list

\* A draft has a card for each member of the answer.
LEMMA DraftFacts ==
    ASSUME NEW answer \in AnswerType
    PROVE  /\ draftFrom(answer) \in DraftType
           /\ DOMAIN draftFrom(answer).members = Range(Ids(answer))
           /\ draftFrom(answer).ages \subseteq Range(Ids(answer))
<1> DEFINE ids   == Range(Ids(answer))
           cards == [id \in ids |-> MemberOf(answer, id).attending]
           aged  == {id \in ids : MemberOf(answer, id).aged}
<1>1. ids \subseteq Guests /\ \A id \in ids : MemberOf(answer, id).attending \in Sayable
  BY AnswerFacts DEF Entry
<1>2. draftFrom(answer) = [half |-> answer.half, members |-> cards, ages |-> aged]
  BY DEF draftFrom
<1>3. cards \in Sheets(Guests, Sayable) /\ DOMAIN cards = ids
  BY <1>1 DEF Sheets
<1>4. answer.half \in Half
  BY DEF AnswerType
<1>5. aged \in SUBSET Guests /\ aged \subseteq ids
  BY <1>1
<1> HIDE DEF ids, cards, aged
<1>6. /\ draftFrom(answer) \in DraftType /\ draftFrom(answer).members = cards
      /\ draftFrom(answer).ages = aged
  BY <1>2, <1>3, <1>4, <1>5 DEF DraftType
<1> QED
  BY <1>3, <1>5, <1>6 DEF ids

\* Seeded anew, a draft keeps what was typed and has the new answer's cards.
LEMMA ReseedFacts ==
    ASSUME NEW draft \in DraftType, NEW answer \in AnswerType
    PROVE  LET new == reseedDraft(draft, answer) IN
           /\ new \in DraftType /\ DOMAIN new.members = Range(Ids(answer))
           /\ new.half = draft.half /\ new.ages \subseteq Range(Ids(answer))
           /\ \A id \in Range(Ids(answer)) \cap DOMAIN draft.members :
                 /\ new.members[id] = draft.members[id]
                 /\ id \in new.ages <=> id \in draft.ages
<1> DEFINE ids   == Range(Ids(answer))
           cards == [id \in ids |-> IF id \in DOMAIN draft.members THEN draft.members[id]
                                    ELSE draftFrom(answer).members[id]]
           aged  == {id \in ids : IF id \in DOMAIN draft.members THEN id \in draft.ages
                                  ELSE id \in draftFrom(answer).ages}
           new   == reseedDraft(draft, answer)
<1>1. /\ draft.members \in Sheets(Guests, Sayable) /\ draft.half \in Half
      /\ draftFrom(answer).members \in Sheets(Guests, Sayable)
      /\ DOMAIN draftFrom(answer).members = ids
  BY DraftFacts DEF DraftType
<1>2. ids \subseteq Guests
  BY AnswerFacts
<1>3. \A id \in ids : cards[id] \in Sayable
  BY <1>1, SheetType
<1>4. cards \in Sheets(Guests, Sayable)
  BY <1>2, <1>3 DEF Sheets
<1>5. new = [draft EXCEPT !.members = cards, !.ages = aged]
  BY DEF reseedDraft
<1>6. DOMAIN cards = ids /\ \A id \in ids \cap DOMAIN draft.members : cards[id] = draft.members[id]
  OBVIOUS
<1>7. /\ aged \in SUBSET Guests /\ aged \subseteq ids
      /\ \A id \in ids \cap DOMAIN draft.members : id \in aged <=> id \in draft.ages
  BY <1>2
<1> HIDE DEF cards, aged, new, ids
<1>8. /\ new \in DraftType /\ new.members = cards /\ new.half = draft.half
      /\ new.ages = aged
  BY <1>1, <1>4, <1>5, <1>7 DEF DraftType
<1> QED
  BY <1>6, <1>7, <1>8 DEF new, ids

\* What is sent when nobody is missing was chosen by somebody.
LEMMA RequestFacts ==
    ASSUME NEW draft \in DraftType, NEW answer \in AnswerType,
           missingAnswers(draft, answer) = {}
    PROVE  toRequest(draft, answer) \in RequestType
<1> DEFINE list  == answer.members
           asked(id) == [id |-> id,
                         attending |-> IF id \in DOMAIN draft.members /\ draft.members[id] # "nil"
                                       THEN draft.members[id] ELSE "no"]
           members == [i \in DOMAIN list |-> asked(list[i].id)]
<1>1. /\ list \in Seq(Entry) /\ Len(list) \in Nat /\ DOMAIN list = 1 .. Len(list)
      /\ draft.half \in Half /\ draft.members \in Sheets(Guests, Sayable)
  BY DEF AnswerType, DraftType
<1>2. ASSUME NEW i \in DOMAIN list PROVE asked(list[i].id) \in Asked
  <2>1. list[i].id \in Range(Ids(answer)) /\ list[i].id \in Guests
    BY AnswerFacts
  <2>2. list[i].id \in DOMAIN draft.members /\ draft.members[list[i].id] # "nil"
    BY <2>1 DEF missingAnswers
  <2>3. draft.members[list[i].id] \in Scopes
    BY <1>1, <2>2, SheetType DEF Sayable
  <2> QED
    BY <2>1, <2>2, <2>3 DEF Asked
<1>3. members \in Seq(Asked)
  <2>1. members \in [1 .. Len(list) -> Asked]
    BY <1>1, <1>2
  <2> QED
    BY <1>1, <2>1
<1>4. toRequest(draft, answer) =
        [half |-> draft.half, ages |-> draft.ages \cap Range(Ids(answer)), members |-> members]
  BY DEF toRequest
<1>5. draft.ages \cap Range(Ids(answer)) \in SUBSET Guests
  BY DEF DraftType
<1> HIDE DEF members
<1> QED
  BY <1>1, <1>3, <1>4, <1>5 DEF RequestType

\* To be in a set, or not, is a truth value.
LEMMA MembershipIsBoolean ==
    ASSUME NEW x, NEW S
    PROVE  (x \in S) \in BOOLEAN
  BY SMT

\* What the server shows of a row.
LEMMA ResponseFacts ==
    ASSUME NEW h \in Households, NEW row \in StoredType, closed \in BOOLEAN
    PROVE  rsvpResponse(h, row) \in AnswerType
<1> DEFINE ids == DOMAIN row.members
           entry(i) == [id |-> Nth(i, ids), attending |-> row.members[Nth(i, ids)],
                        child |-> Nth(i, ids) \in row.children, aged |-> Nth(i, ids) \in row.ages]
           list == [i \in 1 .. Cardinality(ids) |-> entry(i)]
<1>1. /\ row.members \in Sheets(Guests, Sayable) /\ row.half \in Half /\ row.submitted \in BOOLEAN
      /\ ids \subseteq 1 .. MaxGuests /\ MaxGuests \in Nat
  BY SheetType, Constants DEF StoredType, Guests
<1>2. Cardinality(ids) \in Nat
  <2>1. IsFiniteSet(1 .. MaxGuests)
    <3>1. MaxGuests \in Int /\ 1 \in Int
      BY Constants
    <3> QED
      BY <3>1, FS_Interval
  <2>2. IsFiniteSet(ids)
    BY <1>1, <2>1, FS_Subset
  <2> QED
    BY <2>2, FS_CardinalityType
<1>3. ASSUME NEW i \in 1 .. Cardinality(ids) PROVE entry(i) \in Entry
  <2>1. Nth(i, ids) \in ids
    BY <1>1, NthExists
  <2>2. Nth(i, ids) \in Guests /\ row.members[Nth(i, ids)] \in Sayable
    BY <1>1, <2>1, SheetType
  <2> DEFINE child == Nth(i, ids) \in row.children
             aged  == Nth(i, ids) \in row.ages
  <2>3. child \in BOOLEAN /\ aged \in BOOLEAN
    BY MembershipIsBoolean
  <2> HIDE DEF child, aged
  <2>4. [id |-> Nth(i, ids), attending |-> row.members[Nth(i, ids)], child |-> child, aged |-> aged]
            \in Entry
    BY <2>2, <2>3 DEF Entry
  <2> QED
    BY <2>4 DEF child, aged
<1>4. list \in Seq(Entry)
  <2>1. list \in [1 .. Cardinality(ids) -> Entry]
    BY <1>3
  <2> HIDE DEF list
  <2> QED
    BY <1>2, <2>1
<1>5. rsvpResponse(h, row) =
        [household |-> h, members |-> list, half |-> row.half, submitted |-> row.submitted,
         editable |-> ~closed, canAdd |-> Cardinality(ids) = 1]
  BY DEF rsvpResponse
<1>6. (~closed) \in BOOLEAN /\ (Cardinality(ids) = 1) \in BOOLEAN
  BY Zenon
<1> HIDE DEF list, ids
<1> QED
  BY <1>1, <1>4, <1>5, <1>6 DEF AnswerType

\* What a submission says of each id in it.
LEMMA ScopesFacts ==
    ASSUME NEW request \in RequestType
    PROVE  /\ ScopesIn(request) \in Sheets(Guests, Scopes)
           /\ DOMAIN ScopesIn(request) = {member.id : member \in Range(request.members)}
<1> DEFINE given == Range(request.members)
           ids   == {member.id : member \in given}
           of(id) == CHOOSE member \in given : member.id = id
<1>1. given \subseteq Asked
  BY DEF RequestType, Range
<1>2. ASSUME NEW id \in ids PROVE id \in Guests /\ of(id).attending \in Scopes
  <2>1. PICK member \in given : member.id = id
    BY <1>2
  <2>2. of(id) \in given /\ of(id).id = id
    BY <2>1
  <2>3. \A one \in Asked : one.id \in Guests /\ one.attending \in Scopes
    BY DEF Asked
  <2> QED
    BY <1>1, <2>2, <2>3
<1>3. ScopesIn(request) = [id \in ids |-> of(id).attending]
  BY DEF ScopesIn
<1> HIDE DEF ids, of
<1>4. ScopesIn(request) \in Sheets(Guests, Scopes) /\ DOMAIN ScopesIn(request) = ids
  BY <1>2, <1>3 DEF Sheets
<1> QED
  BY <1>4 DEF ids

\* Whoever may be said to come may be said anything a form says.
LEMMA ScopesAreSayable ==
    ASSUME NEW f \in Sheets(Guests, Scopes)
    PROVE  f \in Sheets(Guests, Sayable)
  BY SheetType DEF Sayable

\* A normalised answer is a row, and nobody's kind changes.
LEMMA NormalizedFacts ==
    ASSUME NEW row \in StoredType, NEW scopes \in Sheets(Guests, Sayable),
           NEW ages \in SUBSET Guests, NEW half \in Half
    PROVE  LET new == Normalized(row, scopes, ages, half) IN
           /\ new \in StoredType /\ new.members = scopes
           /\ new.ages = ages /\ new.children = row.children
<1> DEFINE kept == IF "both" \in Range(scopes) THEN half ELSE "none"
           new  == Normalized(row, scopes, ages, half)
<1>1. kept \in Half
  BY DEF Half
<1>2. new = [row EXCEPT !.submitted = TRUE, !.members = scopes, !.ages = ages, !.half = kept]
  BY DEF Normalized
<1> HIDE DEF kept, new
<1>3. /\ new \in StoredType /\ new.members = scopes
      /\ new.ages = ages /\ new.children = row.children
  BY <1>1, <1>2 DEF StoredType
<1> QED
  BY <1>3 DEF new

(***************************************************************************)
(* Forms.                                                                  *)
(***************************************************************************)
\* There is nothing in an answer before the first one.
LEMMA NoAnswerType == NoAnswer \in AnswerType
<1>1. <<>> \in Seq(Entry) /\ "none" \in Half
  BY DEF Half
<1> QED
  BY <1>1 DEF NoAnswer, AnswerType

\* A form that is not mounted promises nothing.
LEMMA NoFormOK ==
    ASSUME NEW who, NEW shown
    PROVE  FormOK(NoForm, who, shown) /\ ~NoForm.mounted
<1>1. draftFrom(NoAnswer) \in DraftType
  BY NoAnswerType, DraftFacts
<1>2. <<>> \in Seq(Guests) /\ "none" \in Codes /\ 0 \in 0 .. MaxGuests
  BY Constants DEF Codes
<1>3. NoForm \in FormType /\ ~NoForm.mounted
  BY <1>1, <1>2 DEF NoForm, FormType
<1> QED
  BY <1>3 DEF FormOK

\* A form's first render has the cached answer's cards.
LEMMA MountedOK ==
    ASSUME NEW who, who # 0, NEW answer \in AnswerType
    PROVE  FormOK(Mounted(answer), who, answer)
<1>1. NoForm \in FormType
  BY NoFormOK DEF FormOK
<1>2. /\ draftFrom(answer) \in DraftType
      /\ DOMAIN draftFrom(answer).members = Range(Ids(answer))
      /\ draftFrom(answer).ages \subseteq Range(Ids(answer))
      /\ Ids(answer) \in Seq(Guests)
  BY DraftFacts, AnswerFacts
<1>3. answer.submitted \in BOOLEAN
  BY DEF AnswerType
<1>4. /\ Mounted(answer) \in FormType /\ Mounted(answer).draft = draftFrom(answer)
      /\ Mounted(answer).seeded = Ids(answer)
  BY <1>1, <1>2, <1>3 DEF Mounted, FormType
<1> QED
  BY <1>2, <1>4 DEF FormOK

\* What is typed in a form stays when another takes its place.
Keeps(old, new, ids) ==
    /\ new.draft.half = old.draft.half
    /\ \A id \in ids : /\ new.draft.members[id] = old.draft.members[id]
                       /\ id \in new.draft.ages <=> id \in old.draft.ages

\* A render after the answer has changed has the new answer's cards, and keeps
\* what was typed.
LEMMA RenderedOK ==
    ASSUME NEW answer \in AnswerType, FormOK(form, me, cache)
    PROVE  /\ FormOK(Rendered(answer), me, answer)
           /\ Rendered(answer).mounted = form.mounted
           /\ form.mounted =>
                 Keeps(form, Rendered(answer), Range(Ids(cache)) \cap Range(Ids(answer)))
<1>1. form \in FormType /\ form.draft \in DraftType
  BY DEF FormOK, FormType
<1>2. CASE form.mounted /\ form.seeded # Ids(answer)
  <2> DEFINE draft == reseedDraft(form.draft, answer)
  <2>1. /\ draft \in DraftType /\ DOMAIN draft.members = Range(Ids(answer))
        /\ draft.half = form.draft.half /\ draft.ages \subseteq Range(Ids(answer))
        /\ \A id \in Range(Ids(answer)) \cap DOMAIN form.draft.members :
              /\ draft.members[id] = form.draft.members[id]
              /\ id \in draft.ages <=> id \in form.draft.ages
    BY <1>1, ReseedFacts
  <2>2. Ids(answer) \in Seq(Guests) /\ "none" \in Codes /\ 0 \in 0 .. MaxGuests
    BY AnswerFacts, Constants DEF Codes
  <2>3. Rendered(answer) =
          [[form EXCEPT !.seeded = Ids(answer), !.draft = draft] EXCEPT !.error = "none", !.at = 0]
    BY <1>1, <1>2 DEF Rendered, Told, FormType
  <2> HIDE DEF draft
  <2>4. /\ Rendered(answer) \in FormType /\ Rendered(answer).mounted = form.mounted
        /\ Rendered(answer).draft = draft /\ Rendered(answer).seeded = Ids(answer)
    BY <1>1, <2>1, <2>2, <2>3 DEF FormType
  <2>5. me # 0 /\ DOMAIN form.draft.members = Range(Ids(cache))
    BY <1>2 DEF FormOK
  <2> QED
    BY <1>2, <2>1, <2>4, <2>5 DEF FormOK, Keeps
<1>3. CASE form.mounted /\ form.seeded = Ids(answer)
  <2>1. Rendered(answer) = form
    BY <1>3 DEF Rendered
  <2> QED
    BY <1>3, <2>1 DEF FormOK, Keeps
<1>4. CASE ~form.mounted
  <2>1. Rendered(answer) = form
    BY <1>4 DEF Rendered
  <2> QED
    BY <1>4, <2>1 DEF FormOK
<1> QED
  BY <1>2, <1>3, <1>4

\* What is shown beside the draft may change.
LEMMA BesideOK ==
    ASSUME NEW f, NEW who, NEW shown, FormOK(f, who, shown),
           NEW g, \/ \E code \in Codes, guest \in 0 .. MaxGuests : g = Told(f, code, guest)
                  \/ \E on \in BOOLEAN : g = [f EXCEPT !.summary = on]
                  \/ g = [f EXCEPT !.closedWhileOpen = TRUE]
    PROVE  FormOK(g, who, shown) /\ g.mounted = f.mounted /\ g.draft = f.draft
<1>1. f \in FormType
  BY DEF FormOK
<1>2. /\ g \in FormType /\ g.mounted = f.mounted /\ g.draft = f.draft /\ g.seeded = f.seeded
  <2>1. ASSUME NEW code \in Codes, NEW guest \in 0 .. MaxGuests, g = Told(f, code, guest)
        PROVE  g \in FormType /\ g.mounted = f.mounted /\ g.draft = f.draft /\ g.seeded = f.seeded
    <3>1. g = [f EXCEPT !.error = code, !.at = guest]
      BY <2>1, Zenon DEF Told
    <3> QED
      BY <1>1, <3>1 DEF FormType
  <2>2. ASSUME NEW on \in BOOLEAN, g = [f EXCEPT !.summary = on]
        PROVE  g \in FormType /\ g.mounted = f.mounted /\ g.draft = f.draft /\ g.seeded = f.seeded
    BY <1>1, <2>2 DEF FormType
  <2>3. ASSUME g = [f EXCEPT !.closedWhileOpen = TRUE]
        PROVE  g \in FormType /\ g.mounted = f.mounted /\ g.draft = f.draft /\ g.seeded = f.seeded
    BY <1>1, <2>3 DEF FormType
  <2> QED
    BY <2>1, <2>2, <2>3
<1> QED
  BY <1>2 DEF FormOK

\* What is typed has a card and is something a form says.
LEMMA DraftOK ==
    ASSUME NEW f, NEW who, NEW shown, FormOK(f, who, shown), NEW draft \in DraftType,
           DOMAIN draft.members = DOMAIN f.draft.members,
           f.mounted => draft.ages \subseteq DOMAIN draft.members
    PROVE  FormOK([f EXCEPT !.draft = draft], who, shown)
<1>1. f \in FormType
  BY DEF FormOK
<1> DEFINE g == [f EXCEPT !.draft = draft]
<1>2. /\ g \in FormType /\ g.mounted = f.mounted /\ g.draft = draft /\ g.seeded = f.seeded
  BY <1>1 DEF FormType
<1> HIDE DEF g
<1>3. FormOK(g, who, shown)
  BY <1>2 DEF FormOK
<1> QED
  BY <1>3 DEF g

(***************************************************************************)
(* Calls.                                                                  *)
(***************************************************************************)
\* Nothing is asked and nothing answered.
LEMMA NothingType == NoRequest \in RequestType /\ NoResponse \in ResponseType
<1>1. <<>> \in Seq(Asked) /\ "none" \in Half /\ "none" \in Codes /\ 0 \in 0 .. MaxGuests
  BY Constants DEF Half, Codes
<1>2. NoRequest \in RequestType
  BY <1>1 DEF NoRequest, RequestType
<1>3. NoResponse \in ResponseType
  BY <1>1, NoAnswerType DEF NoResponse, ResponseType
<1> QED
  BY <1>2, <1>3

\* A call that is not under way.
LEMMA IdleOK ==
    ASSUME NEW kind, NEW logins
    PROVE  CallOK(kind, Idle, logins) /\ Idle \in CallType
<1>1. 0 \in 0 .. MaxGuests /\ 0 \in Nat /\ "none" \in Stages
  BY Constants DEF Stages
<1>2. Idle \in CallType
  BY <1>1, NothingType DEF Idle, CallType
<1>3. Idle.stage = "none"
  BY DEF Idle
<1> QED
  BY <1>2, <1>3 DEF CallOK

\* A call that is sent has the cookie of the last login.
LEMMA SentOK ==
    ASSUME NEW kind, NEW request \in RequestType, NEW guest \in 0 .. MaxGuests,
           kind = "remove" => guest \in Guests \ Households,
           Len(sessions) \in Nat, Len(sessions) > 0
    PROVE  CallOK(kind, Sent(kind, request, guest), Len(sessions))
<1> DEFINE ours == kind \in {"save", "add"}
           call == Sent(kind, request, guest)
<1>0. (kind \in {"save", "add"}) \in BOOLEAN
  BY SMT
<1>1. ours \in BOOLEAN /\ "sent" \in Stages
  BY <1>0 DEF Stages
<1>2. call = [Idle EXCEPT !.stage = "sent", !.session = Len(sessions), !.request = request,
                          !.guest = guest, !.ours = ours]
  BY DEF Sent
<1>3. Idle \in CallType
  BY IdleOK
<1> HIDE DEF ours, call
<1>4. /\ call \in CallType /\ call.stage = "sent" /\ call.session = Len(sessions)
      /\ call.guest = guest
  BY <1>1, <1>2, <1>3 DEF CallType
<1>5. Len(sessions) \in 1 .. Len(sessions)
  OBVIOUS
<1> QED
  BY <1>4, <1>5 DEF CallOK, call

\* A refusal is a response.
LEMMA RefusedType ==
    ASSUME NEW code \in Codes
    PROVE  Refused(code) \in ResponseType /\ Refused(code).code = code
  BY NothingType DEF Refused, ResponseType

\* A call that is answered.
LEMMA AnsweredOK ==
    ASSUME CallsOK, NEW kind \in Kinds, NEW response \in ResponseType, NEW logins,
           kind = "add" /\ response.code = "ok" => response.guest \in Guests
    PROVE  CallOK(kind, Answered(kind, response), logins)
<1> DEFINE ours == calls[kind].ours
           call == Answered(kind, response)
<1>1. ours \in BOOLEAN /\ "served" \in Stages
  BY DEF CallsOK, CallOK, CallType, Stages
<1>2. call = [Idle EXCEPT !.stage = "served", !.response = response, !.ours = ours]
  BY DEF Answered
<1>3. Idle \in CallType
  BY IdleOK
<1> HIDE DEF ours, call
<1>4. call \in CallType /\ call.stage = "served" /\ call.response = response
  BY <1>1, <1>2, <1>3 DEF CallType
<1> QED
  BY <1>4 DEF CallOK, call

\* One call changes.
LEMMA OneCall ==
    ASSUME CallsOK, NEW kind \in Kinds, NEW call, CallOK(kind, call, Len(sessions)),
           calls' = [calls EXCEPT ![kind] = call], UNCHANGED sessions
    PROVE  CallsOK'
<1>1. /\ DOMAIN calls' = Kinds /\ calls' = [k \in Kinds |-> calls'[k]]
      /\ \A k \in Kinds : calls'[k] = IF k = kind THEN call ELSE calls[k]
  BY DEF CallsOK
<1>2. \A k \in Kinds : CallOK(k, calls'[k], Len(sessions))
  BY <1>1 DEF CallsOK
<1> QED
  BY <1>1, <1>2 DEF CallsOK

\* The calls of a form that is gone go on without it.
LEMMA AbandonedOK ==
    ASSUME CallsOK
    PROVE  /\ DOMAIN Abandoned = Kinds /\ Abandoned = [kind \in Kinds |-> Abandoned[kind]]
           /\ \A kind \in Kinds : CallOK(kind, Abandoned[kind], Len(sessions))
<1>1. DOMAIN Abandoned = Kinds /\ Abandoned = [kind \in Kinds |-> Abandoned[kind]]
  BY DEF Abandoned
<1>2. ASSUME NEW kind \in Kinds PROVE CallOK(kind, Abandoned[kind], Len(sessions))
  <2>1. Abandoned[kind] = [calls[kind] EXCEPT !.ours = FALSE]
    BY DEF Abandoned
  <2>2. calls[kind] \in CallType /\ CallOK(kind, calls[kind], Len(sessions))
    BY DEF CallsOK, CallOK
  <2> DEFINE old == calls[kind]
             new == Abandoned[kind]
  <2> HIDE DEF old, new
  <2>3. /\ new \in CallType /\ new.stage = old.stage /\ new.session = old.session
        /\ new.guest = old.guest /\ new.response = old.response
    BY <2>1, <2>2 DEF CallType, old, new
  <2> QED
    BY <2>2, <2>3 DEF CallOK, old, new
<1> QED
  BY <1>1, <1>2

(***************************************************************************)
(* What a step leaves alone.                                               *)
(***************************************************************************)
\* What was typed in a form that stays on screen stays as it is.
Kept == form.mounted /\ form'.mounted =>
            Keeps(form, form', Range(Ids(cache)) \cap Range(Ids(cache')))

\* The server is not touched.
LEMMA ServerStays ==
    ASSUME ServerOK, UNCHANGED server
    PROVE  ServerOK'
  BY DEF ServerOK, RowsOK, SessionsOK, server

\* The client is not touched.
LEMMA ClientStays ==
    ASSUME ClientOK, UNCHANGED <<sessions, me, cache, form>>
    PROVE  ClientOK' /\ Kept
  BY DEF ClientOK, FormOK, Kept, Keeps

\* The form changes beside its draft.
LEMMA BesideStep ==
    ASSUME ClientOK, UNCHANGED <<sessions, me, cache>>,
           FormOK(form', me, cache), form'.draft = form.draft
    PROVE  ClientOK' /\ Kept
<1>1. FormOK(form, me, cache)'
  BY DEF FormOK
<1>2. Kept
  BY DEF Kept, Keeps
<1> QED
  BY <1>1, <1>2 DEF ClientOK

\* The form goes.
LEMMA FormGoes ==
    ASSUME ClientOK, UNCHANGED <<sessions, cache>>, me' \in {me, 0}, form' = NoForm
    PROVE  ClientOK' /\ Kept
<1>1. FormOK(form', me', cache') /\ ~form'.mounted
  BY NoFormOK
<1>2. FormOK(form, me, cache)'
  BY <1>1 DEF FormOK
<1> QED
  BY <1>1, <1>2 DEF ClientOK, Kept

\* The calls are not touched.
LEMMA CallsStay ==
    ASSUME CallsOK, UNCHANGED <<sessions, calls>>
    PROVE  CallsOK'
  BY DEF CallsOK, CallOK

\* A call is sent.
LEMMA StartOK ==
    ASSUME CallsOK, ServerOK, NEW kind \in Kinds, NEW request \in RequestType,
           NEW guest \in 0 .. MaxGuests, kind = "remove" => guest \in Guests \ Households,
           Len(sessions) > 0, Start(kind, request, guest), UNCHANGED sessions
    PROVE  CallsOK'
<1>1. Len(sessions) \in Nat
  BY DEF ServerOK, SessionsOK
<1>2. CallOK(kind, Sent(kind, request, guest), Len(sessions))
  BY <1>1, SentOK
<1>3. calls' = [calls EXCEPT ![kind] = Sent(kind, request, guest)]
  BY DEF Start
<1> QED
  BY <1>2, <1>3, OneCall

\* A call is over.
LEMMA DoneOK ==
    ASSUME CallsOK, NEW kind \in Kinds, Done(kind), UNCHANGED sessions
    PROVE  CallsOK'
<1>1. CallOK(kind, Idle, Len(sessions))
  BY IdleOK
<1>2. calls' = [calls EXCEPT ![kind] = Idle]
  BY DEF Done
<1> QED
  BY <1>1, <1>2, OneCall

\* All sessions end.
LEMMA AllEndedOK ==
    ASSUME SessionsOK(sessions)
    PROVE  LET ended == [i \in DOMAIN sessions |-> [sessions[i] EXCEPT !.live = FALSE]] IN
           SessionsOK(ended) /\ Len(ended) = Len(sessions)
<1> DEFINE ended == [i \in DOMAIN sessions |-> [sessions[i] EXCEPT !.live = FALSE]]
<1>1. /\ sessions \in Seq(SessionType) /\ Len(sessions) \in Nat
      /\ DOMAIN sessions = 1 .. Len(sessions) /\ Len(sessions) <= MaxSessions
  BY DEF SessionsOK
<1>2. \A one \in SessionType : [one EXCEPT !.live = FALSE] \in SessionType
  BY DEF SessionType
<1>3. \A i \in 1 .. Len(sessions) : [sessions[i] EXCEPT !.live = FALSE] \in SessionType
  BY <1>1, <1>2
<1>4. ended \in [1 .. Len(sessions) -> SessionType]
  BY <1>1, <1>3
<1> HIDE DEF ended
<1>5. ended \in Seq(SessionType) /\ Len(ended) = Len(sessions)
  BY <1>1, <1>4
<1>6. SessionsOK(ended)
  BY <1>1, <1>5 DEF SessionsOK
<1> QED
  BY <1>5, <1>6 DEF ended

\* The last session ends.
LEMMA LastEndedOK ==
    ASSUME SessionsOK(sessions), Len(sessions) > 0
    PROVE  LET ended == [sessions EXCEPT ![Len(sessions)].live = FALSE] IN
           SessionsOK(ended) /\ Len(ended) = Len(sessions)
<1> DEFINE last  == [sessions[Len(sessions)] EXCEPT !.live = FALSE]
           ended == [sessions EXCEPT ![Len(sessions)] = last]
<1>1. /\ sessions \in Seq(SessionType) /\ Len(sessions) \in 1 .. Len(sessions)
      /\ sessions[Len(sessions)] \in SessionType /\ Len(sessions) <= MaxSessions
  BY DEF SessionsOK
<1>2. last \in SessionType
  BY <1>1 DEF SessionType
<1> HIDE DEF last
<1>3. ended \in Seq(SessionType) /\ Len(ended) = Len(sessions)
  BY <1>1, <1>2
<1>4. SessionsOK(ended)
  BY <1>1, <1>3 DEF SessionsOK
<1> QED
  BY <1>3, <1>4 DEF last

(***************************************************************************)
(* The guest's steps.                                                      *)
(***************************************************************************)
\* A login and a logout keep the invariant.
LEMMA VisitsOK ==
    ASSUME IInv, LogOut \/ \E h \in Households : LogIn(h)
    PROVE  IInv' /\ Kept
<1> USE DEF IInv
<1>1. ASSUME LogOut PROVE IInv' /\ Kept
  <2>1. SessionsOK(sessions') /\ Len(sessions') = Len(sessions)
    BY <1>1, LastEndedOK DEF LogOut, ServerOK, ClientOK
  <2>2. ServerOK'
    BY <1>1, <2>1 DEF LogOut, ServerOK, RowsOK, SessionsOK
  <2>3. ClientOK' /\ Kept
    BY <1>1 DEF LogOut, ClientOK, FormOK, Kept
  <2>4. CallsOK'
    BY <1>1, <2>1 DEF LogOut, CallsOK
  <2> QED
    BY <1>1, <2>2, <2>3, <2>4 DEF LogOut
<1>2. ASSUME NEW h \in Households, LogIn(h) PROVE IInv' /\ Kept
  <2> DEFINE ended == [i \in DOMAIN sessions |-> [sessions[i] EXCEPT !.live = FALSE]]
             new   == [household |-> h, live |-> TRUE]
  <2>1. SessionsOK(ended) /\ Len(ended) = Len(sessions)
    BY AllEndedOK DEF ServerOK
  <2>2. new \in SessionType
    BY DEF SessionType
  <2>3. sessions' = Append(ended, new) /\ Len(sessions) < MaxSessions
    BY <1>2 DEF LogIn
  <2>4. MaxSessions \in Nat /\ Len(sessions) \in Nat
    BY Constants DEF ServerOK, SessionsOK
  <2> HIDE DEF ended, new
  <2>5. SessionsOK(sessions') /\ Len(sessions') = Len(sessions) + 1
    BY <2>1, <2>2, <2>3, <2>4 DEF SessionsOK
  <2>6. ServerOK'
    BY <1>2, <2>5 DEF LogIn, ServerOK, RowsOK, SessionsOK
  <2>7. ClientOK'
    <3>1. FormOK(form, me, cache)'
      BY <1>2, Constants DEF LogIn, ClientOK, FormOK
    <3> QED
      BY <1>2, <2>4, <2>5, <3>1 DEF LogIn, ClientOK
  <2>8. Kept
    BY <1>2 DEF LogIn, Kept, Keeps
  <2>9. CallsOK'
    <3>1. \A kind \in Kinds : CallOK(kind, calls[kind], Len(sessions'))
      BY <2>4, <2>5 DEF CallsOK, CallOK
    <3> QED
      BY <1>2, <3>1 DEF LogIn, CallsOK
  <2> QED
    BY <1>2, <2>6, <2>7, <2>8, <2>9 DEF LogIn
<1> QED
  BY <1>1, <1>2

\* Whatever mounts, unmounts or fetches keeps the invariant.
LEMMA PagesOK ==
    ASSUME IInv, Forgotten \/ Refresh \/ Visit \/ Leave
    PROVE  IInv' /\ Kept
<1> USE DEF IInv
<1>1. "fetch" \in Kinds /\ NoRequest \in RequestType /\ 0 \in 0 .. MaxGuests
  BY NothingType, Constants DEF Kinds
<1>2. ASSUME Forgotten PROVE IInv' /\ Kept
  <2>1. ServerOK'
    BY <1>2, ServerStays DEF Forgotten
  <2>2. CallsOK'
    BY <1>2, CallsStay DEF Forgotten, server
  <2>3. FormOK(form, me, cache)' /\ ~form.mounted
    BY <1>2 DEF Forgotten, ClientOK, FormOK
  <2>4. ClientOK' /\ Kept
    BY <1>2, <2>3, NoAnswerType DEF Forgotten, ClientOK, Kept, server
  <2> QED
    BY <1>2, <2>1, <2>2, <2>4 DEF Forgotten
<1>3. ASSUME Refresh PROVE IInv' /\ Kept
  <2>1. ServerOK'
    BY <1>3, ServerStays DEF Refresh
  <2>2. CallsOK'
    BY <1>1, <1>3, StartOK DEF Refresh, ClientOK, server
  <2>3. ClientOK' /\ Kept
    BY <1>3, ClientStays DEF Refresh, server
  <2> QED
    BY <1>3, <2>1, <2>2, <2>3 DEF Refresh
<1>4. ASSUME Visit PROVE IInv' /\ Kept
  <2>1. ServerOK' /\ UNCHANGED sessions
    BY <1>4, ServerStays DEF Visit, server
  <2>2. CallsOK'
    <3>1. CASE Start("fetch", NoRequest, 0)
      BY <1>1, <1>4, <2>1, <3>1, StartOK DEF Visit, ClientOK
    <3>2. CASE UNCHANGED calls
      BY <2>1, <3>2, CallsStay
    <3> QED
      BY <1>4, <3>1, <3>2 DEF Visit
  <2>3. FormOK(form', me, cache)
    BY <1>4, MountedOK DEF Visit, ClientOK
  <2>4. FormOK(form, me, cache)'
    BY <1>4, <2>3 DEF Visit, FormOK
  <2>5. ClientOK' /\ Kept
    BY <1>4, <2>1, <2>4 DEF Visit, ClientOK, Kept
  <2> QED
    BY <1>4, <2>1, <2>2, <2>5 DEF Visit
<1>5. ASSUME Leave PROVE IInv' /\ Kept
  <2>1. ServerOK' /\ UNCHANGED sessions
    BY <1>5, ServerStays DEF Leave, server
  <2>2. ClientOK' /\ Kept
    BY <1>5, <2>1, FormGoes DEF Leave
  <2>3. CallsOK'
    BY <1>5, <2>1, AbandonedOK DEF Leave, CallsOK
  <2> QED
    BY <1>5, <2>1, <2>2, <2>3 DEF Leave
<1> QED
  BY <1>2, <1>3, <1>4, <1>5

\* Filling the form in keeps the invariant.
LEMMA TypingOK ==
    ASSUME IInv, Typing
    PROVE  IInv'
<1> USE DEF IInv
<1>1. /\ form \in FormType /\ form.draft \in DraftType /\ form.draft.half \in Half
      /\ form.draft.members \in Sheets(Guests, Sayable) /\ form.draft.ages \in SUBSET Guests
      /\ form.mounted => form.draft.ages \subseteq DOMAIN form.draft.members
  BY DEF ClientOK, FormOK, FormType, DraftType
<1>2. ASSUME NEW draft \in DraftType, Draft(draft),
             DOMAIN draft.members = DOMAIN form.draft.members,
             form.mounted => draft.ages \subseteq DOMAIN draft.members
      PROVE  IInv'
  <2>1. ServerOK' /\ UNCHANGED sessions
    BY <1>2, ServerStays DEF Draft, server
  <2>2. CallsOK'
    BY <1>2, <2>1, CallsStay DEF Draft
  <2>3. FormOK(form', me, cache)
    BY <1>2, DraftOK DEF Draft, ClientOK
  <2>4. FormOK(form, me, cache)'
    BY <1>2, <2>3 DEF Draft, FormOK
  <2>5. ClientOK'
    BY <1>2, <2>1, <2>4 DEF Draft, ClientOK
  <2> QED
    BY <1>2, <2>1, <2>2, <2>5 DEF Draft
<1>3. ASSUME NEW members \in Sheets(Guests, Sayable),
             Draft([form.draft EXCEPT !.members = members]),
             DOMAIN members = DOMAIN form.draft.members
      PROVE  IInv'
  <2> DEFINE draft == [form.draft EXCEPT !.members = members]
  <2>1. draft \in DraftType /\ draft.members = members /\ draft.ages = form.draft.ages
    BY <1>1 DEF DraftType
  <2> HIDE DEF draft
  <2>2. Draft(draft)
    BY <1>3 DEF draft
  <2> QED
    BY <1>1, <1>2, <1>3, <2>1, <2>2
<1>4. ASSUME NEW id \in 1 .. MaxGuests, NEW scope \in Scopes, updateMember(id, scope)
      PROVE  IInv'
  <2> DEFINE members == [form.draft.members EXCEPT ![id] = scope]
  <2>1. members \in Sheets(Guests, Sayable) /\ DOMAIN members = DOMAIN form.draft.members
    <3>1. /\ DOMAIN form.draft.members \subseteq Guests
          /\ \A x \in DOMAIN form.draft.members : form.draft.members[x] \in Sayable
      BY <1>1, SheetType
    <3>2. members \in [DOMAIN form.draft.members -> Sayable]
      BY <3>1 DEF Sayable
    <3> QED
      BY <3>1, <3>2 DEF Sheets
  <2>2. Draft([form.draft EXCEPT !.members = members])
    BY <1>4 DEF updateMember
  <2> HIDE DEF members
  <2> QED
    BY <1>3, <2>1, <2>2
<1>5. ASSUME NEW scope \in Scopes, setHouseholdScope(scope)
      PROVE  IInv'
  <2> DEFINE members == [id \in DOMAIN form.draft.members |-> scope]
  <2>1. members \in Sheets(Guests, Sayable) /\ DOMAIN members = DOMAIN form.draft.members
    BY <1>1, SheetType DEF Sheets, Sayable
  <2>2. Draft([form.draft EXCEPT !.members = members])
    BY <1>5 DEF setHouseholdScope
  <2> HIDE DEF members
  <2> QED
    BY <1>3, <2>1, <2>2
<1>6. ASSUME NEW direction \in Directions \cup {"none"}, ChooseDirection(direction)
      PROVE  IInv'
  <2> DEFINE draft == [form.draft EXCEPT !.half = direction]
  <2>1. /\ draft \in DraftType /\ draft.members = form.draft.members
        /\ draft.ages = form.draft.ages
    BY <1>1 DEF DraftType, Half
  <2>2. Draft(draft)
    BY <1>6 DEF ChooseDirection
  <2> HIDE DEF draft
  <2> QED
    BY <1>1, <1>2, <2>1, <2>2
<1>7. ASSUME NEW id \in 1 .. MaxGuests, NEW given \in BOOLEAN, EnterAge(id, given)
      PROVE  IInv'
  <2> DEFINE ages  == Marked(form.draft.ages, id, given)
             draft == [form.draft EXCEPT !.ages = ages]
  <2>1. form.mounted /\ id \in DOMAIN form.draft.members
    BY <1>7 DEF EnterAge, Editing, ShowsAge
  <2>2. ages \subseteq form.draft.ages \cup {id}
    BY DEF Marked
  <2>3. ages \in SUBSET Guests /\ ages \subseteq DOMAIN form.draft.members
    BY <1>1, <2>1, <2>2 DEF Guests
  <2> HIDE DEF ages
  <2>4. draft \in DraftType /\ draft.members = form.draft.members /\ draft.ages = ages
    BY <1>1, <2>3 DEF DraftType
  <2>5. Draft(draft)
    BY <1>7 DEF EnterAge, ages
  <2> HIDE DEF draft
  <2> QED
    BY <1>2, <2>3, <2>4, <2>5
<1> QED
  BY <1>4, <1>5, <1>6, <1>7 DEF Typing

\* Every other button keeps the invariant, and what was typed.
LEMMA ButtonsOK ==
    ASSUME IInv, \/ Submit \/ Reload \/ ChangeAnswer \/ AddMember
                 \/ \E id \in 1 .. MaxGuests : RemoveMember(id)
    PROVE  IInv' /\ Kept
<1> USE DEF IInv
<1>1. /\ {"fetch", "save", "add", "remove"} \subseteq Kinds /\ NoRequest \in RequestType
      /\ 0 \in 0 .. MaxGuests /\ "none" \in Codes
  BY NothingType, Constants DEF Kinds, Codes
<1>2. form.mounted => me # 0 /\ Len(sessions) > 0
  BY DEF ClientOK, FormOK
<1>3. ASSUME Submit PROVE IInv' /\ Kept
  <2>1. ServerOK' /\ UNCHANGED <<sessions, me, cache, disturbed>> /\ form.mounted
    BY <1>3, ServerStays DEF Submit, Editing, server
  <2>2. FormOK(form', me, cache) /\ form'.draft = form.draft
    BY <1>1, <1>3, BesideOK DEF Submit, ClientOK
  <2>3. ClientOK' /\ Kept
    BY <2>1, <2>2, BesideStep
  <2>4. CallsOK'
    <3>1. ASSUME missingAnswers(form.draft, cache) = {},
                 Start("save", toRequest(form.draft, cache), 0)
          PROVE  CallsOK'
      <4>1. toRequest(form.draft, cache) \in RequestType
        BY <3>1, RequestFacts DEF ClientOK, FormOK, FormType
      <4> QED
        BY <1>1, <1>2, <2>1, <3>1, <4>1, StartOK
    <3>2. ASSUME UNCHANGED calls PROVE CallsOK'
      BY <2>1, <3>2, CallsStay
    <3> QED
      BY <1>3, <3>1, <3>2 DEF Submit
  <2> QED
    BY <2>1, <2>3, <2>4
<1>4. ASSUME Reload \/ AddMember PROVE IInv' /\ Kept
  <2>1. /\ ServerOK' /\ UNCHANGED <<sessions, me, cache, form, disturbed>> /\ form.mounted
        /\ \E kind \in {"fetch", "add"} : Start(kind, NoRequest, 0)
    BY <1>4, ServerStays DEF Reload, AddMember, Editing, server
  <2>2. ClientOK' /\ Kept
    BY <2>1, ClientStays
  <2>3. CallsOK'
    BY <1>1, <1>2, <2>1, StartOK
  <2> QED
    BY <2>1, <2>2, <2>3
<1>5. ASSUME ChangeAnswer PROVE IInv' /\ Kept
  <2>1. ServerOK' /\ UNCHANGED <<sessions, me, cache, calls, disturbed>>
    BY <1>5, ServerStays DEF ChangeAnswer, server
  <2>2. FormOK(form', me, cache) /\ form'.draft = form.draft
    BY <1>5, BesideOK DEF ChangeAnswer, ClientOK
  <2>3. ClientOK' /\ Kept
    BY <2>1, <2>2, BesideStep
  <2> QED
    BY <2>1, <2>3, CallsStay
<1>6. ASSUME NEW id \in 1 .. MaxGuests, RemoveMember(id) PROVE IInv' /\ Kept
  <2>1. /\ ServerOK' /\ UNCHANGED <<sessions, me, cache, form, disturbed>> /\ form.mounted
        /\ Start("remove", NoRequest, id) /\ id \notin Households
    BY <1>6, ServerStays DEF RemoveMember, Editing, server
  <2>2. ClientOK' /\ Kept
    BY <2>1, ClientStays
  <2>3. id \in 0 .. MaxGuests /\ id \in Guests \ Households
    BY <2>1, Constants DEF Guests
  <2>4. CallsOK'
    BY <1>1, <1>2, <2>1, <2>3, StartOK
  <2> QED
    BY <2>1, <2>2, <2>4
<1> QED
  BY <1>3, <1>4, <1>5, <1>6

(***************************************************************************)
(* The server's steps.                                                     *)
(***************************************************************************)
\* A row of the table changes.
LEMMA OneRow ==
    ASSUME ServerOK, NEW h \in Households, NEW row \in StoredType, NEW given \in Nat,
           stored' = [stored EXCEPT ![h] = row], guests' = given,
           h \in DOMAIN row.members, DOMAIN row.members \subseteq 1 .. given, AgesOK(row),
           guests <= given, given <= MaxGuests, UNCHANGED <<closed, sessions>>
    PROVE  ServerOK'
<1>1. /\ stored \in [Households -> StoredType] /\ guests \in Nat
      /\ \A k \in Households : /\ k \in DOMAIN stored[k].members
                               /\ DOMAIN stored[k].members \subseteq 1 .. guests
                               /\ AgesOK(stored[k])
  BY DEF ServerOK, RowsOK
<1>2. stored' \in [Households -> StoredType]
  BY <1>1
<1>3. \A k \in Households : stored'[k] = IF k = h THEN row ELSE stored[k]
  BY <1>1
<1>4. 1 .. guests \subseteq 1 .. given
  BY <1>1
<1>5. \A k \in Households : /\ k \in DOMAIN stored'[k].members
                            /\ DOMAIN stored'[k].members \subseteq 1 .. guests'
                            /\ AgesOK(stored'[k])
  BY <1>1, <1>3, <1>4
<1>6. RowsOK(stored, guests)'
  BY <1>2, <1>5 DEF RowsOK, AgesOK
<1> QED
  BY <1>6 DEF ServerOK, SessionsOK

\* What is known of a household's row.
LEMMA RowFacts ==
    ASSUME ServerOK, NEW h \in Households
    PROVE  /\ stored[h] \in StoredType /\ stored[h].members \in Sheets(Guests, Sayable)
           /\ h \in DOMAIN stored[h].members /\ DOMAIN stored[h].members \subseteq 1 .. guests
           /\ guests \in Nat /\ guests <= MaxGuests
           /\ AgesOK(stored[h]) /\ stored[h].children \in SUBSET Guests
           /\ stored[h].ages \in SUBSET Guests
<1>1. \A row \in StoredType : /\ row.members \in Sheets(Guests, Sayable)
                              /\ row.children \in SUBSET Guests /\ row.ages \in SUBSET Guests
  BY DEF StoredType
<1> QED
  BY <1>1 DEF ServerOK, RowsOK

\* The household of a call that is served.
LEMMA ServedFacts ==
    ASSUME IInv, NEW kind \in Kinds, calls[kind].stage = "sent"
    PROVE  HouseOf(kind) \in Households /\ calls[kind] \in CallType
<1>1. sessions \in Seq(SessionType) /\ Len(sessions) \in Nat
  BY DEF IInv, ServerOK, SessionsOK
<1>2. calls[kind].session \in 1 .. Len(sessions) /\ calls[kind] \in CallType
  BY DEF IInv, CallsOK, CallOK
<1>3. sessions[calls[kind].session] \in SessionType
  BY <1>1, <1>2
<1> QED
  BY <1>2, <1>3 DEF HouseOf, SessionType

\* A companion joins a household.
LEMMA WithOK ==
    ASSUME ServerOK, NEW h \in Households, guests < MaxGuests,
           guests' = guests + 1, stored' = With(h, guests'), UNCHANGED <<closed, sessions>>
    PROVE  ServerOK' /\ guests' \in Guests
<1> DEFINE old     == stored[h].members
           members == Joined(old, guests')
           row     == [stored[h] EXCEPT !.members = members]
<1>1. /\ stored[h] \in StoredType /\ old \in Sheets(Guests, Sayable) /\ h \in DOMAIN old
      /\ DOMAIN old \subseteq 1 .. guests /\ guests \in Nat /\ MaxGuests \in Nat
      /\ AgesOK(stored[h])
  BY RowFacts, Constants
<1>2. guests' \in Guests /\ guests' \in Nat /\ guests <= guests' /\ guests' <= MaxGuests
  BY <1>1 DEF Guests
<1>3. /\ DOMAIN members = DOMAIN old \cup {guests'}
      /\ members = [id \in DOMAIN old \cup {guests'} |-> members[id]]
      /\ \A id \in DOMAIN members : members[id] \in {"nil"} \cup {old[x] : x \in DOMAIN old}
  BY DEF Joined
<1>4. \A x \in DOMAIN old : x \in Guests /\ old[x] \in Sayable
  BY <1>1, SheetType
<1> HIDE DEF members
<1>5. members \in Sheets(Guests, Sayable)
  <2>1. /\ members = [id \in DOMAIN members |-> members[id]] /\ DOMAIN members \subseteq Guests
        /\ \A id \in DOMAIN members : members[id] \in Sayable
    BY <1>2, <1>3, <1>4 DEF Sayable
  <2> QED
    BY <2>1, SheetType
<1>6. /\ row \in StoredType /\ row.members = members
      /\ row.children = stored[h].children /\ row.ages = stored[h].ages
  BY <1>1, <1>5 DEF StoredType
<1>7. h \in DOMAIN members /\ DOMAIN members \subseteq 1 .. guests' /\ AgesOK(row)
  BY <1>1, <1>2, <1>3, <1>6 DEF AgesOK
<1>8. stored' = [stored EXCEPT ![h] = row]
  BY DEF With, members
<1> HIDE DEF row
<1> QED
  BY <1>2, <1>6, <1>7, <1>8, OneRow

\* A companion leaves a household.
LEMMA WithoutOK ==
    ASSUME ServerOK, NEW h \in Households, NEW id, id # h,
           stored' = Without(h, id), UNCHANGED <<guests, closed, sessions>>
    PROVE  ServerOK'
<1> DEFINE old     == stored[h].members
           members == Restrict(old, DOMAIN old \ {id})
           children == stored[h].children \ {id}
           ages    == stored[h].ages \ {id}
           row     == [stored[h] EXCEPT !.members = members, !.children = children, !.ages = ages]
<1>1. /\ stored[h] \in StoredType /\ old \in Sheets(Guests, Sayable) /\ h \in DOMAIN old
      /\ DOMAIN old \subseteq 1 .. guests /\ guests \in Nat /\ guests <= MaxGuests
      /\ AgesOK(stored[h]) /\ children \in SUBSET Guests /\ ages \in SUBSET Guests
  BY RowFacts
<1>2. \A x \in DOMAIN old : x \in Guests /\ old[x] \in Sayable
  BY <1>1, SheetType
<1>3. members = [x \in DOMAIN old \ {id} |-> old[x]]
  BY DEF Restrict
<1> HIDE DEF members
<1>4. members \in Sheets(Guests, Sayable)
  BY <1>2, <1>3 DEF Sheets
<1>5. ages \subseteq children /\ children \subseteq DOMAIN members
  BY <1>1, <1>3 DEF AgesOK
<1>6. stored' = [stored EXCEPT ![h] = row]
  BY DEF Without, members
<1> HIDE DEF children, ages
<1>7. /\ row \in StoredType /\ row.members = members
      /\ row.children = children /\ row.ages = ages
  BY <1>1, <1>4 DEF StoredType
<1>8. h \in DOMAIN members /\ DOMAIN members \subseteq 1 .. guests /\ AgesOK(row)
  BY <1>1, <1>3, <1>5, <1>7 DEF AgesOK
<1>9. guests' = guests /\ guests <= guests /\ UNCHANGED <<closed, sessions>>
  BY <1>1
<1> HIDE DEF row, members, old
<1> QED
  BY <1>1, <1>6, <1>7, <1>8, <1>9, OneRow

\* An answer that is shown is a response, and so is a companion's id.
LEMMA GrantedType ==
    ASSUME NEW answer \in AnswerType, NEW guest \in 0 .. MaxGuests
    PROVE  /\ [NoResponse EXCEPT !.code = "ok", !.answer = answer] \in ResponseType
           /\ [NoResponse EXCEPT !.code = "ok", !.guest = guest] \in ResponseType
           /\ [NoResponse EXCEPT !.code = "ok", !.guest = guest].guest = guest
           /\ [NoResponse EXCEPT !.code = "ok"] \in ResponseType
<1>1. "ok" \in Codes /\ NoResponse \in ResponseType
  BY NothingType DEF Codes
<1> QED
  BY <1>1 DEF ResponseType

\* A refused field is named in a response.
LEMMA RefusedAtType ==
    ASSUME NEW guest \in 0 .. MaxGuests
    PROVE  RefusedAt(guest) \in ResponseType /\ RefusedAt(guest).code # "ok"
<1>1. "validation_failed" \in Codes
  BY DEF Codes
<1>2. Refused("validation_failed") \in ResponseType /\ Refused("validation_failed").code # "ok"
  BY <1>1, RefusedType
<1> QED
  BY <1>2 DEF RefusedAt, ResponseType

\* A call is answered; only the call changes.
LEMMA RespondOK ==
    ASSUME ClientOK, CallsOK, NEW kind \in Kinds, NEW response \in ResponseType,
           kind = "add" /\ response.code = "ok" => response.guest \in Guests,
           Respond(kind, response)
    PROVE  ClientOK' /\ CallsOK' /\ Kept /\ UNCHANGED <<closed, sessions, disturbed>>
<1>1. /\ UNCHANGED <<closed, sessions, me, cache, form, disturbed>>
      /\ calls' = [calls EXCEPT ![kind] = Answered(kind, response)]
  BY DEF Respond
<1>2. CallOK(kind, Answered(kind, response), Len(sessions))
  BY AnsweredOK
<1>3. CallsOK'
  BY <1>1, <1>2, OneCall
<1>4. ClientOK' /\ Kept
  BY <1>1, ClientStays
<1> QED
  BY <1>1, <1>3, <1>4

\* A call is answered with an error, and nothing changes on the server.
LEMMA NothingChanges ==
    ASSUME IInv, NEW kind \in Kinds, NEW response \in ResponseType, response.code # "ok",
           Respond(kind, response), UNCHANGED <<stored, guests>>
    PROVE  IInv' /\ Kept
<1>1. ClientOK' /\ CallsOK' /\ Kept /\ UNCHANGED <<closed, sessions, disturbed>>
  BY RespondOK DEF IInv
<1>2. ServerOK'
  BY <1>1, ServerStays DEF IInv, server
<1> QED
  BY <1>1, <1>2 DEF IInv

\* A call is refused, and nothing changes on the server.
LEMMA RefusalOK ==
    ASSUME IInv, NEW kind \in Kinds, NEW code \in Codes \ {"ok"},
           Respond(kind, Refused(code)), UNCHANGED <<stored, guests>>
    PROVE  IInv' /\ Kept
<1>1. Refused(code) \in ResponseType /\ Refused(code).code # "ok"
  BY RefusedType
<1> QED
  BY <1>1, NothingChanges


\* Serving keeps the invariant, and what was typed.
LEMMA ServeOK ==
    ASSUME IInv, NEW kind \in Kinds, Serve(kind)
    PROVE  IInv' /\ Kept
<1> USE DEF IInv
<1>1. /\ {"fetch", "save", "add", "remove"} \subseteq Kinds
      /\ {"unauthenticated", "rsvp_closed", "member_set_mismatch", "plus_one_not_allowed",
          "internal", "not_found"} \subseteq Codes \ {"ok"}
  BY DEF Kinds, Codes
<1>2. ASSUME Unauthenticated(kind) PROVE IInv' /\ Kept
  BY <1>1, <1>2, RefusalOK DEF Unauthenticated
<1>3. ASSUME Show PROVE IInv' /\ Kept
  <2> DEFINE h == HouseOf("fetch")
             answer == rsvpResponse(h, stored[h])
             response == [NoResponse EXCEPT !.code = "ok", !.answer = answer]
  <2>1. h \in Households /\ stored[h] \in StoredType
    BY <1>1, <1>3, ServedFacts, RowFacts DEF Show, Served
  <2>2. answer \in AnswerType
    BY <2>1, ResponseFacts DEF ServerOK
  <2>3. 0 \in 0 .. MaxGuests
    BY Constants
  <2>4. Respond("fetch", response) /\ UNCHANGED <<stored, guests>>
    BY <1>3 DEF Show
  <2>5. response \in ResponseType
    <3> HIDE DEF answer
    <3> QED
      BY <2>2, <2>3, GrantedType
  <2> HIDE DEF response
  <2>6. ClientOK' /\ CallsOK' /\ Kept /\ UNCHANGED <<closed, sessions, disturbed>>
    BY <1>1, <2>4, <2>5, RespondOK
  <2>7. ServerOK'
    BY <2>4, <2>6, ServerStays DEF server
  <2> QED
    BY <2>6, <2>7
<1>4. ASSUME Save PROVE IInv' /\ Kept
  <2> DEFINE h == HouseOf("save")
             request == calls["save"].request
             unfit == AgesOnAdults(request, h)
             after == Normalized(stored[h], ScopesIn(request), request.ages, request.half)
             answer == rsvpResponse(h, after)
             response == [NoResponse EXCEPT !.code = "ok", !.answer = answer]
  <2>1. h \in Households /\ calls["save"] \in CallType
    BY <1>1, <1>4, ServedFacts DEF Save, Served
  <2>2. request \in RequestType
    BY <2>1 DEF CallType
  <2> HIDE DEF request, h
  <2>3. ASSUME Exact(request, h), unfit = {}, stored' = [stored EXCEPT ![h] = after],
               Respond("save", response), UNCHANGED guests
        PROVE  IInv' /\ Kept
    <3>1. /\ ScopesIn(request) \in Sheets(Guests, Scopes)
          /\ DOMAIN ScopesIn(request) = DOMAIN stored[h].members
      BY <2>2, <2>3, ScopesFacts DEF Exact
    <3>2. /\ ScopesIn(request) \in Sheets(Guests, Sayable) /\ request.half \in Half
          /\ request.ages \in SUBSET Guests
      BY <2>2, <3>1, ScopesAreSayable DEF RequestType
    <3>3. stored[h] \in StoredType /\ AgesOK(stored[h])
      BY <2>1, RowFacts
    <3>4. /\ after \in StoredType /\ after.members = ScopesIn(request)
          /\ after.ages = request.ages /\ after.children = stored[h].children
      BY <3>2, <3>3, NormalizedFacts
    <3>5. request.ages \subseteq stored[h].children
      BY <2>3 DEF AgesOnAdults
    <3> HIDE DEF after
    <3>6. AgesOK(after)
      BY <3>1, <3>3, <3>4, <3>5 DEF AgesOK
    <3>7. answer \in AnswerType /\ 0 \in 0 .. MaxGuests
      BY <2>1, <3>4, ResponseFacts, Constants DEF ServerOK
    <3> HIDE DEF answer
    <3>8. response \in ResponseType
      BY <3>7, GrantedType
    <3> HIDE DEF response
    <3>9. ClientOK' /\ CallsOK' /\ Kept /\ UNCHANGED <<closed, sessions, disturbed>>
      BY <1>1, <2>3, <3>8, RespondOK
    <3>10. /\ h \in DOMAIN after.members /\ DOMAIN after.members \subseteq 1 .. guests
           /\ guests \in Nat /\ guests <= MaxGuests /\ guests <= guests
      BY <2>1, <3>1, <3>4, RowFacts
    <3>11. guests' = guests /\ UNCHANGED <<closed, sessions>>
      BY <2>3, <3>9
    <3>12. ServerOK'
      BY <2>1, <2>3, <3>4, <3>6, <3>10, <3>11, OneRow
    <3> QED
      BY <3>9, <3>12
  <2>4. ASSUME NEW code \in {"rsvp_closed", "member_set_mismatch"},
               Respond("save", Refused(code)), UNCHANGED <<stored, guests>>
        PROVE  IInv' /\ Kept
    BY <1>1, <2>4, RefusalOK
  <2>5. ASSUME unfit # {}, Respond("save", RefusedAt(Nth(1, unfit))), UNCHANGED <<stored, guests>>
        PROVE  IInv' /\ Kept
    <3>1. unfit \subseteq 1 .. MaxGuests /\ MaxGuests \in Nat
      BY <2>2, Constants DEF AgesOnAdults, RequestType, Guests
    <3>2. 1 \in 1 .. Cardinality(unfit)
      <4>1. IsFiniteSet(1 .. MaxGuests)
        BY <3>1, FS_Interval
      <4>2. IsFiniteSet(unfit)
        BY <3>1, <4>1, FS_Subset
      <4>3. Cardinality(unfit) \in Nat /\ Cardinality(unfit) # 0
        BY <2>5, <4>2, FS_CardinalityType, FS_EmptySet
      <4> QED
        BY <4>3
    <3> HIDE DEF unfit
    <3>3. Nth(1, unfit) \in 0 .. MaxGuests
      <4> DEFINE first == Nth(1, unfit)
      <4>1. first \in unfit
        BY <3>1, <3>2, NthExists
      <4> HIDE DEF first
      <4>2. first \in 0 .. MaxGuests
        BY <3>1, <4>1
      <4> QED
        BY <4>2 DEF first
    <3>4. RefusedAt(Nth(1, unfit)) \in ResponseType /\ RefusedAt(Nth(1, unfit)).code # "ok"
      BY <3>3, RefusedAtType
    <3> QED
      BY <1>1, <2>5, <3>4, NothingChanges
  <2>6. \/ /\ Exact(request, h) /\ unfit = {} /\ stored' = [stored EXCEPT ![h] = after]
           /\ Respond("save", response) /\ UNCHANGED guests
        \/ \E code \in {"rsvp_closed", "member_set_mismatch"} :
              Respond("save", Refused(code)) /\ UNCHANGED <<stored, guests>>
        \/ unfit # {} /\ Respond("save", RefusedAt(Nth(1, unfit))) /\ UNCHANGED <<stored, guests>>
    BY <1>4 DEF Save, request, h
  <2> QED
    BY <2>3, <2>4, <2>5, <2>6
<1>5. ASSUME AddPlusOne PROVE IInv' /\ Kept
  <2> DEFINE h == HouseOf("add")
             response == [NoResponse EXCEPT !.code = "ok", !.guest = guests']
  <2>1. h \in Households
    BY <1>1, <1>5, ServedFacts DEF AddPlusOne, Served
  <2>2. ASSUME guests < MaxGuests, guests' = guests + 1, stored' = With(h, guests'),
               Respond("add", response)
        PROVE  IInv' /\ Kept
    <3>1. UNCHANGED <<closed, sessions>>
      BY <2>2 DEF Respond
    <3>2. ServerOK' /\ guests' \in Guests
      BY <2>1, <2>2, <3>1, WithOK
    <3>3. response \in ResponseType /\ response.guest \in Guests
      <4>1. guests' \in 0 .. MaxGuests
        BY <3>2, Constants DEF Guests
      <4> QED
        BY <3>2, <4>1, GrantedType, NoAnswerType
    <3> HIDE DEF response
    <3>4. ClientOK' /\ CallsOK' /\ Kept /\ UNCHANGED <<closed, sessions, disturbed>>
      BY <1>1, <2>2, <3>3, RespondOK
    <3> QED
      BY <3>2, <3>4
  <2>3. ASSUME NEW code \in {"rsvp_closed", "plus_one_not_allowed", "internal"},
               Respond("add", Refused(code)), UNCHANGED <<stored, guests>>
        PROVE  IInv' /\ Kept
    BY <1>1, <2>3, RefusalOK
  <2>4. \/ /\ guests < MaxGuests /\ guests' = guests + 1 /\ stored' = With(h, guests')
           /\ Respond("add", response)
        \/ \E code \in {"rsvp_closed", "plus_one_not_allowed", "internal"} :
              Respond("add", Refused(code)) /\ UNCHANGED <<stored, guests>>
    BY <1>5 DEF AddPlusOne
  <2> QED
    BY <2>2, <2>3, <2>4
<1>6. ASSUME RemoveCompanion PROVE IInv' /\ Kept
  <2> DEFINE h == HouseOf("remove")
             id == calls["remove"].guest
             response == [NoResponse EXCEPT !.code = "ok"]
  <2>1. h \in Households /\ id \notin Households
    <3>1. calls["remove"].stage = "sent"
      BY <1>6 DEF RemoveCompanion, Served
    <3>2. id \in Guests \ Households
      BY <1>1, <3>1 DEF CallsOK, CallOK
    <3> QED
      BY <1>1, <3>1, <3>2, ServedFacts
  <2>2. ASSUME stored' = Without(h, id), Respond("remove", response), UNCHANGED guests
        PROVE  IInv' /\ Kept
    <3>1. UNCHANGED <<guests, closed, sessions>> /\ id # h
      BY <2>1, <2>2 DEF Respond
    <3>2. ServerOK'
      BY <2>1, <2>2, <3>1, WithoutOK
    <3>3. response \in ResponseType
      <4>1. 0 \in 0 .. MaxGuests
        BY Constants
      <4> QED
        BY <4>1, GrantedType, NoAnswerType
    <3> HIDE DEF response
    <3>4. ClientOK' /\ CallsOK' /\ Kept /\ UNCHANGED <<closed, sessions, disturbed>>
      BY <1>1, <2>2, <3>3, RespondOK
    <3> QED
      BY <3>2, <3>4
  <2>3. ASSUME NEW code \in {"rsvp_closed", "not_found"},
               Respond("remove", Refused(code)), UNCHANGED <<stored, guests>>
        PROVE  IInv' /\ Kept
    BY <1>1, <2>3, RefusalOK
  <2>4. \/ stored' = Without(h, id) /\ Respond("remove", response) /\ UNCHANGED guests
        \/ \E code \in {"rsvp_closed", "not_found"} :
              Respond("remove", Refused(code)) /\ UNCHANGED <<stored, guests>>
    BY <1>6 DEF RemoveCompanion
  <2> QED
    BY <2>2, <2>3, <2>4
<1> QED
  BY <1>2, <1>3, <1>4, <1>5, <1>6 DEF Serve

(***************************************************************************)
(* The answers arrive.                                                     *)
(***************************************************************************)
\* What an answer that arrives is.
LEMMA ArrivalFacts ==
    ASSUME CallsOK, NEW kind \in Kinds
    PROVE  /\ calls[kind] \in CallType /\ calls[kind].ours \in BOOLEAN
           /\ calls[kind].response \in ResponseType
           /\ calls[kind].response.answer \in AnswerType /\ calls[kind].response.code \in Codes
           /\ calls[kind].response.guest \in 0 .. MaxGuests
           /\ kind = "add" /\ Arrives(kind, "ok") => calls[kind].response.guest \in Guests
<1>1. calls[kind] \in CallType /\ CallOK(kind, calls[kind], Len(sessions))
  BY DEF CallsOK, CallOK
<1>2. calls[kind].response \in ResponseType /\ calls[kind].ours \in BOOLEAN
  BY <1>1 DEF CallType
<1>3. /\ calls[kind].response.answer \in AnswerType /\ calls[kind].response.code \in Codes
      /\ calls[kind].response.guest \in 0 .. MaxGuests
  BY <1>2 DEF ResponseType
<1> QED
  BY <1>1, <1>2, <1>3 DEF CallOK, Arrives

\* The cached answer changes, and the form is rendered with it.
LEMMA CachedOK ==
    ASSUME ClientOK, NEW answer \in AnswerType, Cached(answer), UNCHANGED <<sessions, me>>
    PROVE  ClientOK' /\ Kept
<1> DEFINE rendered == Rendered(answer)
<1>1. /\ FormOK(rendered, me, answer) /\ rendered.mounted = form.mounted
      /\ form.mounted => Keeps(form, rendered, Range(Ids(cache)) \cap Range(Ids(answer)))
  BY RenderedOK DEF ClientOK
<1>2. cache' = answer /\ form' = rendered
  BY DEF Cached
<1> HIDE DEF rendered
<1>3. FormOK(form, me, cache)'
  BY <1>1, <1>2 DEF FormOK
<1>4. ClientOK'
  BY <1>2, <1>3 DEF ClientOK
<1>5. Kept
  BY <1>1, <1>2 DEF Kept, Keeps
<1> QED
  BY <1>4, <1>5

\* The visit ends, and whoever was waiting for a call with it.
LEMMA VisitEndsOK ==
    ASSUME IInv, NEW kind \in Kinds, VisitEnds(kind)
    PROVE  IInv' /\ Kept
<1>1. ServerOK' /\ UNCHANGED <<sessions, cache, disturbed>>
  BY ServerStays DEF IInv, VisitEnds, server
<1>2. ClientOK' /\ Kept
  BY <1>1, FormGoes DEF IInv, VisitEnds
<1>3. CallsOK'
  <2>1. calls' = [Abandoned EXCEPT ![kind] = Idle]
    BY DEF VisitEnds
  <2>2. /\ DOMAIN calls' = Kinds /\ calls' = [k \in Kinds |-> calls'[k]]
        /\ \A k \in Kinds : calls'[k] = IF k = kind THEN Idle ELSE Abandoned[k]
    BY <2>1, AbandonedOK DEF IInv
  <2>3. \A k \in Kinds : CallOK(k, calls'[k], Len(sessions))
    BY <2>2, AbandonedOK, IdleOK DEF IInv
  <2> QED
    BY <1>1, <2>2, <2>3 DEF CallsOK
<1> QED
  BY <1>1, <1>2, <1>3 DEF IInv

\* A query's answer keeps the invariant, and what was typed.
LEMMA FetchOK ==
    ASSUME IInv, Fetched \/ SessionExpired \/ FetchFails
    PROVE  IInv' /\ Kept
<1> USE DEF IInv
<1>1. "fetch" \in Kinds
  BY DEF Kinds
<1>2. ASSUME Fetched PROVE IInv' /\ Kept
  <2>1. ServerOK' /\ UNCHANGED <<sessions, me, disturbed>>
    BY <1>2, ServerStays DEF Fetched, server
  <2>2. ClientOK' /\ Kept
    BY <1>1, <1>2, <2>1, ArrivalFacts, CachedOK DEF Fetched
  <2>3. CallsOK'
    BY <1>1, <1>2, <2>1, DoneOK DEF Fetched
  <2> QED
    BY <2>1, <2>2, <2>3
<1>3. ASSUME SessionExpired PROVE IInv' /\ Kept
  BY <1>1, <1>3, VisitEndsOK DEF SessionExpired
<1>4. ASSUME FetchFails PROVE IInv' /\ Kept
  <2>1. ServerOK' /\ UNCHANGED <<sessions, me, cache, form, disturbed>>
    BY <1>4, ServerStays DEF FetchFails, server
  <2>2. ClientOK' /\ Kept
    BY <2>1, ClientStays
  <2>3. CallsOK'
    BY <1>1, <1>4, <2>1, DoneOK DEF FetchFails
  <2> QED
    BY <2>1, <2>2, <2>3
<1> QED
  BY <1>2, <1>3, <1>4

\* A save's answer keeps the invariant, and what was typed.
LEMMA SaveAnswerOK ==
    ASSUME IInv, Saved \/ Settled \/ SaveFails
    PROVE  IInv' /\ Kept
<1> USE DEF IInv
<1>1. "save" \in Kinds
  BY DEF Kinds
<1>2. ASSUME Saved PROVE IInv' /\ Kept
  <2>1. ServerOK' /\ UNCHANGED <<sessions, me, disturbed>>
    BY <1>2, ServerStays DEF Saved, server
  <2>2. ClientOK' /\ Kept
    BY <1>1, <1>2, <2>1, ArrivalFacts, CachedOK DEF Saved
  <2>3. CallsOK'
    <3> DEFINE ours == calls["save"].ours
               call == [Idle EXCEPT !.stage = "settling", !.ours = ours]
    <3>1. Idle \in CallType /\ ours \in BOOLEAN /\ "settling" \in Stages
      BY <1>1, IdleOK, ArrivalFacts DEF Stages
    <3>2. calls' = [calls EXCEPT !["save"] = call]
      BY <1>2 DEF Saved
    <3> HIDE DEF ours
    <3>3. call \in CallType /\ call.stage = "settling"
      BY <3>1 DEF CallType
    <3> HIDE DEF call
    <3>4. CallOK("save", call, Len(sessions))
      BY <3>3 DEF CallOK
    <3> QED
      BY <1>1, <2>1, <3>2, <3>4, OneCall
  <2> QED
    BY <2>1, <2>2, <2>3
<1>3. ASSUME Settled PROVE IInv' /\ Kept
  <2>1. CASE VisitEnds("save")
    BY <1>1, <2>1, VisitEndsOK
  <2>2. ASSUME form' = form \/ form' = [form EXCEPT !.summary = TRUE], Done("save"),
               UNCHANGED <<server, me, cache, disturbed>>
        PROVE  IInv' /\ Kept
    <3>1. ServerOK' /\ UNCHANGED <<sessions, me, cache, disturbed>>
      BY <2>2, ServerStays DEF server
    <3>2. FormOK(form', me, cache) /\ form'.draft = form.draft
      <4>1. CASE form' = form
        BY <4>1 DEF ClientOK
      <4>2. CASE form' = [form EXCEPT !.summary = TRUE]
        BY <4>2, BesideOK DEF ClientOK
      <4> QED
        BY <2>2, <4>1, <4>2
    <3>3. ClientOK' /\ Kept
      BY <3>1, <3>2, BesideStep
    <3>4. CallsOK'
      BY <1>1, <2>2, <3>1, DoneOK
    <3> QED
      BY <3>1, <3>3, <3>4
  <2> QED
    BY <1>3, <2>1, <2>2 DEF Settled
<1>4. ASSUME SaveFails PROVE IInv' /\ Kept
  <2>1. ServerOK' /\ UNCHANGED <<sessions, me, cache, disturbed>>
    BY <1>4, ServerStays DEF SaveFails, server
  <2>2. FormOK(form', me, cache) /\ form'.draft = form.draft
    <3> DEFINE response == calls["save"].response
    <3>1. response.code \in Codes /\ response.guest \in 0 .. MaxGuests
      BY <1>1, ArrivalFacts
    <3>2. form' = form \/ form' = Told(form, response.code, response.guest)
      BY <1>4 DEF SaveFails
    <3> HIDE DEF response
    <3>3. CASE form' = form
      BY <3>3 DEF ClientOK
    <3>4. CASE form' = Told(form, response.code, response.guest)
      BY <3>1, <3>4, BesideOK DEF ClientOK
    <3> QED
      BY <3>2, <3>3, <3>4
  <2>3. ClientOK' /\ Kept
    BY <2>1, <2>2, BesideStep
  <2>4. CallsOK'
    BY <1>1, <1>4, <2>1, DoneOK DEF SaveFails
  <2> QED
    BY <2>1, <2>3, <2>4
<1> QED
  BY <1>2, <1>3, <1>4

\* The answer to an added companion keeps the invariant, and what was typed.
LEMMA AddAnswerOK ==
    ASSUME IInv, Added \/ AddFails
    PROVE  IInv' /\ Kept
<1> USE DEF IInv
<1>1. "add" \in Kinds
  BY DEF Kinds
<1>2. ASSUME Added PROVE IInv' /\ Kept
  <2>1. ServerOK' /\ UNCHANGED <<sessions, me, disturbed>>
    BY <1>2, ServerStays DEF Added, server
  <2>2. ClientOK' /\ Kept
    <3> DEFINE entry  == [id |-> calls["add"].response.guest, attending |-> "nil",
                          child |-> FALSE, aged |-> FALSE]
               list   == Append(cache.members, entry)
               answer == [cache EXCEPT !.canAdd = FALSE, !.members = list]
    <3>1. cache \in AnswerType /\ cache.members \in Seq(Entry)
      BY DEF ClientOK, AnswerType
    <3>2. calls["add"].response.guest \in Guests
      BY <1>1, <1>2, ArrivalFacts DEF Added
    <3>3. entry \in Entry
      BY <3>2 DEF Entry, Sayable
    <3> HIDE DEF entry
    <3>4. list \in Seq(Entry)
      BY <3>1, <3>3
    <3> HIDE DEF list
    <3>5. answer \in AnswerType
      BY <3>1, <3>4 DEF AnswerType
    <3>6. \/ cache' = answer /\ form' = Rendered(answer)
          \/ UNCHANGED <<cache, form>>
      BY <1>2 DEF Added, Cached, list, entry
    <3> HIDE DEF answer
    <3>7. CASE cache' = answer /\ form' = Rendered(answer)
      BY <2>1, <3>5, <3>7, CachedOK DEF Cached
    <3>8. CASE UNCHANGED <<cache, form>>
      BY <2>1, <3>8, ClientStays
    <3> QED
      BY <3>6, <3>7, <3>8
  <2>3. CallsOK'
    BY <1>1, <1>2, <2>1, DoneOK DEF Added
  <2> QED
    BY <2>1, <2>2, <2>3
<1>3. ASSUME AddFails PROVE IInv' /\ Kept
  <2>1. ServerOK' /\ UNCHANGED <<sessions, me, cache, disturbed>>
    BY <1>3, ServerStays DEF AddFails, server
  <2>2. FormOK(form', me, cache) /\ form'.draft = form.draft
    <3>1. form' = form \/ form' = [form EXCEPT !.closedWhileOpen = TRUE]
      BY <1>3 DEF AddFails
    <3> QED
      BY <3>1, BesideOK DEF ClientOK
  <2>3. ClientOK' /\ Kept
    BY <2>1, <2>2, BesideStep
  <2>4. CallsOK'
    BY <1>1, <1>3, <2>1, DoneOK DEF AddFails
  <2> QED
    BY <2>1, <2>3, <2>4
<1> QED
  BY <1>2, <1>3

\* The answer to a removal keeps the invariant, and what was typed.
LEMMA RemovalAnswerOK ==
    ASSUME IInv, Removed \/ RemoveFails
    PROVE  IInv' /\ Kept
<1> USE DEF IInv
<1>1. {"fetch", "remove"} \subseteq Kinds /\ NoRequest \in RequestType /\ 0 \in 0 .. MaxGuests
  BY NothingType, Constants DEF Kinds
<1>2. ASSUME Removed PROVE IInv' /\ Kept
  <2>1. ServerOK' /\ UNCHANGED <<sessions, me, cache, form, disturbed>>
    BY <1>2, ServerStays DEF Removed, server
  <2>2. ClientOK' /\ Kept
    BY <2>1, ClientStays
  <2>3. CallsOK'
    <3> DEFINE fetch == IF me # 0 THEN Sent("fetch", NoRequest, 0) ELSE calls["fetch"]
    <3>1. Len(sessions) \in Nat /\ (me # 0 => Len(sessions) > 0)
      BY DEF ServerOK, SessionsOK, ClientOK
    <3>2. CallOK("fetch", fetch, Len(sessions))
      <4>1. CASE me # 0
        BY <1>1, <3>1, <4>1, SentOK
      <4>2. CASE me = 0
        BY <1>1, <4>2 DEF CallsOK
      <4> QED
        BY <4>1, <4>2
    <3>3. CallOK("remove", Idle, Len(sessions))
      BY IdleOK
    <3>4. calls' = [calls EXCEPT !["remove"] = Idle, !["fetch"] = fetch]
      BY <1>2 DEF Removed
    <3> HIDE DEF fetch
    <3>5. /\ DOMAIN calls' = Kinds /\ calls' = [kind \in Kinds |-> calls'[kind]]
          /\ \A kind \in Kinds : calls'[kind] = IF kind = "fetch" THEN fetch
                                                ELSE IF kind = "remove" THEN Idle ELSE calls[kind]
      BY <1>1, <3>4 DEF CallsOK
    <3>6. \A kind \in Kinds : CallOK(kind, calls'[kind], Len(sessions))
      BY <3>2, <3>3, <3>5 DEF CallsOK
    <3> QED
      BY <2>1, <3>5, <3>6 DEF CallsOK
  <2> QED
    BY <2>1, <2>2, <2>3
<1>3. ASSUME RemoveFails PROVE IInv' /\ Kept
  <2>1. ServerOK' /\ UNCHANGED <<sessions, me, cache, form, disturbed>>
    BY <1>3, ServerStays DEF RemoveFails, server
  <2>2. ClientOK' /\ Kept
    BY <2>1, ClientStays
  <2>3. CallsOK'
    BY <1>1, <1>3, <2>1, DoneOK DEF RemoveFails
  <2> QED
    BY <2>1, <2>2, <2>3
<1> QED
  BY <1>2, <1>3

\* A call that is lost is answered, with an error.
LEMMA LoseOK ==
    ASSUME IInv, NEW kind \in Kinds, Lose(kind)
    PROVE  IInv' /\ Kept
<1>1. /\ UNCHANGED <<server, sessions, me, cache, form>>
      /\ disturbed < MaxDisturbances /\ disturbed' = disturbed + 1
      /\ calls' = [calls EXCEPT ![kind] = Answered(kind, Refused("network"))]
  BY DEF Lose, server
<1>2. ServerOK'
  BY <1>1, ServerStays DEF IInv
<1>3. ClientOK' /\ Kept
  BY <1>1, ClientStays DEF IInv
<1>4. Refused("network") \in ResponseType /\ Refused("network").code # "ok"
  <2>1. "network" \in Codes
    BY DEF Codes
  <2> QED
    BY <2>1, RefusedType
<1>5. CallOK(kind, Answered(kind, Refused("network")), Len(sessions))
  BY <1>4, AnsweredOK DEF IInv
<1>6. CallsOK'
  BY <1>1, <1>5, OneCall DEF IInv
<1>7. disturbed' \in 0 .. MaxDisturbances
  BY <1>1, Constants DEF IInv
<1> QED
  BY <1>2, <1>3, <1>6, <1>7 DEF IInv

(***************************************************************************)
(* Elsewhere.                                                              *)
(***************************************************************************)
\* What happens elsewhere keeps the invariant, and what was typed.
LEMMA OthersOK ==
    ASSUME IInv, Others
    PROVE  IInv' /\ Kept
<1>1. UNCHANGED <<me, cache, form, calls>> /\ disturbed' \in 0 .. MaxDisturbances
  <2>1. Elsewhere
    BY DEF Others, DeadlinePasses, Revoke, ElsewhereAdd, ElsewhereRemove, ElsewhereSave,
           ElsewherePatch
  <2> QED
    BY <2>1, Constants DEF Elsewhere, IInv
<1>2. ASSUME ServerOK', UNCHANGED sessions PROVE IInv' /\ Kept
  BY <1>1, <1>2, ClientStays, CallsStay DEF IInv
<1>3. ASSUME DeadlinePasses PROVE IInv' /\ Kept
  <2>1. ServerOK' /\ UNCHANGED sessions
    BY <1>3 DEF DeadlinePasses, IInv, ServerOK, RowsOK, SessionsOK
  <2> QED
    BY <1>2, <2>1
<1>4. ASSUME Revoke PROVE IInv' /\ Kept
  <2>1. SessionsOK(sessions') /\ Len(sessions') = Len(sessions)
    BY <1>4, AllEndedOK DEF Revoke, IInv, ServerOK
  <2>2. ServerOK'
    BY <1>4, <2>1 DEF Revoke, IInv, ServerOK, RowsOK, SessionsOK
  <2>3. ClientOK' /\ Kept
    BY <1>1, <2>1 DEF IInv, ClientOK, FormOK, Kept, Keeps
  <2>4. CallsOK'
    BY <1>1, <2>1 DEF IInv, CallsOK, CallOK
  <2> QED
    BY <1>1, <2>2, <2>3, <2>4 DEF IInv
<1>5. ASSUME NEW h \in Households, ElsewhereAdd(h) PROVE IInv' /\ Kept
  <2>1. ServerOK' /\ UNCHANGED sessions
    BY <1>5, WithOK DEF ElsewhereAdd, IInv
  <2> QED
    BY <1>2, <2>1
<1>6. ASSUME NEW h \in Households, NEW id \in 1 .. MaxGuests, ElsewhereRemove(h, id)
      PROVE  IInv' /\ Kept
  <2>1. ServerOK' /\ UNCHANGED sessions
    BY <1>6, WithoutOK DEF ElsewhereRemove, IInv
  <2> QED
    BY <1>2, <2>1
<1>7. ASSUME NEW h \in Households, NEW scope \in Scopes, NEW ages \in SUBSET (1 .. MaxGuests),
             NEW half \in Half, ElsewhereSave(h, scope, ages, half)
      PROVE  IInv' /\ Kept
  <2> DEFINE scopes == [id \in DOMAIN stored[h].members |-> scope]
             row    == Normalized(stored[h], scopes, ages, half)
  <2>1. /\ DOMAIN stored[h].members \subseteq Guests /\ h \in DOMAIN stored[h].members
        /\ DOMAIN stored[h].members \subseteq 1 .. guests
        /\ guests \in Nat /\ guests <= MaxGuests /\ guests <= guests
        /\ stored[h] \in StoredType /\ AgesOK(stored[h]) /\ ages \in SUBSET Guests
    <3>1. /\ stored[h] \in StoredType /\ stored[h].members \in Sheets(Guests, Sayable)
          /\ h \in DOMAIN stored[h].members /\ DOMAIN stored[h].members \subseteq 1 .. guests
          /\ guests \in Nat /\ guests <= MaxGuests /\ AgesOK(stored[h])
      BY RowFacts DEF IInv
    <3>2. DOMAIN stored[h].members \subseteq Guests
      BY <3>1, SheetType
    <3>3. ages \in SUBSET Guests
      BY DEF Guests
    <3> QED
      BY <3>1, <3>2, <3>3
  <2>2. scopes \in Sheets(Guests, Sayable) /\ DOMAIN scopes = DOMAIN stored[h].members
    BY <2>1 DEF Sheets, Sayable
  <2> HIDE DEF scopes
  <2>3. /\ row \in StoredType /\ row.members = scopes
        /\ row.ages = ages /\ row.children = stored[h].children
    BY <2>1, <2>2, NormalizedFacts
  <2>4. stored' = [stored EXCEPT ![h] = row] /\ ages \subseteq stored[h].children
    BY <1>7 DEF ElsewhereSave, scopes
  <2>5. guests' = guests /\ UNCHANGED <<closed, sessions>>
    BY <1>7 DEF ElsewhereSave
  <2> HIDE DEF row
  <2>6. AgesOK(row)
    BY <2>1, <2>2, <2>3, <2>4 DEF AgesOK
  <2>7. ServerOK' /\ UNCHANGED sessions
    BY <2>1, <2>2, <2>3, <2>4, <2>5, <2>6, OneRow DEF IInv
  <2> QED
    BY <1>2, <2>7
<1>8. ASSUME NEW h \in Households, NEW id \in 1 .. MaxGuests, NEW child \in BOOLEAN,
             NEW aged \in BOOLEAN, ElsewherePatch(h, id, child, aged)
      PROVE  IInv' /\ Kept
  <2> DEFINE children == Marked(stored[h].children, id, child)
             ages     == Marked(stored[h].ages, id, aged)
             row      == [stored[h] EXCEPT !.children = children, !.ages = ages]
  <2>1. /\ h \in DOMAIN stored[h].members /\ DOMAIN stored[h].members \subseteq 1 .. guests
        /\ guests \in Nat /\ guests <= MaxGuests /\ guests <= guests
        /\ stored[h] \in StoredType /\ AgesOK(stored[h])
        /\ stored[h].children \in SUBSET Guests /\ stored[h].ages \in SUBSET Guests
    BY RowFacts DEF IInv
  <2>2. id \in DOMAIN stored[h].members /\ (aged => child) /\ id \in Guests
    BY <1>8 DEF ElsewherePatch, Guests
  <2>3. /\ children \in SUBSET Guests /\ ages \in SUBSET Guests
        /\ ages \subseteq children /\ children \subseteq DOMAIN stored[h].members
    BY <2>1, <2>2 DEF Marked, AgesOK
  <2>4. stored' = [stored EXCEPT ![h] = row]
    BY <1>8 DEF ElsewherePatch
  <2>5. guests' = guests /\ UNCHANGED <<closed, sessions>>
    BY <1>8 DEF ElsewherePatch
  <2> HIDE DEF children, ages
  <2>6. /\ row \in StoredType /\ row.members = stored[h].members
        /\ row.children = children /\ row.ages = ages
    BY <2>1, <2>3 DEF StoredType
  <2> HIDE DEF row
  <2>7. AgesOK(row)
    BY <2>3, <2>6 DEF AgesOK
  <2>8. ServerOK' /\ UNCHANGED sessions
    BY <2>1, <2>4, <2>5, <2>6, <2>7, OneRow DEF IInv
  <2> QED
    BY <1>2, <2>8
<1> QED
  BY <1>3, <1>4, <1>5, <1>6, <1>7, <1>8 DEF Others

(***************************************************************************)
(* The theorems.                                                           *)
(***************************************************************************)
\* The server starts with what was invited, the browser with nothing.
LEMMA InitIInv == Init => IInv
<1> SUFFICES ASSUME Init PROVE IInv
  OBVIOUS
<1>1. ServerOK
  <2> DEFINE first(h, start) ==
          [members |-> [id \in {h} |-> "nil"], children |-> start.children \cap {h},
           ages |-> start.children \cap {h}, half |-> "none", submitted |-> FALSE]
  <2>0. PICK start \in Starts : /\ stored = [h \in Households |-> first(h, start)]
                               /\ guests = start.guests
    BY DEF Init
  <2>1. ASSUME NEW h \in Households PROVE first(h, start) \in StoredType
    <3> DEFINE members == [id \in {h} |-> "nil"]
               young   == start.children \cap {h}
    <3>1. members \in Sheets(Guests, Sayable) /\ "none" \in Half
      <4>1. {h} \in SUBSET Guests /\ "nil" \in Sayable /\ "none" \in Half
        BY Constants DEF Sayable, Half
      <4>2. members \in [{h} -> Sayable]
        BY <4>1
      <4> QED
        BY <4>1, <4>2 DEF Sheets
    <3>2. young \in SUBSET Guests
      BY Constants
    <3> HIDE DEF members, young
    <3>3. [members |-> members, children |-> young, ages |-> young, half |-> "none",
           submitted |-> FALSE] \in StoredType
      BY <3>1, <3>2 DEF StoredType
    <3> QED
      BY <3>3 DEF members, young
  <2>2. \A h \in Households : /\ DOMAIN first(h, start).members = {h}
                              /\ AgesOK(first(h, start))
    BY DEF AgesOK
  <2>3. stored = [h \in Households |-> first(h, start)]
    BY <2>0
  <2> HIDE DEF first
  <2>4. stored \in [Households -> StoredType]
    BY <2>1, <2>3
  <2>5. guests \in Nat /\ guests <= MaxGuests /\ Households \subseteq 1 .. guests
    BY <2>0, Constants
  <2>6. \A h \in Households : /\ h \in DOMAIN stored[h].members
                              /\ DOMAIN stored[h].members \subseteq 1 .. guests
                              /\ AgesOK(stored[h])
    BY <2>2, <2>3, <2>5
  <2>7. RowsOK(stored, guests)
    BY <2>4, <2>5, <2>6 DEF RowsOK
  <2>8. SessionsOK(sessions) /\ closed \in BOOLEAN
    <3>1. sessions = <<>> /\ closed = FALSE /\ MaxSessions \in Nat
      BY Constants DEF Init
    <3>2. sessions \in Seq(SessionType) /\ Len(sessions) = 0
      BY <3>1
    <3>3. Len(sessions) <= MaxSessions
      BY <3>1, <3>2
    <3>4. closed \in BOOLEAN
      BY <3>1
    <3> QED
      BY <3>2, <3>3, <3>4 DEF SessionsOK
  <2> QED
    BY <2>7, <2>8 DEF ServerOK
<1>2. ClientOK
  BY NoFormOK, NoAnswerType DEF Init, ClientOK
<1>3. CallsOK
  BY IdleOK DEF Init, CallsOK
<1>4. disturbed \in 0 .. MaxDisturbances
  BY Constants DEF Init
<1> QED
  BY <1>1, <1>2, <1>3, <1>4 DEF IInv

\* A step keeps the invariant and, unless it is the guest's typing, what was
\* typed.
LEMMA StepOK ==
    ASSUME IInv, Next
    PROVE  IInv' /\ (Typing \/ Kept)
<1>1. CASE Guest
  BY <1>1, VisitsOK, PagesOK, TypingOK, ButtonsOK DEF Guest, Typing
<1>2. CASE Others
  BY <1>2, OthersOK
<1>3. ASSUME NEW kind \in Kinds, Serve(kind) \/ Deliver(kind) \/ Lose(kind)
      PROVE  IInv' /\ Kept
  BY <1>3, ServeOK, FetchOK, SaveAnswerOK, AddAnswerOK, RemovalAnswerOK, LoseOK DEF Deliver
<1> QED
  BY <1>1, <1>2, <1>3 DEF Next

\* Nothing that happens to a variable, nothing that happens to the invariant.
LEMMA StutterOK ==
    ASSUME IInv, UNCHANGED vars
    PROVE  IInv'
<1>1. UNCHANGED <<stored, guests, closed, sessions, me, cache, form, calls, disturbed>>
  BY DEF vars
<1>2. ServerOK'
  BY <1>1, ServerStays DEF IInv, server
<1>3. ClientOK'
  BY <1>1, ClientStays DEF IInv
<1>4. CallsOK'
  BY <1>1, CallsStay DEF IInv
<1> QED
  BY <1>1, <1>2, <1>3, <1>4 DEF IInv

\* The invariant holds always.
LEMMA Invariance == Spec => []IInv
<1>1. IInv /\ [Next]_vars => IInv'
  BY StepOK, StutterOK
<1> QED
  BY InitIInv, <1>1, PTL DEF Spec

\* Entries of an answer are what Answers says.
LEMMA EntriesAreAnswers ==
    /\ \A members \in Seq(Entry) : Answers(members)
    /\ \A members \in Seq(Asked) : Answers(members)
<1>1. Sayable \subseteq MemberAnswer /\ Scopes \subseteq MemberAnswer
  BY Constants DEF Sayable, MemberAnswer
<1>2. /\ \A entry \in Entry : entry.id \in 1 .. MaxGuests /\ entry.attending \in MemberAnswer
      /\ \A entry \in Asked : entry.id \in 1 .. MaxGuests /\ entry.attending \in MemberAnswer
  BY <1>1 DEF Entry, Asked, Guests
<1>3. \A S, members : members \in Seq(S) => Range(members) \subseteq S
  BY DEF Range
<1>4. ASSUME NEW members \in Seq(Entry) PROVE Answers(members)
  BY <1>2, <1>3 DEF Answers
<1>5. ASSUME NEW members \in Seq(Asked) PROVE Answers(members)
  BY <1>2, <1>3 DEF Answers
<1> QED
  BY <1>4, <1>5

\* A card for exactly the members of the answer the browser shows, however the
\* answers of its calls overtake each other, a visit ends or the household is
\* changed elsewhere (draftFrom, reseedDraft and the render that calls them),
\* and every other variable in its type.
THEOREM WebClientTyped == Spec => []TypeOK
<1>1. IInv => TypeOK
  <2> SUFFICES ASSUME IInv PROVE TypeOK
    OBVIOUS
  <2>1. Sayable \subseteq MemberAnswer
    BY Constants DEF Sayable, MemberAnswer
  <2>2. ASSUME NEW h \in Households
        PROVE  /\ DOMAIN stored[h].members \subseteq 1 .. guests
               /\ h \in DOMAIN stored[h].members
               /\ \A id \in DOMAIN stored[h].members : stored[h].members[id] \in MemberAnswer
               /\ stored[h].half \in Half
               /\ stored[h].ages \subseteq stored[h].children
               /\ stored[h].children \subseteq DOMAIN stored[h].members
    <3>1. stored[h].half \in Half
      BY RowFacts DEF IInv, StoredType
    <3>2. AgesOK(stored[h])
      BY RowFacts DEF IInv
    <3> QED
      BY <2>1, <3>1, <3>2, RowFacts, SheetType DEF IInv, AgesOK
  <2>3. guests <= MaxGuests /\ Len(sessions) <= MaxSessions
    BY DEF IInv, ServerOK, RowsOK, SessionsOK
  <2>4. /\ me \in Households \cup {0} /\ cache.household \in Households \cup {0}
        /\ Answers(cache.members) /\ (form.mounted => form.seeded = Ids(cache))
        /\ form.mounted => /\ me # 0 /\ DOMAIN form.draft.members = Range(Ids(cache))
                           /\ form.draft.ages \subseteq Range(Ids(cache))
    <3>1. cache.household \in Households \cup {0} /\ cache.members \in Seq(Entry)
      BY DEF IInv, ClientOK, AnswerType
    <3> QED
      BY <3>1, EntriesAreAnswers DEF IInv, ClientOK, FormOK
  <2>5. ASSUME NEW kind \in Kinds
        PROVE  /\ calls[kind].stage \in {"none", "sent", "served", "settling"}
               /\ Answers(calls[kind].request.members)
               /\ Answers(calls[kind].response.answer.members)
    <3>1. calls[kind] \in CallType /\ calls[kind].response.answer \in AnswerType
      BY ArrivalFacts DEF IInv
    <3>2. /\ calls[kind].stage \in {"none", "sent", "served", "settling"}
          /\ calls[kind].request \in RequestType
      BY <3>1 DEF CallType, Stages
    <3>3. /\ calls[kind].request.members \in Seq(Asked)
          /\ calls[kind].response.answer.members \in Seq(Entry)
      BY <3>1, <3>2 DEF RequestType, AnswerType
    <3> QED
      BY <3>2, <3>3, EntriesAreAnswers
  <2>6. disturbed \in 0 .. MaxDisturbances
    BY DEF IInv
  <2> QED
    BY <2>2, <2>3, <2>4, <2>5, <2>6 DEF TypeOK
<1> QED
  BY <1>1, Invariance, PTL

\* Where nobody says no, nobody is declined: no default stands in for an
\* answer, in a save under way or in the server's rows (missingAnswers guards
\* every save that toRequest makes).
THEOREM NobodyIsEverDeclined == Spec => []NobodyIsDeclined
<1>1. IInv => NobodyIsDeclined
  <2> SUFFICES ASSUME IInv, "no" \notin Scopes PROVE NobodyIsDeclined
    BY DEF NobodyIsDeclined
  <2>1. ASSUME NEW member \in Range(calls["save"].request.members)
        PROVE  member.attending # "no"
    <3>1. "save" \in Kinds
      BY DEF Kinds
    <3>2. calls["save"].request \in RequestType
      BY <3>1, ArrivalFacts DEF IInv, CallType
    <3>3. member \in Asked
      BY <2>1, <3>2 DEF RequestType, Range
    <3>4. member.attending \in Scopes
      BY <3>3 DEF Asked
    <3> QED
      BY <3>4
  <2>2. ASSUME NEW h \in Households, NEW id \in DOMAIN stored[h].members
        PROVE  stored[h].members[id] # "no"
    <3>1. stored[h].members[id] \in Sayable
      BY RowFacts, SheetType DEF IInv
    <3> QED
      BY <3>1 DEF Sayable
  <2> QED
    BY <2>1, <2>2 DEF NobodyIsDeclined
<1> QED
  BY <1>1, Invariance, PTL

\* What was typed stays: whatever arrives while a form is filled in, the answer
\* for a member both cached answers have, and for the household, is the one the
\* guest gave (reseedDraft).
THEOREM TypedAlwaysSurvives == Spec => TypedSurvives
<1>1. ASSUME IInv, [Next]_vars
      PROVE  [form.mounted /\ form'.mounted /\ ~Typing =>
                 /\ form'.draft.half = form.draft.half
                 /\ \A id \in Range(Ids(cache)) \cap Range(Ids(cache')) :
                       /\ form'.draft.members[id] = form.draft.members[id]
                       /\ id \in form'.draft.ages <=> id \in form.draft.ages]_vars
  <2>1. CASE Next
    <3>1. Typing \/ Kept
      BY <1>1, <2>1, StepOK
    <3> QED
      BY <3>1 DEF Kept, Keeps
  <2>2. CASE UNCHANGED vars
    BY <2>2
  <2> QED
    BY <1>1, <2>1, <2>2
<1> QED
  BY <1>1, Invariance, PTL DEF Spec, TypedSurvives
=============================================================================
