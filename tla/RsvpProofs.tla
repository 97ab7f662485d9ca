----------------------------- MODULE RsvpProofs -----------------------------
(***************************************************************************)
(* Theorems about Rsvp, for any number of households, guests, requests     *)
(* and any answers, patches and deadline.                                  *)
(***************************************************************************)
EXTENDS RsvpBook, FiniteSetTheorems, TLAPS

(***************************************************************************)
(* The blank rows are rows.                                                *)
(***************************************************************************)
LEMMA EmptyHouseholdType ==
    \A label \in Labels, exists \in BOOLEAN : EmptyHousehold(label, exists) \in HouseholdRow
<1>1. Blank \in Texts
  BY TextAssumption
<1> QED
  BY <1>1 DEF EmptyHousehold, HouseholdRow

\* The blank household row is a household row.
LEMMA NoHouseholdType == NoHousehold \in HouseholdRow
<1>1. NoLabel \in Labels
  BY RsvpAssumption DEF NoLabel
<1> QED
  BY <1>1, EmptyHouseholdType DEF NoHousehold

\* A companion is a card, whatever its name.
LEMMA NewPlusOneType == \A name \in Texts : NewPlusOne(name) \in Card
<1>1. Blank \in Texts
  BY TextAssumption
<1> QED
  BY <1>1 DEF NewPlusOne, Card, Ages, Null, Kinds, Origins, SeatingNeeds, Attending,
              Scopes, MealChoice, Meals, Portions

\* The blank card is a card.
LEMMA NoCardType == NoCard \in Card
<1>1. NewPlusOne(Blank) \in Card
  BY NewPlusOneType, TextAssumption
<1> QED
  BY <1>1 DEF NoCard, Card, Origins

\* The blank guest row is a guest row.
LEMMA NoGuestType == NoGuest \in GuestRow
  BY NoCardType DEF NoGuest, GuestRow

\* A request at rest is a request.
LEMMA IdleType == Idle \in Request
<1>1. 0 \in Time
  BY RsvpAssumption DEF Time
<1> QED
  BY <1>1, NoHouseholdType, NoCardType DEF Idle, Request, InHandRecord, Addressed

\* What a request goes on with is a request again.
LEMMA OnwardType ==
    ASSUME NEW q \in Request, q.pc \in {"admitted", "read"},
           NEW p \in InHandRecord, p.pc # "stored", p.op = q.op, p.house = q.house, p.guest = q.guest
    PROVE  p \in Request
  BY DEF Request, Addressed

\* The fields of a request, for the provers.
LEMMA RequestFields ==
    ASSUME TypeOK, NEW r \in Requests
    PROVE  /\ request[r] \in Request
           /\ request[r] \in InHandRecord
  BY DEF TypeOK, Request

\* The rows and requests of a state have their types.
LEMMA RowsInHand ==
    ASSUME TypeOK, NEW r \in Requests, request[r].pc \in {"admitted", "read", "ready"}
    PROVE  /\ request[r].house \in Households
           /\ household[request[r].house] \in HouseholdRow
           /\ request[r].op \in GuestOperations =>
                 /\ request[r].guest \in Guests
                 /\ guest[request[r].guest] \in GuestRow
<1>1. Addressed(request[r]) /\ request[r].guest \in Guests \cup {0}
  BY RequestFields DEF Request, InHandRecord
<1> QED
  BY <1>1 DEF Addressed, TypeOK

(***************************************************************************)
(* What the domain's functions return.                                     *)
(***************************************************************************)
LEMMA NormalizeGuestAnswerType ==
    \A card \in Card : NormalizeGuestAnswer(card) \in Card
  BY DEF NormalizeGuestAnswer, Card, MealChoice, Meals, Portions

\* An accepted answer leaves a card a card.
LEMMA ApplyGuestAnswerType ==
    ASSUME NEW card \in Card, NEW answer \in GuestAnswer
    PROVE  ApplyGuestAnswer(card, answer) \in Card
<1> DEFINE answered == [card EXCEPT !.name = ResolveGuestName(answer.name),
                                    !.attending = answer.attending,
                                    !.meal = answer.meal,
                                    !.portion = answer.portion,
                                    !.snack = answer.snack,
                                    !.seatingNeed = answer.seatingNeed,
                                    !.age = answer.age]
<1>1. ResolveGuestName(answer.name) \in Texts
  BY TextAssumption DEF ResolveGuestName, GuestAnswer
<1>2. answered \in Card
  BY <1>1 DEF Card, GuestAnswer, Attending
<1> QED
  BY <1>2, NormalizeGuestAnswerType DEF ApplyGuestAnswer

\* So does a household's half of the answer with its row.
LEMMA ApplyHouseholdAnswerType ==
    ASSUME NEW row \in HouseholdRow, NEW answer \in HouseholdAnswer, NEW members
    PROVE  ApplyHouseholdAnswer(row, answer, members) \in HouseholdRow
  BY DEF ApplyHouseholdAnswer, NormalizeHouseholdAnswer, HouseholdRow, HouseholdAnswer

\* A stamped row is a row.
LEMMA StampType ==
    ASSUME NEW row \in HouseholdRow, NEW now \in Time
    PROVE  Stamp(row, now) \in HouseholdRow
  BY DEF Stamp, HouseholdRow

\* An accepted patch leaves a card a card.
LEMMA ApplyGuestPatchType ==
    ASSUME NEW card \in Card, NEW patch \in GuestPatch
    PROVE  ApplyGuestPatch(card, patch) \in Card
<1>1. ResolveGuestName(patch.name) \in Texts
  BY TextAssumption DEF ResolveGuestName, GuestPatch
<1>2. PatchedKind(card, patch) \in Kinds
  BY DEF PatchedKind, GuestPatch, Card
<1>3. PatchedAge(card, patch) \in Ages
  BY DEF PatchedAge, GuestPatch, Card, Ages, Null
<1>4. PatchedSeatingNeed(card, patch) \in SeatingNeeds
  BY DEF PatchedSeatingNeed, GuestPatch, Card
<1> QED
  BY <1>1, <1>2, <1>3, <1>4 DEF ApplyGuestPatch, Card

(***************************************************************************)
(* Type correctness.                                                       *)
(***************************************************************************)
LEMMA InitType == Init => TypeOK
<1> SUFFICES ASSUME Init PROVE TypeOK
  OBVIOUS
<1>1. household \in [Households -> HouseholdRow]
  <2>1. NoLabel \in Labels
    BY RsvpAssumption DEF NoLabel
  <2> QED
    BY <2>1, EmptyHouseholdType, NoHouseholdType DEF Init
<1>2. guest \in [Guests -> GuestRow]
  BY NoGuestType, RsvpAssumption DEF Init, GuestRow
<1>3. request \in [Requests -> Request]
  BY IdleType DEF Init
<1>4. audit \in SUBSET AuditEntry /\ clock \in Time
  BY RsvpAssumption DEF Init, Time
<1> QED
  BY <1>1, <1>2, <1>3, <1>4 DEF TypeOK, Request

\* Ending a request, and leaving its audit row to write, keep the type.
LEMMA RefuseType ==
    ASSUME TypeOK, NEW r \in Requests, Refuse(r)
    PROVE  TypeOK'
<1>1. request' \in [Requests -> Request]
  BY IdleType DEF TypeOK, Refuse, Request
<1> QED
  BY <1>1 DEF TypeOK, Refuse, Request

\* Going on with a well-typed request preserves the types.
LEMMA ProceedType ==
    ASSUME TypeOK, NEW r \in Requests, NEW q \in Request, Proceed(r, q)
    PROVE  TypeOK'
<1>1. request' \in [Requests -> Request]
  BY DEF TypeOK, Proceed, Request
<1> QED
  BY <1>1 DEF TypeOK, Proceed, Request

\* A request that has stored is well typed.
LEMMA StoredType ==
    ASSUME TypeOK, NEW r \in Requests, NEW g \in Guests \cup {0}, Stored(r, g),
           request[r].op \in Additions \cup Removals => g # 0
    PROVE  request' \in [Requests -> Request]
<1>1. [Idle EXCEPT !.pc = "stored", !.op = request[r].op,
                   !.house = request[r].house, !.guest = g] \in Request
  BY RequestFields, IdleType DEF Request, InHandRecord, Addressed
<1> QED
  BY <1>1 DEF Stored, TypeOK

\* An insert preserves the types.
LEMMA InsertType ==
    ASSUME TypeOK, NEW r \in Requests, NEW card \in Card, Insert(r, card)
    PROVE  TypeOK'
<1>1. PICK g \in Guests :
        /\ guest' = [guest EXCEPT ![g] = [status |-> "living", house |-> request[r].house,
                                          card |-> card]]
        /\ Stored(r, g)
        /\ UNCHANGED <<household, audit, clock>>
  BY DEF Insert
<1>2. request' \in [Requests -> Request]
  BY <1>1, StoredType DEF Guests
<1>3. request[r].house \in Households \cup {0}
  BY RequestFields DEF InHandRecord
<1>4. guest' \in [Guests -> GuestRow]
  BY <1>1, <1>3 DEF TypeOK, GuestRow
<1> QED
  BY <1>1, <1>2, <1>4 DEF TypeOK, Request

\* A save that gets past the rules holds the normalised answer of exactly
\* the living members.
LEMMA SaveApplyCases ==
    ASSUME NEW r \in Requests, SaveApply(r)
    PROVE  LET members == LivingMembers(request[r].house) IN
           \/ Refuse(r)
           \/ \E answers \in [members -> MemberAnswers], householdAnswer \in HouseholdAnswers :
                LET cards == AnsweredCards(members, answers) IN
                /\ At(r, Saves, "read")
                /\ TransportSeatsAccepted(householdAnswer)
                /\ Prepare(r, AnsweredRow(request[r].row, householdAnswer, members, cards),
                           members, cards)
  BY DEF SaveApply, SubmissionAccepted

\* What a save computes for the members are cards.
LEMMA AnsweredCardsType ==
    ASSUME TypeOK, NEW members \in SUBSET Guests, NEW answers \in [members -> MemberAnswers]
    PROVE  AnsweredCards(members, answers) \in [Guests -> Card]
<1>1. ASSUME NEW g \in Guests, g \in members
      PROVE  ApplyGuestAnswer(guest[g].card, answers[g]) \in Card
  <2>1. answers[g] \in GuestAnswer
    BY <1>1, RsvpAssumption
  <2>2. guest[g].card \in Card
    BY DEF TypeOK, GuestRow
  <2> QED
    BY <2>1, <2>2, ApplyGuestAnswerType
<1> QED
  BY <1>1, NoCardType DEF AnsweredCards

\* Computing a save preserves the types.
LEMMA SaveApplyType ==
    ASSUME TypeOK, NEW r \in Requests, SaveApply(r)
    PROVE  TypeOK'
<1> DEFINE members == LivingMembers(request[r].house)
<1>1. request[r] \in InHandRecord
  BY RequestFields
<1>2. members \in SUBSET Guests
  BY DEF LivingMembers
<1>3. CASE Refuse(r)
  BY <1>3, RefuseType
<1>4. ASSUME NEW answers \in [members -> MemberAnswers],
             NEW householdAnswer \in HouseholdAnswers,
             At(r, Saves, "read"),
             Prepare(r, AnsweredRow(request[r].row, householdAnswer, members,
                                    AnsweredCards(members, answers)),
                     members, AnsweredCards(members, answers))
      PROVE  TypeOK'
  <2> DEFINE cards == AnsweredCards(members, answers)
             row == AnsweredRow(request[r].row, householdAnswer, members, cards)
  <2>1. cards \in [Guests -> Card]
    BY <1>2, AnsweredCardsType
  <2>2. row \in HouseholdRow
    BY <1>1, ApplyHouseholdAnswerType, RsvpAssumption DEF InHandRecord, AnsweredRow
  <2>3. Stamp(row, request[r].now) \in HouseholdRow
    BY <1>1, <2>2, StampType DEF InHandRecord
  <2> DEFINE prepared == [request[r] EXCEPT !.pc = "ready",
                                            !.row = Stamp(row, request[r].now),
                                            !.members = members, !.cards = cards]
  <2>4. Proceed(r, prepared)
    BY <1>4 DEF Prepare
  <2> HIDE DEF members, cards, row
  <2>5. prepared \in InHandRecord
    BY <1>1, <1>2, <2>1, <2>3 DEF InHandRecord
  <2>6. prepared \in Request
    BY <1>1, <1>4, <2>5, OnwardType, RequestFields DEF At, InHandRecord
  <2> QED
    BY <2>4, <2>6, ProceedType
<1> QED
  BY <1>3, <1>4, SaveApplyCases

\* Committing a save preserves the types.
LEMMA SaveAnswerType ==
    ASSUME TypeOK, NEW r \in Requests, SaveAnswer(r)
    PROVE  TypeOK'
<1> DEFINE q == request[r]
<1>1. q \in InHandRecord
  BY RequestFields
<1>2. CASE Refuse(r)
  BY <1>2, RefuseType
<1>3. CASE /\ SaveAnswerApplies(q)
           /\ household' = [household EXCEPT ![q.house] = AnswerColumns(@, q.row)]
           /\ guest' = [g \in Guests |-> IF g \in q.members
                          THEN [guest[g] EXCEPT !.card = MemberColumns(@, q.cards[g])]
                          ELSE guest[g]]
           /\ Stored(r, 0)
           /\ UNCHANGED <<audit, clock>>
  <2>1. request' \in [Requests -> Request]
    BY <1>3, StoredType DEF SaveAnswer, At, Saves, Additions, Removals
  <2>2. ASSUME NEW stored \in HouseholdRow, NEW row \in HouseholdRow
        PROVE  AnswerColumns(stored, row) \in HouseholdRow
    BY DEF AnswerColumns, HouseholdRow
  <2>3. household' \in [Households -> HouseholdRow]
    BY <1>1, <1>3, <2>2 DEF TypeOK, InHandRecord
  <2>4. ASSUME NEW stored \in Card, NEW card \in Card
        PROVE  MemberColumns(stored, card) \in Card
    BY DEF MemberColumns, Card
  <2>5. guest' \in [Guests -> GuestRow]
    BY <1>1, <1>3, <2>4 DEF TypeOK, GuestRow, InHandRecord
  <2> QED
    BY <1>3, <2>1, <2>3, <2>5 DEF TypeOK
<1> QED
  BY <1>2, <1>3 DEF SaveAnswer

\* The steps that read and prepare, by the record they go on with.
LEMMA ReceiveType ==
    ASSUME TypeOK, NEW r \in Requests, Receive(r)
    PROVE  TypeOK'
<1>1. PICK op \in Operations, h \in Households, g \in Guests \cup {0} :
        /\ (g # 0) = (op \in GuestOperations)
        /\ Proceed(r, [Idle EXCEPT !.pc = "admitted", !.op = op, !.house = h,
                                   !.guest = g, !.now = clock])
  BY DEF Receive, Proceed
<1>2. [Idle EXCEPT !.pc = "admitted", !.op = op, !.house = h,
                   !.guest = g, !.now = clock] \in InHandRecord
  BY IdleType DEF Request, InHandRecord, TypeOK
<1>3. [Idle EXCEPT !.pc = "admitted", !.op = op, !.house = h,
                   !.guest = g, !.now = clock] \in Request
  BY <1>1, <1>2 DEF Request, Addressed, Idle
<1> QED
  BY <1>1, <1>3, ProceedType

\* Going on with some fields changed preserves the types.
LEMMA ProceedFieldsType ==
    ASSUME TypeOK, NEW r \in Requests, request[r].pc \in {"admitted", "read"},
           NEW pc \in {"read", "ready"}, NEW row \in HouseholdRow, NEW draft \in Card,
           Proceed(r, [request[r] EXCEPT !.pc = pc, !.row = row, !.draft = draft])
    PROVE  TypeOK'
<1> DEFINE next == [request[r] EXCEPT !.pc = pc, !.row = row, !.draft = draft]
<1>1. next \in InHandRecord
  BY RequestFields DEF InHandRecord
<1>2. next.pc # "stored" /\ next.op = request[r].op /\ next.house = request[r].house /\ next.guest = request[r].guest
  BY RequestFields DEF InHandRecord
<1>3. next \in Request
  BY <1>1, <1>2, RequestFields, OnwardType
<1> QED
  BY <1>3, ProceedType

\* Every other step that only prepares preserves the types.
LEMMA PrepareType ==
    ASSUME TypeOK, NEW r \in Requests,
           \/ SaveFindHousehold(r) \/ AddPlusOneFindHousehold(r)
           \/ AddGuestPrepare(r) \/ RemoveFindGuest(r) \/ UpdateGuestApply(r)
           \/ UpdateHouseholdApply(r) \/ DeleteHouseholdFind(r)
    PROVE  TypeOK'
<1> DEFINE q == request[r]
<1>1. q \in InHandRecord
  BY RequestFields
<1>2. q.pc = "admitted"
  BY DEF SaveFindHousehold, AddPlusOneFindHousehold, AddGuestPrepare, RemoveFindGuest,
         UpdateGuestApply, UpdateHouseholdApply, DeleteHouseholdFind, At
<1>3. /\ household[q.house] \in HouseholdRow
      /\ q.op \in GuestOperations => guest[q.guest] \in GuestRow
  BY <1>2, RowsInHand
<1>4. SUFFICES ASSUME ~Refuse(r)
               PROVE  \E pc \in {"read", "ready"}, row \in HouseholdRow, draft \in Card :
                        Proceed(r, [q EXCEPT !.pc = pc, !.row = row, !.draft = draft])
  BY <1>2, RefuseType, ProceedFieldsType
<1>5. q.row \in HouseholdRow /\ q.draft \in Card
  BY <1>1 DEF InHandRecord
<1>6. /\ \A pc, row : [q EXCEPT !.pc = pc, !.row = row, !.draft = q.draft]
                         = [q EXCEPT !.pc = pc, !.row = row]
      /\ \A pc, draft : [q EXCEPT !.pc = pc, !.row = q.row, !.draft = draft]
                           = [q EXCEPT !.pc = pc, !.draft = draft]
      /\ \A pc : [q EXCEPT !.pc = pc, !.row = q.row, !.draft = q.draft]
                    = [q EXCEPT !.pc = pc]
  BY <1>1 DEF InHandRecord
<1>7. CASE SaveFindHousehold(r)
  <2>1. Proceed(r, [q EXCEPT !.pc = "read", !.row = household[q.house]])
    BY <1>4, <1>7 DEF SaveFindHousehold
  <2>2. Proceed(r, [q EXCEPT !.pc = "read", !.row = household[q.house], !.draft = q.draft])
    BY <1>6, <2>1
  <2> QED
    BY <1>3, <1>5, <2>2
<1>8. CASE AddPlusOneFindHousehold(r)
  <2>1. PICK name \in PlusOneNames :
          Proceed(r, [q EXCEPT !.pc = "ready", !.draft = NewPlusOne(name)])
    BY <1>4, <1>8 DEF AddPlusOneFindHousehold
  <2>2. NewPlusOne(name) \in Card
    BY NewPlusOneType, RsvpAssumption
  <2>3. Proceed(r, [q EXCEPT !.pc = "ready", !.row = q.row, !.draft = NewPlusOne(name)])
    BY <1>6, <2>1
  <2> QED
    BY <1>5, <2>2, <2>3
<1>9. CASE AddGuestPrepare(r)
  <2>1. PICK draft \in Drafts :
          Proceed(r, [q EXCEPT !.pc = "ready", !.draft = SeededDraft(draft)])
    BY <1>4, <1>9 DEF AddGuestPrepare
  <2>2. SeededDraft(draft) \in Card
    BY RsvpAssumption DEF Card, Origins, SeededDraft
  <2>3. Proceed(r, [q EXCEPT !.pc = "ready", !.row = q.row, !.draft = SeededDraft(draft)])
    BY <1>6, <2>1
  <2> QED
    BY <1>5, <2>2, <2>3
<1>10. CASE RemoveFindGuest(r) \/ DeleteHouseholdFind(r)
  <2>1. Proceed(r, [q EXCEPT !.pc = "ready"])
    BY <1>4, <1>10 DEF RemoveFindGuest, DeleteHouseholdFind
  <2>2. Proceed(r, [q EXCEPT !.pc = "ready", !.row = q.row, !.draft = q.draft])
    BY <1>6, <2>1
  <2> QED
    BY <1>5, <2>2
<1>11. CASE UpdateGuestApply(r)
  <2>1. PICK patch \in GuestPatches :
          Proceed(r, [q EXCEPT !.pc = "ready",
                               !.draft = ApplyGuestPatch(guest[q.guest].card, patch)])
    BY <1>4, <1>11 DEF UpdateGuestApply
  <2>2. guest[q.guest].card \in Card
    BY <1>3, <1>11 DEF UpdateGuestApply, GuestOperations, At, GuestRow
  <2>3. ApplyGuestPatch(guest[q.guest].card, patch) \in Card
    BY <2>2, ApplyGuestPatchType, RsvpAssumption
  <2>4. Proceed(r, [q EXCEPT !.pc = "ready", !.row = q.row,
                             !.draft = ApplyGuestPatch(guest[q.guest].card, patch)])
    BY <1>6, <2>1
  <2> QED
    BY <1>5, <2>3, <2>4
<1>12. CASE UpdateHouseholdApply(r)
  <2>1. PICK label \in Labels :
          Proceed(r, [q EXCEPT !.pc = "ready",
                               !.row = [household[q.house] EXCEPT !.label = label]])
    BY <1>4, <1>12 DEF UpdateHouseholdApply
  <2>2. [household[q.house] EXCEPT !.label = label] \in HouseholdRow
    BY <1>3 DEF HouseholdRow
  <2>3. Proceed(r, [q EXCEPT !.pc = "ready",
                             !.row = [household[q.house] EXCEPT !.label = label],
                             !.draft = q.draft])
    BY <1>6, <2>1
  <2> QED
    BY <1>5, <2>2, <2>3
<1> QED
  BY <1>7, <1>8, <1>9, <1>10, <1>11, <1>12

\* The steps that write.
LEMMA GuestWriteType ==
    ASSUME TypeOK, NEW r \in Requests,
           SoftDelete(r) \/ GuestUpdate(r)
    PROVE  TypeOK'
<1> DEFINE q == request[r]
<1>1. q \in InHandRecord /\ q.guest \in Guests /\ guest[q.guest] \in GuestRow
  BY RequestFields, RowsInHand DEF SoftDelete, GuestUpdate, At, GuestOperations, Removals
<1>2. CASE Refuse(r)
  BY <1>2, RefuseType
<1>3. CASE ~Refuse(r) /\ SoftDelete(r)
  <2>1. /\ guest' = [guest EXCEPT ![q.guest].status = "removed"]
        /\ Stored(r, q.guest)
        /\ UNCHANGED <<household, audit, clock>>
    BY <1>3 DEF SoftDelete
  <2>2. request' \in [Requests -> Request]
    BY <1>1, <2>1, StoredType DEF Guests
  <2>3. guest' \in [Guests -> GuestRow]
    BY <1>1, <2>1 DEF TypeOK, GuestRow
  <2> QED
    BY <2>1, <2>2, <2>3 DEF TypeOK
<1>4. CASE ~Refuse(r) /\ GuestUpdate(r)
  <2>1. /\ guest' = [guest EXCEPT ![q.guest].card = PatchColumns(@, q.draft)]
        /\ Stored(r, q.guest)
        /\ UNCHANGED <<household, audit, clock>>
    BY <1>4 DEF GuestUpdate
  <2>2. request' \in [Requests -> Request]
    BY <1>1, <2>1, StoredType DEF Guests
  <2>3. PatchColumns(guest[q.guest].card, q.draft) \in Card
    BY <1>1 DEF PatchColumns, GuestRow, InHandRecord, Card
  <2>4. guest' \in [Guests -> GuestRow]
    BY <1>1, <2>1, <2>3 DEF TypeOK, GuestRow
  <2> QED
    BY <2>1, <2>2, <2>4 DEF TypeOK
<1> QED
  BY <1>2, <1>3, <1>4

\* The two inserting operations preserve the types.
LEMMA InsertingType ==
    ASSUME TypeOK, NEW r \in Requests,
           CreateIfHouseholdAllows(r) \/ GuestCreate(r)
    PROVE  TypeOK'
<1>1. request[r].draft \in Card
  BY RequestFields DEF InHandRecord
<1>2. Refuse(r) \/ Insert(r, request[r].draft)
  BY DEF CreateIfHouseholdAllows, GuestCreate
<1> QED
  BY <1>1, <1>2, RefuseType, InsertType

\* The writes of a household row preserve the types.
LEMMA HouseholdWriteType ==
    ASSUME TypeOK, NEW r \in Requests,
           HouseholdUpdate(r) \/ HouseholdDelete(r) \/ HouseholdCreate(r)
    PROVE  TypeOK'
<1> DEFINE h == request[r].house
<1>1. request[r] \in InHandRecord /\ h \in Households /\ household[h] \in HouseholdRow
  BY RequestFields, RowsInHand DEF HouseholdUpdate, HouseholdDelete, HouseholdCreate, At
<1>2. CASE Refuse(r)
  BY <1>2, RefuseType
<1>3. CASE ~Refuse(r) /\ HouseholdUpdate(r)
  <2>1. /\ household' = [household EXCEPT ![h] = PatchedRow(@, request[r].row)]
        /\ Stored(r, 0)
        /\ UNCHANGED <<guest, audit, clock>>
    BY <1>3 DEF HouseholdUpdate
  <2>2. request' \in [Requests -> Request]
    BY <1>3, <2>1, StoredType DEF HouseholdUpdate, At, Additions, Removals
  <2>3. PatchedRow(household[h], request[r].row) \in HouseholdRow
    BY <1>1 DEF PatchedRow, HouseholdRow, InHandRecord
  <2>4. household' \in [Households -> HouseholdRow]
    BY <2>1, <2>3 DEF TypeOK
  <2> QED
    BY <2>1, <2>2, <2>4 DEF TypeOK
<1>4. CASE ~Refuse(r) /\ HouseholdDelete(r)
  <2>1. /\ household' = [household EXCEPT ![h] = NoHousehold]
        /\ guest' = [g \in Guests |-> IF guest[g].house = h THEN NoGuest ELSE guest[g]]
        /\ Stored(r, 0)
        /\ UNCHANGED <<audit, clock>>
    BY <1>4 DEF HouseholdDelete
  <2>2. request' \in [Requests -> Request]
    BY <1>4, <2>1, StoredType DEF HouseholdDelete, At, Additions, Removals
  <2>3. household' \in [Households -> HouseholdRow]
    BY <2>1, NoHouseholdType DEF TypeOK
  <2>4. guest' \in [Guests -> GuestRow]
    BY <2>1, NoGuestType DEF TypeOK
  <2> QED
    BY <2>1, <2>2, <2>3, <2>4 DEF TypeOK
<1>5. CASE HouseholdCreate(r)
  <2>1. PICK k \in Households, label \in Labels :
          household' = [household EXCEPT ![k] = EmptyHousehold(label, TRUE)]
    BY <1>5 DEF HouseholdCreate
  <2>2. Stored(r, 0) /\ UNCHANGED <<guest, audit, clock>>
    BY <1>5 DEF HouseholdCreate
  <2>3. request' \in [Requests -> Request]
    BY <1>5, <2>2, StoredType DEF HouseholdCreate, At, Additions, Removals
  <2>4. household' \in [Households -> HouseholdRow]
    BY <2>1, EmptyHouseholdType DEF TypeOK
  <2> QED
    BY <2>2, <2>3, <2>4 DEF TypeOK
<1> QED
  BY <1>2, <1>3, <1>4, <1>5

\* Writing the audit row preserves the types.
LEMMA RecordAuditType ==
    ASSUME TypeOK, NEW r \in Requests, RecordAudit(r)
    PROVE  TypeOK'
<1>1. AuditEntriesOf(request[r]) \in SUBSET AuditEntry
  <2>1. request[r].op \in Additions \cup Removals => request[r].guest \in Guests
    BY RequestFields DEF RecordAudit, Request, InHandRecord, Addressed
  <2> QED
    BY <2>1 DEF AuditEntriesOf, AuditEntry
<1>2. request' \in [Requests -> Request]
  BY IdleType DEF RecordAudit, TypeOK
<1> QED
  BY <1>1, <1>2 DEF RecordAudit, TypeOK

\* Every step preserves the types.
LEMMA StepType ==
    ASSUME TypeOK, [Next]_vars
    PROVE  TypeOK'
<1>1. CASE UNCHANGED vars
  BY <1>1 DEF vars, TypeOK
<1>2. CASE Tick
  BY <1>2, RsvpAssumption DEF Tick, TypeOK, Time
<1>3. ASSUME NEW r \in Requests, Receive(r) \/ RequestStep(r) \/ Abort(r)
      PROVE  TypeOK'
  BY <1>3, ReceiveType, RefuseType, SaveApplyType, SaveAnswerType, PrepareType,
     GuestWriteType, InsertingType, HouseholdWriteType, RecordAuditType
     DEF RequestStep, Abort
<1> QED
  BY <1>1, <1>2, <1>3 DEF Next

\* Every row and everything a request has in hand stays in its type, whatever
\* interleaving of requests, writes and aborts happens.
THEOREM TypeCorrect == Spec => []TypeOK
<1>1. Init => TypeOK
  BY InitType
<1>2. TypeOK /\ [Next]_vars => TypeOK'
  BY StepType
<1> QED
  BY <1>1, <1>2, PTL DEF Spec

(***************************************************************************)
(* The inductive invariant.  What a request has in hand says nothing about *)
(* the tables, so a step of one request leaves the others' alone; what is  *)
(* in hand was prepared by the rules, so writing it keeps the tables right.*)
(***************************************************************************)
Safe == TypeOK /\ InHand /\ CateringNeedsParty /\ AgesOnlyForChildren

\* What the domain's functions guarantee of what they return.
LEMMA NormalizedIsScopeGated ==
    \A card \in Card : ScopeGated(NormalizeGuestAnswer(card))
  BY DEF NormalizeGuestAnswer, ScopeGated, NotFed, AttendsParty, Card

\* What ApplyGuestAnswer returns is scope gated.
LEMMA AnsweredIsScopeGated ==
    ASSUME NEW card \in Card, NEW answer \in GuestAnswer
    PROVE  ScopeGated(ApplyGuestAnswer(card, answer))
<1> DEFINE answered == [card EXCEPT !.name = ResolveGuestName(answer.name),
                                    !.attending = answer.attending,
                                    !.meal = answer.meal,
                                    !.portion = answer.portion,
                                    !.snack = answer.snack,
                                    !.seatingNeed = answer.seatingNeed,
                                    !.age = answer.age]
<1>1. ResolveGuestName(answer.name) \in Texts
  BY TextAssumption DEF ResolveGuestName, GuestAnswer
<1>2. answered \in Card
  BY <1>1 DEF Card, GuestAnswer, Attending
<1> QED
  BY <1>2, NormalizedIsScopeGated DEF ApplyGuestAnswer

\* NormalizeHouseholdAnswer returns justified seats.
LEMMA NormalizedSeats ==
    ASSUME NEW row \in HouseholdRow, NEW members
    PROVE  SeatsJustifiedBy(NormalizeHouseholdAnswer(row, members), members)
  BY DEF NormalizeHouseholdAnswer, SeatsJustifiedBy, HouseholdRow

\* So does the row a save computes, against the cards it computes.
LEMMA AnsweredRowSeats ==
    ASSUME NEW row \in HouseholdRow, NEW answer \in HouseholdAnswer, NEW now \in Time,
           NEW members, NEW cards
    PROVE  SeatsJustifiedBy(Stamp(AnsweredRow(row, answer, members, cards), now),
                            {cards[g] : g \in members})
<1> DEFINE answered == [row EXCEPT !.needed = answer.needed, !.offered = answer.offered,
                                   !.taxi = answer.taxi, !.note = answer.note]
           normal   == NormalizeHouseholdAnswer(answered, {cards[g] : g \in members})
<1>1. answered \in HouseholdRow
  BY DEF HouseholdRow, HouseholdAnswer
<1>2. SeatsJustifiedBy(normal, {cards[g] : g \in members})
  BY <1>1, NormalizedSeats
<1>3. normal \in HouseholdRow
  BY <1>1 DEF NormalizeHouseholdAnswer, HouseholdRow
<1>4. AnsweredRow(row, answer, members, cards) = normal
  BY DEF AnsweredRow, ApplyHouseholdAnswer
<1> HIDE DEF normal
<1>5. SeatsJustifiedBy(Stamp(normal, now), {cards[g] : g \in members})
  BY <1>2, <1>3 DEF SeatsJustifiedBy, Stamp, HouseholdRow
<1> QED
  BY <1>4, <1>5

\* The invariant holds at the start.
LEMMA InitSafe == Init => Safe
<1> SUFFICES ASSUME Init PROVE Safe
  OBVIOUS
<1>1. TypeOK
  BY InitType
<1>2. InHand
  BY DEF Init, Idle, InHand, SavePrepared, DraftPrepared
<1>3. ScopeGated(NoCard) /\ AgeCheck(NoCard)
  BY DEF NoCard, NewPlusOne, ScopeGated, NotFed, AgeCheck
<1>4. \A g \in Guests : guest[g].card = IF g \in DOMAIN Invited THEN Invited[g] ELSE NoCard
  BY DEF Init, NoGuest
<1>5. \A g \in DOMAIN Invited : ScopeGated(Invited[g]) /\ AgeCheck(Invited[g])
  BY RsvpAssumption DEF Unanswered, ScopeGated, NotFed
<1> QED
  BY <1>1, <1>2, <1>3, <1>4, <1>5 DEF Safe, CateringNeedsParty, AgesOnlyForChildren

\* A step that writes no table keeps the invariant if the request goes on
\* with something prepared.
LEMMA ProceedSafe ==
    ASSUME Safe, NEW r \in Requests, NEW q, SavePrepared(q), DraftPrepared(q), Proceed(r, q)
    PROVE  InHand' /\ CateringNeedsParty' /\ AgesOnlyForChildren'
<1>1. \A s \in Requests : request'[s] = IF s = r THEN q ELSE request[s]
  BY DEF Safe, TypeOK, Proceed
<1>2. InHand'
  BY <1>1 DEF Safe, InHand
<1> QED
  BY <1>2 DEF Safe, CateringNeedsParty, AgesOnlyForChildren, Proceed

\* Refusing preserves the invariant.
LEMMA RefuseSafe ==
    ASSUME Safe, NEW r \in Requests, Refuse(r)
    PROVE  InHand' /\ CateringNeedsParty' /\ AgesOnlyForChildren'
<1>1. SavePrepared(Idle) /\ DraftPrepared(Idle)
  BY DEF Idle, SavePrepared, DraftPrepared
<1> QED
  BY <1>1, ProceedSafe DEF Refuse, Proceed

\* Storing leaves nothing in hand that was not prepared.
LEMMA StoredInHand ==
    ASSUME Safe, NEW r \in Requests, NEW g, Stored(r, g)
    PROVE  InHand'
<1>1. \A s \in Requests : s # r => request'[s] = request[s]
  BY DEF Safe, TypeOK, Stored
<1>2. request'[r].pc = "stored"
  BY DEF Safe, TypeOK, Stored, Idle
<1> QED
  BY <1>1, <1>2 DEF Safe, InHand, SavePrepared, DraftPrepared

\* Computing a save preserves the invariant.
LEMMA SaveApplySafe ==
    ASSUME Safe, NEW r \in Requests, SaveApply(r)
    PROVE  InHand' /\ CateringNeedsParty' /\ AgesOnlyForChildren'
<1> DEFINE members == LivingMembers(request[r].house)
<1>1. request[r] \in InHandRecord
  BY RequestFields DEF Safe
<1>2. members \in SUBSET Guests
  BY DEF LivingMembers
<1>3. CASE Refuse(r)
  BY <1>3, RefuseSafe
<1>4. ASSUME NEW answers \in [members -> MemberAnswers],
             NEW householdAnswer \in HouseholdAnswers,
             At(r, Saves, "read"),
             Prepare(r, AnsweredRow(request[r].row, householdAnswer, members,
                                    AnsweredCards(members, answers)),
                     members, AnsweredCards(members, answers))
      PROVE  InHand' /\ CateringNeedsParty' /\ AgesOnlyForChildren'
  <2> DEFINE cards == AnsweredCards(members, answers)
             row == Stamp(AnsweredRow(request[r].row, householdAnswer, members, cards),
                          request[r].now)
             next == [request[r] EXCEPT !.pc = "ready", !.row = row,
                                        !.members = members, !.cards = cards]
  <2>1. \A g \in members : ScopeGated(cards[g])
    <3> SUFFICES ASSUME NEW g \in members PROVE ScopeGated(cards[g])
      OBVIOUS
    <3>1. cards[g] = ApplyGuestAnswer(guest[g].card, answers[g])
      BY <1>2 DEF AnsweredCards
    <3>2. guest[g].card \in Card /\ answers[g] \in GuestAnswer
      BY <1>2, RsvpAssumption DEF Safe, TypeOK, GuestRow
    <3> QED
      BY <3>1, <3>2, AnsweredIsScopeGated
  <2>2. SeatsJustifiedBy(row, {cards[g] : g \in members})
    BY <1>1, AnsweredRowSeats, RsvpAssumption DEF InHandRecord
  <2>3. Proceed(r, next)
    BY <1>4 DEF Prepare
  <2> HIDE DEF members, cards, row
  <2>4. /\ next.op = request[r].op /\ next.members = members
        /\ next.cards = cards /\ next.row = row
    BY <1>1 DEF InHandRecord
  <2>5. SavePrepared(next)
    BY <2>1, <2>2, <2>4 DEF SavePrepared
  <2>6. DraftPrepared(next)
    BY <1>4, <2>4 DEF DraftPrepared, At, Saves, Additions
  <2> QED
    BY <2>3, <2>5, <2>6, ProceedSafe
<1> QED
  BY <1>3, <1>4, SaveApplyCases

\* The other steps that prepare a write.
LEMMA PrepareSafe ==
    ASSUME Safe, NEW r \in Requests,
           \/ Receive(r) \/ SaveFindHousehold(r) \/ AddPlusOneFindHousehold(r)
           \/ AddGuestPrepare(r) \/ RemoveFindGuest(r) \/ UpdateGuestApply(r)
           \/ UpdateHouseholdApply(r) \/ DeleteHouseholdFind(r)
    PROVE  InHand' /\ CateringNeedsParty' /\ AgesOnlyForChildren'
<1> DEFINE q == request[r]
<1>1. q \in InHandRecord
  BY RequestFields DEF Safe
<1>2. SUFFICES ASSUME ~Refuse(r)
               PROVE  \E p : SavePrepared(p) /\ DraftPrepared(p) /\ Proceed(r, p)
  BY RefuseSafe, ProceedSafe
<1>3. CASE Receive(r)
  BY <1>3 DEF Receive, Proceed, Idle, SavePrepared, DraftPrepared
<1>4. CASE SaveFindHousehold(r)
  BY <1>1, <1>2, <1>4 DEF SaveFindHousehold, SavePrepared, DraftPrepared, InHandRecord
<1>5. CASE AddPlusOneFindHousehold(r)
  <2>1. PICK name \in PlusOneNames :
          Proceed(r, [q EXCEPT !.pc = "ready", !.draft = NewPlusOne(name)])
    BY <1>2, <1>5 DEF AddPlusOneFindHousehold
  <2> DEFINE next == [q EXCEPT !.pc = "ready", !.draft = NewPlusOne(name)]
  <2>2. next.op = "AddPlusOne" /\ next.draft = NewPlusOne(name)
    BY <1>1, <1>5 DEF AddPlusOneFindHousehold, At, InHandRecord
  <2>3. SavePrepared(next) /\ DraftPrepared(next)
    BY <2>2 DEF SavePrepared, DraftPrepared, Saves, Unanswered, AgeCheck, NewPlusOne
  <2> QED
    BY <2>1, <2>3
<1>6. CASE AddGuestPrepare(r)
  <2>1. PICK draft \in Drafts :
          /\ DraftAccepted(draft)
          /\ Proceed(r, [q EXCEPT !.pc = "ready", !.draft = SeededDraft(draft)])
    BY <1>2, <1>6 DEF AddGuestPrepare
  <2> DEFINE next == [q EXCEPT !.pc = "ready", !.draft = SeededDraft(draft)]
  <2>2. next.op = "AddGuest" /\ next.draft = SeededDraft(draft)
    BY <1>1, <1>6 DEF AddGuestPrepare, At, InHandRecord
  <2>3. Unanswered(SeededDraft(draft)) /\ AgeCheck(SeededDraft(draft))
    BY <2>1, RsvpAssumption DEF DraftAccepted, AgeAccepted, SeededDraft, Unanswered, AgeCheck, Card
  <2>4. SavePrepared(next) /\ DraftPrepared(next)
    BY <2>2, <2>3 DEF SavePrepared, DraftPrepared, Saves
  <2> QED
    BY <2>1, <2>4
<1>7. CASE RemoveFindGuest(r) \/ DeleteHouseholdFind(r)
  <2> DEFINE next == [q EXCEPT !.pc = "ready"]
  <2>1. Proceed(r, next)
    BY <1>2, <1>7 DEF RemoveFindGuest, DeleteHouseholdFind
  <2>2. next.op \in Removals \cup {"DeleteHousehold"}
    BY <1>1, <1>7 DEF RemoveFindGuest, DeleteHouseholdFind, At, InHandRecord
  <2>3. SavePrepared(next) /\ DraftPrepared(next)
    BY <2>2 DEF SavePrepared, DraftPrepared, Saves, Additions, Removals
  <2> QED
    BY <2>1, <2>3
<1>8. CASE UpdateGuestApply(r)
  <2> DEFINE current == guest[q.guest].card
  <2>1. PICK patch \in GuestPatches :
          /\ GuestPatchAccepted(current, patch)
          /\ Proceed(r, [q EXCEPT !.pc = "ready", !.draft = ApplyGuestPatch(current, patch)])
    BY <1>2, <1>8 DEF UpdateGuestApply
  <2>2. current \in Card
    BY <1>8, RowsInHand DEF UpdateGuestApply, At, GuestOperations, GuestRow, Safe
  <2> DEFINE next == [q EXCEPT !.pc = "ready", !.draft = ApplyGuestPatch(current, patch)]
  <2>3. next.op = "UpdateGuest" /\ next.draft = ApplyGuestPatch(current, patch)
    BY <1>1, <1>8 DEF UpdateGuestApply, At, InHandRecord
  <2>4. AgeCheck(ApplyGuestPatch(current, patch))
    BY <2>1, <2>2 DEF GuestPatchAccepted, AgeAccepted, ApplyGuestPatch, AgeCheck, Card
  <2>5. SavePrepared(next) /\ DraftPrepared(next)
    BY <2>3, <2>4 DEF SavePrepared, DraftPrepared, Saves, Additions
  <2> QED
    BY <2>1, <2>5
<1>9. CASE UpdateHouseholdApply(r)
  <2>1. PICK label \in Labels :
          Proceed(r, [q EXCEPT !.pc = "ready",
                               !.row = [household[q.house] EXCEPT !.label = label]])
    BY <1>2, <1>9 DEF UpdateHouseholdApply
  <2> DEFINE next == [q EXCEPT !.pc = "ready",
                               !.row = [household[q.house] EXCEPT !.label = label]]
  <2>2. next.op = "UpdateHousehold"
    BY <1>1, <1>9 DEF UpdateHouseholdApply, At, InHandRecord
  <2>3. SavePrepared(next) /\ DraftPrepared(next)
    BY <2>2 DEF SavePrepared, DraftPrepared, Saves, Additions
  <2> QED
    BY <2>1, <2>3
<1> QED
  BY <1>3, <1>4, <1>5, <1>6, <1>7, <1>8, <1>9

\* A save writes what it prepared, and the CHECK looks at the kind stored now.
LEMMA SaveAnswerSafe ==
    ASSUME Safe, NEW r \in Requests, SaveAnswer(r)
    PROVE  InHand' /\ CateringNeedsParty' /\ AgesOnlyForChildren'
<1> DEFINE q == request[r]
<1>1. CASE Refuse(r)
  BY <1>1, RefuseSafe
<1>2. CASE ~Refuse(r)
  <2>1. /\ SaveAnswerApplies(q)
        /\ guest' = [g \in Guests |-> IF g \in q.members
                        THEN [guest[g] EXCEPT !.card = MemberColumns(@, q.cards[g])]
                        ELSE guest[g]]
        /\ Stored(r, 0)
    BY <1>2 DEF SaveAnswer
  <2>2. InHand'
    BY <2>1, StoredInHand
  <2>3. \A g \in q.members : ScopeGated(q.cards[g])
    BY DEF SaveAnswer, At, Safe, InHand, SavePrepared
  <2>4. q \in InHandRecord
    BY RequestFields DEF Safe
  <2>5. \A g \in Guests : guest[g].card \in Card /\ q.cards[g] \in Card /\ guest[g] \in GuestRow
    BY <2>4 DEF Safe, TypeOK, GuestRow, InHandRecord
  <2>6. ASSUME NEW g \in Guests
        PROVE  ScopeGated(guest'[g].card) /\ AgeCheck(guest'[g].card)
    <3>1. CASE g \in q.members
      <4>1. guest'[g].card = MemberColumns(guest[g].card, q.cards[g])
        BY <2>1, <2>5, <3>1 DEF GuestRow
      <4>2. ScopeGated(MemberColumns(guest[g].card, q.cards[g]))
        BY <2>3, <2>5, <3>1 DEF MemberColumns, ScopeGated, NotFed, AttendsParty, Card
      <4>3. AgeCheck(MemberColumns(guest[g].card, q.cards[g]))
        BY <2>1, <3>1 DEF SaveAnswerApplies
      <4> QED
        BY <4>1, <4>2, <4>3
    <3>2. CASE g \notin q.members
      BY <2>1, <3>2 DEF Safe, CateringNeedsParty, AgesOnlyForChildren
    <3> QED
      BY <3>1, <3>2
  <2> QED
    BY <2>2, <2>6 DEF CateringNeedsParty, AgesOnlyForChildren
<1> QED
  BY <1>1, <1>2

\* The other writes to the guest table.
LEMMA GuestWriteSafe ==
    ASSUME Safe, NEW r \in Requests,
           CreateIfHouseholdAllows(r) \/ GuestCreate(r) \/ SoftDelete(r) \/ GuestUpdate(r)
    PROVE  InHand' /\ CateringNeedsParty' /\ AgesOnlyForChildren'
<1> DEFINE q == request[r]
<1>1. CASE Refuse(r)
  BY <1>1, RefuseSafe
<1>2. \A g \in Guests : guest[g] \in GuestRow /\ guest[g].card \in Card
  BY DEF Safe, TypeOK, GuestRow
<1>3. CASE ~Refuse(r) /\ (CreateIfHouseholdAllows(r) \/ GuestCreate(r))
  <2>1. PICK g \in Guests :
          /\ guest' = [guest EXCEPT ![g] = [status |-> "living", house |-> q.house,
                                            card |-> q.draft]]
          /\ Stored(r, g)
    BY <1>3 DEF CreateIfHouseholdAllows, GuestCreate, Insert
  <2>2. Unanswered(q.draft) /\ AgeCheck(q.draft)
    BY <1>3 DEF CreateIfHouseholdAllows, GuestCreate, At, Safe, InHand, DraftPrepared, Additions
  <2>3. ScopeGated(q.draft)
    BY <2>2 DEF Unanswered, ScopeGated, NotFed
  <2>4. \A k \in Guests : guest'[k].card = IF k = g THEN q.draft ELSE guest[k].card
    BY <2>1 DEF Safe, TypeOK
  <2> QED
    BY <2>1, <2>2, <2>3, <2>4, StoredInHand DEF Safe, CateringNeedsParty, AgesOnlyForChildren
<1>4. CASE ~Refuse(r) /\ SoftDelete(r)
  <2>1. guest' = [guest EXCEPT ![q.guest].status = "removed"] /\ Stored(r, q.guest)
    BY <1>4 DEF SoftDelete
  <2>2. \A k \in Guests : guest'[k].card = guest[k].card
    BY <1>2, <2>1 DEF Safe, TypeOK, GuestRow
  <2> QED
    BY <2>1, <2>2, StoredInHand DEF Safe, CateringNeedsParty, AgesOnlyForChildren
<1>5. CASE ~Refuse(r) /\ GuestUpdate(r)
  <2>1. /\ guest' = [guest EXCEPT ![q.guest].card = PatchColumns(@, q.draft)]
        /\ Stored(r, q.guest)
    BY <1>5 DEF GuestUpdate
  <2>2. \A k \in Guests : guest'[k].card = IF k = q.guest
                                            THEN PatchColumns(guest[k].card, q.draft)
                                            ELSE guest[k].card
    BY <1>2, <2>1 DEF Safe, TypeOK, GuestRow
  <2>3. AgeCheck(q.draft)
    BY <1>5 DEF GuestUpdate, At, Safe, InHand, DraftPrepared
  <2>4. q.draft \in Card
    BY RequestFields DEF Safe, InHandRecord
  <2>5. ASSUME NEW k \in Guests
        PROVE  /\ ScopeGated(PatchColumns(guest[k].card, q.draft))
               /\ AgeCheck(PatchColumns(guest[k].card, q.draft))
    BY <1>2, <2>3, <2>4 DEF PatchColumns, ScopeGated, NotFed, AttendsParty, AgeCheck, Card,
       Safe, CateringNeedsParty
  <2> QED
    BY <2>1, <2>2, <2>5, StoredInHand DEF Safe, CateringNeedsParty, AgesOnlyForChildren
<1> QED
  BY <1>1, <1>3, <1>4, <1>5

\* The writes of a household row preserve the invariant.
LEMMA HouseholdWriteSafe ==
    ASSUME Safe, NEW r \in Requests,
           HouseholdUpdate(r) \/ HouseholdDelete(r) \/ HouseholdCreate(r)
    PROVE  InHand' /\ CateringNeedsParty' /\ AgesOnlyForChildren'
<1>1. CASE Refuse(r)
  BY <1>1, RefuseSafe
<1>2. CASE ~Refuse(r)
  <2>1. InHand'
    BY <1>2, StoredInHand DEF HouseholdUpdate, HouseholdDelete, HouseholdCreate
  <2>2. ScopeGated(NoGuest.card) /\ AgeCheck(NoGuest.card)
    BY DEF NoGuest, NoCard, NewPlusOne, ScopeGated, NotFed, AgeCheck
  <2>3. \A g \in Guests : guest'[g] \in {guest[g], NoGuest}
    BY <1>2 DEF HouseholdUpdate, HouseholdDelete, HouseholdCreate
  <2> QED
    BY <2>1, <2>2, <2>3 DEF Safe, CateringNeedsParty, AgesOnlyForChildren
<1> QED
  BY <1>1, <1>2

\* Every step preserves the invariant.
LEMMA StepSafe ==
    ASSUME Safe, [Next]_vars
    PROVE  Safe'
<1>1. TypeOK'
  BY StepType DEF Safe
<1>2. CASE UNCHANGED <<guest, request>>
  BY <1>1, <1>2 DEF Safe, InHand, CateringNeedsParty, AgesOnlyForChildren
<1>3. ASSUME NEW r \in Requests, RecordAudit(r)
      PROVE  InHand' /\ CateringNeedsParty' /\ AgesOnlyForChildren'
  <2>1. \A s \in Requests : request'[s] = IF s = r THEN Idle ELSE request[s]
    BY <1>3 DEF RecordAudit, Safe, TypeOK
  <2>2. SavePrepared(Idle) /\ DraftPrepared(Idle)
    BY DEF Idle, SavePrepared, DraftPrepared
  <2>3. InHand'
    BY <2>1, <2>2 DEF Safe, InHand
  <2> QED
    BY <1>3, <2>3 DEF RecordAudit, Safe, CateringNeedsParty, AgesOnlyForChildren
<1>4. ASSUME NEW r \in Requests, Receive(r) \/ RequestStep(r) \/ Abort(r)
      PROVE  InHand' /\ CateringNeedsParty' /\ AgesOnlyForChildren'
  BY <1>3, <1>4, PrepareSafe, RefuseSafe, SaveApplySafe, SaveAnswerSafe, GuestWriteSafe,
     HouseholdWriteSafe DEF RequestStep, Abort
<1> QED
  BY <1>1, <1>2, <1>4 DEF Next, Tick, vars, Safe

\* Whatever requests interleave, what is about to be written was prepared by
\* the rules, nobody is fed who is not at the party, and no adult has an age
\* (Save, AddGuest, UpdateGuest against each other's stale reads).
THEOREM SafeAlways == Spec => [](InHand /\ CateringNeedsParty /\ AgesOnlyForChildren)
<1>1. Init => Safe
  BY InitSafe
<1>2. Safe /\ [Next]_vars => Safe'
  BY StepSafe
<1>3. Safe => InHand /\ CateringNeedsParty /\ AgesOnlyForChildren
  BY DEF Safe
<1> QED
  BY <1>1, <1>2, <1>3, PTL DEF Spec

\* In particular, no adult has an age (ResolveAge and the CHECK on guest.age).
THEOREM NoAdultAges == Spec => []AgesOnlyForChildren
  BY SafeAlways, PTL

(***************************************************************************)
(* What a commit leaves behind.  A step is one request's, so the request   *)
(* that commits is the one that took the step.                             *)
(***************************************************************************)
LEMMA OneRequest ==
    ASSUME NEW r \in Requests, Receive(r) \/ RequestStep(r) \/ Abort(r)
    PROVE  \E q : request' = [request EXCEPT ![r] = q]
<1>1. ASSUME NEW card, Insert(r, card)
      PROVE  \E q : request' = [request EXCEPT ![r] = q]
  BY <1>1 DEF Insert, Stored
<1>2. CASE Receive(r) \/ Abort(r) \/ RecordAudit(r)
  BY <1>2 DEF Receive, Abort, Refuse, RecordAudit
<1>3. CASE SaveFindHousehold(r) \/ SaveAnswer(r) \/ RemoveFindGuest(r) \/ SoftDelete(r)
  BY <1>3 DEF SaveFindHousehold, SaveAnswer, RemoveFindGuest, SoftDelete, Proceed, Refuse, Stored
<1>4. CASE SaveApply(r)
  BY <1>4, SaveApplyCases DEF Prepare, Proceed, Refuse
<1>5. CASE AddPlusOneFindHousehold(r) \/ AddGuestPrepare(r)
  BY <1>5 DEF AddPlusOneFindHousehold, AddGuestPrepare, Proceed, Refuse
<1>6. CASE CreateIfHouseholdAllows(r) \/ GuestCreate(r)
  BY <1>1, <1>6 DEF CreateIfHouseholdAllows, GuestCreate, Refuse
<1>7. CASE UpdateGuestApply(r) \/ GuestUpdate(r)
  BY <1>7 DEF UpdateGuestApply, GuestUpdate, Proceed, Refuse, Stored
<1>8. CASE UpdateHouseholdApply(r) \/ HouseholdUpdate(r) \/ DeleteHouseholdFind(r)
           \/ HouseholdDelete(r) \/ HouseholdCreate(r)
  BY <1>8 DEF UpdateHouseholdApply, HouseholdUpdate, DeleteHouseholdFind, HouseholdDelete,
              HouseholdCreate, Proceed, Refuse, Stored
<1> QED
  BY <1>2, <1>3, <1>4, <1>5, <1>6, <1>7, <1>8 DEF RequestStep

\* A request that commits is the one that took the step.
LEMMA CommittedStep ==
    ASSUME TypeOK, [Next]_vars, NEW r \in Requests,
           request[r].pc = "ready", request'[r].pc = "stored"
    PROVE  RequestStep(r) /\ ~Refuse(r)
<1>1. ~Refuse(r)
  BY DEF Refuse, TypeOK, Idle
<1>2. ~UNCHANGED request
  OBVIOUS
<1>3. PICK s \in Requests : Receive(s) \/ RequestStep(s) \/ Abort(s)
  BY <1>2 DEF Next, Tick, vars
<1>4. s = r
  BY <1>3, OneRequest DEF TypeOK
<1> QED
  BY <1>1, <1>3, <1>4 DEF Receive, Abort

\* The save that commits is SaveAnswer, and every member it wrote is living.
LEMMA CommittedSave ==
    ASSUME TypeOK, [Next]_vars, NEW r \in Requests, Committed(r, Saves)
    PROVE  SaveAnswer(r) /\ ~Refuse(r)
<1>1. At(r, Saves, "ready") /\ request'[r].pc = "stored"
  BY DEF Committed, At, Saves
<1>2. RequestStep(r) /\ ~Refuse(r)
  BY <1>1, CommittedStep DEF At
<1> QED
  BY <1>1, <1>2 DEF RequestStep, At, Saves, Removals,
     SaveFindHousehold, SaveApply, AddPlusOneFindHousehold, CreateIfHouseholdAllows,
     AddGuestPrepare, GuestCreate, RemoveFindGuest, SoftDelete, UpdateGuestApply, GuestUpdate,
     UpdateHouseholdApply, HouseholdUpdate, DeleteHouseholdFind, HouseholdDelete,
     HouseholdCreate, RecordAudit

\* Seats stay justified when every member that justifies them has a
\* counterpart that attends the same parts of the day.
LEMMA JustifiedBySameScopes ==
    ASSUME NEW row, NEW members, NEW others, SeatsJustifiedBy(row, members),
           \A member \in members : \E other \in others : other.attending = member.attending
    PROVE  SeatsJustifiedBy(row, others)
  BY DEF SeatsJustifiedBy, AttendsBoth, AttendsChurch, AttendsParty

\* The seats a save commits are justified by the members it commits.
LEMMA SaveAnswerSeats ==
    ASSUME Safe, NEW r \in Requests, SaveAnswer(r), ~Refuse(r)
    PROVE  SeatsJustifiedBy(household'[request[r].house], MemberCards(request[r].house)')
<1> DEFINE q == request[r]
           h == q.house
<1>1. /\ SaveAnswerApplies(q)
      /\ household' = [household EXCEPT ![h] = AnswerColumns(@, q.row)]
      /\ guest' = [g \in Guests |-> IF g \in q.members
                      THEN [guest[g] EXCEPT !.card = MemberColumns(@, q.cards[g])]
                      ELSE guest[g]]
      /\ Stored(r, 0)
  BY DEF SaveAnswer
<1>2. /\ q \in InHandRecord
      /\ h \in Households
      /\ household[h] \in HouseholdRow
  BY RequestFields, RowsInHand DEF Safe, SaveAnswer, At
<1>3. SeatsJustifiedBy(q.row, {q.cards[g] : g \in q.members})
  BY DEF SaveAnswer, At, Safe, InHand, SavePrepared
<1>4. household'[h].needed = q.row.needed /\ household'[h].offered = q.row.offered
      /\ household'[h].taxi = q.row.taxi
  BY <1>1, <1>2 DEF AnswerColumns, HouseholdRow, Safe, TypeOK
<1>5. SeatsJustifiedBy(household'[h], {q.cards[g] : g \in q.members})
  BY <1>3, <1>4 DEF SeatsJustifiedBy
<1>6. request'[r].house = h
  BY <1>1 DEF Stored, Safe, TypeOK, Idle
<1>7. ASSUME NEW g \in q.members
      PROVE  /\ guest'[g].card \in MemberCards(h)'
             /\ guest'[g].card.attending = q.cards[g].attending
  <2>1. g \in LivingMembers(h) /\ g \in Guests
    BY <1>1, <1>7 DEF SaveAnswerApplies, LivingMembers
  <2>2. guest[g] \in GuestRow /\ guest[g].card \in Card /\ q.cards[g] \in Card
    BY <1>2, <2>1 DEF Safe, TypeOK, GuestRow, InHandRecord
  <2>3. guest'[g] = [guest[g] EXCEPT !.card = MemberColumns(guest[g].card, q.cards[g])]
    BY <1>1, <1>7, <2>1
  <2>4. guest'[g].status = "living" /\ guest'[g].house = h
    BY <2>1, <2>2, <2>3 DEF LivingMembers, GuestRow
  <2>5. guest'[g].card = MemberColumns(guest[g].card, q.cards[g])
    BY <2>2, <2>3 DEF GuestRow
  <2>6. guest'[g].card.attending = q.cards[g].attending
    BY <2>2, <2>5 DEF MemberColumns, Card
  <2>7. guest'[g].card \in MemberCards(h)'
    BY <1>6, <2>1, <2>4 DEF MemberCards, LivingMembers
  <2> QED
    BY <2>6, <2>7
<1> QED
  BY <1>5, <1>7, JustifiedBySameScopes

\* A save leaves seat counts its stored members justify: for any number of
\* phones and admins at once, because the members it prepared must all still
\* be living when it commits (Save, SaveAnswer and its requireOneRow).
THEOREM SeatsJustifiedAfterSave == Spec => SaveLeavesSeatsJustified
<1> DEFINE Step == \A r \in Requests : Committed(r, Saves) =>
                      SeatsJustifiedBy(household'[request[r].house],
                                       MemberCards(request[r].house)')
<1>1. Init => Safe
  BY InitSafe
<1>2. Safe /\ [Next]_vars => Safe'
  BY StepSafe
<1>3. Safe /\ [Next]_vars => Step
  BY CommittedSave, SaveAnswerSeats DEF Safe
<1> QED
  BY <1>1, <1>2, <1>3, PTL DEF Spec, SaveLeavesSeatsJustified

\* A committed addition was the step CreateIfHouseholdAllows.
LEMMA CommittedAddition ==
    ASSUME TypeOK, [Next]_vars, NEW r \in Requests, Committed(r, {"AddPlusOne"})
    PROVE  CreateIfHouseholdAllows(r) /\ ~Refuse(r)
<1>1. At(r, {"AddPlusOne"}, "ready") /\ request'[r].pc = "stored"
  BY DEF Committed, At
<1>2. RequestStep(r) /\ ~Refuse(r)
  BY <1>1, CommittedStep DEF At
<1> QED
  BY <1>1, <1>2 DEF RequestStep, At, Saves, Removals,
     SaveFindHousehold, SaveApply, SaveAnswer, AddPlusOneFindHousehold, AddGuestPrepare,
     GuestCreate, RemoveFindGuest, SoftDelete, UpdateGuestApply, GuestUpdate,
     UpdateHouseholdApply, HouseholdUpdate, DeleteHouseholdFind, HouseholdDelete,
     HouseholdCreate, RecordAudit

\* There are finitely many guests.
LEMMA GuestsFinite == IsFiniteSet(Guests)
<1>1. 1 \in Int /\ MaxGuests \in Int
  BY RsvpAssumption
<1> QED
  BY <1>1, FS_Interval DEF Guests

\* An insert beside the only member makes two.
LEMMA AdditionCount ==
    ASSUME TypeOK, NEW r \in Requests, CreateIfHouseholdAllows(r), ~Refuse(r)
    PROVE  Cardinality(LivingMembers(request[r].house)') = 2
<1> DEFINE h == request[r].house
<1>1. Cardinality(LivingMembers(h)) = 1
  BY DEF CreateIfHouseholdAllows, CanHouseholdAddPlusOne
<1>2. PICK g \in Guests :
        /\ NextId(g)
        /\ guest' = [guest EXCEPT ![g] = [status |-> "living", house |-> h,
                                          card |-> request[r].draft]]
        /\ Stored(r, g)
  BY DEF CreateIfHouseholdAllows, Insert
<1>3. request'[r].house = h
  BY <1>2 DEF Stored, TypeOK, Idle
<1>4. g \notin LivingMembers(h)
  BY <1>2 DEF NextId, LivingMembers, Guests
<1>5. LivingMembers(request[r].house)' = LivingMembers(h) \cup {g}
  BY <1>2, <1>3 DEF LivingMembers, TypeOK
<1>6. IsFiniteSet(LivingMembers(h))
  <2>1. LivingMembers(h) \subseteq Guests
    BY DEF LivingMembers
  <2> QED
    BY <2>1, GuestsFinite, FS_Subset
<1>7. Cardinality(LivingMembers(h) \cup {g}) = Cardinality(LivingMembers(h)) + 1
  BY <1>4, <1>6, FS_AddElement
<1> QED
  BY <1>1, <1>5, <1>7

\* However many phones add a companion at once, an addition leaves exactly two
\* members: the rule is asked in the transaction that inserts
\* (CreateIfHouseholdAllows).
THEOREM AdditionAlwaysMakesTwo == Spec => AdditionMakesTwo
<1> DEFINE Step == \A r \in Requests : Committed(r, {"AddPlusOne"}) =>
                      Cardinality(LivingMembers(request[r].house)') = 2
<1>1. Init => TypeOK
  BY InitType
<1>2. TypeOK /\ [Next]_vars => TypeOK'
  BY StepType
<1>3. TypeOK /\ [Next]_vars => Step
  BY CommittedAddition, AdditionCount
<1> QED
  BY <1>1, <1>2, <1>3, PTL DEF Spec, AdditionMakesTwo

(***************************************************************************)
(* The deadline.  A save carries the moment it was received at through all *)
(* of its steps, however long they take, and stamps the row with it.       *)
(***************************************************************************)
Dated(q) ==
    /\ q.op = "Save" /\ q.pc \in {"admitted", "read", "ready"} => q.now < Deadline
    /\ q.op \in Saves /\ q.pc = "ready" => q.row.updatedAt = q.now

DatedInv == TypeOK /\ \A r \in Requests : Dated(request[r])

\* Preparing a save stamps it with the moment it was received at.
LEMMA SaveApplyDated ==
    ASSUME DatedInv, NEW r \in Requests, SaveApply(r)
    PROVE  Dated(request'[r])
<1> DEFINE q == request[r]
           members == LivingMembers(q.house)
<1>1. q \in InHandRecord /\ TypeOK /\ Dated(q) /\ At(r, Saves, "read")
  BY RequestFields DEF DatedInv, SaveApply
<1>2. CASE Refuse(r)
  BY <1>1, <1>2 DEF Refuse, TypeOK, Idle, Dated
<1>3. ASSUME NEW answers \in [members -> MemberAnswers],
             NEW householdAnswer \in HouseholdAnswers,
             Prepare(r, AnsweredRow(q.row, householdAnswer, members,
                                    AnsweredCards(members, answers)),
                     members, AnsweredCards(members, answers))
      PROVE  Dated(request'[r])
  <2> DEFINE cards == AnsweredCards(members, answers)
             row == AnsweredRow(q.row, householdAnswer, members, cards)
             stamped == Stamp(row, q.now)
             next == [q EXCEPT !.pc = "ready", !.row = stamped,
                               !.members = members, !.cards = cards]
  <2>1. row \in HouseholdRow
    BY <1>1, ApplyHouseholdAnswerType, RsvpAssumption DEF InHandRecord, AnsweredRow
  <2>2. request'[r] = next
    BY <1>1, <1>3 DEF Prepare, Proceed, TypeOK
  <2> HIDE DEF members, cards, row
  <2>3. stamped.updatedAt = q.now
    BY <2>1 DEF Stamp, HouseholdRow
  <2> HIDE DEF stamped
  <2>4. next.op = q.op /\ next.pc = "ready" /\ next.now = q.now /\ next.row = stamped
    BY <1>1 DEF InHandRecord
  <2> HIDE DEF next
  <2> QED
    BY <1>1, <2>2, <2>3, <2>4 DEF Dated, At
<1> QED
  BY <1>2, <1>3, SaveApplyCases

\* Whatever else a request does, it is dated afterwards.
LEMMA StepDated ==
    ASSUME DatedInv, NEW r \in Requests, Receive(r) \/ RequestStep(r) \/ Abort(r)
    PROVE  Dated(request'[r])
<1> DEFINE q == request[r]
           n == request'[r]
<1>1. q \in InHandRecord /\ TypeOK /\ Dated(q)
  BY RequestFields DEF DatedInv
<1>2. CASE Refuse(r) \/ RecordAudit(r)
  BY <1>1, <1>2 DEF Refuse, RecordAudit, TypeOK, Idle, Dated
<1>3. ASSUME NEW g, Stored(r, g) PROVE Dated(n)
  BY <1>1, <1>3 DEF Stored, TypeOK, Idle, Dated
<1>4. ASSUME NEW card, Insert(r, card) PROVE Dated(n)
  BY <1>3, <1>4 DEF Insert
<1>5. CASE n.op \notin Saves
  BY <1>5 DEF Dated, Saves
<1>6. CASE Receive(r)
  BY <1>1, <1>6 DEF Receive, EnsureWritable, RSVPOpen, HouseholdOperations, Idle, TypeOK, Dated
<1>7. CASE SaveFindHousehold(r)
  <2>1. CASE Proceed(r, [q EXCEPT !.pc = "read", !.row = household[q.house]])
    <3>1. n.op = q.op /\ n.pc = "read" /\ n.now = q.now
      BY <1>1, <2>1 DEF Proceed, TypeOK, InHandRecord
    <3> QED
      BY <1>1, <1>7, <3>1 DEF SaveFindHousehold, At, Dated
  <2> QED
    BY <1>2, <1>7, <2>1 DEF SaveFindHousehold
<1>8. CASE AddPlusOneFindHousehold(r) \/ AddGuestPrepare(r) \/ UpdateGuestApply(r)
  <2>1. q.op \notin Saves
    BY <1>8 DEF AddPlusOneFindHousehold, AddGuestPrepare, UpdateGuestApply, At, Saves
  <2>2. CASE \E draft : Proceed(r, [q EXCEPT !.pc = "ready", !.draft = draft])
    <3>1. n.op = q.op
      BY <1>1, <2>2 DEF Proceed, TypeOK, InHandRecord
    <3> QED
      BY <1>5, <2>1, <3>1
  <2> QED
    BY <1>2, <1>8, <2>2 DEF AddPlusOneFindHousehold, AddGuestPrepare, UpdateGuestApply
<1>9. CASE RemoveFindGuest(r) \/ DeleteHouseholdFind(r) \/ UpdateHouseholdApply(r)
  <2>1. q.op \notin Saves
    BY <1>9 DEF RemoveFindGuest, DeleteHouseholdFind, UpdateHouseholdApply, At, Saves, Removals
  <2>2. CASE \/ Proceed(r, [q EXCEPT !.pc = "ready"])
             \/ \E row : Proceed(r, [q EXCEPT !.pc = "ready", !.row = row])
    <3>1. n.op = q.op
      BY <1>1, <2>2 DEF Proceed, TypeOK, InHandRecord
    <3> QED
      BY <1>5, <2>1, <3>1
  <2> QED
    BY <1>2, <1>9, <2>2 DEF RemoveFindGuest, DeleteHouseholdFind, UpdateHouseholdApply
<1>10. CASE SaveAnswer(r) \/ SoftDelete(r) \/ GuestUpdate(r) \/ HouseholdUpdate(r)
            \/ HouseholdDelete(r) \/ HouseholdCreate(r)
  BY <1>2, <1>3, <1>10 DEF SaveAnswer, SoftDelete, GuestUpdate, HouseholdUpdate,
                           HouseholdDelete, HouseholdCreate
<1>11. CASE CreateIfHouseholdAllows(r) \/ GuestCreate(r)
  BY <1>2, <1>4, <1>11 DEF CreateIfHouseholdAllows, GuestCreate
<1> QED
  BY <1>2, <1>6, <1>7, <1>8, <1>9, <1>10, <1>11, SaveApplyDated DEF RequestStep, Abort

\* Only a save sets the date of a row; creating and deleting clear it.
LEMMA DateWritten ==
    ASSUME DatedInv, [Next]_vars, NEW h \in Households,
           household'[h].updatedAt # household[h].updatedAt
    PROVE  \/ household'[h].updatedAt \in {Null} \cup {t \in Time : t < Deadline}
           \/ \E r \in Requests : Committed(r, {"AdminSave"})
<1>1. TypeOK /\ household \in [Households -> HouseholdRow]
  BY DEF DatedInv, TypeOK
<1>2. PICK r \in Requests : RequestStep(r) /\ household' # household
  BY DEF Next, vars, Tick, Receive, Abort, Refuse
<1> DEFINE q == request[r]
<1>3. q \in InHandRecord /\ Dated(q)
  BY <1>1, RequestFields DEF DatedInv
<1>4. CASE SaveAnswer(r)
  <2>1. /\ household' = [household EXCEPT ![q.house] = AnswerColumns(@, q.row)]
        /\ Stored(r, 0) /\ At(r, Saves, "ready")
    BY <1>2, <1>4 DEF SaveAnswer, Refuse
  <2>2. household'[h].updatedAt = q.row.updatedAt
    BY <1>1, <2>1 DEF AnswerColumns, HouseholdRow
  <2>3. q.row.updatedAt = q.now /\ q.now \in Time /\ (q.op = "Save" => q.now < Deadline)
    BY <1>3, <2>1 DEF Dated, At, InHandRecord
  <2>4. CASE q.op = "Save"
    BY <2>2, <2>3, <2>4
  <2>5. CASE q.op = "AdminSave"
    <3>1. request'[r].pc = "stored"
      BY <1>1, <2>1 DEF Stored, TypeOK, Idle
    <3> QED
      BY <2>1, <2>5, <3>1 DEF Committed, At
  <2> QED
    BY <2>1, <2>4, <2>5 DEF At, Saves
<1>5. CASE HouseholdUpdate(r)
  <2>1. household' = [household EXCEPT ![q.house] = PatchedRow(@, q.row)]
    BY <1>2, <1>5 DEF HouseholdUpdate, Refuse
  <2> QED
    BY <1>1, <2>1 DEF PatchedRow, HouseholdRow
<1>6. CASE HouseholdDelete(r) \/ HouseholdCreate(r)
  <2>1. \/ household'[h] = household[h]
        \/ household'[h] = NoHousehold
        \/ \E label \in Labels : household'[h] = EmptyHousehold(label, TRUE)
    BY <1>1, <1>2, <1>6 DEF HouseholdDelete, HouseholdCreate, Refuse
  <2>2. \A label, exists : EmptyHousehold(label, exists).updatedAt = Null
    BY DEF EmptyHousehold
  <2>3. household'[h].updatedAt # household[h].updatedAt
    OBVIOUS
  <2>4. household'[h].updatedAt = Null
    BY <2>1, <2>2, <2>3 DEF NoHousehold
  <2> QED
    BY <2>4
<1>7. \/ SaveAnswer(r) \/ HouseholdUpdate(r) \/ HouseholdDelete(r) \/ HouseholdCreate(r)
  <2>1. SaveApply(r) => household' = household
    BY SaveApplyCases DEF Refuse, Prepare, Proceed
  <2> QED
    BY <1>2, <2>1 DEF RequestStep, SaveFindHousehold, AddPlusOneFindHousehold,
       CreateIfHouseholdAllows, AddGuestPrepare, GuestCreate, RemoveFindGuest, SoftDelete,
       UpdateGuestApply, GuestUpdate, UpdateHouseholdApply, DeleteHouseholdFind, RecordAudit,
       Refuse, Proceed, Insert
<1> QED
  BY <1>4, <1>5, <1>6, <1>7

\* However late a household's save commits, it was received before the
\* deadline and is stamped with that moment (EnsureWritable, Stamp).
THEOREM LateWritesAreHonoured == Spec => LateWritesAreOurs
<1> DEFINE Step == \A h \in Households :
                      household'[h].updatedAt # household[h].updatedAt =>
                         \/ household'[h].updatedAt \in {Null} \cup {t \in Time : t < Deadline}
                         \/ \E r \in Requests : Committed(r, {"AdminSave"})
<1>1. Init => DatedInv
  BY InitType DEF Init, DatedInv, Dated, Idle
<1>2. ASSUME DatedInv, [Next]_vars PROVE DatedInv'
  <2>1. TypeOK /\ TypeOK'
    BY <1>2, StepType DEF DatedInv
  <2>2. ASSUME NEW s \in Requests PROVE Dated(request'[s])
    <3>1. CASE request'[s] = request[s]
      BY <1>2, <3>1 DEF DatedInv
    <3>2. CASE request'[s] # request[s]
      <4>1. PICK r \in Requests : Receive(r) \/ RequestStep(r) \/ Abort(r)
        BY <1>2, <3>2 DEF Next, Tick, vars
      <4>2. s = r
        BY <2>1, <3>2, <4>1, OneRequest DEF TypeOK
      <4> QED
        BY <1>2, <4>1, <4>2, StepDated
    <3> QED
      BY <3>1, <3>2
  <2> QED
    BY <2>1, <2>2 DEF DatedInv
<1>3. DatedInv /\ [Next]_vars => Step
  BY DateWritten
<1> QED
  BY <1>1, <1>2, <1>3, PTL DEF Spec, LateWritesAreOurs

(***************************************************************************)
(* The log.  Where no household is deleted, a guest's row goes from absent *)
(* to living to removed and never back, so what was true at the commit is  *)
(* still true when its audit row is written.                               *)
(***************************************************************************)
Happened(entry, rows) ==
    IF entry.action = "create" THEN rows[entry.guest].status # "absent"
                               ELSE rows[entry.guest].status = "removed"

ToLog(q) == IF q.pc = "stored" THEN AuditEntriesOf(q) ELSE {}

LogInv ==
    /\ TypeOK
    /\ AuditFollowsCommit
    /\ \A r \in Requests : \A entry \in ToLog(request[r]) : Happened(entry, guest)

\* An inserted row was absent, and is living.
LEMMA InsertHappened ==
    ASSUME TypeOK, NEW r \in Requests, NEW card, Insert(r, card)
    PROVE  /\ \A g \in Guests : guest[g].status # "absent" => guest'[g] = guest[g]
           /\ request[r].op \in Additions =>
                 \A entry \in ToLog(request'[r]) : Happened(entry, guest')
<1>1. PICK g \in Guests :
        /\ NextId(g)
        /\ guest' = [guest EXCEPT ![g] = [status |-> "living", house |-> request[r].house,
                                          card |-> card]]
        /\ Stored(r, g)
  BY DEF Insert
<1>2. guest[g].status = "absent"
  BY <1>1 DEF NextId, Guests
<1>3. /\ request'[r].pc = "stored" /\ request'[r].op = request[r].op /\ request'[r].guest = g
      /\ guest'[g].status = "living"
  BY <1>1 DEF Stored, TypeOK, Idle
<1> QED
  BY <1>1, <1>2, <1>3 DEF TypeOK, ToLog, AuditEntriesOf, Happened

\* A removed row is removed.
LEMMA SoftDeleteHappened ==
    ASSUME TypeOK, NEW r \in Requests, SoftDelete(r), ~Refuse(r)
    PROVE  /\ \A g \in Guests :
                 \/ guest'[g].status = guest[g].status
                 \/ guest[g].status = "living" /\ guest'[g].status = "removed"
           /\ \A entry \in ToLog(request'[r]) : Happened(entry, guest')
<1> DEFINE g == request[r].guest
<1>1. /\ guest[g].status = "living" /\ Stored(r, g) /\ request[r].op \in Removals
      /\ guest' = [guest EXCEPT ![g].status = "removed"]
  BY DEF SoftDelete, At
<1>2. g \in Guests /\ guest \in [Guests -> GuestRow]
  BY RowsInHand DEF TypeOK, SoftDelete, At, Removals, GuestOperations
<1>3. guest'[g].status = "removed"
  BY <1>1, <1>2 DEF GuestRow
<1>4. /\ request'[r].pc = "stored" /\ request'[r].op = request[r].op /\ request'[r].guest = g
  BY <1>1 DEF Stored, TypeOK, Idle
<1>5. ToLog(request'[r]) = {[action |-> "delete", guest |-> g]}
  BY <1>1, <1>4 DEF ToLog, AuditEntriesOf, Additions, Removals
<1>6. \A k \in Guests : k # g => guest'[k] = guest[k]
  BY <1>1, <1>2
<1>7. \A entry \in ToLog(request'[r]) : Happened(entry, guest')
  BY <1>3, <1>5 DEF Happened
<1> QED
  BY <1>1, <1>3, <1>6, <1>7

\* Other writes of guests leave their status alone, and log nothing.
LEMMA CardsOnly ==
    ASSUME TypeOK, NEW r \in Requests, SaveAnswer(r) \/ GuestUpdate(r)
    PROVE  \A g \in Guests : guest'[g].status = guest[g].status
<1>1. guest \in [Guests -> GuestRow]
  BY DEF TypeOK
<1>2. CASE Refuse(r)
  BY <1>2 DEF Refuse
<1>3. CASE SaveAnswer(r) /\ ~Refuse(r)
  BY <1>1, <1>3 DEF SaveAnswer, GuestRow
<1>4. CASE GuestUpdate(r) /\ ~Refuse(r)
  <2>1. guest' = [guest EXCEPT ![request[r].guest].card = PatchColumns(@, request[r].draft)]
    BY <1>4 DEF GuestUpdate
  <2> QED
    BY <1>1, <2>1 DEF GuestRow
<1> QED
  BY <1>2, <1>3, <1>4

\* What has happened stays so.
LEMMA HappenedStays ==
    ASSUME "DeleteHousehold" \notin Operations, TypeOK, [Next]_vars,
           NEW g \in Guests
    PROVE  /\ guest[g].status # "absent" => guest'[g].status # "absent"
           /\ guest[g].status = "removed" => guest'[g].status = "removed"
<1>1. CASE guest' = guest
  BY <1>1
<1>2. ASSUME NEW r \in Requests, RequestStep(r), guest' # guest
      PROVE  \/ SaveAnswer(r) \/ GuestUpdate(r)
             \/ SoftDelete(r) /\ ~Refuse(r)
             \/ \E card : Insert(r, card)
  <2>1. SaveApply(r) => guest' = guest
    BY SaveApplyCases DEF Refuse, Prepare, Proceed
  <2>2. ~HouseholdDelete(r)
    BY RequestFields DEF HouseholdDelete, At, InHandRecord
  <2> QED
    BY <1>2, <2>1, <2>2 DEF RequestStep, SaveFindHousehold, AddPlusOneFindHousehold,
       CreateIfHouseholdAllows, AddGuestPrepare, GuestCreate, RemoveFindGuest, SoftDelete,
       UpdateGuestApply, UpdateHouseholdApply, HouseholdUpdate, DeleteHouseholdFind,
       HouseholdCreate, RecordAudit, Refuse, Proceed
<1>3. ASSUME NEW r \in Requests, RequestStep(r), guest' # guest
      PROVE  /\ guest[g].status # "absent" => guest'[g].status # "absent"
             /\ guest[g].status = "removed" => guest'[g].status = "removed"
  BY <1>2, <1>3, CardsOnly, SoftDeleteHappened, InsertHappened
<1> QED
  BY <1>1, <1>3 DEF Next, vars, Tick, Receive, Abort, Refuse

\* What a request is about to log has happened.
LEMMA StoredHappened ==
    ASSUME TypeOK, NEW r \in Requests, Receive(r) \/ RequestStep(r) \/ Abort(r)
    PROVE  \A entry \in ToLog(request'[r]) : Happened(entry, guest')
<1> DEFINE n == request'[r]
           q == request[r]
<1>1. q \in InHandRecord
  BY RequestFields
<1>2. CASE n.pc # "stored"
  BY <1>2 DEF ToLog
<1>3. CASE Receive(r) \/ Refuse(r) \/ RecordAudit(r)
  <2>1. CASE Receive(r)
    <3>1. n.pc = "admitted"
      BY <2>1 DEF Receive, TypeOK, Idle
    <3> QED
      BY <1>2, <3>1
  <2>2. CASE Refuse(r) \/ RecordAudit(r)
    <3>1. n.pc = "idle"
      BY <2>2 DEF Refuse, RecordAudit, TypeOK, Idle
    <3> QED
      BY <1>2, <3>1
  <2> QED
    BY <1>3, <2>1, <2>2
<1>4. ASSUME NEW p, Proceed(r, p), p.pc # "stored" PROVE n.pc # "stored"
  BY <1>4 DEF Proceed, TypeOK
<1>5. CASE SaveFindHousehold(r) \/ AddPlusOneFindHousehold(r) \/ AddGuestPrepare(r)
  <2>1. \A v : /\ [q EXCEPT !.pc = "read", !.row = v].pc # "stored"
               /\ [q EXCEPT !.pc = "ready", !.draft = v].pc # "stored"
    BY <1>1 DEF InHandRecord
  <2> QED
    BY <1>2, <1>3, <1>4, <1>5, <2>1
    DEF SaveFindHousehold, AddPlusOneFindHousehold, AddGuestPrepare
<1>6. CASE UpdateGuestApply(r) \/ UpdateHouseholdApply(r) \/ RemoveFindGuest(r)
           \/ DeleteHouseholdFind(r)
  <2>1. /\ [q EXCEPT !.pc = "ready"].pc # "stored"
        /\ \A v : /\ [q EXCEPT !.pc = "ready", !.row = v].pc # "stored"
                  /\ [q EXCEPT !.pc = "ready", !.draft = v].pc # "stored"
    BY <1>1 DEF InHandRecord
  <2> QED
    BY <1>2, <1>3, <1>4, <1>6, <2>1
    DEF UpdateGuestApply, UpdateHouseholdApply, RemoveFindGuest, DeleteHouseholdFind
<1>7. CASE SaveApply(r)
  <2>1. \A row, members, cards :
          [q EXCEPT !.pc = "ready", !.row = row, !.members = members, !.cards = cards].pc
             # "stored"
    BY <1>1 DEF InHandRecord
  <2> QED
    BY <1>2, <1>3, <1>4, <1>7, <2>1, SaveApplyCases DEF Prepare
<1>8. ASSUME NEW g, Stored(r, g), q.op \notin Additions \cup Removals
      PROVE  ToLog(n) = {}
  <2>1. n.op = q.op
    BY <1>8 DEF Stored, TypeOK, Idle
  <2> QED
    BY <1>8, <2>1 DEF ToLog, AuditEntriesOf
<1>9. CASE SaveAnswer(r) \/ GuestUpdate(r) \/ HouseholdUpdate(r) \/ HouseholdDelete(r)
           \/ HouseholdCreate(r)
  <2>1. q.op \notin Additions \cup Removals
    BY <1>9 DEF SaveAnswer, GuestUpdate, HouseholdUpdate, HouseholdDelete, HouseholdCreate, At,
                Saves, Additions, Removals
  <2> QED
    BY <1>3, <1>8, <1>9, <2>1 DEF SaveAnswer, GuestUpdate, HouseholdUpdate, HouseholdDelete,
                                  HouseholdCreate
<1>10. CASE CreateIfHouseholdAllows(r) \/ GuestCreate(r)
  <2>1. q.op \in Additions
    BY <1>10 DEF CreateIfHouseholdAllows, GuestCreate, At, Additions
  <2> QED
    BY <1>3, <1>10, <2>1, InsertHappened DEF CreateIfHouseholdAllows, GuestCreate
<1>11. CASE SoftDelete(r)
  BY <1>3, <1>11, SoftDeleteHappened
<1> QED
  BY <1>3, <1>5, <1>6, <1>7, <1>9, <1>10, <1>11 DEF RequestStep, Abort

\* One step.
LEMMA LogStep ==
    ASSUME "DeleteHousehold" \notin Operations, LogInv, [Next]_vars
    PROVE  LogInv'
<1>1. TypeOK /\ TypeOK'
  BY StepType DEF LogInv
<1>2. ASSUME NEW entry, entry.guest \in Guests, Happened(entry, guest)
      PROVE  Happened(entry, guest')
  BY <1>1, <1>2, HappenedStays DEF Happened
<1>3. \A r \in Requests : \A entry \in ToLog(request[r]) : entry.guest \in Guests
  <2> SUFFICES ASSUME NEW r \in Requests, request[r].pc = "stored",
                      NEW entry \in AuditEntriesOf(request[r])
               PROVE  entry.guest \in Guests
    BY DEF ToLog
  <2> QED
    BY <1>1, RequestFields DEF AuditEntriesOf, Request, Addressed, InHandRecord
<1>4. ASSUME NEW r \in Requests, NEW entry \in ToLog(request'[r])
      PROVE  Happened(entry, guest')
  <2>1. CASE request'[r] = request[r]
    BY <1>2, <1>3, <1>4, <2>1 DEF LogInv
  <2>2. CASE request'[r] # request[r]
    <3>1. PICK p \in Requests : Receive(p) \/ RequestStep(p) \/ Abort(p)
      BY <2>2 DEF Next, Tick, vars
    <3>2. p = r
      BY <1>1, <2>2, <3>1, OneRequest DEF TypeOK
    <3> QED
      BY <1>1, <1>4, <3>1, <3>2, StoredHappened
  <2> QED
    BY <2>1, <2>2
<1>5. ASSUME NEW entry \in audit' PROVE Happened(entry, guest')
  <2>1. \/ entry \in audit
        \/ \E r \in Requests : entry \in ToLog(request[r])
    <3>1. CASE audit' = audit
      BY <1>5, <3>1
    <3>2. CASE \E r \in Requests : RecordAudit(r)
      BY <1>5, <3>2 DEF RecordAudit, ToLog
    <3>3. ASSUME NEW r \in Requests, SaveApply(r) PROVE audit' = audit
      BY <3>3, SaveApplyCases DEF Refuse, Prepare, Proceed
    <3> QED
      BY <3>1, <3>2, <3>3 DEF Next, vars, Tick, Receive, Abort, RequestStep, SaveFindHousehold,
         SaveAnswer, AddPlusOneFindHousehold, CreateIfHouseholdAllows, AddGuestPrepare,
         GuestCreate, RemoveFindGuest, SoftDelete, UpdateGuestApply, GuestUpdate,
         UpdateHouseholdApply, HouseholdUpdate, DeleteHouseholdFind, HouseholdDelete,
         HouseholdCreate, Refuse, Proceed, Insert
  <2>2. entry \in audit => entry.guest \in Guests /\ Happened(entry, guest)
    BY <1>1 DEF LogInv, AuditFollowsCommit, Happened, TypeOK, AuditEntry
  <2> QED
    BY <1>2, <1>3, <2>1, <2>2 DEF LogInv
<1> QED
  BY <1>1, <1>4, <1>5 DEF LogInv, AuditFollowsCommit, Happened

\* The log never says of a guest what did not happen, as long as no household
\* is deleted with its guests, whose ids return (RecordAudit after Insert and
\* SoftDelete; creationEntry, deletionEntry).
THEOREM LogIsTrue ==
    ASSUME "DeleteHousehold" \notin Operations
    PROVE  Spec => []AuditFollowsCommit
<1>1. Init => LogInv
  BY InitType DEF Init, LogInv, AuditFollowsCommit, ToLog, Idle
<1>2. LogInv /\ [Next]_vars => LogInv'
  BY LogStep
<1>3. LogInv => AuditFollowsCommit
  BY DEF LogInv
<1> QED
  BY <1>1, <1>2, <1>3, PTL DEF Spec

(***************************************************************************)
(* Two things that do not hold of every run of the program: that the       *)
(* members justify the seats at any moment, and that a patch of a          *)
(* household leaves its answer alone.  They hold where the operations that *)
(* break them are not used, or not at once; so these are the only causes.  *)
(***************************************************************************)
\* What a step leaves of a household: seats as they were, or none, and members
\* who still stand there and say what they said.
SeatsStand(h) ==
    \/ /\ household'[h].needed = household[h].needed
       /\ household'[h].offered = household[h].offered
       /\ household'[h].taxi = household[h].taxi
       /\ \A g \in LivingMembers(h) :
             g \in LivingMembers(h)' /\ guest'[g].card.attending = guest[g].card.attending
    \/ household'[h].needed = 0 /\ household'[h].offered = 0 /\ household'[h].taxi = 0

\* Such a household stays justified.
LEMMA SeatsKept ==
    ASSUME NEW h \in Households, SeatsJustifiedBy(household[h], MemberCards(h)), SeatsStand(h)
    PROVE  SeatsJustifiedBy(household'[h], MemberCards(h)')
<1>1. CASE household'[h].needed = 0 /\ household'[h].offered = 0 /\ household'[h].taxi = 0
  BY <1>1 DEF SeatsJustifiedBy
<1>2. CASE /\ household'[h].needed = household[h].needed
           /\ household'[h].offered = household[h].offered
           /\ household'[h].taxi = household[h].taxi
           /\ \A g \in LivingMembers(h) :
                 g \in LivingMembers(h)' /\ guest'[g].card.attending = guest[g].card.attending
  <2>1. SeatsJustifiedBy(household'[h], MemberCards(h))
    BY <1>2 DEF SeatsJustifiedBy
  <2>2. \A member \in MemberCards(h) : \E other \in MemberCards(h)' :
          other.attending = member.attending
    BY <1>2 DEF MemberCards
  <2> QED
    BY <2>1, <2>2, JustifiedBySameScopes
<1> QED
  BY <1>1, <1>2 DEF SeatsStand

\* Inserts and patches of guests leave every household as it stands.
LEMMA GuestWriteStands ==
    ASSUME TypeOK, NEW r \in Requests,
           CreateIfHouseholdAllows(r) \/ GuestCreate(r) \/ GuestUpdate(r),
           NEW h \in Households
    PROVE  SeatsStand(h)
<1> DEFINE q == request[r]
<1>1. CASE Refuse(r)
  BY <1>1 DEF Refuse, SeatsStand, LivingMembers
<1>2. \A g \in Guests : guest[g] \in GuestRow /\ guest[g].card \in Card
  BY DEF TypeOK, GuestRow
<1>3. CASE ~Refuse(r) /\ (CreateIfHouseholdAllows(r) \/ GuestCreate(r))
  <2>1. PICK g \in Guests :
          /\ guest' = [guest EXCEPT ![g] = [status |-> "living", house |-> q.house,
                                            card |-> q.draft]]
          /\ NextId(g) /\ UNCHANGED household
    BY <1>3 DEF CreateIfHouseholdAllows, GuestCreate, Insert
  <2>2. guest[g].status = "absent"
    BY <2>1 DEF NextId, Guests
  <2>3. \A k \in Guests : k # g => guest'[k] = guest[k]
    BY <2>1 DEF TypeOK
  <2> QED
    BY <2>1, <2>2, <2>3 DEF SeatsStand, LivingMembers
<1>4. CASE ~Refuse(r) /\ GuestUpdate(r)
  <2>1. /\ guest' = [guest EXCEPT ![q.guest].card = PatchColumns(@, q.draft)]
        /\ UNCHANGED household
    BY <1>4 DEF GuestUpdate
  <2>2. ASSUME NEW k \in Guests
        PROVE  /\ guest'[k].status = guest[k].status /\ guest'[k].house = guest[k].house
               /\ guest'[k].card.attending = guest[k].card.attending
    <3>1. CASE k = q.guest
      <4>1. guest'[k] = [guest[k] EXCEPT !.card = PatchColumns(@, q.draft)]
        BY <2>1, <3>1 DEF TypeOK
      <4>2. PatchColumns(guest[k].card, q.draft).attending = guest[k].card.attending
        BY <1>2 DEF PatchColumns, Card
      <4> QED
        BY <1>2, <4>1, <4>2 DEF GuestRow
    <3>2. CASE k # q.guest
      BY <2>1, <3>2 DEF TypeOK
    <3> QED
      BY <3>1, <3>2
  <2> QED
    BY <2>1, <2>2 DEF SeatsStand, LivingMembers
<1> QED
  BY <1>1, <1>3, <1>4

\* Creating and deleting a household leave the others as they stand, and that
\* one without seats.
LEMMA HouseholdWriteStands ==
    ASSUME TypeOK, NEW r \in Requests, HouseholdDelete(r) \/ HouseholdCreate(r),
           NEW h \in Households
    PROVE  SeatsStand(h)
<1>1. CASE Refuse(r)
  BY <1>1 DEF Refuse, SeatsStand, LivingMembers
<1>2. ASSUME NEW label, NEW exists
      PROVE  LET row == EmptyHousehold(label, exists) IN
             row.needed = 0 /\ row.offered = 0 /\ row.taxi = 0
  BY DEF EmptyHousehold
<1>3. CASE ~Refuse(r) /\ HouseholdDelete(r)
  <2> DEFINE k == request[r].house
  <2>1. /\ household' = [household EXCEPT ![k] = NoHousehold]
        /\ guest' = [g \in Guests |-> IF guest[g].house = k THEN NoGuest ELSE guest[g]]
    BY <1>3 DEF HouseholdDelete
  <2>2. CASE h = k
    <3>1. household'[h] = NoHousehold
      BY <2>1, <2>2 DEF TypeOK
    <3> QED
      BY <1>2, <3>1 DEF SeatsStand, NoHousehold
  <2>3. CASE h # k
    <3>1. household'[h] = household[h]
      BY <2>1, <2>3 DEF TypeOK
    <3>2. \A g \in LivingMembers(h) : guest'[g] = guest[g]
      BY <2>1, <2>3 DEF LivingMembers
    <3> QED
      BY <3>1, <3>2 DEF SeatsStand, LivingMembers
  <2> QED
    BY <2>2, <2>3
<1>4. CASE ~Refuse(r) /\ HouseholdCreate(r)
  <2>1. PICK k \in Households, label \in Labels :
          household' = [household EXCEPT ![k] = EmptyHousehold(label, TRUE)]
    BY <1>4 DEF HouseholdCreate
  <2>2. UNCHANGED guest
    BY <1>4 DEF HouseholdCreate
  <2>3. CASE h = k
    <3>1. household'[h] = EmptyHousehold(label, TRUE)
      BY <2>1, <2>3 DEF TypeOK
    <3> QED
      BY <1>2, <3>1 DEF SeatsStand
  <2>4. CASE h # k
    BY <2>1, <2>2, <2>4 DEF TypeOK, SeatsStand, LivingMembers
  <2> QED
    BY <2>3, <2>4
<1> QED
  BY <1>1, <1>3, <1>4

\* A save leaves the households it is not about as they stand.
LEMMA SaveStands ==
    ASSUME TypeOK, NEW r \in Requests, SaveAnswer(r), ~Refuse(r),
           NEW h \in Households, h # request[r].house
    PROVE  SeatsStand(h)
<1> DEFINE q == request[r]
<1>1. /\ SaveAnswerApplies(q)
      /\ household' = [household EXCEPT ![q.house] = AnswerColumns(@, q.row)]
      /\ guest' = [g \in Guests |-> IF g \in q.members
                      THEN [guest[g] EXCEPT !.card = MemberColumns(@, q.cards[g])]
                      ELSE guest[g]]
  BY DEF SaveAnswer
<1>2. household'[h] = household[h]
  BY <1>1 DEF TypeOK
<1>3. ASSUME NEW g \in LivingMembers(h) PROVE guest'[g] = guest[g]
  <2>1. g \in Guests /\ g \notin q.members
    BY <1>1 DEF SaveAnswerApplies, LivingMembers
  <2> QED
    BY <1>1, <2>1
<1> QED
  BY <1>2, <1>3 DEF SeatsStand, LivingMembers

\* The household a save is about has the seats it was prepared with.
LEMMA SaveSeats ==
    ASSUME Safe, NEW r \in Requests, SaveAnswer(r), ~Refuse(r),
           NEW h \in Households, h = request[r].house
    PROVE  SeatsJustifiedBy(household'[h], MemberCards(h)')
<1>1. request'[r].house = h
  <2>1. Stored(r, 0)
    BY DEF SaveAnswer
  <2> QED
    BY <2>1 DEF Stored, Safe, TypeOK, Idle
<1>2. SeatsJustifiedBy(household'[h], MemberCards(request[r].house)')
  BY SaveAnswerSeats
<1> QED
  BY <1>1, <1>2

\* Where nobody leaves and no household is patched, seats stay justified.
LEMMA SeatsStep ==
    ASSUME Operations \cap (Removals \cup {"UpdateHousehold"}) = {},
           Safe, SeatsJustified, [Next]_vars
    PROVE  SeatsJustified'
<1> SUFFICES ASSUME NEW h \in Households
             PROVE  SeatsJustifiedBy(household'[h], MemberCards(h)')
  BY DEF SeatsJustified, Households
<1>1. SeatsJustifiedBy(household[h], MemberCards(h)) /\ TypeOK
  BY DEF SeatsJustified, Safe
<1>2. CASE UNCHANGED <<household, guest>>
  BY <1>1, <1>2 DEF MemberCards, LivingMembers
<1>3. ASSUME NEW r \in Requests, RequestStep(r), ~UNCHANGED <<household, guest>>
      PROVE  SeatsJustifiedBy(household'[h], MemberCards(h)')
  <2>1. ~Refuse(r)
    BY <1>3 DEF Refuse
  <2>2. ~SaveApply(r)
    BY <1>3, SaveApplyCases DEF Refuse, Prepare, Proceed
  <2>3. request[r].op \notin Removals \cup {"UpdateHousehold"}
    BY <1>1, RequestFields DEF InHandRecord, Removals
  <2>4. ~SoftDelete(r) /\ ~HouseholdUpdate(r)
    BY <2>3 DEF SoftDelete, HouseholdUpdate, At
  <2>5. CASE SaveAnswer(r)
    <3>1. CASE h = request[r].house
      BY <1>1, <2>1, <2>5, <3>1, SaveSeats
    <3>2. CASE h # request[r].house
      BY <1>1, <2>1, <2>5, <3>2, SaveStands, SeatsKept
    <3> QED
      BY <3>1, <3>2
  <2>6. CASE CreateIfHouseholdAllows(r) \/ GuestCreate(r) \/ GuestUpdate(r)
    BY <1>1, <2>6, GuestWriteStands, SeatsKept
  <2>7. CASE HouseholdDelete(r) \/ HouseholdCreate(r)
    BY <1>1, <2>7, HouseholdWriteStands, SeatsKept
  <2>8. \/ SaveAnswer(r) \/ CreateIfHouseholdAllows(r) \/ GuestCreate(r) \/ GuestUpdate(r)
        \/ HouseholdDelete(r) \/ HouseholdCreate(r)
    BY <1>3, <2>1, <2>2, <2>4 DEF RequestStep, SaveFindHousehold, AddPlusOneFindHousehold,
       AddGuestPrepare, RemoveFindGuest, UpdateGuestApply, UpdateHouseholdApply,
       DeleteHouseholdFind, RecordAudit, Refuse, Proceed
  <2> QED
    BY <2>5, <2>6, <2>7, <2>8
<1> QED
  BY <1>2, <1>3 DEF Next, vars, Tick, Receive, Abort, Refuse

\* At any moment the members who are there justify the seats, if no member ever
\* leaves and the hosts patch no household: a removal that looks at nobody's
\* seats and a patch that writes old ones back are the only ways to what the run
\* RsvpRemoval shows (Remove in application/rsvp, HouseholdStore.Update).
THEOREM SeatsStayJustified ==
    ASSUME Operations \cap (Removals \cup {"UpdateHousehold"}) = {}
    PROVE  Spec => []SeatsJustified
<1>1. Init => Safe /\ SeatsJustified
  <2> SUFFICES ASSUME Init, NEW h \in Households
               PROVE  SeatsJustifiedBy(household[h], MemberCards(h))
    BY InitSafe DEF SeatsJustified
  <2>1. household[h].needed = 0 /\ household[h].offered = 0 /\ household[h].taxi = 0
    BY DEF Init, NoHousehold, EmptyHousehold
  <2> QED
    BY <2>1 DEF SeatsJustifiedBy
<1>2. Safe /\ SeatsJustified /\ [Next]_vars => (Safe /\ SeatsJustified)'
  BY StepSafe, SeatsStep
<1> QED
  BY <1>1, <1>2, PTL DEF Spec

\* The seats a patch holds are those that are stored.
PatchReady(q) == q.op = "UpdateHousehold" /\ q.pc = "ready"

Fresh(q, rows) ==
    PatchReady(q) =>
        /\ rows[q.house].exists
        /\ q.row.needed = rows[q.house].needed /\ q.row.offered = rows[q.house].offered
        /\ q.row.taxi = rows[q.house].taxi

\* One request at a time, or none that stores an answer or deletes a household.
Undisturbed ==
    \/ \A r, s \in Requests : r = s
    \/ Operations \cap (Saves \cup {"DeleteHousehold"}) = {}

\* That holds of every patch.
FreshInv == TypeOK /\ \A r \in Requests : Fresh(request[r], household)

\* They are right after the request's own step: the patch has just read them, or
\* there is no patch.
LEMMA PatchPrepared ==
    ASSUME TypeOK, NEW r \in Requests, Receive(r) \/ RequestStep(r) \/ Abort(r)
    PROVE  Fresh(request'[r], household')
<1> DEFINE q == request[r]
           n == request'[r]
<1>1. q \in InHandRecord
  BY RequestFields
<1>2. CASE Refuse(r) \/ RecordAudit(r)
  BY <1>1, <1>2 DEF Refuse, RecordAudit, TypeOK, Idle, Fresh, PatchReady
<1>3. ASSUME NEW g, Stored(r, g) PROVE Fresh(n, household')
  BY <1>1, <1>3 DEF Stored, TypeOK, Idle, Fresh, PatchReady
<1>4. ASSUME NEW card, Insert(r, card) PROVE Fresh(n, household')
  BY <1>3, <1>4 DEF Insert
<1>5. CASE n.op # "UpdateHousehold"
  BY <1>5 DEF Fresh, PatchReady
<1>6. CASE Receive(r)
  BY <1>1, <1>6 DEF Receive, Idle, TypeOK, Fresh, PatchReady
<1>7. CASE SaveFindHousehold(r)
  <2>1. q.op # "UpdateHousehold"
    BY <1>7 DEF SaveFindHousehold, At, Saves
  <2>2. CASE Proceed(r, [q EXCEPT !.pc = "read", !.row = household[q.house]])
    <3>1. n.op = q.op
      BY <1>1, <2>2 DEF Proceed, TypeOK, InHandRecord
    <3> QED
      BY <1>5, <2>1, <3>1
  <2> QED
    BY <1>2, <1>7, <2>2 DEF SaveFindHousehold
<1>8. CASE SaveApply(r)
  <2>1. q.op # "UpdateHousehold"
    BY <1>8 DEF SaveApply, At, Saves
  <2>2. ASSUME NEW row, NEW members, NEW cards, Prepare(r, row, members, cards)
        PROVE  n.op = q.op
    BY <1>1, <2>2 DEF Prepare, Proceed, TypeOK, InHandRecord
  <2> QED
    BY <1>2, <1>5, <1>8, <2>1, <2>2, SaveApplyCases
<1>9. CASE AddPlusOneFindHousehold(r) \/ AddGuestPrepare(r) \/ UpdateGuestApply(r)
  <2>1. q.op # "UpdateHousehold"
    BY <1>9 DEF AddPlusOneFindHousehold, AddGuestPrepare, UpdateGuestApply, At
  <2>2. CASE \E draft : Proceed(r, [q EXCEPT !.pc = "ready", !.draft = draft])
    <3>1. n.op = q.op
      BY <1>1, <2>2 DEF Proceed, TypeOK, InHandRecord
    <3> QED
      BY <1>5, <2>1, <3>1
  <2> QED
    BY <1>2, <1>9, <2>2 DEF AddPlusOneFindHousehold, AddGuestPrepare, UpdateGuestApply
<1>10. CASE RemoveFindGuest(r) \/ DeleteHouseholdFind(r)
  <2>1. q.op # "UpdateHousehold"
    BY <1>10 DEF RemoveFindGuest, DeleteHouseholdFind, At, Removals
  <2>2. CASE Proceed(r, [q EXCEPT !.pc = "ready"])
    <3>1. n.op = q.op
      BY <1>1, <2>2 DEF Proceed, TypeOK, InHandRecord
    <3> QED
      BY <1>5, <2>1, <3>1
  <2> QED
    BY <1>2, <1>10, <2>2 DEF RemoveFindGuest, DeleteHouseholdFind
<1>11. CASE UpdateHouseholdApply(r)
  <2>1. CASE ~Refuse(r)
    <3> DEFINE current == household[q.house]
    <3>1. PICK label \in Labels :
            /\ current.exists
            /\ Proceed(r, [q EXCEPT !.pc = "ready", !.row = [current EXCEPT !.label = label]])
      BY <1>11, <2>1 DEF UpdateHouseholdApply
    <3>2. q.house \in Households /\ current \in HouseholdRow
      BY <1>11, RowsInHand DEF UpdateHouseholdApply, At
    <3>3. /\ n.house = q.house /\ n.row = [current EXCEPT !.label = label]
          /\ UNCHANGED household
      BY <1>1, <3>1 DEF Proceed, TypeOK, InHandRecord
    <3>4. /\ n.row.needed = current.needed /\ n.row.offered = current.offered
          /\ n.row.taxi = current.taxi
      BY <3>2, <3>3 DEF HouseholdRow
    <3>5. household' = household /\ n.house = q.house
      BY <3>3
    <3>6. household'[n.house] = household[q.house]
      BY <3>5
    <3> QED
      BY <3>1, <3>4, <3>6 DEF Fresh
  <2> QED
    BY <1>2, <2>1
<1>12. CASE SaveAnswer(r) \/ SoftDelete(r) \/ GuestUpdate(r) \/ HouseholdUpdate(r)
            \/ HouseholdDelete(r) \/ HouseholdCreate(r)
  BY <1>2, <1>3, <1>12 DEF SaveAnswer, SoftDelete, GuestUpdate, HouseholdUpdate,
                           HouseholdDelete, HouseholdCreate
<1>13. CASE CreateIfHouseholdAllows(r) \/ GuestCreate(r)
  BY <1>2, <1>4, <1>13 DEF CreateIfHouseholdAllows, GuestCreate
<1> QED
  BY <1>2, <1>6, <1>7, <1>8, <1>9, <1>10, <1>11, <1>12, <1>13 DEF RequestStep, Abort

\* Where no household answers and none is deleted, the rows keep what a patch
\* has read of them.
LEMMA RowsStand ==
    ASSUME Operations \cap (Saves \cup {"DeleteHousehold"}) = {}, FreshInv,
           NEW r \in Requests, Receive(r) \/ RequestStep(r) \/ Abort(r),
           NEW h \in Households, household[h].exists
    PROVE  /\ household'[h].exists
           /\ household'[h].needed = household[h].needed
           /\ household'[h].offered = household[h].offered
           /\ household'[h].taxi = household[h].taxi
<1> DEFINE q == request[r]
<1>1. TypeOK /\ q \in InHandRecord /\ Fresh(q, household)
  BY RequestFields DEF FreshInv
<1>2. ~SaveAnswer(r) /\ ~HouseholdDelete(r) /\ ~SaveApply(r)
  <2>1. q.op \notin Saves /\ q.op # "DeleteHousehold"
    BY <1>1 DEF InHandRecord, Saves
  <2> QED
    BY <2>1 DEF SaveAnswer, HouseholdDelete, SaveApply, At
<1>3. CASE UNCHANGED household
  BY <1>3
<1>4. CASE HouseholdUpdate(r) /\ ~Refuse(r)
  <2>1. /\ household' = [household EXCEPT ![q.house] = PatchedRow(@, q.row)] /\ PatchReady(q)
    BY <1>4 DEF HouseholdUpdate, At, PatchReady
  <2>2. CASE h = q.house
    <3>1. household'[h] = PatchedRow(household[h], q.row) /\ household[h] \in HouseholdRow
      BY <1>1, <2>1, <2>2 DEF TypeOK
    <3> QED
      BY <1>1, <2>1, <2>2, <3>1 DEF Fresh, PatchedRow, HouseholdRow
  <2>3. CASE h # q.house
    BY <1>1, <2>1, <2>3 DEF TypeOK
  <2> QED
    BY <2>2, <2>3
<1>5. CASE HouseholdCreate(r)
  <2>1. PICK k \in Households, label \in Labels :
          /\ household' = [household EXCEPT ![k] = EmptyHousehold(label, TRUE)]
          /\ NextHouseholdId(k)
    BY <1>5 DEF HouseholdCreate
  <2>2. ~household[k].exists
    BY <2>1 DEF NextHouseholdId, Households
  <2>3. household'[h] = household[h]
    BY <1>1, <2>1, <2>2 DEF TypeOK
  <2> QED
    BY <2>3
<1>6. CASE Receive(r) \/ Abort(r) \/ Refuse(r) \/ RecordAudit(r)
  BY <1>3, <1>6 DEF Receive, Abort, Refuse, RecordAudit
<1>7. CASE SaveFindHousehold(r) \/ AddPlusOneFindHousehold(r) \/ AddGuestPrepare(r)
           \/ RemoveFindGuest(r) \/ UpdateGuestApply(r) \/ UpdateHouseholdApply(r)
           \/ DeleteHouseholdFind(r)
  BY <1>3, <1>6, <1>7 DEF SaveFindHousehold, AddPlusOneFindHousehold, AddGuestPrepare,
     RemoveFindGuest, UpdateGuestApply, UpdateHouseholdApply, DeleteHouseholdFind, Proceed
<1>8. CASE CreateIfHouseholdAllows(r) \/ GuestCreate(r) \/ SoftDelete(r) \/ GuestUpdate(r)
  BY <1>3, <1>6, <1>8 DEF CreateIfHouseholdAllows, GuestCreate, SoftDelete, GuestUpdate, Insert
<1> QED
  BY <1>2, <1>4, <1>5, <1>6, <1>7, <1>8 DEF RequestStep

\* The seats a patch holds stay those that are stored.
LEMMA FreshStep ==
    ASSUME Undisturbed, FreshInv, [Next]_vars
    PROVE  FreshInv'
<1>1. TypeOK'
  BY StepType DEF FreshInv
<1>2. CASE UNCHANGED <<household, request>>
  BY <1>1, <1>2 DEF FreshInv
<1>3. ASSUME NEW s \in Requests, Receive(s) \/ RequestStep(s) \/ Abort(s),
             NEW r \in Requests
      PROVE  Fresh(request'[r], household')
  <2>1. CASE r = s
    BY <1>3, <2>1, PatchPrepared DEF FreshInv
  <2>2. CASE r # s
    <3>1. Operations \cap (Saves \cup {"DeleteHousehold"}) = {}
      BY <2>2 DEF Undisturbed
    <3>2. request'[r] = request[r] /\ Fresh(request[r], household) /\ TypeOK
      BY <1>3, <2>2, OneRequest DEF FreshInv, TypeOK
    <3>3. PatchReady(request[r]) => request[r].house \in Households
      BY <3>2, RowsInHand DEF PatchReady
    <3> QED
      BY <1>3, <3>1, <3>2, <3>3, RowsStand DEF Fresh
  <2> QED
    BY <2>1, <2>2
<1> QED
  BY <1>1, <1>2, <1>3 DEF FreshInv, Next, vars, Tick

\* The patch that commits is HouseholdUpdate.
LEMMA CommittedPatch ==
    ASSUME TypeOK, [Next]_vars, NEW r \in Requests, Committed(r, {"UpdateHousehold"})
    PROVE  HouseholdUpdate(r) /\ ~Refuse(r)
<1>1. At(r, {"UpdateHousehold"}, "ready") /\ request'[r].pc = "stored"
  BY DEF Committed, At
<1>2. RequestStep(r) /\ ~Refuse(r)
  BY <1>1, CommittedStep DEF At
<1> QED
  BY <1>1, <1>2 DEF RequestStep, At, Saves, Removals,
     SaveFindHousehold, SaveApply, SaveAnswer, AddPlusOneFindHousehold,
     CreateIfHouseholdAllows, AddGuestPrepare, GuestCreate, RemoveFindGuest, SoftDelete,
     UpdateGuestApply, GuestUpdate, UpdateHouseholdApply, DeleteHouseholdFind,
     HouseholdDelete, HouseholdCreate, RecordAudit

\* A patch of a household leaves its answer alone if no other request is in
\* flight beside it, or none that saves an answer or deletes a household: what
\* the run RsvpAdminPatch shows takes an answer between the patch's read and its
\* write (Update in application/households, HouseholdStore.Update).
THEOREM UndisturbedPatchLeavesAnswer ==
    ASSUME Undisturbed PROVE Spec => AdminPatchLeavesAnswer
<1> DEFINE Step == \A r \in Requests : Committed(r, {"UpdateHousehold"}) =>
                      LET h == request[r].house
                      IN  household'[h] = [household[h] EXCEPT !.label = household'[h].label]
<1>1. Init => FreshInv
  <2> SUFFICES ASSUME Init, NEW r \in Requests PROVE Fresh(request[r], household)
    BY InitType DEF FreshInv
  <2>1. request[r].pc = "idle"
    BY DEF Init, Idle
  <2> QED
    BY <2>1 DEF Fresh, PatchReady
<1>2. FreshInv /\ [Next]_vars => FreshInv'
  BY FreshStep
<1>3. FreshInv /\ [Next]_vars => Step
  <2> SUFFICES ASSUME FreshInv, [Next]_vars, NEW r \in Requests,
                      Committed(r, {"UpdateHousehold"})
               PROVE  LET h == request[r].house
                      IN  household'[h] = [household[h] EXCEPT !.label = household'[h].label]
    OBVIOUS
  <2> DEFINE q == request[r]
             h == q.house
  <2>1. HouseholdUpdate(r) /\ ~Refuse(r) /\ TypeOK /\ Fresh(q, household)
    BY CommittedPatch DEF FreshInv
  <2>2. /\ household' = [household EXCEPT ![h] = PatchedRow(@, q.row)] /\ PatchReady(q)
        /\ h \in Households /\ household[h] \in HouseholdRow
    BY <2>1, RowsInHand DEF HouseholdUpdate, At, PatchReady
  <2>3. household'[h] = PatchedRow(household[h], q.row)
    BY <2>1, <2>2 DEF TypeOK
  <2>4. PatchedRow(household[h], q.row) = [household[h] EXCEPT !.label = q.row.label]
    BY <2>1, <2>2 DEF PatchedRow, Fresh, HouseholdRow
  <2>5. household'[h].label = q.row.label
    BY <2>2, <2>3, <2>4 DEF HouseholdRow
  <2> QED
    BY <2>3, <2>4, <2>5
<1> QED
  BY <1>1, <1>2, <1>3, PTL DEF Spec, AdminPatchLeavesAnswer

(***************************************************************************)
(* The book.  The requests keep the book of module AnswerBook, and so keep *)
(* what the book promises.  Beyond Safe the proof needs that a prepared    *)
(* answer says something of everybody in it, that seats are never both     *)
(* needed and offered, and that nobody stands in a household that is gone. *)
(* As long as the hosts leave the list alone, it also needs that whoever   *)
(* was invited still stands where it stood when a request read it.         *)
(***************************************************************************)
NotBoth(row) == ~(row.needed > 0 /\ row.offered > 0)

\* What a request that is about to write has prepared, whatever happened to
\* the tables since.
Ready(q) ==
    q.pc = "ready" =>
        /\ q.op \in Saves =>
              /\ q.row.submittedAt # Null /\ NotBoth(q.row)
              /\ \A g \in q.members : q.cards[g].attending \in Scopes
        /\ q.op = "UpdateHousehold" => NotBoth(q.row)
        /\ q.op = "AddPlusOne" => q.draft.origin = "guest_added"
        /\ q.op = "AddGuest" => q.draft.origin = "seeded"

\* And what still holds of the tables when nobody edits the list: a save is
\* about everybody invited, a removal about a companion.
Current(q) ==
    q.pc = "ready" =>
        /\ q.op \in Saves => InvitedOf(q.house) \subseteq q.members
        /\ q.op = "RemoveMember" =>
              /\ guest[q.guest].status # "absent" /\ guest[q.guest].house = q.house
              /\ guest[q.guest].card.origin = "guest_added"

\* The list as it was at the start, plus companions.
ListStands ==
    \A g \in Guests :
        IF g \in DOMAIN Invited
        THEN /\ guest[g].status = "living" /\ guest[g].house = HouseOf[g]
             /\ guest[g].card.origin = "seeded"
        ELSE guest[g].status # "absent" => guest[g].card.origin = "guest_added"

SeatsApart == \A h \in Households : NotBoth(household[h])

ListInv == ListStands /\ \A r \in Requests : Current(request[r])

Housed ==
    \A g \in Guests : guest[g].status # "absent" =>
        guest[g].house \in Households /\ household[guest[g].house].exists

Keeping ==
    /\ Safe
    /\ Housed
    /\ SeatsApart
    /\ \A r \in Requests : Ready(request[r])
    /\ ~HostsEdit => ListInv

\* Nothing a sheet shows has changed.
SameSheets == \A h \in Households : SheetOf(h)' = SheetOf(h)

(***************************************************************************)
(* The start.                                                              *)
(***************************************************************************)
\* At the start nothing is prepared, and the list is the list.
LEMMA KeepingInit == Init => Keeping
<1> SUFFICES ASSUME Init PROVE Keeping
  OBVIOUS
<1>1. Safe
  BY InitSafe
<1>2. \A g \in Guests :
        IF g \in DOMAIN Invited
        THEN /\ guest[g].status = "living" /\ guest[g].house = HouseOf[g]
             /\ guest[g].card = Invited[g]
        ELSE guest[g].status = "absent"
  BY DEF Init, NoGuest
<1>3. Housed
  <2>1. ASSUME NEW g \in DOMAIN Invited
        PROVE  HouseOf[g] \in Households /\ household[HouseOf[g]].exists
    BY <2>1, RsvpAssumption DEF Init, EmptyHousehold
  <2> QED
    BY <1>2, <2>1 DEF Housed
<1>4. SeatsApart
  BY DEF Init, SeatsApart, NotBoth, EmptyHousehold, NoHousehold
<1>5. \A r \in Requests : Ready(request[r]) /\ Current(request[r])
  BY DEF Init, Idle, Ready, Current
<1>6. ListStands
  BY <1>2, RsvpAssumption DEF ListStands
<1> QED
  BY <1>1, <1>3, <1>4, <1>5, <1>6 DEF Keeping, ListInv

(***************************************************************************)
(* Steps that write no table.                                              *)
(***************************************************************************)
\* Going on with something prepared changes no sheet and keeps what is known.
LEMMA ProceedKeeps ==
    ASSUME Keeping, NEW r \in Requests, NEW q, Ready(q), ~HostsEdit => Current(q), Proceed(r, q)
    PROVE  /\ Housed' /\ SeatsApart' /\ SameSheets
           /\ \A s \in Requests : Ready(request'[s])
           /\ ~HostsEdit => ListInv'
<1>1. \A s \in Requests : request'[s] = IF s = r THEN q ELSE request[s]
  BY DEF Keeping, Safe, TypeOK, Proceed
<1>2. household' = household /\ guest' = guest
  BY DEF Proceed
<1>3. Housed' /\ SeatsApart'
  BY <1>2 DEF Keeping, Housed, SeatsApart
<1>4. SameSheets
  BY <1>2 DEF SameSheets, SheetOf, LivingMembers
<1>5. \A s \in Requests : Ready(request'[s])
  BY <1>1 DEF Keeping
<1>6. ~HostsEdit => ListInv'
  BY <1>1, <1>2 DEF Keeping, ListInv, ListStands, Current
<1> QED
  BY <1>3, <1>4, <1>5, <1>6

\* So does a refusal.
LEMMA RefuseKeeps ==
    ASSUME Keeping, NEW r \in Requests, Refuse(r)
    PROVE  /\ Housed' /\ SeatsApart' /\ SameSheets
           /\ \A s \in Requests : Ready(request'[s])
           /\ ~HostsEdit => ListInv'
<1>1. Ready(Idle) /\ Current(Idle)
  BY DEF Idle, Ready, Current
<1> QED
  BY <1>1, ProceedKeeps DEF Refuse, Proceed
\* An answer says something of everybody in it, and of everybody invited.
LEMMA SaveApplyReady ==
    ASSUME Keeping, NEW r \in Requests, SaveApply(r), ~Refuse(r)
    PROVE  \E q : Ready(q) /\ (~HostsEdit => Current(q)) /\ Proceed(r, q)
<1> DEFINE members == LivingMembers(request[r].house)
<1>1. request[r] \in InHandRecord /\ members \in SUBSET Guests
  BY RequestFields DEF Keeping, Safe, LivingMembers
<1>2. PICK answers \in [members -> MemberAnswers], householdAnswer \in HouseholdAnswers :
        /\ At(r, Saves, "read")
        /\ TransportSeatsAccepted(householdAnswer)
        /\ Prepare(r, AnsweredRow(request[r].row, householdAnswer, members,
                                  AnsweredCards(members, answers)),
                   members, AnsweredCards(members, answers))
  BY SaveApplyCases
<1> DEFINE cards == AnsweredCards(members, answers)
           row   == AnsweredRow(request[r].row, householdAnswer, members, cards)
           next  == [request[r] EXCEPT !.pc = "ready", !.row = Stamp(row, request[r].now),
                                       !.members = members, !.cards = cards]
<1>3. ASSUME NEW g \in members PROVE cards[g].attending \in Scopes
  <2>1. cards[g] = ApplyGuestAnswer(guest[g].card, answers[g])
    BY <1>1 DEF AnsweredCards
  <2>2. guest[g].card \in Card /\ answers[g] \in GuestAnswer
    BY <1>1, RsvpAssumption DEF Keeping, Safe, TypeOK, GuestRow
  <2>3. ApplyGuestAnswer(guest[g].card, answers[g]).attending = answers[g].attending
    BY <2>2 DEF ApplyGuestAnswer, NormalizeGuestAnswer, Card
  <2> QED
    BY <2>1, <2>2, <2>3 DEF GuestAnswer
<1>4. Stamp(row, request[r].now).submittedAt # Null /\ NotBoth(Stamp(row, request[r].now))
  <2>1. row \in HouseholdRow
    BY <1>1, ApplyHouseholdAnswerType, RsvpAssumption DEF InHandRecord, AnsweredRow
  <2>2. NotBoth(row)
    <3>1. request[r].row \in HouseholdRow /\ householdAnswer \in HouseholdAnswer
      BY <1>1, RsvpAssumption DEF InHandRecord
    <3>2. /\ row.needed \in {householdAnswer.needed, 0}
          /\ row.offered \in {householdAnswer.offered, 0}
      BY <3>1 DEF AnsweredRow, ApplyHouseholdAnswer, NormalizeHouseholdAnswer, HouseholdRow
    <3> QED
      BY <1>2, <3>1, <3>2 DEF NotBoth, TransportSeatsAccepted, HouseholdAnswer
  <2> HIDE DEF row
  <2>3. request[r].now \in Time
    BY <1>1 DEF InHandRecord
  <2> QED
    BY <2>1, <2>2, <2>3 DEF Stamp, HouseholdRow, NotBoth, Time, Null
<1>5. ASSUME ~HostsEdit PROVE InvitedOf(request[r].house) \subseteq members
  BY <1>5, RsvpAssumption DEF Keeping, ListInv, ListStands, InvitedOf, LivingMembers
<1>6. Proceed(r, next)
  BY <1>2 DEF Prepare
<1> HIDE DEF members, cards, row
<1>7. /\ next.op = request[r].op /\ next.house = request[r].house /\ next.members = members
      /\ next.cards = cards /\ next.row = Stamp(row, request[r].now)
  BY <1>1 DEF InHandRecord
<1>8. next.op \in Saves
  BY <1>2, <1>7 DEF At
<1>9. Ready(next)
  BY <1>3, <1>4, <1>7, <1>8 DEF Ready, Saves
<1>10. ~HostsEdit => Current(next)
  BY <1>5, <1>7, <1>8 DEF Current, Saves
<1> QED
  BY <1>6, <1>9, <1>10

\* The other steps that read and prepare.
LEMMA PrepareReady ==
    ASSUME Keeping, NEW r \in Requests, ~Refuse(r),
           \/ Receive(r) \/ SaveFindHousehold(r) \/ AddPlusOneFindHousehold(r)
           \/ AddGuestPrepare(r) \/ RemoveFindGuest(r) \/ UpdateGuestApply(r)
           \/ UpdateHouseholdApply(r) \/ DeleteHouseholdFind(r)
    PROVE  \E q : Ready(q) /\ (~HostsEdit => Current(q)) /\ Proceed(r, q)
<1>1. request[r] \in InHandRecord
  BY RequestFields DEF Keeping, Safe
<1>2. CASE Receive(r) \/ SaveFindHousehold(r)
  BY <1>1, <1>2 DEF Receive, SaveFindHousehold, Proceed, Idle, Ready, Current, InHandRecord
<1>3. CASE AddPlusOneFindHousehold(r)
  <2>1. PICK name \in PlusOneNames :
          Proceed(r, [request[r] EXCEPT !.pc = "ready", !.draft = NewPlusOne(name)])
    BY <1>3 DEF AddPlusOneFindHousehold
  <2> DEFINE next == [request[r] EXCEPT !.pc = "ready", !.draft = NewPlusOne(name)]
  <2>2. next.op = "AddPlusOne" /\ next.draft.origin = "guest_added"
    BY <1>1, <1>3 DEF AddPlusOneFindHousehold, At, InHandRecord, NewPlusOne
  <2>3. Ready(next) /\ Current(next)
    BY <2>2 DEF Ready, Current, Saves
  <2> QED
    BY <2>1, <2>3
<1>4. CASE AddGuestPrepare(r)
  <2>1. PICK draft \in Drafts :
          Proceed(r, [request[r] EXCEPT !.pc = "ready", !.draft = SeededDraft(draft)])
    BY <1>4 DEF AddGuestPrepare
  <2> DEFINE next == [request[r] EXCEPT !.pc = "ready", !.draft = SeededDraft(draft)]
  <2>2. SeededDraft(draft).origin = "seeded"
    BY RsvpAssumption DEF SeededDraft, Card
  <2>3. next.op = "AddGuest" /\ next.draft.origin = "seeded"
    BY <1>1, <1>4, <2>2 DEF AddGuestPrepare, At, InHandRecord
  <2>4. Ready(next) /\ Current(next)
    BY <2>3 DEF Ready, Current, Saves
  <2> QED
    BY <2>1, <2>4
<1>5. CASE RemoveFindGuest(r)
  <2> DEFINE next == [request[r] EXCEPT !.pc = "ready"]
  <2>1. Proceed(r, next) /\ MayRemove(request[r])
    BY <1>5 DEF RemoveFindGuest
  <2>2. /\ next.op \in Removals /\ next.op = request[r].op
        /\ next.guest = request[r].guest /\ next.house = request[r].house
    BY <1>1, <1>5 DEF RemoveFindGuest, At, InHandRecord
  <2>3. Ready(next) /\ Current(next)
    BY <2>1, <2>2 DEF Ready, Current, Saves, Removals, MayRemove, CanHouseholdRemove
  <2> QED
    BY <2>1, <2>3
<1>6. CASE UpdateGuestApply(r) \/ DeleteHouseholdFind(r)
  <2>1. PICK draft : Proceed(r, [request[r] EXCEPT !.pc = "ready", !.draft = draft])
    <3>1. [request[r] EXCEPT !.pc = "ready"]
             = [request[r] EXCEPT !.pc = "ready", !.draft = request[r].draft]
      BY <1>1 DEF InHandRecord
    <3> QED
      BY <1>6, <3>1 DEF UpdateGuestApply, DeleteHouseholdFind
  <2> DEFINE next == [request[r] EXCEPT !.pc = "ready", !.draft = draft]
  <2>2. next.op \in {"UpdateGuest", "DeleteHousehold"}
    BY <1>1, <1>6 DEF UpdateGuestApply, DeleteHouseholdFind, At, InHandRecord
  <2>3. Ready(next) /\ Current(next)
    BY <2>2 DEF Ready, Current, Saves
  <2> QED
    BY <2>1, <2>3
<1>7. CASE UpdateHouseholdApply(r)
  <2> DEFINE current == household[request[r].house]
  <2>1. PICK label \in Labels :
          Proceed(r, [request[r] EXCEPT !.pc = "ready", !.row = [current EXCEPT !.label = label]])
    BY <1>7 DEF UpdateHouseholdApply
  <2> DEFINE next == [request[r] EXCEPT !.pc = "ready", !.row = [current EXCEPT !.label = label]]
  <2>2. current \in HouseholdRow /\ NotBoth(current)
    BY <1>7, RowsInHand DEF UpdateHouseholdApply, At, Keeping, Safe, SeatsApart
  <2>3. NotBoth([current EXCEPT !.label = label])
    BY <2>2 DEF NotBoth, HouseholdRow
  <2>4. next.op = "UpdateHousehold" /\ next.row = [current EXCEPT !.label = label]
    BY <1>1, <1>7 DEF UpdateHouseholdApply, At, InHandRecord
  <2>5. Ready(next) /\ Current(next)
    BY <2>3, <2>4 DEF Ready, Current, Saves
  <2> QED
    BY <2>1, <2>5
<1> QED
  BY <1>2, <1>3, <1>4, <1>5, <1>6, <1>7
(***************************************************************************)
(* Steps that write.  Each is an act on the sheet of the request's own     *)
(* household; "Standing" is what every write but the hosts' leaves alone.  *)
(***************************************************************************)
OtherSheetsSame(h) == \A k \in Households \ {h} : SheetOf(k)' = SheetOf(k)

\* An act on one sheet, or none, is a step of the book.
LEMMA OneSheet ==
    ASSUME NEW h \in Households, OtherSheetsSame(h),
           LET old == SheetOf(h)
               new == SheetOf(h)'
           IN  \/ new = old
               \/ Book!Answer(old, new)
               \/ \E g \in Guests : \/ Book!Join(old, new, g) /\ Book!NowhereYet(g)
                                    \/ Book!Leave(old, new, g)
               \/ /\ HostsEdit
                  /\ \/ Book!Open(old, new) \/ Book!Close(old, new) \/ Book!Amend(old, new)
                     \/ \E g \in Guests : \/ Book!Enlist(old, new, g) /\ Book!NowhereYet(g)
                                          \/ Book!Strike(old, new, g)
    PROVE  [Book!Next]_Sheets
<1>1. \A k \in Households : Sheets[k] = SheetOf(k) /\ Sheets'[k] = SheetOf(k)'
  BY DEF Sheets
<1>2. Sheets' = [Sheets EXCEPT ![h] = Sheets'[h]]
  BY <1>1 DEF Sheets, OtherSheetsSame
<1>3. CASE SheetOf(h)' = SheetOf(h)
  BY <1>3 DEF Sheets, OtherSheetsSame
<1>4. CASE SheetOf(h)' # SheetOf(h)
  BY <1>1, <1>2, <1>4 DEF Book!Next
<1> QED
  BY <1>3, <1>4

\* When nothing a sheet shows changes, the book takes no step.
LEMMA SameSheetsStutter ==
    ASSUME SameSheets PROVE [Book!Next]_Sheets
  BY DEF SameSheets, Sheets

\* Storing leaves nothing in hand that was not prepared.
LEMMA StoredReady ==
    ASSUME Keeping, NEW r \in Requests, NEW g, Stored(r, g)
    PROVE  /\ \A s \in Requests \ {r} : request'[s] = request[s]
           /\ request'[r].pc = "stored"
           /\ \A s \in Requests : Ready(request'[s])
<1>1. \A s \in Requests \ {r} : request'[s] = request[s]
  BY DEF Keeping, Safe, TypeOK, Stored
<1>2. request'[r].pc = "stored"
  BY DEF Keeping, Safe, TypeOK, Stored, Idle
<1> QED
  BY <1>1, <1>2 DEF Keeping, Ready

Standing ==
    \A g \in Guests : guest[g].status # "absent" =>
        /\ guest'[g].status # "absent" /\ guest'[g].house = guest[g].house
        /\ guest'[g].card.origin = guest[g].card.origin

\* What the requests know of the list stays true while rows stand.
LEMMA StandingCurrent ==
    ASSUME Keeping, ~HostsEdit, NEW r \in Requests, NEW g, Stored(r, g), Standing
    PROVE  \A s \in Requests : Current(request[s])'
<1>1. ASSUME NEW s \in Requests \ {r}
      PROVE  Current(request[s])'
  <2>1. request'[s] = request[s] /\ Current(request[s])
    BY StoredReady DEF Keeping, ListInv
  <2>2. request[s].pc = "ready" /\ request[s].op = "RemoveMember" => request[s].guest \in Guests
    BY RowsInHand DEF Keeping, Safe, GuestOperations
  <2> QED
    BY <2>1, <2>2 DEF Current, Standing
<1>2. Current(request[r])'
  BY StoredReady DEF Current
<1> QED
  BY <1>1, <1>2

\* What a sheet shows, field by field.
LEMMA SheetFields ==
    ASSUME TypeOK, SeatsApart, NEW h \in Households
    PROVE  /\ SheetOf(h) \in Book!Sheet
           /\ SheetOf(h).open = household[h].exists
           /\ SheetOf(h).members = LivingMembers(h)
           /\ SheetOf(h).companions
                = {g \in LivingMembers(h) : guest[g].card.origin = "guest_added"}
           /\ \A g \in Guests : SheetOf(h).says[g] = IF g \in LivingMembers(h)
                                                    THEN guest[g].card.attending ELSE "nil"
           /\ SheetOf(h).wants = Wanted(household[h])
           /\ SheetOf(h).answered <=> household[h].submittedAt # Null
<1>1. household[h] \in HouseholdRow /\ NotBoth(household[h])
  BY DEF TypeOK, SeatsApart
<1>2. household[h].exists \in BOOLEAN
  BY <1>1 DEF HouseholdRow
<1>3. LivingMembers(h) \in SUBSET Guests
  BY DEF LivingMembers
<1>4. Wanted(household[h]) \in Book!Wants
  BY <1>1 DEF Wanted, NotBoth, Book!Wants
<1> DEFINE says == [g \in Guests |-> IF g \in LivingMembers(h) THEN guest[g].card.attending
                                                             ELSE "nil"]
<1>5. says \in [Guests -> Book!Scopes \cup {"nil"}]
  BY DEF TypeOK, GuestRow, Card, Attending, Scopes, Book!Scopes
<1> QED
  BY <1>2, <1>3, <1>4, <1>5 DEF SheetOf, Book!Sheet

\* The same of the sheet after a step.
LEMMA SheetFieldsNext ==
    ASSUME TypeOK', SeatsApart', NEW h \in Households
    PROVE  /\ SheetOf(h)' \in Book!Sheet
           /\ SheetOf(h)'.open = household'[h].exists
           /\ SheetOf(h)'.members = LivingMembers(h)'
           /\ SheetOf(h)'.companions
                = {g \in LivingMembers(h)' : guest'[g].card.origin = "guest_added"}
           /\ \A g \in Guests : SheetOf(h)'.says[g] = IF g \in LivingMembers(h)'
                                                     THEN guest'[g].card.attending ELSE "nil"
           /\ SheetOf(h)'.wants = Wanted(household'[h])
           /\ SheetOf(h)'.answered <=> household'[h].submittedAt # Null
<1>1. household'[h] \in HouseholdRow /\ NotBoth(household'[h])
  BY DEF TypeOK, SeatsApart
<1>2. household'[h].exists \in BOOLEAN
  BY <1>1 DEF HouseholdRow
<1>3. LivingMembers(h)' \in SUBSET Guests
  BY DEF LivingMembers
<1>4. Wanted(household'[h]) \in Book!Wants
  BY <1>1 DEF Wanted, NotBoth, Book!Wants
<1> DEFINE says == [g \in Guests |-> IF g \in LivingMembers(h)' THEN guest'[g].card.attending
                                                              ELSE "nil"]
<1>5. says \in [Guests -> Book!Scopes \cup {"nil"}]
  BY DEF TypeOK, GuestRow, Card, Attending, Scopes, Book!Scopes
<1> QED
  BY <1>2, <1>3, <1>4, <1>5 DEF SheetOf, Book!Sheet

\* The sheets the other acts make, from their fields.
LEMMA JoinedSheet ==
    ASSUME NEW old \in Book!Sheet, NEW new \in Book!Sheet, NEW g,
           new.open = old.open, new.members = old.members \cup {g},
           new.companions = old.companions \cup {g},
           new.says = old.says, new.wants = old.wants, new.answered <=> old.answered
    PROVE  new = [old EXCEPT !.members = @ \cup {g}, !.companions = @ \cup {g}]
  BY DEF Book!Sheet

\* A guest we put on the list.
LEMMA EnlistedSheet ==
    ASSUME NEW old \in Book!Sheet, NEW new \in Book!Sheet, NEW g,
           new.open = old.open, new.members = old.members \cup {g},
           new.companions = old.companions,
           new.says = old.says, new.wants = old.wants, new.answered <=> old.answered
    PROVE  new = [old EXCEPT !.members = @ \cup {g}]
  BY DEF Book!Sheet

\* A member taken off it.
LEMMA StruckSheet ==
    ASSUME NEW old \in Book!Sheet, NEW new \in Book!Sheet, NEW g \in Guests,
           new.open = old.open, new.members = old.members \ {g},
           new.companions = old.companions \ {g},
           \A k \in Guests : new.says[k] = IF k = g THEN "nil" ELSE old.says[k],
           new.wants = old.wants, new.answered <=> old.answered
    PROVE  new = Book!Without(old, g)
<1>1. new.says = [old.says EXCEPT ![g] = "nil"]
  BY DEF Book!Sheet
<1>2. new.answered = old.answered
  BY DEF Book!Sheet
<1>3. new = [old EXCEPT !.members = old.members \ {g}, !.companions = old.companions \ {g},
                        !.says = [old.says EXCEPT ![g] = "nil"]]
  BY <1>1, <1>2 DEF Book!Sheet
<1> QED
  BY <1>3 DEF Book!Sheet, Book!Without

\* Other wants, and nothing else.
LEMMA AmendedSheet ==
    ASSUME NEW old \in Book!Sheet, NEW new \in Book!Sheet,
           new.open = old.open, new.members = old.members, new.companions = old.companions,
           new.says = old.says, new.answered <=> old.answered
    PROVE  new = [old EXCEPT !.wants = new.wants]
  BY DEF Book!Sheet

\* The sheet an answer makes.
LEMMA AnsweredSheet ==
    ASSUME NEW old \in Book!Sheet, NEW new \in Book!Sheet,
           new.open = old.open, new.members = old.members, new.companions = old.companions,
           new.answered
    PROVE  new = [old EXCEPT !.says = new.says, !.wants = new.wants, !.answered = TRUE]
  BY DEF Book!Sheet

\* A sheet whose rows are untouched is unchanged.
LEMMA UntouchedSheet ==
    ASSUME NEW h \in Households, household'[h] = household[h],
           LivingMembers(h)' = LivingMembers(h),
           \A g \in LivingMembers(h) : guest'[g] = guest[g]
    PROVE  SheetOf(h)' = SheetOf(h)
<1>1. {g \in LivingMembers(h)' : guest'[g].card.origin = "guest_added"}
        = {g \in LivingMembers(h) : guest[g].card.origin = "guest_added"}
  OBVIOUS
<1>2. [g \in Guests |-> IF g \in LivingMembers(h)' THEN guest'[g].card.attending ELSE "nil"]
        = [g \in Guests |-> IF g \in LivingMembers(h) THEN guest[g].card.attending ELSE "nil"]
  OBVIOUS
<1> QED
  BY <1>1, <1>2, Zenon DEF SheetOf

\* Committing a save is an answer of the members it was prepared for.
LEMMA SaveAnswerKeeps ==
    ASSUME Keeping, NEW r \in Requests, NEW h \in Households, request[r].house = h,
           SaveAnswer(r), ~Refuse(r)
    PROVE  /\ Housed' /\ SeatsApart' /\ [Book!Next]_Sheets
           /\ \A s \in Requests : Ready(request'[s])
           /\ ~HostsEdit => ListInv'
<1> DEFINE q == request[r]
<1>1. /\ SaveAnswerApplies(q)
      /\ household' = [household EXCEPT ![h] = AnswerColumns(@, q.row)]
      /\ guest' = [g \in Guests |-> IF g \in q.members
                      THEN [guest[g] EXCEPT !.card = MemberColumns(@, q.cards[g])]
                      ELSE guest[g]]
      /\ Stored(r, 0)
  BY DEF SaveAnswer
<1>2. /\ q \in InHandRecord /\ h \in Households
      /\ q.row \in HouseholdRow /\ household[h] \in HouseholdRow
      /\ q.op \in Saves /\ q.pc = "ready"
  BY RequestFields, RowsInHand DEF Keeping, Safe, SaveAnswer, At, InHandRecord
<1>3. Ready(q) /\ SavePrepared(q) /\ (~HostsEdit => Current(q))
  BY DEF Keeping, Safe, InHand, ListInv
<1>4. /\ household'[h] = AnswerColumns(household[h], q.row)
      /\ \A k \in Households \ {h} : household'[k] = household[k]
  BY <1>1, <1>2 DEF Keeping, Safe, TypeOK
<1>5. ASSUME NEW g \in Guests
      PROVE  /\ guest'[g].status = guest[g].status /\ guest'[g].house = guest[g].house
             /\ guest'[g].card.origin = guest[g].card.origin
             /\ guest'[g].card.attending = IF g \in q.members THEN q.cards[g].attending
                                                             ELSE guest[g].card.attending
  <2>1. guest[g] \in GuestRow /\ guest[g].card \in Card /\ q.cards[g] \in Card
    BY <1>2 DEF Keeping, Safe, TypeOK, GuestRow, InHandRecord
  <2>2. /\ MemberColumns(guest[g].card, q.cards[g]).origin = guest[g].card.origin
        /\ MemberColumns(guest[g].card, q.cards[g]).attending = q.cards[g].attending
    BY <2>1 DEF MemberColumns, Card
  <2> QED
    BY <1>1, <2>1, <2>2 DEF GuestRow
<1>6. \A k \in Households : household'[k].exists = household[k].exists
  <2>1. AnswerColumns(household[h], q.row).exists = household[h].exists
    BY <1>2 DEF AnswerColumns, HouseholdRow
  <2> QED
    BY <1>4, <2>1
<1>7. Housed'
  BY <1>5, <1>6 DEF Keeping, Housed
<1>8. SeatsApart'
  <2>1. NotBoth(AnswerColumns(household[h], q.row))
    BY <1>2, <1>3 DEF Ready, NotBoth, AnswerColumns, HouseholdRow
  <2> QED
    BY <1>4, <2>1 DEF Keeping, SeatsApart
<1>9. ~HostsEdit => ListInv'
  BY <1>1, <1>5, StandingCurrent DEF Standing, Keeping, ListInv, ListStands
<1>10. \A k \in Households : LivingMembers(k)' = LivingMembers(k)
  BY <1>5 DEF LivingMembers
<1>11. OtherSheetsSame(h)
  <2>1. ASSUME NEW k \in Households \ {h}, NEW g \in LivingMembers(k)
        PROVE  guest'[g] = guest[g]
    BY <1>1, <2>1 DEF SaveAnswerApplies, LivingMembers
  <2> QED
    BY <1>4, <1>10, <2>1, UntouchedSheet DEF OtherSheetsSame
<1>12. TypeOK /\ TypeOK' /\ SeatsApart
  BY StepType DEF Keeping, Safe, Next, RequestStep
<1>13. Book!Answer(SheetOf(h), SheetOf(h)')
  <2> DEFINE old == SheetOf(h)
             new == SheetOf(h)'
  <2>1. q.members \in SUBSET LivingMembers(h) /\ household[h].exists
    BY <1>1 DEF SaveAnswerApplies
  <2>2. /\ old \in Book!Sheet /\ old.open = household[h].exists
        /\ old.members = LivingMembers(h)
        /\ old.companions = {g \in LivingMembers(h) : guest[g].card.origin = "guest_added"}
        /\ \A g \in Guests : old.says[g] = IF g \in LivingMembers(h)
                                           THEN guest[g].card.attending ELSE "nil"
    BY <1>12, <2>1, SheetFields
  <2>3. /\ new \in Book!Sheet /\ new.open = household'[h].exists
        /\ new.members = LivingMembers(h)'
        /\ new.companions = {g \in LivingMembers(h)' : guest'[g].card.origin = "guest_added"}
        /\ \A g \in Guests : new.says[g] = IF g \in LivingMembers(h)'
                                           THEN guest'[g].card.attending ELSE "nil"
        /\ new.wants = Wanted(household'[h])
        /\ new.answered <=> household'[h].submittedAt # Null
    BY <1>8, <1>12, SheetFieldsNext
  <2> HIDE DEF old, new
  <2>4. new.wants = Wanted(q.row)
    BY <1>2, <1>4, <2>3 DEF Wanted, AnswerColumns, HouseholdRow
  <2>5. new.answered
    BY <1>2, <1>3, <1>4, <2>3 DEF Ready, AnswerColumns, HouseholdRow
  <2>6. new.members = old.members /\ new.companions = old.companions /\ new.open = old.open
    <3>1. new.companions = old.companions
      BY <1>5, <1>10, <2>2, <2>3 DEF LivingMembers
    <3> QED
      BY <1>6, <1>10, <2>2, <2>3, <3>1
  <2>7. \A g \in Guests : new.says[g] = IF g \in q.members THEN q.cards[g].attending
                                                         ELSE old.says[g]
    BY <1>5, <1>10, <2>1, <2>2, <2>3
  <2>8. new.wants \in Book!Wants
    BY <2>3 DEF Book!Sheet
  <2>9. \A g \in q.members : new.says[g] = q.cards[g].attending /\ new.says[g] \in Book!Scopes
    BY <1>2, <1>3, <2>7 DEF Ready, Book!Scopes, Scopes, InHandRecord
  <2>10. Book!Justified(new.wants, new.says, q.members)
    <3>1. SeatsJustifiedBy(q.row, {q.cards[g] : g \in q.members})
      BY <1>2, <1>3 DEF SavePrepared
    <3>2. new.wants \cap {"needed", "offered"} # {} => \E g \in q.members : new.says[g] = "both"
      BY <2>4, <2>9, <3>1
         DEF Wanted, SeatsJustifiedBy, AttendsBoth, AttendsChurch, AttendsParty
    <3>3. "taxi" \in new.wants => \E g \in q.members : new.says[g] \in {"party_only", "both"}
      BY <2>4, <2>9, <3>1 DEF Wanted, SeatsJustifiedBy, AttendsParty
    <3> QED
      BY <3>2, <3>3 DEF Book!Justified
  <2>11. ~HostsEdit => Book!Invitees(old) \subseteq q.members
    <3>1. ASSUME ~HostsEdit, NEW g \in LivingMembers(h), guest[g].card.origin # "guest_added"
          PROVE  g \in InvitedOf(h)
      BY <3>1 DEF Keeping, ListInv, ListStands, LivingMembers, InvitedOf
    <3>2. ~HostsEdit => InvitedOf(h) \subseteq q.members
      BY <1>2, <1>3 DEF Current
    <3> QED
      BY <2>2, <3>1, <3>2 DEF Book!Invitees
  <2>12. new = [old EXCEPT !.says = new.says, !.wants = new.wants, !.answered = TRUE]
    BY <2>2, <2>3, <2>5, <2>6, AnsweredSheet
  <2>13. new.says = [g \in Guests |-> IF g \in q.members THEN new.says[g] ELSE old.says[g]]
    BY <2>3, <2>7, <2>9 DEF Book!Sheet
  <2> QED
    BY <2>1, <2>2, <2>8, <2>9, <2>10, <2>11, <2>12, <2>13 DEF Book!Answer, old, new
<1> QED
  BY <1>1, <1>7, <1>8, <1>9, <1>11, <1>13, OneSheet, StoredReady
\* An operation on the list is there only if the hosts edit it.
LEMMA ListOperationEdits ==
    ASSUME TypeOK, NEW r \in Requests, request[r].op \in ListOperations
    PROVE  HostsEdit
<1>1. request[r].op \in Operations \cup {"none"}
  BY RequestFields DEF InHandRecord
<1> QED
  BY <1>1 DEF HostsEdit, ListOperations, AdminOperations

\* An inserted guest joins the household, or is enlisted.
LEMMA InsertKeeps ==
    ASSUME Keeping, TypeOK', NEW r \in Requests, NEW h \in Households, request[r].house = h,
           household[h].exists, NEW card \in Card, Unanswered(card), Insert(r, card),
           \/ card.origin = "guest_added" /\ Cardinality(LivingMembers(h)) = 1
           \/ card.origin = "seeded" /\ HostsEdit
    PROVE  /\ Housed' /\ SeatsApart' /\ [Book!Next]_Sheets
           /\ \A s \in Requests : Ready(request'[s])
           /\ ~HostsEdit => ListInv'
<1>1. PICK g \in Guests :
        /\ NextId(g)
        /\ guest' = [guest EXCEPT ![g] = [status |-> "living", house |-> h, card |-> card]]
        /\ Stored(r, g)
        /\ household' = household
  BY DEF Insert
<1>2. /\ guest'[g] = [status |-> "living", house |-> h, card |-> card]
      /\ \A k \in Guests \ {g} : guest'[k] = guest[k]
      /\ guest[g].status = "absent"
  BY <1>1 DEF NextId, Keeping, Safe, TypeOK, Guests
<1>3. Housed' /\ SeatsApart'
  BY <1>1, <1>2 DEF Keeping, Housed, SeatsApart
<1>4. Standing
  BY <1>2 DEF Standing
<1>5. ~HostsEdit => ListInv'
  BY <1>1, <1>2, <1>4, StandingCurrent DEF Keeping, ListInv, ListStands
<1>6. /\ LivingMembers(h)' = LivingMembers(h) \cup {g}
      /\ \A k \in Households : g \notin LivingMembers(k)
      /\ \A k \in Households \ {h} : LivingMembers(k)' = LivingMembers(k)
  BY <1>2 DEF LivingMembers
<1>7. OtherSheetsSame(h)
  BY <1>1, <1>2, <1>6, UntouchedSheet DEF OtherSheetsSame, LivingMembers
<1> DEFINE old == SheetOf(h)
           new == SheetOf(h)'
<1>8. /\ old \in Book!Sheet /\ old.open = household[h].exists
      /\ old.members = LivingMembers(h)
      /\ old.companions = {k \in LivingMembers(h) : guest[k].card.origin = "guest_added"}
      /\ \A k \in Guests : old.says[k] = IF k \in LivingMembers(h)
                                         THEN guest[k].card.attending ELSE "nil"
      /\ old.wants = Wanted(household[h])
      /\ old.answered <=> household[h].submittedAt # Null
  BY SheetFields DEF Keeping, Safe
<1>9. /\ new \in Book!Sheet /\ new.open = household'[h].exists
      /\ new.members = LivingMembers(h)'
      /\ new.companions = {k \in LivingMembers(h)' : guest'[k].card.origin = "guest_added"}
      /\ \A k \in Guests : new.says[k] = IF k \in LivingMembers(h)'
                                         THEN guest'[k].card.attending ELSE "nil"
      /\ new.wants = Wanted(household'[h])
      /\ new.answered <=> household'[h].submittedAt # Null
  BY <1>3, SheetFieldsNext
<1> HIDE DEF old, new
<1>10. /\ new.open = old.open /\ new.members = old.members \cup {g}
       /\ new.wants = old.wants /\ (new.answered <=> old.answered)
       /\ new.companions = IF card.origin = "guest_added" THEN old.companions \cup {g}
                                                          ELSE old.companions
  <2>1. \A k \in LivingMembers(h) : guest'[k].card = guest[k].card
    BY <1>2, <1>6 DEF LivingMembers
  <2>2. guest'[g].card.origin = card.origin
    BY <1>2
  <2>3. new.companions = IF card.origin = "guest_added" THEN old.companions \cup {g}
                                                        ELSE old.companions
    BY <1>6, <1>8, <1>9, <2>1, <2>2
  <2> QED
    BY <1>1, <1>6, <1>8, <1>9, <2>3
<1>11. new.says = old.says
  <2>1. \A k \in Guests : new.says[k] = old.says[k]
    BY <1>2, <1>6, <1>8, <1>9 DEF Unanswered
  <2> QED
    BY <1>8, <1>9, <2>1 DEF Book!Sheet
<1>12. Book!NowhereYet(g)
  <2>1. \A k \in Households : Sheets[k].members = LivingMembers(k)
    BY SheetFields DEF Sheets, Keeping, Safe
  <2> QED
    BY <1>6, <2>1 DEF Book!NowhereYet
<1>13. CASE card.origin = "guest_added" /\ Cardinality(LivingMembers(h)) = 1
  <2>1. new = [old EXCEPT !.members = @ \cup {g}, !.companions = @ \cup {g}]
    <3>1. new.companions = old.companions \cup {g}
      BY <1>10, <1>13
    <3> QED
      BY <1>8, <1>9, <1>10, <1>11, <3>1, JoinedSheet
  <2>2. \E member \in Guests : old.members = {member}
    <3>1. IsFiniteSet(LivingMembers(h)) /\ LivingMembers(h) \in SUBSET Guests
      BY GuestsFinite, FS_Subset DEF LivingMembers
    <3>2. PICK member : LivingMembers(h) = {member}
      BY <1>13, <3>1, FS_Singleton
    <3> QED
      BY <1>8, <3>1, <3>2
  <2>3. Book!Join(old, new, g)
    BY <1>8, <2>1, <2>2, Zenon DEF Book!Join
  <2> QED
    BY <1>1, <1>3, <1>5, <1>7, <1>12, <2>3, OneSheet, StoredReady DEF old, new
<1>14. CASE card.origin = "seeded" /\ HostsEdit
  <2>1. new = [old EXCEPT !.members = @ \cup {g}]
    <3>1. new.companions = old.companions
      BY <1>10, <1>14
    <3> QED
      BY <1>8, <1>9, <1>10, <1>11, <3>1, EnlistedSheet
  <2>2. Book!Enlist(old, new, g)
    BY <1>8, <2>1, Zenon DEF Book!Enlist
  <2> QED
    BY <1>1, <1>3, <1>5, <1>7, <1>12, <1>14, <2>2, OneSheet, StoredReady DEF old, new
<1> QED
  BY <1>13, <1>14

\* Adding a companion or a guest, inside the transaction that asks the rule.
LEMMA InsertingKeeps ==
    ASSUME Keeping, TypeOK', NEW r \in Requests, NEW h \in Households, request[r].house = h,
           CreateIfHouseholdAllows(r) \/ GuestCreate(r), ~Refuse(r)
    PROVE  /\ Housed' /\ SeatsApart' /\ [Book!Next]_Sheets
           /\ \A s \in Requests : Ready(request'[s])
           /\ ~HostsEdit => ListInv'
<1> DEFINE q == request[r]
<1>1. q \in InHandRecord /\ Ready(q) /\ DraftPrepared(q)
  BY RequestFields DEF Keeping, Safe, InHand
<1>2. q.draft \in Card
  BY <1>1 DEF InHandRecord
<1>3. CASE CreateIfHouseholdAllows(r)
  <2>1. /\ q.op = "AddPlusOne" /\ q.pc = "ready" /\ Insert(r, q.draft)
        /\ Cardinality(LivingMembers(h)) = 1
    BY <1>3 DEF CreateIfHouseholdAllows, At, CanHouseholdAddPlusOne
  <2>2. Unanswered(q.draft) /\ q.draft.origin = "guest_added"
    BY <1>1, <2>1 DEF DraftPrepared, Additions, Ready
  <2>3. household[h].exists
    <3>1. LivingMembers(h) # {}
      BY <2>1, FS_EmptySet
    <3> QED
      BY <3>1 DEF LivingMembers, Keeping, Housed
  <2> QED
    BY <1>2, <2>1, <2>2, <2>3, InsertKeeps
<1>4. CASE GuestCreate(r)
  <2>1. q.op = "AddGuest" /\ q.pc = "ready" /\ Insert(r, q.draft) /\ household[h].exists
    BY <1>4 DEF GuestCreate, At
  <2>2. Unanswered(q.draft) /\ q.draft.origin = "seeded"
    BY <1>1, <2>1 DEF DraftPrepared, Additions, Ready
  <2>3. HostsEdit
    BY <2>1, ListOperationEdits DEF Keeping, Safe, ListOperations, AdminOperations
  <2> QED
    BY <1>2, <2>1, <2>2, <2>3, InsertKeeps
<1> QED
  BY <1>3, <1>4

\* A removed guest leaves its sheet: a companion its household took back, or
\* anybody the hosts struck off.
LEMMA SoftDeleteKeeps ==
    ASSUME Keeping, TypeOK', NEW r \in Requests, NEW g \in Guests, request[r].guest = g,
           NEW h \in Households, guest[g].house = h, SoftDelete(r), ~Refuse(r)
    PROVE  /\ Housed' /\ SeatsApart' /\ [Book!Next]_Sheets
           /\ \A s \in Requests : Ready(request'[s])
           /\ ~HostsEdit => ListInv'
<1> DEFINE q == request[r]
<1>1. /\ q \in InHandRecord /\ Ready(q) /\ (~HostsEdit => Current(q))
      /\ q.op \in Removals /\ q.pc = "ready"
  BY RequestFields DEF Keeping, Safe, ListInv, SoftDelete, At
<1>2. /\ guest[g].status = "living"
      /\ guest' = [guest EXCEPT ![g].status = "removed"]
      /\ Stored(r, g) /\ household' = household
  BY DEF SoftDelete
<1>3. /\ guest[g] \in GuestRow /\ household[h].exists
  BY <1>1, <1>2 DEF Keeping, Safe, TypeOK, Housed
<1>4. /\ guest'[g].status = "removed" /\ guest'[g].house = h /\ guest'[g].card = guest[g].card
      /\ \A k \in Guests \ {g} : guest'[k] = guest[k]
  BY <1>1, <1>2, <1>3 DEF Keeping, Safe, TypeOK, GuestRow
<1>5. Standing
  BY <1>2, <1>4 DEF Standing
<1>6. Housed' /\ SeatsApart'
  BY <1>2, <1>3, <1>4 DEF Keeping, Housed, SeatsApart
<1>7. ~HostsEdit => q.op = "RemoveMember"
  <2>1. q.op = "RemoveGuest" => HostsEdit
    BY ListOperationEdits DEF Keeping, Safe, ListOperations, AdminOperations
  <2> QED
    BY <1>1, <2>1 DEF Removals
<1>8. ~HostsEdit => guest[g].card.origin = "guest_added"
  BY <1>1, <1>7 DEF Current
<1>9. ~HostsEdit => ListInv'
  <2>1. ~HostsEdit => ListStands'
    <3>1. ~HostsEdit => g \notin DOMAIN Invited
      BY <1>1, <1>8 DEF Keeping, ListInv, ListStands
    <3> QED
      BY <1>2, <1>4, <3>1 DEF Keeping, ListInv, ListStands
  <2> QED
    BY <1>2, <1>5, <2>1, StandingCurrent DEF ListInv
<1>10. /\ LivingMembers(h)' = LivingMembers(h) \ {g} /\ g \in LivingMembers(h)
       /\ \A k \in Households \ {h} : LivingMembers(k)' = LivingMembers(k) /\ g \notin LivingMembers(k)
  BY <1>1, <1>2, <1>4 DEF LivingMembers
<1>11. OtherSheetsSame(h)
  BY <1>2, <1>4, <1>10, UntouchedSheet DEF OtherSheetsSame, LivingMembers
<1> DEFINE old == SheetOf(h)
           new == SheetOf(h)'
<1>12. /\ old \in Book!Sheet /\ old.open = household[h].exists
       /\ old.members = LivingMembers(h)
       /\ old.companions = {k \in LivingMembers(h) : guest[k].card.origin = "guest_added"}
       /\ \A k \in Guests : old.says[k] = IF k \in LivingMembers(h)
                                          THEN guest[k].card.attending ELSE "nil"
       /\ old.wants = Wanted(household[h])
       /\ old.answered <=> household[h].submittedAt # Null
  BY <1>3, SheetFields DEF Keeping, Safe
<1>13. /\ new \in Book!Sheet /\ new.open = household'[h].exists
       /\ new.members = LivingMembers(h)'
       /\ new.companions = {k \in LivingMembers(h)' : guest'[k].card.origin = "guest_added"}
       /\ \A k \in Guests : new.says[k] = IF k \in LivingMembers(h)'
                                          THEN guest'[k].card.attending ELSE "nil"
       /\ new.wants = Wanted(household'[h])
       /\ new.answered <=> household'[h].submittedAt # Null
  BY <1>3, <1>6, SheetFieldsNext
<1> HIDE DEF old, new
<1>14. new = Book!Without(old, g)
  <2>1. new.companions = old.companions \ {g}
    BY <1>4, <1>10, <1>12, <1>13 DEF LivingMembers
  <2>2. \A k \in Guests : new.says[k] = IF k = g THEN "nil" ELSE old.says[k]
    BY <1>4, <1>10, <1>12, <1>13 DEF LivingMembers
  <2>3. /\ new.open = old.open /\ new.members = old.members \ {g}
        /\ new.wants = old.wants /\ (new.answered <=> old.answered)
    BY <1>2, <1>10, <1>12, <1>13
  <2> QED
    BY <1>1, <1>12, <1>13, <2>1, <2>2, <2>3, StruckSheet
<1>15. CASE HostsEdit
  <2>1. Book!Strike(old, new, g)
    BY <1>10, <1>12, <1>14 DEF Book!Strike
  <2> QED
    BY <1>1, <1>2, <1>3, <1>6, <1>9, <1>11, <1>15, <2>1, OneSheet, StoredReady DEF old, new
<1>16. CASE ~HostsEdit
  <2>1. Book!Leave(old, new, g)
    BY <1>8, <1>10, <1>12, <1>14, <1>16 DEF Book!Leave
  <2> QED
    BY <1>1, <1>2, <1>3, <1>6, <1>9, <1>11, <2>1, OneSheet, StoredReady DEF old, new
<1> QED
  BY <1>15, <1>16

\* A patch of a guest changes nothing a sheet shows.
LEMMA GuestUpdateKeeps ==
    ASSUME Keeping, NEW r \in Requests, GuestUpdate(r), ~Refuse(r)
    PROVE  /\ Housed' /\ SeatsApart' /\ [Book!Next]_Sheets
           /\ \A s \in Requests : Ready(request'[s])
           /\ ~HostsEdit => ListInv'
<1> DEFINE g == request[r].guest
<1>1. /\ request[r] \in InHandRecord /\ request[r].op = "UpdateGuest" /\ g \in Guests
      /\ guest[g] \in GuestRow /\ guest[g].card \in Card /\ request[r].draft \in Card
  BY RequestFields, RowsInHand
     DEF Keeping, Safe, GuestUpdate, At, GuestOperations, InHandRecord, GuestRow
<1>2. /\ guest' = [guest EXCEPT ![g].card = PatchColumns(@, request[r].draft)]
      /\ Stored(r, g) /\ household' = household
  BY DEF GuestUpdate
<1>3. HostsEdit
  BY <1>1, ListOperationEdits DEF Keeping, Safe, ListOperations, AdminOperations
<1>4. ASSUME NEW k \in Guests
      PROVE  /\ guest'[k].status = guest[k].status /\ guest'[k].house = guest[k].house
             /\ guest'[k].card.origin = guest[k].card.origin
             /\ guest'[k].card.attending = guest[k].card.attending
  <2>1. /\ PatchColumns(guest[g].card, request[r].draft).origin = guest[g].card.origin
        /\ PatchColumns(guest[g].card, request[r].draft).attending = guest[g].card.attending
    BY <1>1 DEF PatchColumns, Card
  <2> QED
    BY <1>1, <1>2, <2>1 DEF Keeping, Safe, TypeOK, GuestRow
<1>5. Housed' /\ SeatsApart'
  BY <1>2, <1>4 DEF Keeping, Housed, SeatsApart
<1>6. SameSheets
  <2>1. ASSUME NEW h \in Households PROVE SheetOf(h)' = SheetOf(h)
    <3>1. LivingMembers(h)' = LivingMembers(h)
      BY <1>4 DEF LivingMembers
    <3>2. {k \in LivingMembers(h)' : guest'[k].card.origin = "guest_added"}
            = {k \in LivingMembers(h) : guest[k].card.origin = "guest_added"}
      BY <1>4, <3>1 DEF LivingMembers
    <3>3. [k \in Guests |-> IF k \in LivingMembers(h)' THEN guest'[k].card.attending ELSE "nil"]
            = [k \in Guests |-> IF k \in LivingMembers(h) THEN guest[k].card.attending ELSE "nil"]
      BY <1>4, <3>1
    <3> QED
      BY <1>2, <3>1, <3>2, <3>3, Zenon DEF SheetOf
  <2> QED
    BY <2>1 DEF SameSheets
<1> QED
  BY <1>2, <1>3, <1>5, <1>6, SameSheetsStutter, StoredReady

\* A patch of a household amends its wants at most.
LEMMA HouseholdUpdateKeeps ==
    ASSUME Keeping, TypeOK', NEW r \in Requests, NEW h \in Households, request[r].house = h,
           HouseholdUpdate(r), ~Refuse(r)
    PROVE  /\ Housed' /\ SeatsApart' /\ [Book!Next]_Sheets
           /\ \A s \in Requests : Ready(request'[s])
           /\ ~HostsEdit => ListInv'
<1> DEFINE q == request[r]
<1>1. /\ q \in InHandRecord /\ Ready(q) /\ q.op = "UpdateHousehold" /\ q.pc = "ready"
      /\ q.row \in HouseholdRow /\ household[h] \in HouseholdRow /\ NotBoth(q.row)
  BY RequestFields, RowsInHand
     DEF Keeping, Safe, HouseholdUpdate, At, InHandRecord, Ready
<1>2. /\ household[h].exists /\ household' = [household EXCEPT ![h] = PatchedRow(@, q.row)]
      /\ Stored(r, 0) /\ guest' = guest
  BY DEF HouseholdUpdate
<1>3. HostsEdit
  BY <1>1, ListOperationEdits DEF Keeping, Safe, ListOperations, AdminOperations
<1>4. /\ household'[h] = PatchedRow(household[h], q.row)
      /\ \A k \in Households \ {h} : household'[k] = household[k]
  BY <1>2 DEF Keeping, Safe, TypeOK
<1>5. /\ household'[h].exists = household[h].exists
      /\ household'[h].submittedAt = household[h].submittedAt
      /\ NotBoth(household'[h])
  BY <1>1, <1>4 DEF PatchedRow, HouseholdRow, NotBoth
<1>6. Housed' /\ SeatsApart'
  <2>1. \A k \in Households : household'[k].exists = household[k].exists
    BY <1>4, <1>5
  <2>2. Housed'
    BY <1>2, <2>1 DEF Keeping, Housed
  <2>3. SeatsApart'
    BY <1>4, <1>5 DEF Keeping, SeatsApart
  <2> QED
    BY <2>2, <2>3
<1>7. \A k \in Households : LivingMembers(k)' = LivingMembers(k)
  BY <1>2 DEF LivingMembers
<1>8. OtherSheetsSame(h)
  BY <1>2, <1>4, <1>7, UntouchedSheet DEF OtherSheetsSame
<1> DEFINE old == SheetOf(h)
           new == SheetOf(h)'
<1>9. /\ old \in Book!Sheet /\ old.open = household[h].exists
      /\ old.members = LivingMembers(h)
      /\ old.companions = {k \in LivingMembers(h) : guest[k].card.origin = "guest_added"}
      /\ \A k \in Guests : old.says[k] = IF k \in LivingMembers(h)
                                         THEN guest[k].card.attending ELSE "nil"
      /\ old.wants = Wanted(household[h])
      /\ old.answered <=> household[h].submittedAt # Null
  BY SheetFields DEF Keeping, Safe
<1>10. /\ new \in Book!Sheet /\ new.open = household'[h].exists
       /\ new.members = LivingMembers(h)'
       /\ new.companions = {k \in LivingMembers(h)' : guest'[k].card.origin = "guest_added"}
       /\ \A k \in Guests : new.says[k] = IF k \in LivingMembers(h)'
                                          THEN guest'[k].card.attending ELSE "nil"
       /\ new.wants = Wanted(household'[h])
       /\ new.answered <=> household'[h].submittedAt # Null
  BY <1>6, SheetFieldsNext
<1> HIDE DEF old, new
<1>11. new.companions = old.companions /\ new.says = old.says
  <2>1. \A k \in Guests : new.says[k] = old.says[k]
    BY <1>2, <1>7, <1>9, <1>10
  <2> QED
    BY <1>2, <1>7, <1>9, <1>10, <2>1 DEF Book!Sheet
<1>12. new = [old EXCEPT !.wants = new.wants]
  <2>1. new.open = old.open /\ new.members = old.members /\ (new.answered <=> old.answered)
    BY <1>5, <1>7, <1>9, <1>10
  <2> QED
    BY <1>9, <1>10, <1>11, <2>1, AmendedSheet
<1>13. Book!Amend(old, new)
  <2>1. new.wants \in Book!Wants /\ old.open
    BY <1>2, <1>9, <1>10 DEF Book!Sheet
  <2> QED
    BY <1>12, <2>1, Zenon DEF Book!Amend
<1> QED
  BY <1>2, <1>3, <1>6, <1>8, <1>13, OneSheet, StoredReady DEF old, new

\* The row of a household that is gone, and of one that was just created,
\* wants nothing.
LEMMA EmptyHouseholdWants ==
    ASSUME NEW label, NEW exists
    PROVE  /\ Wanted(EmptyHousehold(label, exists)) = {}
           /\ NotBoth(EmptyHousehold(label, exists))
           /\ EmptyHousehold(label, exists).submittedAt = Null
           /\ EmptyHousehold(label, exists).exists = exists
  BY DEF Wanted, EmptyHousehold, NotBoth

\* A deleted household's sheet is closed, and nobody is left on it.
LEMMA HouseholdDeleteKeeps ==
    ASSUME Keeping, TypeOK', NEW r \in Requests, NEW h \in Households, request[r].house = h,
           HouseholdDelete(r), ~Refuse(r)
    PROVE  /\ Housed' /\ SeatsApart' /\ [Book!Next]_Sheets
           /\ \A s \in Requests : Ready(request'[s])
           /\ ~HostsEdit => ListInv'
<1> DEFINE q == request[r]
<1>1. q \in InHandRecord /\ q.op = "DeleteHousehold"
  BY RequestFields DEF Keeping, Safe, HouseholdDelete, At
<1>2. /\ household[h].exists /\ household' = [household EXCEPT ![h] = NoHousehold]
      /\ guest' = [g \in Guests |-> IF guest[g].house = h THEN NoGuest ELSE guest[g]]
      /\ Stored(r, 0)
  BY DEF HouseholdDelete
<1>3. HostsEdit
  BY <1>1, ListOperationEdits DEF Keeping, Safe, ListOperations, AdminOperations
<1>4. /\ household'[h] = NoHousehold
      /\ \A k \in Households \ {h} : household'[k] = household[k]
      /\ Wanted(NoHousehold) = {} /\ NotBoth(NoHousehold) /\ ~NoHousehold.exists
      /\ NoHousehold.submittedAt = Null
  BY <1>2, EmptyHouseholdWants DEF Keeping, Safe, TypeOK, NoHousehold
<1>5. NoGuest.status = "absent"
  BY DEF NoGuest
<1>6. Housed' /\ SeatsApart'
  BY <1>2, <1>4, <1>5 DEF Keeping, Housed, SeatsApart
<1>7. /\ LivingMembers(h)' = {}
      /\ \A k \in Households \ {h} : LivingMembers(k)' = LivingMembers(k)
      /\ \A k \in Households \ {h} : \A g \in LivingMembers(k) : guest'[g] = guest[g]
  BY <1>2, <1>5 DEF LivingMembers
<1>8. OtherSheetsSame(h)
  BY <1>4, <1>7, UntouchedSheet DEF OtherSheetsSame
<1> DEFINE old == SheetOf(h)
           new == SheetOf(h)'
<1>9. old.open
  BY <1>2, SheetFields DEF Keeping, Safe
<1>10. /\ new \in Book!Sheet /\ new.open = household'[h].exists
       /\ new.members = LivingMembers(h)'
       /\ new.companions = {k \in LivingMembers(h)' : guest'[k].card.origin = "guest_added"}
       /\ \A k \in Guests : new.says[k] = IF k \in LivingMembers(h)'
                                          THEN guest'[k].card.attending ELSE "nil"
       /\ new.wants = Wanted(household'[h])
       /\ new.answered <=> household'[h].submittedAt # Null
  BY <1>6, SheetFieldsNext
<1> HIDE DEF old, new
<1>11. new = Book!Closed
  <2>1. /\ ~new.open /\ new.members = {} /\ new.companions = {} /\ new.wants = {}
        /\ ~new.answered
    BY <1>4, <1>7, <1>10
  <2>2. new.says = [g \in Guests |-> "nil"]
    BY <1>7, <1>10 DEF Book!Sheet
  <2> QED
    BY <1>10, <2>1, <2>2 DEF Book!Sheet, Book!Closed
<1>12. Book!Close(old, new)
  BY <1>9, <1>11 DEF Book!Close
<1> QED
  BY <1>2, <1>3, <1>6, <1>8, <1>12, OneSheet, StoredReady DEF old, new

\* A created household's sheet is opened blank.
LEMMA HouseholdCreateKeeps ==
    ASSUME Keeping, TypeOK', NEW r \in Requests, HouseholdCreate(r)
    PROVE  /\ Housed' /\ SeatsApart' /\ [Book!Next]_Sheets
           /\ \A s \in Requests : Ready(request'[s])
           /\ ~HostsEdit => ListInv'
<1>1. PICK h \in Households, label \in Labels :
        /\ NextHouseholdId(h)
        /\ household' = [household EXCEPT ![h] = EmptyHousehold(label, TRUE)]
        /\ Stored(r, 0) /\ guest' = guest
  BY DEF HouseholdCreate
<1>2. HostsEdit
  <2>1. request[r].op = "CreateHousehold"
    BY DEF HouseholdCreate, At
  <2> QED
    BY <2>1, ListOperationEdits DEF Keeping, Safe, ListOperations, AdminOperations
<1>3. ~household[h].exists
  BY <1>1 DEF NextHouseholdId, Households
<1>4. /\ household'[h] = EmptyHousehold(label, TRUE)
      /\ \A k \in Households \ {h} : household'[k] = household[k]
  BY <1>1 DEF Keeping, Safe, TypeOK
<1>5. /\ Wanted(household'[h]) = {} /\ NotBoth(household'[h])
      /\ household'[h].exists = TRUE /\ household'[h].submittedAt = Null
  <2>1. /\ Wanted(EmptyHousehold(label, TRUE)) = {} /\ NotBoth(EmptyHousehold(label, TRUE))
        /\ EmptyHousehold(label, TRUE).exists = TRUE
        /\ EmptyHousehold(label, TRUE).submittedAt = Null
    BY EmptyHouseholdWants, Zenon
  <2> QED
    BY <1>4, <2>1
<1>6. Housed' /\ SeatsApart'
  BY <1>1, <1>4, <1>5 DEF Keeping, Housed, SeatsApart
<1>7. /\ \A k \in Households : LivingMembers(k)' = LivingMembers(k)
      /\ LivingMembers(h) = {}
  BY <1>1, <1>3 DEF LivingMembers, Keeping, Housed
<1>8. OtherSheetsSame(h)
  BY <1>1, <1>4, <1>7, UntouchedSheet DEF OtherSheetsSame
<1> DEFINE old == SheetOf(h)
           new == SheetOf(h)'
<1>9. ~old.open
  BY <1>3, SheetFields DEF Keeping, Safe
<1>10. /\ new \in Book!Sheet /\ new.open = household'[h].exists
       /\ new.members = LivingMembers(h)'
       /\ new.companions = {k \in LivingMembers(h)' : guest'[k].card.origin = "guest_added"}
       /\ \A k \in Guests : new.says[k] = IF k \in LivingMembers(h)'
                                          THEN guest'[k].card.attending ELSE "nil"
       /\ new.wants = Wanted(household'[h])
       /\ new.answered <=> household'[h].submittedAt # Null
  BY <1>6, SheetFieldsNext
<1> HIDE DEF old, new
<1>11. new = [Book!Closed EXCEPT !.open = TRUE]
  <2>1. /\ new.open /\ new.members = {} /\ new.companions = {} /\ new.wants = {}
        /\ ~new.answered
    BY <1>5, <1>7, <1>10
  <2>2. new.says = [g \in Guests |-> "nil"]
    BY <1>7, <1>10 DEF Book!Sheet
  <2>3. new.open = TRUE /\ new.answered = FALSE
    BY <1>10, <2>1 DEF Book!Sheet
  <2>4. /\ Book!Closed \in Book!Sheet /\ Book!Closed.members = {}
        /\ Book!Closed.companions = {} /\ Book!Closed.wants = {}
        /\ Book!Closed.says = [g \in Guests |-> "nil"] /\ Book!Closed.answered = FALSE
    BY DEF Book!Closed, Book!Sheet, Book!Wants
  <2> QED
    BY <1>10, <2>1, <2>2, <2>3, <2>4 DEF Book!Sheet
<1>12. Book!Open(old, new)
  BY <1>9, <1>11 DEF Book!Open
<1> QED
  BY <1>1, <1>2, <1>6, <1>8, <1>12, OneSheet, StoredReady DEF old, new

(***************************************************************************)
(* Every step is an act on one sheet, or none.                             *)
(***************************************************************************)
\* A step of one request, whatever it is.
LEMMA RequestKeeps ==
    ASSUME Keeping, TypeOK', NEW r \in Requests, Receive(r) \/ RequestStep(r) \/ Abort(r)
    PROVE  /\ Housed' /\ SeatsApart' /\ [Book!Next]_Sheets
           /\ \A s \in Requests : Ready(request'[s])
           /\ ~HostsEdit => ListInv'
<1>1. CASE Refuse(r)
  BY <1>1, RefuseKeeps, SameSheetsStutter
<1>2. CASE /\ ~Refuse(r)
           /\ \/ Receive(r) \/ SaveFindHousehold(r) \/ SaveApply(r)
              \/ AddPlusOneFindHousehold(r) \/ AddGuestPrepare(r) \/ RemoveFindGuest(r)
              \/ UpdateGuestApply(r) \/ UpdateHouseholdApply(r) \/ DeleteHouseholdFind(r)
  <2>1. PICK q : Ready(q) /\ (~HostsEdit => Current(q)) /\ Proceed(r, q)
    BY <1>2, SaveApplyReady, PrepareReady
  <2> QED
    BY <2>1, ProceedKeeps, SameSheetsStutter
<1>3. CASE /\ ~Refuse(r)
           /\ \/ SaveAnswer(r) \/ CreateIfHouseholdAllows(r) \/ GuestCreate(r)
              \/ HouseholdUpdate(r) \/ HouseholdDelete(r)
  <2>1. request[r].house \in Households
    BY <1>3, RowsInHand DEF Keeping, Safe, SaveAnswer, CreateIfHouseholdAllows, GuestCreate,
                            HouseholdUpdate, HouseholdDelete, At
  <2> QED
    BY <1>3, <2>1, SaveAnswerKeeps, InsertingKeeps, HouseholdUpdateKeeps, HouseholdDeleteKeeps
<1>4. CASE ~Refuse(r) /\ SoftDelete(r)
  <2>1. request[r].guest \in Guests /\ guest[request[r].guest].status = "living"
    BY <1>4, RowsInHand DEF Keeping, Safe, SoftDelete, At, GuestOperations, Removals
  <2>2. guest[request[r].guest].house \in Households
    BY <2>1 DEF Keeping, Housed
  <2> QED
    BY <1>4, <2>1, <2>2, SoftDeleteKeeps
<1>5. CASE ~Refuse(r) /\ GuestUpdate(r)
  BY <1>5, GuestUpdateKeeps
<1>6. CASE HouseholdCreate(r)
  BY <1>6, HouseholdCreateKeeps
<1>7. CASE RecordAudit(r)
  <2>1. \A s \in Requests : request'[s] = IF s = r THEN Idle ELSE request[s]
    BY <1>7 DEF RecordAudit, Keeping, Safe, TypeOK
  <2>2. household' = household /\ guest' = guest
    BY <1>7 DEF RecordAudit
  <2>3. Ready(Idle) /\ Current(Idle)
    BY DEF Idle, Ready, Current
  <2>4. Housed' /\ SeatsApart' /\ SameSheets
    BY <2>2 DEF Keeping, Housed, SeatsApart, SameSheets, SheetOf, LivingMembers
  <2>5. \A s \in Requests : Ready(request'[s])
    BY <2>1, <2>3 DEF Keeping
  <2>6. ~HostsEdit => ListInv'
    BY <2>1, <2>2, <2>3 DEF Keeping, ListInv, ListStands, Current
  <2> QED
    BY <2>4, <2>5, <2>6, SameSheetsStutter
<1> QED
  BY <1>1, <1>2, <1>3, <1>4, <1>5, <1>6, <1>7 DEF RequestStep, Abort

\* The invariant is kept, and every step is a step of the book.
LEMMA KeepingStep ==
    ASSUME Keeping, [Next]_vars
    PROVE  Keeping' /\ [Book!Next]_Sheets
<1>1. Safe'
  BY StepSafe DEF Keeping
<1>2. CASE Tick \/ UNCHANGED vars
  <2>1. household' = household /\ guest' = guest /\ request' = request
    BY <1>2 DEF Tick, vars
  <2>2. Housed' /\ SeatsApart' /\ SameSheets
    BY <2>1 DEF Keeping, Housed, SeatsApart, SameSheets, SheetOf, LivingMembers
  <2>3. \A r \in Requests : Ready(request[r])'
    BY <2>1 DEF Keeping, Ready
  <2>4. ~HostsEdit => ListInv'
    BY <2>1 DEF Keeping, ListInv, ListStands, Current
  <2> QED
    BY <1>1, <2>2, <2>3, <2>4, SameSheetsStutter DEF Keeping
<1>3. ASSUME NEW r \in Requests, Receive(r) \/ RequestStep(r) \/ Abort(r)
      PROVE  Keeping' /\ [Book!Next]_Sheets
  <2>1. /\ Housed' /\ SeatsApart' /\ [Book!Next]_Sheets
        /\ \A s \in Requests : Ready(request'[s])
        /\ ~HostsEdit => ListInv'
    BY <1>1, <1>3, RequestKeeps DEF Safe
  <2>2. \A s \in Requests : Ready(request[s])'
    BY <2>1 DEF Ready
  <2> QED
    BY <1>1, <2>1, <2>2 DEF Keeping
<1> QED
  BY <1>2, <1>3 DEF Next

\* At the start the tables are the book at its start.
LEMMA BookAtStart == Init => Book!Init
<1> SUFFICES ASSUME Init PROVE Book!Init
  OBVIOUS
<1>1. SeatsApart /\ TypeOK
  BY KeepingInit DEF Keeping, Safe
<1>2. /\ Book!Closed \in Book!Sheet /\ Book!Closed.companions = {} /\ Book!Closed.wants = {}
      /\ Book!Closed.says = [g \in Guests |-> "nil"] /\ Book!Closed.answered = FALSE
  BY DEF Book!Closed, Book!Sheet, Book!Wants
<1>3. ASSUME NEW h \in Households, NEW open \in BOOLEAN, open <=> InvitedOf(h) # {}
      PROVE  SheetOf(h) = [Book!Closed EXCEPT !.open = open, !.members = InvitedOf(h)]
  <2>1. /\ LivingMembers(h) = InvitedOf(h) /\ InvitedOf(h) \in SUBSET Guests
        /\ \A g \in InvitedOf(h) : /\ guest[g].card.origin = "seeded"
                                   /\ guest[g].card.attending = "nil"
    BY RsvpAssumption DEF Init, NoGuest, LivingMembers, InvitedOf, Unanswered
  <2>2. household[h] = IF InvitedOf(h) # {} THEN EmptyHousehold(NoLabel, TRUE) ELSE NoHousehold
    BY DEF Init, InvitedOf
  <2>3. /\ Wanted(household[h]) = {} /\ household[h].submittedAt = Null
        /\ household[h].exists = open
    <3>1. household[h] = EmptyHousehold(NoLabel, open)
      <4>1. CASE open = TRUE
        BY <1>3, <2>2, <4>1
      <4>2. CASE open = FALSE
        BY <1>3, <2>2, <4>2 DEF NoHousehold
      <4> QED
        BY <4>1, <4>2
    <3>2. /\ Wanted(EmptyHousehold(NoLabel, open)) = {}
          /\ EmptyHousehold(NoLabel, open).submittedAt = Null
          /\ EmptyHousehold(NoLabel, open).exists = open
      BY EmptyHouseholdWants, Zenon
    <3> QED
      BY <3>1, <3>2, Zenon
  <2> DEFINE sheet == SheetOf(h)
  <2>4. /\ sheet \in Book!Sheet /\ sheet.open = household[h].exists
        /\ sheet.members = LivingMembers(h)
        /\ sheet.companions = {g \in LivingMembers(h) : guest[g].card.origin = "guest_added"}
        /\ \A g \in Guests : sheet.says[g] = IF g \in LivingMembers(h)
                                             THEN guest[g].card.attending ELSE "nil"
        /\ sheet.wants = Wanted(household[h])
        /\ sheet.answered <=> household[h].submittedAt # Null
    BY <1>1, SheetFields
  <2> HIDE DEF sheet
  <2>5. /\ sheet.members = InvitedOf(h) /\ sheet.companions = {} /\ sheet.wants = {}
        /\ sheet.open = open
    BY <2>1, <2>3, <2>4
  <2>6. sheet.says = [g \in Guests |-> "nil"] /\ sheet.answered = FALSE
    BY <2>1, <2>3, <2>4 DEF Book!Sheet
  <2>7. sheet = [Book!Closed EXCEPT !.open = open, !.members = InvitedOf(h)]
    BY <1>2, <2>4, <2>5, <2>6 DEF Book!Sheet
  <2> QED
    BY <2>7 DEF sheet
<1>4. ASSUME NEW h \in Households
      PROVE  SheetOf(h) = [Book!Closed EXCEPT !.open = InvitedOf(h) # {}, !.members = InvitedOf(h)]
  <2>1. CASE InvitedOf(h) # {}
    <3>1. (InvitedOf(h) # {}) = TRUE
      BY <2>1
    <3>2. SheetOf(h) = [Book!Closed EXCEPT !.open = TRUE, !.members = InvitedOf(h)]
      BY <1>3, <2>1
    <3> QED
      BY <3>1, <3>2, Zenon
  <2>2. CASE InvitedOf(h) = {}
    <3>1. (InvitedOf(h) # {}) = FALSE
      BY <2>2
    <3>2. SheetOf(h) = [Book!Closed EXCEPT !.open = FALSE, !.members = InvitedOf(h)]
      BY <1>3, <2>2
    <3> QED
      BY <3>1, <3>2, Zenon
  <2> QED
    BY <2>1, <2>2
<1>5. Sheets = [h \in Households |->
                  [Book!Closed EXCEPT !.open = InvitedOf(h) # {}, !.members = InvitedOf(h)]]
  BY <1>4, Zenon DEF Sheets
<1> QED
  BY <1>5 DEF Book!Init

\* Every household's two phones and the hosts, interleaved in any way, keep
\* the book: each commit is one act of it (SaveAnswer, CreateIfHouseholdAllows,
\* SoftDelete, and the admin's writes).
THEOREM RsvpKeepsTheBook == Spec => KeepsTheBook
<1>1. Init => Keeping /\ Book!Init
  BY KeepingInit, BookAtStart
<1>2. Keeping /\ [Next]_vars => Keeping' /\ [Book!Next]_Sheets
  BY KeepingStep
<1> QED
  BY <1>1, <1>2, PTL DEF Spec, KeepsTheBook, Book!Spec

\* No guest outlives its household (HouseholdDelete's cascade and the foreign
\* key of GuestCreate).
THEOREM GuestsAreHoused == Spec => []GuestsHaveHouseholds
<1>1. Init => Keeping
  BY KeepingInit
<1>2. Keeping /\ [Next]_vars => Keeping'
  BY KeepingStep
<1>3. Keeping => GuestsHaveHouseholds
  BY DEF Keeping, Housed, GuestsHaveHouseholds
<1> QED
  BY <1>1, <1>2, <1>3, PTL DEF Spec

(***************************************************************************)
(* What the book promises holds of the tables.                             *)
(***************************************************************************)
Kept == INSTANCE AnswerBookProofs WITH book    <- Sheets,
                                       AtStart <- [h \in Households |-> InvitedOf(h)]

\* Nobody was invited to two households.
LEMMA InvitedApart == Kept!BookConstants
<1>1. HostsEdit \in BOOLEAN
  BY DEF HostsEdit
<1>2. \A h \in Households : InvitedOf(h) \in SUBSET Guests
  BY RsvpAssumption DEF InvitedOf
<1>3. \A h, k \in Households : h # k => InvitedOf(h) \cap InvitedOf(k) = {}
  BY DEF InvitedOf
<1> QED
  BY <1>1, <1>2, <1>3 DEF Kept!BookConstants

\* The promises about the sheets are promises about the rows.
LEMMA PromisesOfTables ==
    ASSUME ~HostsEdit, Keeping, Kept!ListPromises
    PROVE  AtMostOneAddition /\ AnsweredMeansEverybody
<1>1. \A h \in Households :
        /\ Sheets[h].members = LivingMembers(h)
        /\ Sheets[h].companions = {g \in LivingMembers(h) : guest[g].card.origin = "guest_added"}
        /\ \A g \in Guests : Sheets[h].says[g] = IF g \in LivingMembers(h)
                                                 THEN guest[g].card.attending ELSE "nil"
        /\ Sheets[h].answered <=> household[h].submittedAt # Null
  BY SheetFields DEF Sheets, Keeping, Safe
<1>2. ASSUME NEW h \in Households
      PROVE  Cardinality({g \in LivingMembers(h) : guest[g].card.origin = "guest_added"}) <= 1
  <2> DEFINE companions == {g \in LivingMembers(h) : guest[g].card.origin = "guest_added"}
  <2>1. \A x, y \in companions : x = y
    BY <1>1 DEF Kept!ListPromises
  <2> HIDE DEF companions
  <2>2. companions = {} \/ \E x : companions = {x}
    BY <2>1
  <2>3. Cardinality(companions) \in {0, 1}
    BY <2>2, FS_EmptySet, FS_Singleton
  <2> QED
    BY <2>3 DEF companions
<1>3. ASSUME NEW h \in Households, household[h].submittedAt # Null,
             NEW g \in LivingMembers(h) \cap DOMAIN Invited
      PROVE  guest[g].card.attending # "nil"
  <2>1. guest[g].card.origin = "seeded" /\ g \in Guests
    BY RsvpAssumption DEF Keeping, ListInv, ListStands
  <2>2. g \in Kept!Invitees(Sheets[h])
    BY <1>1, <2>1 DEF Kept!Invitees
  <2> QED
    BY <1>1, <1>3, <2>1, <2>2 DEF Kept!ListPromises
<1> QED
  BY <1>2, <1>3 DEF AtMostOneAddition, AnsweredMeansEverybody

\* As long as the hosts leave the list alone, a household never has two
\* companions, and one that counts as answered has an answer from everybody
\* invited (CreateIfHouseholdAllows, matchSubmissionToMembers, SaveAnswer).
THEOREM HouseholdPromises ==
    ASSUME ~HostsEdit
    PROVE  Spec => [](AtMostOneAddition /\ AnsweredMeansEverybody)
<1>1. Spec => Kept!Spec
  <2>1. Book!Init => Kept!Init
    BY DEF Book!Init, Book!Closed, Kept!Init, Kept!Closed
  <2>2. [Book!Next]_Sheets => [Kept!Next]_Sheets
    BY Zenon
       DEF Book!Next, Book!Answer, Book!Join, Book!NowhereYet, Book!Leave, Book!Open,
           Book!Close, Book!Amend, Book!Enlist, Book!Strike, Book!Invitees, Book!Justified,
           Book!Wants, Book!Scopes, Book!Without, Book!Closed, Kept!Next, Kept!Answer,
           Kept!Join, Kept!NowhereYet, Kept!Leave, Kept!Open, Kept!Close, Kept!Amend,
           Kept!Enlist, Kept!Strike, Kept!Invitees, Kept!Justified, Kept!Wants, Kept!Scopes,
           Kept!Without, Kept!Closed
  <2> QED
    BY <2>1, <2>2, RsvpKeepsTheBook, PTL DEF KeepsTheBook, Book!Spec, Kept!Spec
<1>2. Kept!Spec => [](Kept!SheetsOK /\ Kept!SheetsConsistent /\ Kept!ListPromises)
  BY InvitedApart, Kept!BookKept
<1>3. Init => Keeping
  BY KeepingInit
<1>4. Keeping /\ [Next]_vars => Keeping'
  BY KeepingStep
<1>5. Keeping /\ Kept!ListPromises => AtMostOneAddition /\ AnsweredMeansEverybody
  BY PromisesOfTables
<1> QED
  BY <1>1, <1>2, <1>3, <1>4, <1>5, PTL DEF Spec

\* In particular, a household that counts as answered has answered for
\* everybody invited who is still a member (matchSubmissionToMembers).
THEOREM EverybodyAnswered ==
    ASSUME ~HostsEdit
    PROVE  Spec => []AnsweredMeansEverybody
  BY HouseholdPromises, PTL
=============================================================================
