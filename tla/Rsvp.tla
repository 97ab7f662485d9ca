-------------------------------- MODULE Rsvp --------------------------------
(***************************************************************************)
(* The household and guest tables, and every request that reads or writes  *)
(* them: a household's RSVP (application/rsvp) and the admin's list        *)
(* (application/households).                                               *)
(*                                                                         *)
(* SQLite serialises the writers, so one statement or one transaction is   *)
(* one step.  What is not atomic is a request: it reads through a pool of  *)
(* its own, computes, and writes later, and any number of requests are     *)
(* between their steps at once.  "request" holds what each one still has   *)
(* in hand:                                                                *)
(*                                                                         *)
(*   idle -> admitted -> (read ->) ready -> stored -> idle                 *)
(*                                                                         *)
(* admitted: the deadline was checked at "now".  read: a save holds the    *)
(* household row.  ready: everything is computed, the next step writes.    *)
(* stored: committed, the audit row is still to be written.                *)
(*                                                                         *)
(* Abstracted: dietary_note (moves exactly like the name, never refused),  *)
(* has_stroller (moves exactly like the taxi seats, never normalised),     *)
(* the login code (module Codes).  The household's name, addressee and     *)
(* admin note are one "label".  audit_log is reduced to the creation and   *)
(* deletion of guests, the entries that explain a headcount.               *)
(***************************************************************************)
EXTENDS Domain

CONSTANTS
    Requests,           \* the requests that may be in flight at once
    MaxHouseholds,      \* row ids of households are 1 .. MaxHouseholds
    MaxGuests,          \* row ids of guests are 1 .. MaxGuests
    Invited,            \* the households' members at the start, id -> card
    HouseOf,            \* and the household of each of them
    Operations,         \* the operations the environment may ask for
    MemberAnswers,      \* what a member's answer may be
    HouseholdAnswers,   \* what a household's own half may be
    GuestPatches,       \* what an admin's patch of a guest may be
    Drafts,             \* guests an admin may add
    PlusOneNames,       \* names a household may give its companion
    Labels,             \* values of the household's admin-only columns
    Deadline,           \* app_setting rsvp_deadline
    MaxClock            \* the last second that is modelled

VARIABLES
    household,  \* the household table
    guest,      \* the guest table
    audit,      \* audit_log, as far as it creates and deletes guests
    clock,      \* time.Now(), in seconds
    request     \* what each request has in hand

vars == <<household, guest, audit, clock, request>>

Households == 1 .. MaxHouseholds
Guests     == 1 .. MaxGuests
Time       == 0 .. MaxClock

HouseholdOperations == {"Save", "AddPlusOne", "RemoveMember"}
AdminOperations     == {"AdminSave", "UpdateHousehold", "DeleteHousehold", "CreateHousehold",
                        "AddGuest", "UpdateGuest", "RemoveGuest"}
Saves               == {"Save", "AdminSave"}
Additions           == {"AddPlusOne", "AddGuest"}
Removals            == {"RemoveMember", "RemoveGuest"}
GuestOperations     == {"RemoveMember", "UpdateGuest", "RemoveGuest"}

HouseholdAnswer == [needed : Nat, offered : Nat, taxi : Nat, note : Texts]

\* A guest nobody has answered for has the schema's defaults.
Unanswered(card) ==
    card.attending = "nil" /\ card.meal = "nil" /\ card.portion = "full" /\ ~card.snack

\* CHECK (age IS NULL OR kind = 'child')
AgeCheck(card) == card.age # Null => card.kind = "child"

ASSUME RsvpAssumption ==
    /\ MaxHouseholds \in Nat /\ MaxGuests \in Nat /\ MaxClock \in Nat
    /\ Deadline \in Int
    /\ Labels # {}
    /\ DOMAIN Invited \subseteq Guests
    /\ \A g \in DOMAIN Invited :
          /\ HouseOf[g] \in Households
          /\ Invited[g] \in Card /\ Invited[g].origin = "seeded"
          /\ Unanswered(Invited[g]) /\ AgeCheck(Invited[g])
    /\ Operations \subseteq HouseholdOperations \cup AdminOperations
    /\ MemberAnswers \subseteq GuestAnswer
    /\ HouseholdAnswers \subseteq HouseholdAnswer
    /\ GuestPatches \subseteq GuestPatch
    /\ Drafts \subseteq {card \in Card : Unanswered(card)}
    /\ PlusOneNames \subseteq Texts \ {Blank}

(***************************************************************************)
(* Rows.  A row that is not in the table has the blank values, so that a   *)
(* deleted row leaves nothing behind.                                      *)
(***************************************************************************)
HouseholdRow == [exists : BOOLEAN, label : Labels, needed : Nat, offered : Nat, taxi : Nat,
                 note : Texts, submittedAt : Time \cup {Null}, updatedAt : Time \cup {Null}]

EmptyHousehold(label, exists) ==
    [exists |-> exists, label |-> label, needed |-> 0, offered |-> 0, taxi |-> 0,
     note |-> Blank, submittedAt |-> Null, updatedAt |-> Null]

NoLabel     == CHOOSE label \in Labels : TRUE
NoHousehold == EmptyHousehold(NoLabel, FALSE)

GuestRow == [status : {"absent", "living", "removed"}, house : Households \cup {0}, card : Card]

NoCard  == [NewPlusOne(Blank) EXCEPT !.origin = "seeded"]
NoGuest == [status |-> "absent", house |-> 0, card |-> NoCard]

\* selectLivingMembers
LivingMembers(h) == {g \in Guests : guest[g].status = "living" /\ guest[g].house = h}

Idle == [pc |-> "idle", op |-> "none", house |-> 0, guest |-> 0, now |-> 0,
         row |-> NoHousehold, members |-> {}, cards |-> [g \in Guests |-> NoCard],
         draft |-> NoCard]

AuditEntry == [action : {"create", "delete"}, guest : Guests]

\* A request that has not written yet names a household, and the guest its
\* operation is about; one that has, the guest it added or removed.
Addressed(q) ==
    /\ q.pc \in {"admitted", "read", "ready"} =>
          /\ q.house \in Households
          /\ (q.guest # 0) = (q.op \in GuestOperations)
    /\ q.pc = "stored" /\ q.op \in Additions \cup Removals => q.guest # 0

InHandRecord == [pc : {"idle", "admitted", "read", "ready", "stored"},
                 op : Operations \cup {"none"},
                 house : Households \cup {0}, guest : Guests \cup {0},
                 now : Time, row : HouseholdRow, members : SUBSET Guests,
                 cards : [Guests -> Card], draft : Card]

Request == {q \in InHandRecord : Addressed(q)}

TypeOK ==
    /\ household \in [Households -> HouseholdRow]
    /\ guest \in [Guests -> GuestRow]
    /\ audit \in SUBSET AuditEntry
    /\ clock \in Time
    /\ request \in [Requests -> Request]

Init ==
    /\ household = [h \in Households |->
                      IF \E g \in DOMAIN Invited : HouseOf[g] = h
                      THEN EmptyHousehold(NoLabel, TRUE) ELSE NoHousehold]
    /\ guest = [g \in Guests |->
                  IF g \in DOMAIN Invited
                  THEN [status |-> "living", house |-> HouseOf[g], card |-> Invited[g]]
                  ELSE NoGuest]
    /\ audit = {}
    /\ clock = 0
    /\ request = [r \in Requests |-> Idle]

(***************************************************************************)
(* The steps every request shares.                                         *)
(***************************************************************************)
Tick ==
    /\ clock < MaxClock
    /\ clock' = clock + 1
    /\ UNCHANGED <<household, guest, audit, request>>

\* Variant: the deadline binds nobody.
AlwaysWritable(op) == op \in Operations

\* The deadline governs what a household does itself, and is asked before
\* anything else is read.
EnsureWritable(op) == op \in HouseholdOperations => RSVPOpen(Deadline, clock)

Receive(r) ==
    /\ request[r].pc = "idle"
    /\ \E op \in Operations, h \in Households, g \in Guests \cup {0} :
        /\ (g # 0) = (op \in GuestOperations)
        /\ EnsureWritable(op)
        /\ request' = [request EXCEPT ![r] =
                         [Idle EXCEPT !.pc = "admitted", !.op = op, !.house = h,
                                      !.guest = g, !.now = clock]]
    /\ UNCHANGED <<household, guest, audit, clock>>

At(r, ops, pc) == request[r].op \in ops /\ request[r].pc = pc

\* An error answer: whatever the request had in hand is gone.
Refuse(r) ==
    /\ request' = [request EXCEPT ![r] = Idle]
    /\ UNCHANGED <<household, guest, audit, clock>>

\* The request goes on with q in hand; nothing is stored yet.
Proceed(r, q) ==
    /\ request' = [request EXCEPT ![r] = q]
    /\ UNCHANGED <<household, guest, audit, clock>>

\* A request may die at any point: a cancelled context, a failing statement,
\* an audit row that cannot be written, the process itself.
Abort(r) == request[r].pc # "idle" /\ Refuse(r)

\* The write that ends a request's work; what remains is its audit row.
Stored(r, g) ==
    request' = [request EXCEPT ![r] = [Idle EXCEPT !.pc = "stored", !.op = request[r].op,
                                                   !.house = request[r].house, !.guest = g]]

\* Variant: whatever is not an addition is logged as a removal.
AdditionOrRemoval(q) ==
    {[action |-> IF q.op \in Additions THEN "create" ELSE "delete", guest |-> q.guest]}

AuditEntriesOf(q) ==
    IF q.op \in Additions THEN {[action |-> "create", guest |-> q.guest]}
    ELSE IF q.op \in Removals THEN {[action |-> "delete", guest |-> q.guest]}
    ELSE {}

RecordAudit(r) ==
    /\ request[r].pc = "stored"
    /\ audit' = audit \cup AuditEntriesOf(request[r])
    /\ request' = [request EXCEPT ![r] = Idle]
    /\ UNCHANGED <<household, guest, clock>>

(***************************************************************************)
(* Save: a household's whole answer.                                       *)
(***************************************************************************)
SaveFindHousehold(r) ==
    /\ At(r, Saves, "admitted")
    /\ \/ /\ household[request[r].house].exists
          /\ Proceed(r, [request[r] EXCEPT !.pc = "read", !.row = household[request[r].house]])
       \/ /\ ~household[request[r].house].exists
          /\ Refuse(r)

\* Every rule of the domain, asked of the submission.
SubmissionAccepted(members, answers, householdAnswer) ==
    /\ TransportSeatsAccepted(householdAnswer)
    /\ \A g \in members : GuestAnswerAccepted(guest[g].card, answers[g])

\* Changes.IsEmpty for the household and every member.
ChangesNothing(row, updated, members, cards) ==
    /\ updated = row
    /\ \A g \in members : cards[g] = guest[g].card

Stamp(row, now) ==
    [row EXCEPT !.updatedAt = now,
                !.submittedAt = IF @ = Null THEN now ELSE @]

\* The members' rows as this submission leaves them.
AnsweredCards(members, answers) ==
    [g \in Guests |-> IF g \in members THEN ApplyGuestAnswer(guest[g].card, answers[g])
                                       ELSE NoCard]

AnsweredRow(row, householdAnswer, members, cards) ==
    ApplyHouseholdAnswer(row, householdAnswer, {cards[g] : g \in members})

Prepare(r, row, members, cards) ==
    Proceed(r, [request[r] EXCEPT !.pc = "ready", !.row = Stamp(row, request[r].now),
                                  !.members = members, !.cards = cards])

\* The body must describe exactly the living members (module MemberSet has
\* the matching itself), and change something, to be stored.
SaveApply(r) ==
    LET members == LivingMembers(request[r].house) IN
    /\ At(r, Saves, "read")
    /\ \E ids \in SUBSET Guests :
          \/ ids # members /\ Refuse(r)
          \/ /\ ids = members
             /\ \E answers \in [ids -> MemberAnswers], householdAnswer \in HouseholdAnswers :
                   LET cards    == AnsweredCards(members, answers)
                       row      == AnsweredRow(request[r].row, householdAnswer, members, cards)
                       accepted == /\ SubmissionAccepted(members, answers, householdAnswer)
                                   /\ ~ChangesNothing(request[r].row, row, members, cards)
                   IN  \/ accepted /\ Prepare(r, row, members, cards)
                       \/ ~accepted /\ Refuse(r)

\* The columns SaveAnswer writes; the label is not among them, nor are a
\* guest's kind, origin and seeded name.
AnswerColumns(stored, row) ==
    [stored EXCEPT !.needed = row.needed, !.offered = row.offered, !.taxi = row.taxi,
                   !.note = row.note, !.submittedAt = row.submittedAt,
                   !.updatedAt = row.updatedAt]

\* Variant: an UPDATE that forgot the attending column.
MemberColumnsWithoutScope(stored, card) ==
    [stored EXCEPT !.name = card.name, !.meal = card.meal, !.portion = card.portion,
                   !.snack = card.snack, !.seatingNeed = card.seatingNeed, !.age = card.age]

MemberColumns(stored, card) ==
    [stored EXCEPT !.name = card.name, !.attending = card.attending, !.meal = card.meal,
                   !.portion = card.portion, !.snack = card.snack,
                   !.seatingNeed = card.seatingNeed, !.age = card.age]

\* Variants: the members' row counts are not looked at; there is no CHECK.
SaveAnswerAppliesToAnyMember(q) ==
    /\ household[q.house].exists
    /\ \A g \in q.members : AgeCheck(MemberColumns(guest[g].card, q.cards[g]))

SaveAnswerAppliesUnchecked(q) ==
    household[q.house].exists /\ q.members \subseteq LivingMembers(q.house)

\* requireOneRow for the household and for every member, and the CHECK: one
\* failure and the whole transaction is rolled back.
SaveAnswerApplies(q) ==
    /\ household[q.house].exists
    /\ q.members \subseteq LivingMembers(q.house)
    /\ \A g \in q.members : AgeCheck(MemberColumns(guest[g].card, q.cards[g]))

SaveAnswer(r) ==
    LET q == request[r] IN
    /\ At(r, Saves, "ready")
    /\ \/ /\ SaveAnswerApplies(q)
          /\ household' = [household EXCEPT ![q.house] = AnswerColumns(@, q.row)]
          /\ guest' = [g \in Guests |-> IF g \in q.members
                         THEN [guest[g] EXCEPT !.card = MemberColumns(@, q.cards[g])]
                         ELSE guest[g]]
          /\ Stored(r, 0)
          /\ UNCHANGED <<audit, clock>>
       \/ /\ ~SaveAnswerApplies(q)
          /\ Refuse(r)

(***************************************************************************)
(* AddPlusOne and AddGuest: an insert.  SQLite gives the row the id after  *)
(* the largest one in the table, so the id of a deleted last row returns.  *)
(***************************************************************************)
NextId(g) ==
    /\ \A k \in Guests : k >= g => guest[k].status = "absent"
    /\ \A k \in Guests : k = g - 1 => guest[k].status # "absent"

Insert(r, card) ==
    \E g \in Guests :
        /\ NextId(g)
        /\ guest' = [guest EXCEPT ![g] = [status |-> "living", house |-> request[r].house,
                                          card |-> card]]
        /\ Stored(r, g)
        /\ UNCHANGED <<household, audit, clock>>

AddPlusOneFindHousehold(r) ==
    /\ At(r, {"AddPlusOne"}, "admitted")
    /\ \/ /\ household[request[r].house].exists
          /\ \E name \in PlusOneNames :
               Proceed(r, [request[r] EXCEPT !.pc = "ready", !.draft = NewPlusOne(name)])
       \/ /\ ~household[request[r].house].exists
          /\ Refuse(r)

\* The rule is asked inside the transaction that inserts.
CreateIfHouseholdAllows(r) ==
    /\ At(r, {"AddPlusOne"}, "ready")
    /\ \/ /\ CanHouseholdAddPlusOne(LivingMembers(request[r].house))
          /\ Insert(r, request[r].draft)
       \/ /\ ~CanHouseholdAddPlusOne(LivingMembers(request[r].house))
          /\ Refuse(r)

\* An admin's draft is always seeded, under the name it is created with.
DraftAccepted(draft) ==
    AgeAccepted(draft.kind, draft.age) /\ SeatingNeedAccepted(draft.kind, draft.seatingNeed)

SeededDraft(draft) == [draft EXCEPT !.origin = "seeded", !.seededName = draft.name]

AddGuestPrepare(r) ==
    /\ At(r, {"AddGuest"}, "admitted")
    /\ \E draft \in Drafts :
          \/ /\ household[request[r].house].exists /\ DraftAccepted(draft)
             /\ Proceed(r, [request[r] EXCEPT !.pc = "ready", !.draft = SeededDraft(draft)])
          \/ /\ ~(household[request[r].house].exists /\ DraftAccepted(draft))
             /\ Refuse(r)

\* Variant: no foreign key.
GuestCreateAnywhere(r) == At(r, {"AddGuest"}, "ready") /\ Insert(r, request[r].draft)

\* The foreign key refuses a household that has gone in the meantime.
GuestCreate(r) ==
    /\ At(r, {"AddGuest"}, "ready")
    /\ \/ /\ household[request[r].house].exists
          /\ Insert(r, request[r].draft)
       \/ /\ ~household[request[r].house].exists
          /\ Refuse(r)

(***************************************************************************)
(* RemoveMember and RemoveGuest: a soft delete by id alone.                *)
(***************************************************************************)
\* Variant: a household removes any member of its own.
MayRemoveAnyMember(q) ==
    /\ guest[q.guest].status = "living"
    /\ q.op = "RemoveMember" => guest[q.guest].house = q.house

MayRemove(q) ==
    /\ guest[q.guest].status = "living"
    /\ q.op = "RemoveMember" => /\ guest[q.guest].house = q.house
                                /\ CanHouseholdRemove(guest[q.guest].card)

\* Variant: the removal is logged before it happens.
RemoveFindGuestLogsFirst(r) ==
    /\ At(r, Removals, "admitted")
    /\ MayRemove(request[r])
    /\ audit' = audit \cup AuditEntriesOf(request[r])
    /\ request' = [request EXCEPT ![r].pc = "ready"]
    /\ UNCHANGED <<household, guest, clock>>

RemoveFindGuest(r) ==
    /\ At(r, Removals, "admitted")
    /\ \/ /\ MayRemove(request[r])
          /\ Proceed(r, [request[r] EXCEPT !.pc = "ready"])
       \/ /\ ~MayRemove(request[r])
          /\ Refuse(r)

SoftDelete(r) ==
    LET g == request[r].guest IN
    /\ At(r, Removals, "ready")
    /\ \/ /\ guest[g].status = "living"
          /\ guest' = [guest EXCEPT ![g].status = "removed"]
          /\ Stored(r, g)
          /\ UNCHANGED <<household, audit, clock>>
       \/ /\ guest[g].status # "living"
          /\ Refuse(r)

(***************************************************************************)
(* UpdateGuest: an admin's patch of one guest.                             *)
(***************************************************************************)
UpdateGuestApply(r) ==
    LET current == guest[request[r].guest] IN
    /\ At(r, {"UpdateGuest"}, "admitted")
    /\ \E patch \in GuestPatches :
          LET accepted == /\ current.status = "living"
                          /\ GuestPatchAccepted(current.card, patch)
                          /\ PatchChanges(current.card, ApplyGuestPatch(current.card, patch))
          IN  \/ /\ accepted
                 /\ Proceed(r, [request[r] EXCEPT !.pc = "ready",
                                                  !.draft = ApplyGuestPatch(current.card, patch)])
              \/ /\ ~accepted
                 /\ Refuse(r)

\* The columns GuestStore.Update writes; the answer is not among them.
PatchColumns(stored, card) ==
    [stored EXCEPT !.name = card.name, !.seededName = card.seededName, !.kind = card.kind,
                   !.age = card.age, !.seatingNeed = card.seatingNeed]

GuestUpdate(r) ==
    LET g == request[r].guest IN
    /\ At(r, {"UpdateGuest"}, "ready")
    /\ \/ /\ guest[g].status = "living"
          /\ guest' = [guest EXCEPT ![g].card = PatchColumns(@, request[r].draft)]
          /\ Stored(r, g)
          /\ UNCHANGED <<household, audit, clock>>
       \/ /\ guest[g].status # "living"
          /\ Refuse(r)

(***************************************************************************)
(* The household's own row: create, patch, delete.                         *)
(***************************************************************************)
UpdateHouseholdApply(r) ==
    LET current == household[request[r].house] IN
    /\ At(r, {"UpdateHousehold"}, "admitted")
    /\ \E label \in Labels :
          \/ /\ current.exists /\ label # current.label
             /\ Proceed(r, [request[r] EXCEPT !.pc = "ready",
                                              !.row = [current EXCEPT !.label = label]])
          \/ /\ ~(current.exists /\ label # current.label)
             /\ Refuse(r)

\* Update writes the seat columns back as well, from the row it read.
PatchedRow(stored, row) ==
    [stored EXCEPT !.label = row.label, !.needed = row.needed, !.offered = row.offered,
                   !.taxi = row.taxi]

HouseholdUpdate(r) ==
    LET h == request[r].house IN
    /\ At(r, {"UpdateHousehold"}, "ready")
    /\ \/ /\ household[h].exists
          /\ household' = [household EXCEPT ![h] = PatchedRow(@, request[r].row)]
          /\ Stored(r, 0)
          /\ UNCHANGED <<guest, audit, clock>>
       \/ /\ ~household[h].exists
          /\ Refuse(r)

DeleteHouseholdFind(r) ==
    /\ At(r, {"DeleteHousehold"}, "admitted")
    /\ \/ /\ household[request[r].house].exists
          /\ Proceed(r, [request[r] EXCEPT !.pc = "ready"])
       \/ /\ ~household[request[r].house].exists
          /\ Refuse(r)

\* A hard delete; the guests, removed ones included, cascade.
HouseholdDelete(r) ==
    LET h == request[r].house IN
    /\ At(r, {"DeleteHousehold"}, "ready")
    /\ \/ /\ household[h].exists
          /\ household' = [household EXCEPT ![h] = NoHousehold]
          /\ guest' = [g \in Guests |-> IF guest[g].house = h THEN NoGuest ELSE guest[g]]
          /\ Stored(r, 0)
          /\ UNCHANGED <<audit, clock>>
       \/ /\ ~household[h].exists
          /\ Refuse(r)

NextHouseholdId(h) ==
    /\ \A k \in Households : k >= h => ~household[k].exists
    /\ \A k \in Households : k = h - 1 => household[k].exists

HouseholdCreate(r) ==
    /\ At(r, {"CreateHousehold"}, "admitted")
    /\ \E h \in Households, label \in Labels :
        /\ NextHouseholdId(h)
        /\ household' = [household EXCEPT ![h] = EmptyHousehold(label, TRUE)]
    /\ Stored(r, 0)
    /\ UNCHANGED <<guest, audit, clock>>

-----------------------------------------------------------------------------
RequestStep(r) ==
    \/ SaveFindHousehold(r) \/ SaveApply(r) \/ SaveAnswer(r)
    \/ AddPlusOneFindHousehold(r) \/ CreateIfHouseholdAllows(r)
    \/ AddGuestPrepare(r) \/ GuestCreate(r)
    \/ RemoveFindGuest(r) \/ SoftDelete(r)
    \/ UpdateGuestApply(r) \/ GuestUpdate(r)
    \/ UpdateHouseholdApply(r) \/ HouseholdUpdate(r)
    \/ DeleteHouseholdFind(r) \/ HouseholdDelete(r) \/ HouseholdCreate(r)
    \/ RecordAudit(r)

Next ==
    \/ Tick
    \/ \E r \in Requests : Receive(r) \/ RequestStep(r) \/ Abort(r)

Spec == Init /\ [][Next]_vars
(***************************************************************************)
(* Properties.                                                             *)
(***************************************************************************)
Committed(r, ops) ==
    /\ At(r, ops, "ready") \/ At(r, ops \cap {"CreateHousehold"}, "admitted")
    /\ request'[r].pc = "stored"

MemberCards(h) == {guest[g].card : g \in LivingMembers(h)}

\* Seats between church and reception need somebody who attends both, seats
\* in the taxi home somebody at the party.
SeatsJustifiedBy(row, members) ==
    /\ row.needed > 0 \/ row.offered > 0 => \E member \in members : AttendsBoth(member)
    /\ row.taxi > 0 => \E member \in members : AttendsParty(member)

SeatsJustified == \A h \in Households : SeatsJustifiedBy(household[h], MemberCards(h))

\* A save leaves seat counts that the members stored at that moment justify,
\* whatever was added, removed or saved between its reads and its commit
\* (Save, SaveAnswer and its requireOneRow).
SaveLeavesSeatsJustified ==
    [][\A r \in Requests : Committed(r, Saves) =>
          LET h == request[r].house IN SeatsJustifiedBy(household'[h], MemberCards(h)')]_vars

\* Nobody is fed who is not at the party: every row that was not removed, in
\* any interleaving of saves and patches, has its catering fields reset
\* (NormalizeGuestAnswer and the columns each writer touches).
NotFed(card)     == card.meal = "nil" /\ card.portion = "full" /\ ~card.snack
ScopeGated(card) == AttendsParty(card) \/ NotFed(card)

CateringNeedsParty == \A g \in Guests : ScopeGated(guest[g].card)

\* A household that adds somebody has exactly two members at that moment, so
\* two phones adding at once cannot make three of one (CreateIfHouseholdAllows).
AdditionMakesTwo ==
    [][\A r \in Requests : Committed(r, {"AddPlusOne"}) =>
          Cardinality(LivingMembers(request[r].house)') = 2]_vars

\* As long as nobody we invited is removed by us, a household never has more
\* than one companion it added, through any sequence of additions, removals
\* and saves (CanHouseholdAddPlusOne).
AtMostOneAddition ==
    \A h \in Households :
        Cardinality({g \in LivingMembers(h) : guest[g].card.origin = "guest_added"}) <= 1

\* No guest outlives its household, although an insert may be on its way when
\* the household is deleted (HouseholdDelete's cascade, GuestCreate's foreign
\* key, CreateIfHouseholdAllows counting members).
GuestsHaveHouseholds ==
    \A g \in Guests : guest[g].status # "absent" => household[guest[g].house].exists

\* A household that counts as answered has an answer from everybody we
\* invited and who is still a member (Save's member set, SaveAnswer).
AnsweredMeansEverybody ==
    \A h \in Households : household[h].submittedAt # Null =>
        \A g \in LivingMembers(h) \cap DOMAIN Invited : guest[g].card.attending # "nil"

\* No age is stored for an adult, although a save writes the age against the
\* kind it read and a patch changes the kind (the CHECK on guest.age).
AgesOnlyForChildren == \A g \in Guests : AgeCheck(guest[g].card)

\* What a household stores after the deadline was admitted before it, and
\* the answer it stores is stamped with that earlier time (EnsureWritable).
LateWritesAreOurs ==
    [][\A h \in Households :
          household'[h].updatedAt # household[h].updatedAt =>
             \/ household'[h].updatedAt \in {Null} \cup {t \in Time : t < Deadline}
             \/ \E r \in Requests : Committed(r, {"AdminSave"})]_vars

\* The log says that a guest was added or removed only after it happened:
\* a crash loses the entry, never invents one (creationEntry, deletionEntry).
AuditFollowsCommit ==
    \A entry \in audit :
        IF entry.action = "create" THEN guest[entry.guest].status # "absent"
                                   ELSE guest[entry.guest].status = "removed"

(***************************************************************************)
(* What requests have in hand, strong enough to be inductive.              *)
(***************************************************************************)
\* A save about to commit holds normalised members, and seat counts that
\* those members justify.
SavePrepared(q) ==
    q.op \in Saves /\ q.pc = "ready" =>
        /\ \A g \in q.members : ScopeGated(q.cards[g])
        /\ SeatsJustifiedBy(q.row, {q.cards[g] : g \in q.members})

\* A guest about to be inserted is unanswered; one about to be inserted or
\* patched has no adult's age.
DraftPrepared(q) ==
    /\ q.op \in Additions /\ q.pc = "ready" => Unanswered(q.draft)
    /\ q.op \in Additions \cup {"UpdateGuest"} /\ q.pc = "ready" => AgeCheck(q.draft)

\* Whatever is about to be written was prepared by the rules, in any
\* interleaving (Save, AddGuest, UpdateGuest between read and write).
InHand == \A r \in Requests : SavePrepared(request[r]) /\ DraftPrepared(request[r])

(***************************************************************************)
(* What the comments in the code say and the code does not keep.           *)
(***************************************************************************)
\* The RSVP answers are "not reachable from here": an admin's patch of a
\* household never changes what the household answered.
AdminPatchLeavesAnswer ==
    [][\A r \in Requests : Committed(r, {"UpdateHousehold"}) =>
          LET h == request[r].house
          IN  household'[h] = [household[h] EXCEPT !.label = household'[h].label]]_vars
=============================================================================
