------------------------------- MODULE Domain -------------------------------
(***************************************************************************)
(* The pure rules of internal/domain: what an answer is, how it is         *)
(* normalised before it is stored, who may be added or removed, and which  *)
(* combinations of kind, age and seating need exist.                       *)
(*                                                                         *)
(* A Go function that returns (value, error) is two operators here: a      *)
(* predicate that says when there is no error, and the value it returns    *)
(* then.  Records are the database rows; a nil pointer is Null for an      *)
(* integer and the string "nil" for an enumeration.                        *)
(***************************************************************************)
EXTENDS Integers, FiniteSets

CONSTANTS
    Texts,      \* the texts a name may be, padded and blank ones included
    Blank,      \* the empty text
    TrimSpace   \* strings.TrimSpace, as a function on Texts

ASSUME TextAssumption ==
    /\ Blank \in Texts
    /\ TrimSpace \in [Texts -> Texts]
    /\ TrimSpace[Blank] = Blank
    /\ \A text \in Texts : TrimSpace[TrimSpace[text]] = TrimSpace[text]

Null == -1
MaxChildAge == 17

(***************************************************************************)
(* Enumerations and rows.                                                  *)
(***************************************************************************)
Scopes       == {"no", "church_only", "party_only", "both"}
Attending    == Scopes \cup {"nil"}
Meals        == {"all", "vegetarian", "vegan"}
MealChoice   == Meals \cup {"nil"}
Portions     == {"none", "kids", "full"}
Kinds        == {"adult", "child"}
Origins      == {"seeded", "guest_added"}
SeatingNeeds == {"normal", "with_parent", "high_chair", "wheelchair"}

childOnlySeatingNeeds == {"with_parent", "high_chair"}

Ages == Int

\* The columns of a guest that a request reads or writes.
Card == [name : Texts, seededName : Texts,
         kind : Kinds, origin : Origins, age : Ages,
         seatingNeed : SeatingNeeds, attending : Attending,
         meal : MealChoice, portion : Portions, snack : BOOLEAN]

\* One member's answer, as the request body carries it.
GuestAnswer == [name : Texts, attending : Scopes, meal : MealChoice,
                portion : Portions, snack : BOOLEAN,
                seatingNeed : SeatingNeeds, age : Ages]

(***************************************************************************)
(* Scope.                                                                  *)
(***************************************************************************)
AttendsChurch(guest) == guest.attending \in {"church_only", "both"}
AttendsParty(guest)  == guest.attending \in {"party_only", "both"}
AttendsBoth(guest)   == AttendsChurch(guest) /\ AttendsParty(guest)

(***************************************************************************)
(* Names, ages and seating needs.                                          *)
(***************************************************************************)
NameAccepted(text)     == TrimSpace[text] # Blank
ResolveGuestName(text) == TrimSpace[text]

AgeAccepted(kind, age) ==
    \/ age = Null
    \/ kind = "child" /\ age \in 0 .. MaxChildAge

SeatingNeedAccepted(kind, need) ==
    \/ kind = "child"
    \/ need \notin childOnlySeatingNeeds

(***************************************************************************)
(* A member's answer.                                                      *)
(***************************************************************************)
\* Variant: stored as submitted.
KeepGuestAnswer(guest) == guest

NormalizeGuestAnswer(guest) ==
    IF AttendsParty(guest)
    THEN guest
    ELSE [guest EXCEPT !.meal = "nil", !.portion = "full", !.snack = FALSE]

GuestAnswerAccepted(current, answer) ==
    /\ NameAccepted(answer.name)
    /\ AgeAccepted(current.kind, answer.age)
    /\ SeatingNeedAccepted(current.kind, answer.seatingNeed)

ApplyGuestAnswer(current, answer) ==
    NormalizeGuestAnswer(
        [current EXCEPT !.name = ResolveGuestName(answer.name),
                        !.attending = answer.attending,
                        !.meal = answer.meal,
                        !.portion = answer.portion,
                        !.snack = answer.snack,
                        !.seatingNeed = answer.seatingNeed,
                        !.age = answer.age])

(***************************************************************************)
(* The household's own half of an answer.  "members" is a set of cards.    *)
(***************************************************************************)
TransportSeatsAccepted(answer) == ~(answer.needed > 0 /\ answer.offered > 0)

\* Variant: the shuttle seats are kept as submitted.
NormalizeTaxiOnly(household, members) ==
    [household EXCEPT !.taxi = IF \E member \in members : AttendsParty(member) THEN @ ELSE 0]

NormalizeHouseholdAnswer(household, members) ==
    LET attendsBoth  == \E member \in members : AttendsBoth(member)
        attendsParty == \E member \in members : AttendsParty(member)
    IN  [household EXCEPT !.needed  = IF attendsBoth THEN @ ELSE 0,
                          !.offered = IF attendsBoth THEN @ ELSE 0,
                          !.taxi    = IF attendsParty THEN @ ELSE 0]

ApplyHouseholdAnswer(current, answer, members) ==
    NormalizeHouseholdAnswer(
        [current EXCEPT !.needed = answer.needed, !.offered = answer.offered,
                        !.taxi = answer.taxi, !.note = answer.note],
        members)

(***************************************************************************)
(* A patch of a guest by an admin.  "absent" is a field the request did    *)
(* not carry; ageSet says whether it carried an age at all.                *)
(***************************************************************************)
GuestPatch == [nameSet : BOOLEAN, name : Texts, kind : Kinds \cup {"absent"},
               ageSet : BOOLEAN, age : Ages,
               seatingNeed : SeatingNeeds \cup {"absent"}]

PatchedKind(current, patch) ==
    IF patch.kind = "absent" THEN current.kind ELSE patch.kind

PatchedSeatingNeed(current, patch) ==
    IF patch.seatingNeed = "absent" THEN current.seatingNeed ELSE patch.seatingNeed

\* A child that becomes an adult loses the age the patch does not mention.
PatchedAge(current, patch) ==
    IF patch.ageSet THEN patch.age
    ELSE IF PatchedKind(current, patch) = "child" THEN current.age ELSE Null

GuestPatchAccepted(current, patch) ==
    /\ patch.nameSet => NameAccepted(patch.name)
    /\ AgeAccepted(PatchedKind(current, patch), PatchedAge(current, patch))
    /\ SeatingNeedAccepted(PatchedKind(current, patch), PatchedSeatingNeed(current, patch))

\* An admin's rename moves the name we invited the guest under; only a guest
\* we invited has one.
ApplyGuestPatch(current, patch) ==
    LET name == IF patch.nameSet THEN ResolveGuestName(patch.name) ELSE current.name
    IN  [current EXCEPT !.name = name,
                        !.seededName = IF patch.nameSet /\ current.origin = "seeded"
                                       THEN name ELSE @,
                        !.kind = PatchedKind(current, patch),
                        !.age = PatchedAge(current, patch),
                        !.seatingNeed = PatchedSeatingNeed(current, patch)]

\* What the audit log would list: a rename to the name a guest has is no
\* change, though it moves the name we invited them under.
PatchChanges(current, updated) == [updated EXCEPT !.seededName = current.seededName] # current

(***************************************************************************)
(* Plus-ones.                                                              *)
(***************************************************************************)
\* Variant: somebody to bring a companion is enough.
CanAnyHouseholdAdd(members)     == Cardinality(members) >= 1

CanHouseholdAddPlusOne(members) == Cardinality(members) = 1
CanHouseholdRemove(guest)       == guest.origin = "guest_added"

NewPlusOne(name) ==
    [name |-> name, seededName |-> Blank, kind |-> "adult",
     origin |-> "guest_added", age |-> Null, seatingNeed |-> "normal",
     attending |-> "nil", meal |-> "nil", portion |-> "full", snack |-> FALSE]

(***************************************************************************)
(* The deadline.                                                           *)
(***************************************************************************)
RSVPOpen(deadline, now) == now < deadline
=============================================================================
