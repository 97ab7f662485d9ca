------------------------------- MODULE RsvpBook -------------------------------
(***************************************************************************)
(* The tables of module Rsvp read as the book of module AnswerBook: a      *)
(* household row with its living members is a sheet.  A request changes    *)
(* its sheet at the one step that commits; everything it does before and   *)
(* after leaves the book alone.                                            *)
(***************************************************************************)
EXTENDS Rsvp

\* The operations that edit the list of guests and households.
ListOperations == AdminOperations \ {"AdminSave"}

HostsEdit == Operations \cap ListOperations # {}

InvitedOf(h) == {g \in DOMAIN Invited : HouseOf[g] = h}

Wanted(row) ==
    {seats \in {"needed", "offered", "taxi"} :
        \/ seats = "needed" /\ row.needed > 0
        \/ seats = "offered" /\ row.offered > 0
        \/ seats = "taxi" /\ row.taxi > 0}

SheetOf(h) ==
    LET members == LivingMembers(h) IN
    [open       |-> household[h].exists,
     members    |-> members,
     companions |-> {g \in members : guest[g].card.origin = "guest_added"},
     says       |-> [g \in Guests |-> IF g \in members THEN guest[g].card.attending ELSE "nil"],
     wants      |-> Wanted(household[h]),
     answered   |-> household[h].submittedAt # Null]

Sheets == [h \in Households |-> SheetOf(h)]

Book == INSTANCE AnswerBook WITH book    <- Sheets,
                                 AtStart <- [h \in Households |-> InvitedOf(h)]

\* The requests keep the book: whatever two phones and the hosts have read
\* before, each commit is one act on one household's sheet, seats are
\* justified by the answer that commits, nobody invited is left out of an
\* answer, and only a companion leaves (Save, AddPlusOne, RemoveMember and the
\* transactions they end in).
KeepsTheBook == Book!Spec
=============================================================================
