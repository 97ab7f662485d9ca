------------------------------ MODULE AnswerBook ------------------------------
(***************************************************************************)
(* What the two RSVP tables promise, without requests, reads or            *)
(* transactions: a book with one sheet per household, and the acts that    *)
(* change a sheet, each at once.  Module RsvpBook shows that the requests  *)
(* of module Rsvp keep this book.                                          *)
(*                                                                         *)
(* A household answers, brings one companion and leaves it at home again.  *)
(* Everything else is the hosts': when they do not edit the list           *)
(* (HostsEdit), what a sheet says of the guests we invited is a promise.   *)
(***************************************************************************)
CONSTANTS
    Households,
    Guests,
    AtStart,    \* who is invited at the start, by household
    HostsEdit   \* whether the hosts edit the list while households answer

VARIABLE book

Scopes == {"no", "church_only", "party_only", "both"}

\* The seats a household may want: needed and offered between church and
\* reception, and in the taxi home.
Wants == {wants \in SUBSET {"needed", "offered", "taxi"} : ~({"needed", "offered"} \subseteq wants)}

Sheet == [open : BOOLEAN, members : SUBSET Guests, companions : SUBSET Guests,
          says : [Guests -> Scopes \cup {"nil"}], wants : Wants, answered : BOOLEAN]

Closed == [open |-> FALSE, members |-> {}, companions |-> {}, says |-> [g \in Guests |-> "nil"],
           wants |-> {}, answered |-> FALSE]

Init ==
    book = [h \in Households |-> [Closed EXCEPT !.open = AtStart[h] # {}, !.members = AtStart[h]]]

(***************************************************************************)
(* The acts, each as what it makes of a sheet.                             *)
(***************************************************************************)
Invitees(sheet) == sheet.members \ sheet.companions

\* Seats follow from what the same answer says: between church and reception
\* for somebody at both, in the taxi for somebody at the party.
Justified(wants, says, who) ==
    /\ wants \cap {"needed", "offered"} # {} => \E g \in who : says[g] = "both"
    /\ "taxi" \in wants => \E g \in who : says[g] \in {"party_only", "both"}

\* One answer, of everybody it is about at once.  Nobody invited is left out,
\* unless the hosts were at the list meanwhile.
Answer(old, new) ==
    /\ old.open
    /\ new.wants \in Wants
    /\ new = [old EXCEPT !.says = new.says, !.wants = new.wants, !.answered = TRUE]
    /\ \E who \in SUBSET old.members :
        /\ ~HostsEdit => Invitees(old) \subseteq who
        /\ Justified(new.wants, new.says, who)
        /\ \A g \in who : new.says[g] \in Scopes
        /\ new.says = [g \in Guests |-> IF g \in who THEN new.says[g] ELSE old.says[g]]

\* A single member brings a companion, who has said nothing.
Join(old, new, g) ==
    /\ old.open /\ \E member \in Guests : old.members = {member}
    /\ new = [old EXCEPT !.members = @ \cup {g}, !.companions = @ \cup {g}]

Without(sheet, g) ==
    [sheet EXCEPT !.members = @ \ {g}, !.companions = @ \ {g}, !.says[g] = "nil"]

\* A household takes back the companion it brought, and nobody else.
Leave(old, new, g) == g \in old.companions /\ new = Without(old, g)

\* The hosts' acts.
Open(old, new)      == ~old.open /\ new = [Closed EXCEPT !.open = TRUE]
Close(old, new)     == old.open /\ new = Closed
Enlist(old, new, g) == old.open /\ new = [old EXCEPT !.members = @ \cup {g}]
Strike(old, new, g) == g \in old.members /\ new = Without(old, g)

\* An edit of a household may bring back seats it read before an answer.
Amend(old, new) ==
    old.open /\ new.wants \in Wants /\ new = [old EXCEPT !.wants = new.wants]

NowhereYet(g) == \A h \in Households : g \notin book[h].members

\* Each act changes one household's sheet.
Next ==
    \E h \in Households :
        LET old == book[h]
            new == book'[h]
        IN  /\ new # old
            /\ book' = [book EXCEPT ![h] = new]
            /\ \/ Answer(old, new)
               \/ \E g \in Guests : \/ Join(old, new, g) /\ NowhereYet(g)
                                    \/ Leave(old, new, g)
               \/ /\ HostsEdit
                  /\ \/ Open(old, new) \/ Close(old, new) \/ Amend(old, new)
                     \/ \E g \in Guests : \/ Enlist(old, new, g) /\ NowhereYet(g)
                                          \/ Strike(old, new, g)

Spec == Init /\ [][Next]_book

(***************************************************************************)
(* What the book promises.                                                 *)
(***************************************************************************)
SheetsOK == book \in [Households -> Sheet]

\* Nobody stands on two sheets, a closed sheet is blank, and only members are
\* companions or have said something.
SheetsConsistent ==
    \A h \in Households :
        /\ ~book[h].open => book[h] = Closed
        /\ book[h].companions \subseteq book[h].members
        /\ \A g \in Guests \ book[h].members : book[h].says[g] = "nil"
        /\ \A k \in Households \ {h} : book[h].members \cap book[k].members = {}

\* As long as the hosts leave the list alone, a household has one companion
\* at most, and an answered sheet an answer of everybody invited.
ListPromises ==
    ~HostsEdit => \A h \in Households :
        /\ \A x, y \in book[h].companions : x = y
        /\ book[h].answered => \A g \in Invitees(book[h]) : book[h].says[g] # "nil"

\* What a member has said is replaced by a later answer or goes with the
\* member, but is never taken back to nothing.
SaidStaysSaid ==
    [][\A h \in Households : \A g \in book[h].members \cap book'[h].members :
          book[h].says[g] # "nil" => book'[h].says[g] # "nil"]_book
=============================================================================
