--------------------------- MODULE AnswerBookProofs ---------------------------
(***************************************************************************)
(* The promises of the book, proved from its acts.  Each act is on one     *)
(* sheet, so each promise is one about a sheet, kept act by act; what the  *)
(* sheets have to do with each other is only who stands on them.           *)
(***************************************************************************)
EXTENDS AnswerBook, TLAPS

\* What the proofs need of the constants.
BookConstants ==
    /\ HostsEdit \in BOOLEAN
    /\ AtStart \in [Households -> SUBSET Guests]
    /\ \A h, k \in Households : h # k => AtStart[h] \cap AtStart[k] = {}

Consistent(sheet) ==
    /\ ~sheet.open => sheet = Closed
    /\ sheet.companions \subseteq sheet.members
    /\ \A g \in Guests \ sheet.members : sheet.says[g] = "nil"

\* Stronger than the promises: a companion came with somebody invited, who
\* is still there, so a household of one has no companion.
Promised(sheet) ==
    /\ \A x, y \in sheet.companions : x = y
    /\ sheet.companions # {} => Invitees(sheet) # {}
    /\ sheet.answered => \A g \in Invitees(sheet) : sheet.says[g] # "nil"

Apart == \A h, k \in Households : h # k => book[h].members \cap book[k].members = {}

BookInv ==
    /\ SheetsOK
    /\ \A h \in Households : Consistent(book[h])
    /\ Apart
    /\ ~HostsEdit => \A h \in Households : Promised(book[h])

\* What a sheet says of somebody who stays on it is not taken back.
Stays(old, new) ==
    \A g \in old.members \cap new.members : old.says[g] # "nil" => new.says[g] # "nil"

(***************************************************************************)
(* One sheet, one act.                                                     *)
(***************************************************************************)
\* A blank sheet, open or not, is a sheet that promises nothing it breaks.
LEMMA BlankSheet ==
    /\ Closed \in Sheet /\ Consistent(Closed)
    /\ [Closed EXCEPT !.open = TRUE] \in Sheet
    /\ Consistent([Closed EXCEPT !.open = TRUE])
  BY DEF Closed, Sheet, Consistent, Wants, Scopes

\* An answer keeps the sheet, its promises, and what it says.
LEMMA AnswerKeeps ==
    ASSUME NEW old \in Sheet, Consistent(old), NEW new, Answer(old, new)
    PROVE  /\ new \in Sheet /\ Consistent(new) /\ Stays(old, new)
           /\ new.members = old.members
           /\ ~HostsEdit /\ Promised(old) => Promised(new)
<1>1. /\ old.open /\ new.wants \in Wants
      /\ new = [old EXCEPT !.says = new.says, !.wants = new.wants, !.answered = TRUE]
  BY DEF Answer
<1>2. PICK who \in SUBSET old.members :
        /\ ~HostsEdit => Invitees(old) \subseteq who
        /\ \A g \in who : new.says[g] \in Scopes
        /\ new.says = [g \in Guests |-> IF g \in who THEN new.says[g] ELSE old.says[g]]
  BY DEF Answer
<1>3. /\ new.open /\ new.members = old.members /\ new.companions = old.companions
      /\ new.answered
  BY <1>1 DEF Sheet
<1>4. /\ new.says \in [Guests -> Scopes \cup {"nil"}]
      /\ \A g \in Guests : new.says[g] \in Scopes \/ new.says[g] = old.says[g]
      /\ \A g \in Guests \ who : new.says[g] = old.says[g]
  BY <1>2 DEF Sheet
<1>5. new \in Sheet
  BY <1>1, <1>4 DEF Sheet
<1>6. Consistent(new) /\ Stays(old, new)
  BY <1>2, <1>3, <1>4 DEF Consistent, Stays, Scopes, Sheet
<1>7. ~HostsEdit /\ Promised(old) => Promised(new)
  BY <1>2, <1>3 DEF Promised, Invitees, Scopes
<1> QED
  BY <1>3, <1>5, <1>6, <1>7

\* So does a companion who joins a household of one.
LEMMA JoinKeeps ==
    ASSUME NEW old \in Sheet, Consistent(old), NEW g \in Guests,
           g \notin old.members, NEW new, Join(old, new, g)
    PROVE  /\ new \in Sheet /\ Consistent(new) /\ Stays(old, new)
           /\ new.members = old.members \cup {g}
           /\ Promised(old) => Promised(new)
<1>1. /\ new.open = old.open /\ old.open
      /\ new.members = old.members \cup {g} /\ new.companions = old.companions \cup {g}
      /\ new.says = old.says /\ new.answered = old.answered /\ new \in Sheet
  BY DEF Join, Sheet
<1>2. \E x : old.members = {x}
  BY DEF Join
<1>3. Consistent(new) /\ Stays(old, new)
  BY <1>1 DEF Consistent, Stays
<1>4. ASSUME Promised(old) PROVE Promised(new)
  <2>1. old.companions = {}
    BY <1>2, <1>4 DEF Promised, Invitees, Consistent
  <2>2. new.companions = {g} /\ Invitees(new) = old.members /\ Invitees(old) = old.members
    BY <1>1, <2>1 DEF Invitees
  <2> QED
    BY <1>1, <1>2, <1>4, <2>2 DEF Promised
<1> QED
  BY <1>1, <1>3, <1>4

\* Taking a member off the sheet, a companion or anybody.
LEMMA WithoutKeeps ==
    ASSUME NEW old \in Sheet, Consistent(old), NEW g \in old.members
    PROVE  LET new == Without(old, g) IN
           /\ new \in Sheet /\ Consistent(new) /\ Stays(old, new)
           /\ new.members = old.members \ {g}
           /\ g \in old.companions /\ Promised(old) => Promised(new)
<1> DEFINE new == Without(old, g)
<1>1. /\ new.open = old.open /\ new.members = old.members \ {g}
      /\ new.companions = old.companions \ {g}
      /\ new.says = [old.says EXCEPT ![g] = "nil"] /\ new.answered = old.answered
      /\ new.wants = old.wants
      /\ new \in Sheet
  BY DEF Without, Sheet
<1>2. old.open
  BY DEF Consistent, Closed
<1>3. \A x \in Guests : new.says[x] = IF x = g THEN "nil" ELSE old.says[x]
  BY <1>1 DEF Sheet
<1>4. Consistent(new) /\ Stays(old, new)
  BY <1>1, <1>2, <1>3 DEF Consistent, Stays, Sheet
<1>5. g \in old.companions /\ Promised(old) => Promised(new)
  BY <1>1, <1>3 DEF Promised, Invitees, Sheet
<1> QED
  BY <1>1, <1>4, <1>5

\* The hosts' acts keep the sheet and what it says.
LEMMA HostKeeps ==
    ASSUME NEW old \in Sheet, Consistent(old), NEW new,
           \/ Open(old, new) \/ Close(old, new) \/ Amend(old, new)
           \/ \E g \in Guests \ old.members : Enlist(old, new, g)
           \/ \E g \in Guests : Strike(old, new, g)
    PROVE  /\ new \in Sheet /\ Consistent(new) /\ Stays(old, new)
<1>1. CASE Open(old, new) \/ Close(old, new)
  <2>1. new \in {Closed, [Closed EXCEPT !.open = TRUE]}
    BY <1>1 DEF Open, Close
  <2>2. new.members = {}
    BY <2>1 DEF Closed
  <2> QED
    BY <2>1, <2>2, BlankSheet DEF Stays
<1>2. CASE Amend(old, new)
  <2>1. /\ new \in Sheet /\ new.open = old.open /\ old.open /\ new.members = old.members
        /\ new.companions = old.companions /\ new.says = old.says
    BY <1>2 DEF Amend, Sheet
  <2> QED
    BY <2>1 DEF Consistent, Stays
<1>3. CASE \E g \in Guests \ old.members : Enlist(old, new, g)
  <2>1. PICK g \in Guests \ old.members : Enlist(old, new, g)
    BY <1>3
  <2>2. /\ new \in Sheet /\ new.open = old.open /\ old.open /\ new.members = old.members \cup {g}
        /\ new.companions = old.companions /\ new.says = old.says
    BY <2>1 DEF Enlist, Sheet
  <2> QED
    BY <2>2 DEF Consistent, Stays
<1>4. CASE \E g \in Guests : Strike(old, new, g)
  BY <1>4, WithoutKeeps DEF Strike
<1> QED
  BY <1>1, <1>2, <1>3, <1>4

(***************************************************************************)
(* The book.                                                               *)
(***************************************************************************)
\* The book at the start keeps everything.
LEMMA BookInit ==
    ASSUME BookConstants, Init PROVE BookInv
<1>1. ASSUME NEW h \in Households
      PROVE  book[h] \in Sheet /\ Consistent(book[h]) /\ Promised(book[h])
  <2>1. AtStart[h] \in SUBSET Guests
    BY DEF BookConstants
  <2>2. book[h] = [open |-> AtStart[h] # {}, members |-> AtStart[h], companions |-> {},
                   says |-> [g \in Guests |-> "nil"], wants |-> {}, answered |-> FALSE]
    BY DEF Init, Closed
  <2>3. ~book[h].open => book[h] = Closed
    <3>1. ASSUME AtStart[h] # {} PROVE book[h].open
      <4>1. (AtStart[h] # {}) = TRUE
        BY <3>1
      <4>2. book[h] = [open |-> TRUE, members |-> AtStart[h], companions |-> {},
                       says |-> [g \in Guests |-> "nil"], wants |-> {}, answered |-> FALSE]
        BY <2>2, <4>1, Zenon
      <4> QED
        BY <4>2
    <3>2. AtStart[h] = {} => book[h] = Closed
      BY <2>2 DEF Closed
    <3> QED
      BY <3>1, <3>2
  <2>4. Consistent(book[h]) /\ Promised(book[h])
    BY <2>1, <2>2, <2>3 DEF Consistent, Promised
  <2> QED
    BY <2>1, <2>2, <2>4 DEF Sheet, Wants
<1>2. book = [h \in Households |-> book[h]]
  BY DEF Init
<1>3. Apart
  BY DEF Init, Closed, Apart, BookConstants
<1> QED
  BY <1>1, <1>2, <1>3 DEF BookInv, SheetsOK

\* One act changes one sheet and keeps all of them.
LEMMA BookStep ==
    ASSUME BookConstants, BookInv, [Next]_book
    PROVE  /\ BookInv'
           /\ \A h \in Households : Stays(book[h], book'[h])
<1>1. CASE UNCHANGED book
  BY <1>1 DEF BookInv, SheetsOK, Apart, Stays
<1>2. CASE Next
  <2>1. PICK h \in Households :
          /\ book' = [book EXCEPT ![h] = book'[h]]
          /\ \/ Answer(book[h], book'[h])
             \/ \E g \in Guests : \/ Join(book[h], book'[h], g) /\ NowhereYet(g)
                                  \/ Leave(book[h], book'[h], g)
             \/ /\ HostsEdit
                /\ \/ Open(book[h], book'[h]) \/ Close(book[h], book'[h])
                   \/ Amend(book[h], book'[h])
                   \/ \E g \in Guests : \/ Enlist(book[h], book'[h], g) /\ NowhereYet(g)
                                        \/ Strike(book[h], book'[h], g)
    BY <1>2 DEF Next
  <2> DEFINE old == book[h]
             new == book'[h]
  <2>2. old \in Sheet /\ Consistent(old) /\ (~HostsEdit => Promised(old))
    BY DEF BookInv, SheetsOK
  <2>3. \A g \in Guests : NowhereYet(g) => g \notin old.members
    BY DEF NowhereYet
  <2> DEFINE Kept == /\ new \in Sheet /\ Consistent(new) /\ Stays(old, new)
                     /\ ~HostsEdit => Promised(new)
                     /\ \A g \in new.members \ old.members : NowhereYet(g)
  <2>4. ASSUME Answer(old, new)
        PROVE  Kept
    BY <2>2, <2>4, AnswerKeeps
  <2>5. ASSUME NEW g \in Guests, Join(old, new, g), NowhereYet(g)
        PROVE  Kept
    BY <2>2, <2>3, <2>5, JoinKeeps DEF BookConstants
  <2>6. ASSUME NEW g \in Guests, Leave(old, new, g)
        PROVE  Kept
    BY <2>2, <2>6, WithoutKeeps DEF Leave, Consistent
  <2>7. ASSUME HostsEdit, Open(old, new) \/ Close(old, new) \/ Amend(old, new)
        PROVE  Kept
    <3>1. new.members \subseteq old.members
      BY <2>2, <2>7 DEF Open, Close, Amend, Closed, Sheet
    <3> QED
      BY <2>2, <2>7, <3>1, HostKeeps
  <2>8. ASSUME HostsEdit, NEW g \in Guests, Enlist(old, new, g), NowhereYet(g)
        PROVE  Kept
    <3>1. new.members = old.members \cup {g}
      BY <2>2, <2>8 DEF Enlist, Sheet
    <3> QED
      BY <2>2, <2>3, <2>8, <3>1, HostKeeps
  <2>9. ASSUME HostsEdit, NEW g \in Guests, Strike(old, new, g)
        PROVE  Kept
    <3>1. new.members = old.members \ {g}
      BY <2>2, <2>9, WithoutKeeps DEF Strike
    <3> QED
      BY <2>2, <2>9, <3>1, HostKeeps
  <2>10. Kept
    BY <2>1, <2>4, <2>5, <2>6, <2>7, <2>8, <2>9
  <2> HIDE DEF Kept
  <2>11. \A k \in Households : k # h => book'[k] = book[k]
    BY <2>1 DEF BookInv, SheetsOK
  <2>12. SheetsOK'
    BY <2>1, <2>10 DEF Kept, BookInv, SheetsOK
  <2>13. Apart'
    BY <2>10, <2>11 DEF Kept, BookInv, Apart, NowhereYet
  <2>14. \A k \in Households : Stays(book[k], book'[k])
    BY <2>10, <2>11 DEF Kept, Stays
  <2> QED
    BY <2>10, <2>11, <2>12, <2>13, <2>14 DEF Kept, BookInv
<1> QED
  BY <1>1, <1>2

\* The invariant is stronger than the promises.
LEMMA PromisesHold ==
    ASSUME BookInv PROVE SheetsOK /\ SheetsConsistent /\ ListPromises
  BY DEF BookInv, Apart, Consistent, Promised, SheetsConsistent, ListPromises

\* Every act keeps the sheets apart and, when the hosts leave the list alone,
\* one companion at most and an answer of everybody invited on every answered
\* sheet (CanHouseholdAddPlusOne, matchSubmissionToMembers).
THEOREM BookKept == ASSUME BookConstants
                    PROVE  Spec => [](SheetsOK /\ SheetsConsistent /\ ListPromises)
<1>1. Init => BookInv
  BY BookInit
<1>2. BookInv /\ [Next]_book => BookInv'
  BY BookStep
<1>3. BookInv => SheetsOK /\ SheetsConsistent /\ ListPromises
  BY PromisesHold
<1> QED
  BY <1>1, <1>2, <1>3, PTL DEF Spec

\* Nothing a member has said is taken back to nothing, by the household or by
\* the hosts (SaveAnswer writes whole answers, GuestStore.Update no scope).
THEOREM BookRemembers == ASSUME BookConstants PROVE Spec => SaidStaysSaid
<1> DEFINE Said == \A h \in Households : \A g \in book[h].members \cap book'[h].members :
                      book[h].says[g] # "nil" => book'[h].says[g] # "nil"
<1>1. Init => BookInv
  BY BookInit
<1>2. BookInv /\ [Next]_book => BookInv'
  BY BookStep
<1>3. BookInv /\ [Next]_book => Said
  BY BookStep DEF Stays
<1> QED
  BY <1>1, <1>2, <1>3, PTL DEF Spec, SaidStaysSaid
=============================================================================
