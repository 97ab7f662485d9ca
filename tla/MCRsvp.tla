------------------------------- MODULE MCRsvp -------------------------------
(***************************************************************************)
(* Small instances of Rsvp for TLC.  A cfg chooses the operations, so that *)
(* each run puts the ones it asks about into the same state space.         *)
(***************************************************************************)
EXTENDS RsvpBook, TLC

MCTexts == {"", "  ", "Ada", " Ada", "Bo"}
MCTrim  == [text \in MCTexts |-> CASE text = " Ada" -> "Ada" [] text = "  " -> "" [] OTHER -> text]

Answer(attending, meal, portion) ==
    [name |-> " Ada", attending |-> attending, meal |-> meal, portion |-> portion,
     snack |-> FALSE, seatingNeed |-> "normal", age |-> Null]

\* Everybody comes, everybody stays at home, or only to church with a meal
\* the form still carries.
MCAnswers == {Answer("both", "vegan", "full"), Answer("church_only", "all", "kids")}

\* A child comes, with a high chair or an age or both, or only to church.
MCChildAnswers ==
    {[Answer("both", "all", "kids") EXCEPT !.seatingNeed = need, !.age = age] :
        need \in {"normal", "high_chair"}, age \in {Null, 4}}
    \cup {Answer("church_only", "all", "kids")}

HouseholdHalf(needed, offered, taxi) ==
    [needed |-> needed, offered |-> offered, taxi |-> taxi, note |-> ""]

MCHouseholdAnswers == {HouseholdHalf(0, 0, 1), HouseholdHalf(2, 0, 0)}

Member(kind) ==
    [name |-> "Bo", seededName |-> "Bo", kind |-> kind, origin |-> "seeded", age |-> Null,
     seatingNeed |-> "normal", attending |-> "nil", meal |-> "nil", portion |-> "full",
     snack |-> FALSE]

MCAlone     == 1 :> Member("adult")
MCAloneHouse == 1 :> 1
MCChild     == 1 :> Member("child")

Patch(kind) == [nameSet |-> FALSE, name |-> "", kind |-> kind, ageSet |-> FALSE, age |-> Null,
                seatingNeed |-> "absent"]

MCPatches == {Patch("adult"), Patch("child"), [Patch("absent") EXCEPT !.ageSet = TRUE, !.age = 4]}

MCDrafts       == {Member("adult"), [Member("adult") EXCEPT !.seatingNeed = "high_chair"]}
MCPlusOneNames == {"Ada"}

HouseholdRun == {"Save", "AddPlusOne", "RemoveMember"}

AdminRun     == AdminOperations

RequestSymmetry == Permutations(Requests)
=============================================================================
