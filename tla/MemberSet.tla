----------------------------- MODULE MemberSet -----------------------------
(***************************************************************************)
(* Pairing the answers of a submitted RSVP with a household's members      *)
(* (matchSubmissionToMembers in application/rsvp).  Rsvp writes the result *)
(* as "ids = members"; here is the matching itself, on lists in which an   *)
(* id may be missing, foreign or there twice.                              *)
(***************************************************************************)
EXTENDS Naturals, FiniteSets, SequencesExt

NoAnswers == [id \in {} |-> id]
Mismatch  == [ok |-> FALSE, answers |-> NoAnswers]

\* One round of the loop over the submission.
Collect(collected, entry) ==
    IF ~collected.ok \/ entry.id \in DOMAIN collected.answers THEN Mismatch
    ELSE [ok |-> TRUE,
          answers |-> [id \in DOMAIN collected.answers \cup {entry.id} |->
                         IF id = entry.id THEN entry.answer ELSE collected.answers[id]]]

\* The loop: what is collected after n rounds, and after all of them.
Collected(submitted) ==
    LET after[n \in 0 .. Len(submitted)] ==
          IF n = 0 THEN [ok |-> TRUE, answers |-> NoAnswers]
          ELSE Collect(after[n - 1], submitted[n])
    IN  after[Len(submitted)]

\* Variant: counts agree, so the sets do.
MatchByCount(submitted, members) ==
    IF Len(submitted) # Len(members) THEN Mismatch ELSE Collected(submitted)

matchSubmissionToMembers(submitted, members) ==
    LET collected == Collected(submitted) IN
    IF \/ Len(submitted) # Len(members)
       \/ ~collected.ok
       \/ \E i \in DOMAIN members : members[i] \notin DOMAIN collected.answers
    THEN Mismatch ELSE collected

\* A submission describes exactly the household: every entry is a member's,
\* every member has one entry.
Describes(submitted, members) ==
    /\ {submitted[i].id : i \in DOMAIN submitted} = Range(members)
    /\ \A i, j \in DOMAIN submitted : submitted[i].id = submitted[j].id => i = j

\* No answer is lost and none is invented: a submission is accepted exactly if
\* it describes the household, and every member gets the answer sent for it.
ExactMatch(submitted, members) ==
    LET matched == matchSubmissionToMembers(submitted, members) IN
    /\ matched.ok = Describes(submitted, members)
    /\ matched.ok => /\ DOMAIN matched.answers = Range(members)
                     /\ \A i \in DOMAIN submitted :
                           matched.answers[submitted[i].id] = submitted[i].answer
=============================================================================
