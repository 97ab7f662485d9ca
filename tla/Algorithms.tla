----------------------------- MODULE Algorithms -----------------------------
(***************************************************************************)
(* The pure functions, each asked a question and held against the          *)
(* reference it has to agree with: submissions matched with members,       *)
(* addresses behind proxies, codes drawn, drawn again while they are taken *)
(* and typed from the card.  A question is asked at the start and nothing  *)
(* happens after it.                                                       *)
(***************************************************************************)
EXTENDS MemberSet, ClientAddress, LoginCode

CONSTANTS
    Ids,        \* the ids a submission may carry
    Replies,    \* what may be answered for one of them
    Characters, \* what a guest may type
    Questions   \* what is asked

VARIABLE question

\* The ids of members differ, for they are a primary key.
AboutMembers(q) ==
    /\ q.about = "members"
    /\ q.submitted \in Seq([id : Ids, answer : Replies])
    /\ q.members \in Seq(Ids) /\ IsInjective(q.members)

AboutAddress(q) ==
    /\ q.about = "address"
    /\ q.header \in Seq(Addresses \cup {Garbage})
    /\ q.client \in Addresses
    /\ q.route \in Seq({address \in Addresses : isTrustedAddr(address)})

AboutLeft(q) ==
    /\ q.about = "left"
    /\ q.peer \in Addresses
    /\ q.left \in Seq(Addresses \cup {Garbage}) /\ q.header \in Seq(Addresses \cup {Garbage})

AboutCode(q) ==
    /\ q.about = "code"
    /\ q.random \in [1 .. codeLength -> Byte]
    /\ q.input \in Seq(Characters)

AboutAssigning(q) == q.about = "assign" /\ q.exists \in BOOLEAN

ASSUME QuestionsAssumption ==
    \A q \in Questions : \/ AboutMembers(q) \/ AboutAddress(q) \/ AboutLeft(q)
                         \/ AboutCode(q) \/ AboutAssigning(q)

Init == question \in Questions

Next == UNCHANGED question

Spec == Init /\ [][Next]_question

(***************************************************************************)
(* Properties.                                                             *)
(***************************************************************************)
\* Matching loses no answer and invents none (matchSubmissionToMembers).
MatchIsExact ==
    question.about = "members" => ExactMatch(question.submitted, question.members)

\* A request is its client's, whatever header it brings along and through
\* however many of our proxies it comes, and an entry that is foreign or
\* unreadable ends the search for it (resolveClientIP).
AttributedToClient ==
    /\ question.about = "address" =>
          AttributedTo(question.header, question.client, question.route)
    /\ question.about = "left" => LeftHasNoSay(question.peer, question.left, question.header)

\* A drawn code is found again however it is typed (GenerateCode,
\* NormalizeCode, ValidateCode), and the drawing favours no character.
CodesAreReadBack ==
    question.about = "code" => ReadBack(question.random, question.input) /\ EvenlyDrawn

\* A code another household has is drawn again, up to five times, and nothing
\* else is tried again: a household gets a code of its own or none at all
\* (withGeneratedCode and the UNIQUE index behind it).
CollisionsAreRetried ==
    question.about = "assign" =>
        CollisionsRetried(question.exists, question.others, question.generated)
=============================================================================
