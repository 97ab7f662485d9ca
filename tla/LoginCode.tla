----------------------------- MODULE LoginCode -----------------------------
(***************************************************************************)
(* The printed code of a household: drawn at random, typed by a guest,     *)
(* normalised and checked (domain/code), and drawn again when another      *)
(* household has it (persistence/household).  A character is a string of   *)
(* one.                                                                    *)
(***************************************************************************)
EXTENDS Naturals, FiniteSets, SequencesExt

CONSTANTS
    Separators,     \* white space and dashes
    Upper           \* unicode.ToUpper of the characters that have one

codeLength == 6

codeAssignmentAttempts == 5

\* Variant: L goes as well, for it looks like 1.
AlphabetWithoutL == SelectSeq(<<"2", "3", "4", "5", "6", "7", "8", "9", "A", "B", "C",
      "D", "E", "F", "G", "H", "J", "K", "L", "M", "N", "P", "Q", "R", "S", "T", "U",
      "V", "W", "X", "Y", "Z">>, LAMBDA character : character # "L")

codeAlphabet ==
    <<"2", "3", "4", "5", "6", "7", "8", "9", "A", "B", "C", "D", "E", "F", "G", "H",
      "J", "K", "L", "M", "N", "P", "Q", "R", "S", "T", "U", "V", "W", "X", "Y", "Z">>

ASSUME LoginCodeAssumption ==
    /\ Range(codeAlphabet) \cap Separators = {}
    /\ Range(codeAlphabet) \cap DOMAIN Upper = {}

Byte == 0 .. 255

CharacterOf(byte) == codeAlphabet[(byte % Len(codeAlphabet)) + 1]

GenerateCode(random) == [i \in 1 .. codeLength |-> CharacterOf(random[i])]

ToUpper(character) == IF character \in DOMAIN Upper THEN Upper[character] ELSE character

\* What is written of the first characters of an input.
Normalized(input, characters) ==
    LET written[n \in 0 .. characters] ==
          IF n = 0 THEN <<>>
          ELSE IF input[n] \in Separators THEN written[n - 1]
          ELSE Append(written[n - 1], ToUpper(input[n]))
    IN  written[characters]

NormalizeCode(input) == Normalized(input, Len(input))

ValidateCode(code) == Len(code) = codeLength /\ Range(code) \subseteq Range(codeAlphabet)

\* What a write answers: the code it stored, that the UNIQUE index refused it,
\* or that there is no such household.
Assigned(code) == [outcome |-> "stored", code |-> code]
Collision    == [outcome |-> "collision"]
NotFound     == [outcome |-> "not found"]

\* AssignNewCode's update: no row matches the id, or another household has the
\* code; the household's own is none too many.
UpdateCode(exists, others, code) ==
    IF ~exists THEN NotFound ELSE IF code \in others THEN Collision ELSE Assigned(code)

\* What the write answered last, after some attempts: only a collision is worth
\* another.
Attempted(exists, others, generated, attempts) ==
    LET answer[n \in 0 .. attempts] ==
          IF n = 0 THEN Collision
          ELSE IF answer[n - 1] = Collision THEN UpdateCode(exists, others, generated[n])
          ELSE answer[n - 1]
    IN  answer[attempts]

\* Variant: the loop stops one attempt early.
WithGeneratedCodeOnceLess(exists, others, generated) ==
    Attempted(exists, others, generated, codeAssignmentAttempts - 1)

withGeneratedCode(exists, others, generated) ==
    Attempted(exists, others, generated, codeAssignmentAttempts)

\* The first of five codes that nobody else has is the household's; the request
\* fails only if there is none, or no household.
CollisionsRetried(exists, others, generated) ==
    LET result == withGeneratedCode(exists, others, generated)
        good   == {i \in 1 .. 5 : generated[i] \notin others}
    IN  CASE ~exists         -> result = NotFound
          [] exists /\ good # {} -> \E i \in good : /\ result = Assigned(generated[i])
                                                 /\ \A j \in good : i <= j
          [] exists /\ good = {} -> result = Collision

\* Every character is as likely as any other (GenerateCode's modulo).
Chances(character) == Cardinality({byte \in Byte : CharacterOf(byte) = character})

EvenlyDrawn ==
    \A character, other \in Range(codeAlphabet) : Chances(character) = Chances(other)

\* What a guest may type for a code: its characters one after the other, each
\* as it is printed or in lower case, and separators before, between and after
\* them.
Place(input, n) == Cardinality({i \in 1 .. n : input[i] \notin Separators})

Prints(character, printed) ==
    \/ character = printed
    \/ character \in DOMAIN Upper /\ Upper[character] = printed

TypedFor(input, code) ==
    /\ Place(input, Len(input)) = Len(code)
    /\ \A n \in DOMAIN input :
          input[n] \notin Separators => Prints(input[n], code[Place(input, n)])

\* Whatever was drawn has the shape of a code, and however it is typed from the
\* card the look-up asks for that very code.
ReadBack(random, input) ==
    LET code == GenerateCode(random)
    IN  ValidateCode(code) /\ (TypedFor(input, code) => NormalizeCode(input) = code)
=============================================================================
