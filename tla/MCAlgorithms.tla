---------------------------- MODULE MCAlgorithms ----------------------------
(***************************************************************************)
(* A bounded set of questions for TLC.                                     *)
(***************************************************************************)
EXTENDS Algorithms, TLC

MCUpper == "a" :> "A" @@ "z" :> "Z" @@ "l" :> "L"
MCUnmap == [address \in {"client", "other", "proxy", "edge"} |-> address]
             @@ "mapped client" :> "client" @@ "mapped proxy" :> "proxy"
MCCharacters == Range(codeAlphabet) \cup DOMAIN Upper \cup Separators

UpTo(n, S) == UNION {[1 .. k -> S] : k \in 0 .. n}

Matching == [about : {"members"}, submitted : UpTo(3, [id : Ids, answer : Replies]),
             members : {members \in UpTo(3, Ids) : IsInjective(members)}]

Headers == UpTo(2, {"client", "other", "proxy", "mapped proxy", "none"})

Attribution == [about : {"address"}, header : Headers, client : {"client", "mapped client"},
                route : UpTo(2, {"proxy", "edge", "mapped proxy"})]

Prefixing == [about : {"left"}, peer : {"proxy", "client"},
              left : {<<"other">>, <<"client", "proxy">>}, header : Headers]

\* Bytes at both ends of the alphabet, and of a byte.
Randoms == [1 .. codeLength -> {7, 24, 255}]

\* A separator before some characters and at the end, some letters lowered.
Lower(character) ==
    IF \E c \in DOMAIN Upper : Upper[c] = character
    THEN CHOOSE c \in DOMAIN Upper : Upper[c] = character ELSE character

Typed(code, separator, separated, lowered) ==
    FlattenSeq([i \in DOMAIN code |->
        (IF i \in separated THEN <<separator>> ELSE <<>>)
            \o <<IF i \in lowered THEN Lower(code[i]) ELSE code[i]>>]) \o <<separator>>

\* Each code as it may be typed, and an input that lacks its end.
Typing == UNION {
    LET typed == Typed(GenerateCode(random), separator, separated, lowered) IN
    {[about |-> "code", random |-> random, input |-> input] :
        input \in {typed, SubSeq(typed, 1, 5)}} :
      random \in {r \in Randoms : r[1] = 24 /\ r[6] # 7},
      separator \in {"-", " "}, separated \in {{}, {4}, {1, 3, 5}},
      lowered \in {{}, 1 .. 6, {2, 4}}}

Assigning == [about : {"assign"}, exists : BOOLEAN, others : SUBSET {"K1", "K2"},
              generated : [1 .. 6 -> {"K1", "K2", "K3"}]]

MCQuestions == Matching \cup Attribution \cup Prefixing \cup Typing \cup Assigning

\* What is typed for a code is typed for it, or the run would ask nothing.
ASSUME TypingAssumption ==
    \A q \in Typing : Len(q.input) > 5 => TypedFor(q.input, GenerateCode(q.random))
=============================================================================
