SPECIFICATION Spec
CONSTANTS
    Addresses = {"client", "other", "proxy", "edge", "mapped client", "mapped proxy"}
    Unmap <- MCUnmap
    TrustedProxies = {"proxy", "edge"}
    Garbage = "none"
    Separators = {"-", " "}
    Upper <- MCUpper
    Ids = {1, 2, 3}
    Replies = {"yes", "no"}
    Characters <- MCCharacters
    Questions <- MCQuestions
INVARIANTS MatchIsExact AttributedToClient CodesAreReadBack CollisionsAreRetried
