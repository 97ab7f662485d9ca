SPECIFICATION Spec
CONSTANTS
    Texts <- MCTexts
    Blank = ""
    TrimSpace <- MCTrim
    Requests = {r1, r2}
    MaxHouseholds = 1
    MaxGuests = 2
    Invited <- MCAlone
    HouseOf <- MCAloneHouse
    Operations <- HouseholdRun
    MemberAnswers <- MCAnswers
    HouseholdAnswers <- MCHouseholdAnswers
    GuestPatches <- MCPatches
    Drafts <- MCDrafts
    PlusOneNames <- MCPlusOneNames
    Labels = {"old"}
    Deadline = 1
    MaxClock = 1
SYMMETRY RequestSymmetry
INVARIANTS SeatsJustified
CHECK_DEADLOCK FALSE
