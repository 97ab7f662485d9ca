SPECIFICATION Spec
CONSTANTS
    Texts <- MCTexts
    Blank = ""
    TrimSpace <- MCTrim
    Requests = {r1, r2}
    MaxHouseholds = 1
    MaxGuests = 1
    Invited <- MCChild
    HouseOf <- MCAloneHouse
    Operations <- AdminRun
    MemberAnswers <- MCChildAnswers
    HouseholdAnswers <- MCHouseholdAnswers
    GuestPatches <- MCPatches
    Drafts <- MCDrafts
    PlusOneNames <- MCPlusOneNames
    Labels = {"old", "new"}
    Deadline = 1
    MaxClock = 0
SYMMETRY RequestSymmetry
INVARIANTS AgesOnlyForChildren GuestsHaveHouseholds
PROPERTIES KeepsTheBook
CHECK_DEADLOCK FALSE
