SPECIFICATION Spec
CONSTANTS
    Texts <- MCTexts
    Blank = ""
    TrimSpace <- MCTrim
    Requests = {r1, r2}
    MaxHouseholds = 1
    MaxGuests = 1
    Invited <- MCAlone
    HouseOf <- MCAloneHouse
    Operations = {"Save", "UpdateHousehold"}
    MemberAnswers <- MCAnswers
    HouseholdAnswers <- MCHouseholdAnswers
    GuestPatches <- MCPatches
    Drafts <- MCDrafts
    PlusOneNames <- MCPlusOneNames
    Labels = {"old", "new"}
    Deadline = 1
    MaxClock = 1
SYMMETRY RequestSymmetry
PROPERTIES AdminPatchLeavesAnswer
CHECK_DEADLOCK FALSE
