SPECIFICATION Spec
CONSTANTS
    MaxLength = 6
    Longest = 7
INVARIANTS
    LoggedAsSent
    AnswersReadable
    FaultsAreOurs
    AddressesChecked
