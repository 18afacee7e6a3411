CONSTANTS
    Least <- MCLeast
    Greatest = 7
    MaxInt = 7
    Enums <- MCEnums
    Signatures <- MCSignatures
    Programs <- MCPrograms
    Listings <- MCListings
    Slips <- MCSlips
    Literals <- MCLiterals
    MaxNesting = 12
    ArgumentLists <- MCArgumentLists
    AnswerLists <- MCAnswerLists
    Patience = 5
    MaxSteps = 80
CHECK_DEADLOCK FALSE
SPECIFICATION Spec
INVARIANTS
    ReadsAsWritten
    CarriesOn
    ForgottenEndsAreReported
    RunsAsWritten
    AcceptedNeverAstray
    DeadArmsNeverRun
