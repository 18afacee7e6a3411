CONSTANT
    Functions <- MCFunctions
SPECIFICATION Spec
INVARIANTS
    NeverAstray
    DoneIsExact
PROPERTY
    Terminates
