CONSTANTS
    MaxInt = 2
    MaxSteps = 60
    Functions <- MCFunctions
    Answers = {0, 1}
SPECIFICATION Spec
INVARIANTS
    SameRun
    StaysSsa
    DominatorsAreNearest
PROPERTY
    P_RoundsRemove
