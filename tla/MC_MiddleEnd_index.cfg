CONSTANTS
    MaxInt = 2
    MaxSteps = 60
    Functions <- MCIndex
    Answers = {0, 1}
SPECIFICATION Spec
INVARIANT SameRun
