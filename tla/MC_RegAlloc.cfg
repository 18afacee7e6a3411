CONSTANTS
    CallerSavedList <- MCOneCaller
    CalleeSavedList <- MCOneCallee
    LastIndex = 6
    IntervalLists <- MCOneCall
SPECIFICATION Spec
INVARIANTS
    Bookkeeping
    SavedExactly
PROPERTY
    ImplementsLinearScan
