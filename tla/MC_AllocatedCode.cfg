CONSTANTS
    CallerSavedList <- MCOneCaller
    CalleeSavedList <- MCOneCallee
    IntervalLists <- MCNoLists
    Functions <- MCFunctions
SPECIFICATION RunSpec
INVARIANTS
    OperandsSurvive
    LiveValuesSurvive
    UnevictedSurvive
