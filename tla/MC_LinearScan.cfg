CONSTANTS
    CallerSaved = {0}
    CalleeSaved = {1}
    LastIndex = 5
    IntervalLists <- MCAnyCalls
SPECIFICATION Spec
INVARIANTS
    CallSafe
    NeededApart
    OnlyEvictionShares
