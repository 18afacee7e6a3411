CONSTANTS
    WordBits = 10
    ImmBits = 9
    MaxHalf = 1100
    PageBytes = 64
    StackMargin = 160
    CalleeBytes = 40
    Cases <- MCCases
    Heap <- MCHeap
SPECIFICATION Spec
VIEW
    View
INVARIANTS
    ShowsWhatItMeans
    KeepsTheConvention
    OnlyRealInstructions
    NeverTraps
