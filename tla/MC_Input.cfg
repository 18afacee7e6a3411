CONSTANTS
    INPUT_BYTES = 6
    INPUT_WCHARS = 2
    Sources <- MCSources
    LeastInt <- MCLeastInt
    GreatestInt = 15
    DigitsRoom = 3
SPECIFICATION NumericSpec
INVARIANTS
    ReadsTheText
    EofIsHonest
    RefusesOnlyNonText
    NumbersAreExact
