SPECIFICATION Spec
CONSTANTS
    Rows <- MCRows
    StartTable <- MCStartTable
    FirstPages = {0, 1, 2, 3, 5}
    PageSizes = {0, 1, 2, 3}
    Modulus = 8
    MaxChanges = 3
INVARIANTS TypeOK MissedFew RepeatedFew PagesAreSlices
CHECK_DEADLOCK FALSE
