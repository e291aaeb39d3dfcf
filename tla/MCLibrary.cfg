SPECIFICATION Spec
CONSTANTS
    Guests = {g1}
    Members = {m1}
    Manifest <- OneWork
    WordCount = 1
    MaxCopies = 3
    MaxOwn = 1
    MaxRows = 4
    MaxOverdue = 1
    NoBook = NoBook
PROPERTIES FurthestCopySurvives MergeDeduplicates
CHECK_DEADLOCK FALSE
