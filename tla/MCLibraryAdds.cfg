SPECIFICATION Spec
CONSTANTS
    Guests = {g1}
    Members = {m1}
    Manifest <- OneWork
    WordCount = 1
    MaxCopies = 3
    MaxOwn = 1
    MaxRows = 5
    MaxOverdue = 1
    NoBook = NoBook
PROPERTIES AddIsIdempotent
CHECK_DEADLOCK FALSE
