SPECIFICATION Spec
CONSTANTS
    Guests = {g}
    Members = {m}
    Works <- MCWorks
    MaxBooks = 3
    MaxTokens = 2
    NoBook = NoBook
INVARIANTS LinksServeTheirBook RevokedStaysRevoked
PROPERTIES LinksEndByTheOwner
CHECK_DEADLOCK FALSE
