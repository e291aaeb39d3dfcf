SPECIFICATION FairSpec
CONSTANTS
    Requests = {r1, r2, r3}
    MaxConcurrent = 1
    MaxRedirects = 1
    Limit = 1
    LastWeek = 1
    Rows = {b1, b2, b3}
    Idle = Idle
    NoBook = NoBook
INVARIANTS NeverContactsPrivate ChildrenBounded NoIdleSlot WeeklyQuota
PROPERTIES EveryRequestEnds
CHECK_DEADLOCK FALSE
