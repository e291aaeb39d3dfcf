SPECIFICATION Spec
CONSTANTS
    Users = {a, b}
    Registered = {a, b}
    Sessions = {s1}
    Requests = {r1, r2}
    MaxDemotions = 1
    Token = Token
    NoRow = NoRow
    NoSession = NoSession
    Idle = Idle
INVARIANTS SessionsDieWithDemotion
CHECK_DEADLOCK FALSE
