SPECIFICATION DoorsSpec
CONSTANTS
    Browsers = {b1, b2}
    Providers = {github, google}
    Discovered = {google}
    Attempts = {a1, a2}
    Codes = {c1, c2}
    Subjects = {s1}
    Reqs = {r1, r2}
    None = None
    CodeReqs = {r1, r2}
    MaxAttempts = 3
    MaxIssues = 2
    MaxCrashes = 2
    NoCode = NoCode
    v4 = v4
    v6 = v6
    net64 = net64
    proxy = proxy
    Clients = {v4, v6}
    Proxies = {proxy}
    Network <- MCNetwork
    Sent <- MCSent
    Named <- MCNamed
    Threads = {t1, t2}
    RuleMax = 1
    Window = 2
    SweepEvery = 1
    Lag = 1
    EndOfTime = 2
    NoWindow = NoWindow
    NoCall = NoCall
    NoAddr = NoAddr
INVARIANTS SameBucket
CHECK_DEADLOCK FALSE
