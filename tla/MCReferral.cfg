SPECIFICATION SocialSpec
CONSTANTS
    Users = {u1, u2, u3}
    Days = {d1}
    IPs = {ip1, ip2}
    NoUser = NoUser
    NoIP = NoIP
    Goal = 2
    QualifyDays = 1
    MaxCrashes = 1
SYMMETRY Symmetric
INVARIANTS NeverSelf PaidOncePerCrash FriendsCanPart
CHECK_DEADLOCK FALSE
