SPECIFICATION Spec
CONSTANTS
    Users = {u1, u2, u3}
    Emails = {e1, e2}
    Tokens = {t1, t2}
    Subs = {s1}
    Items = {i1, i2}
    Reqs = {r1, r2}
    NoUser = NoUser
    NoEmail = NoEmail
    NoToken = NoToken
SYMMETRY Symmetric
INVARIANTS NothingOutlivesItsUser CookieSettled OneAccountPerEmail
PROPERTIES IdentityStable ImplementsCustody
CHECK_DEADLOCK FALSE
