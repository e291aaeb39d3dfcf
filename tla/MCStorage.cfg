SPECIFICATION Spec
CONSTANTS
    Users = {u1, u2}
    Rowids = {r1, r2}
    Texts = {t1}
    Works = {w1}
    Last = 10
    NoText = NoText
    NoEntry = NoEntry
    NoBook = NoBook
    NoWork = NoWork
INVARIANTS ServesWhole NothingDangles IndexAgrees CopiesAlign
PROPERTIES UpgradeKeepsRows StartComesUp
CHECK_DEADLOCK FALSE
