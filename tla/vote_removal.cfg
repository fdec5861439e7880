SPECIFICATION Spec
CONSTANTS
    u1 = u1
    u2 = u2
    r1 = r1
    r2 = r2
    t1 = t1
    t2 = t2
    yes = yes
    no = no
    None = None
    Users = {u1, u2}
    Admins = {u1}
    Receipts = {r1, r2}
    Choices = {yes, no}
    Threads = {t1, t2}
    Kinds = {"activate", "vote", "close", "deadline", "archive", "restore"}
    Mode = "direct"
    Threshold = 5
    Productions = {TRUE}
    BriefsOn = TRUE
    MaxAttempts = 2
    MaxRequests = 5
    MaxCrashes = 0
SYMMETRY Symmetry
INVARIANT
    RemovalUndone
CHECK_DEADLOCK FALSE
