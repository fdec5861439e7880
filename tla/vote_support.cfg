SPECIFICATION Spec
CONSTANTS
    u1 = u1
    u2 = u2
    u3 = u3
    r1 = r1
    r2 = r2
    t1 = t1
    t2 = t2
    yes = yes
    no = no
    None = None
    Users = {u1, u2, u3}
    Admins = {u1}
    Receipts = {r1, r2}
    Choices = {yes, no}
    Threads = {t1, t2}
    Kinds = {"propose", "support", "unsupport", "vote", "close", "deadline", "archive", "restore"}
    Mode = "proposal_required"
    Threshold = 2
    Productions = {TRUE, FALSE}
    BriefsOn = TRUE
    MaxAttempts = 2
    MaxRequests = 6
    MaxCrashes = 0
SYMMETRY Symmetry
INVARIANTS
    OpenedByThreshold
    CountMatches
    LogMatchesRow
    RemovalsAccounted
PROPERTIES
    EndorsementsKept
    ResultFrozen
CHECK_DEADLOCK FALSE
