SPECIFICATION Spec
CONSTANTS
    a1 = a1
    a2 = a2
    c1 = c1
    c2 = c2
    None = None
    CreatorRequests = {c1, c2}
    AdminRequests = {a1, a2}
    Kinds = {"submit", "approve"}
    ProcessTypes = {"proposal"}
    AutoApprove = TRUE
    Productions = {TRUE}
    MaxAttempts = 2
    MaxRequests = 5
    MaxFailures = 2
    MaxLost = 1
    MaxCrashes = 0
SYMMETRY Symmetry
INVARIANTS
    ClaimExclusive
    ApprovedIsPosted
    AnnouncedOnce
    QueuedOnce
CHECK_DEADLOCK FALSE
