SPECIFICATION Spec
CONSTANTS
    a1 = a1
    c1 = c1
    None = None
    CreatorRequests = {c1}
    AdminRequests = {a1}
    Kinds = {"submit", "resubmit", "revise", "withdraw", "reopen", "approve", "request_changes", "decline"}
    ProcessTypes = {"vote", "conversation"}
    AutoApprove = FALSE
    Productions = {TRUE, FALSE}
    MaxAttempts = 2
    MaxRequests = 5
    MaxFailures = 1
    MaxLost = 1
    MaxCrashes = 1
SYMMETRY Symmetry
INVARIANTS
    AnnouncedOnce
    ApprovalOnRecord
    DecisionsAgree
PROPERTIES
    PublicTextKept
CHECK_DEADLOCK FALSE
