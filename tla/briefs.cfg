SPECIFICATION Spec
CONSTANTS
    a1 = a1
    a2 = a2
    o1 = o1
    o2 = o2
    Officials = {o1, o2}
    Requests = {a1, a2}
    MaxRequests = 5
    MaxTexts = 3
    MaxTouches = 2
SYMMETRY Symmetry
INVARIANTS
    NothingLost
    MailedPerApproval
    PublishedAsMailed
    OneSummary
CHECK_DEADLOCK FALSE
