SPECIFICATION Spec
CONSTANTS
    a1 = a1
    a2 = a2
    p1 = p1
    p2 = p2
    Requests = {a1, a2}
    People = {p1, p2}
    Productions = {TRUE, FALSE}
    Limits = {1, 2}
    FirstLimit = 1
    Ends = {1, 3}
    FirstEnd = 1
    MaxTime = 2
    MaxTexts = 2
    MaxRequests = 4
    MaxAttempts = 2
SYMMETRY Symmetry
INVARIANTS
    WithinLimit
    CalendarMatches
    ToldWhatHappened
    OnRecord
PROPERTIES
    CancellationFinal
CHECK_DEADLOCK FALSE
