SPECIFICATION LiveSpec
CONSTANTS
    cron = cron
    a1 = a1
    MeetingCount = 1
    Runs = {cron}
    Requests = {a1}
    Kinds = {"edit", "approve", "confirm", "accept", "acceptConfirmed", "discard", "archive", "restore"}
    Cap = 1
    Legacy = TRUE
    MaxRows = 2
    MaxTexts = 2
    MaxRequests = 1
INVARIANTS
    FlaggedNeedsConfirm
    OneSummary
PROPERTIES
    MinutesArrive
    EditsKept
CHECK_DEADLOCK FALSE
