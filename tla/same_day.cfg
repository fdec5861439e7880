SPECIFICATION Spec
CONSTANTS
    cron = cron
    MeetingCount = 2
    Runs = {cron}
    Requests = {}
    Kinds = {}
    Cap = 2
    Legacy = FALSE
    MaxRows = 2
    MaxTexts = 2
    MaxRequests = 0
INVARIANTS
    AboutItsMeeting
CHECK_DEADLOCK FALSE
