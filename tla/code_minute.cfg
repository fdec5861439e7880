SPECIFICATION Spec
CONSTANTS
    r1 = r1
    r2 = r2
    here = here
    Requests = {r1, r2}
    IPs = {here}
    Realms = {"hub", "console"}
    Kinds = {"ask"}
    MaxTries = 2
    LiveCodes = 2
    PerHour = 2
    WrongTries = 1
    MaxRequests = 2
    MaxIssued = 2
    MaxFaults = 0
INVARIANTS
    OneEmailAMinute
CHECK_DEADLOCK FALSE
