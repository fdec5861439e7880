SPECIFICATION Spec
CONSTANTS
    r1 = r1
    r2 = r2
    here = here
    Requests = {r1, r2}
    IPs = {here}
    Realms = {"hub", "console"}
    Kinds = {"ask", "type", "link", "leave"}
    MaxTries = 2
    LiveCodes = 2
    PerHour = 2
    WrongTries = 1
    MaxRequests = 5
    MaxIssued = 3
    MaxFaults = 1
SYMMETRY Symmetry
INVARIANTS
    CodeOpensOneSession
    GuessesBounded
    HourlyLimit
    DemoSessionsEnd
PROPERTIES
    OwnersCodeStays
CHECK_DEADLOCK FALSE
