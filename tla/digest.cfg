SPECIFICATION Spec
CONSTANTS
    u1 = u1
    p1 = p1
    cron = cron
    hand = hand
    Users = {u1}
    Procs = {p1}
    Cron = cron
    ByHand = {hand}
    Freq <- Daily
    Day = 3
    Slack = 1
    Window = 7
    MaxEvents = 2
    MaxChanges = 2
    MaxForced = 1
    MaxFaults = 1
INVARIANTS
    MailedOnce
    NoneSkipped
    UnshownNotMailed
PROPERTIES
    Mailed
CHECK_DEADLOCK FALSE
