SPECIFICATION FairSpec
CONSTANTS
    u1 = u1
    u2 = u2
    r1 = r1
    r2 = r2
    t1 = t1
    t2 = t2
    yes = yes
    no = no
    None = None
    Users = {u1, u2}
    Admins = {u1}
    Receipts = {r1, r2}
    Choices = {yes, no}
    Threads = {t1, t2}
    Kinds = {"activate", "vote", "close", "archive", "restore", "deadline"}
    Mode = "direct"
    Threshold = 5
    Productions = {TRUE, FALSE}
    BriefsOn = TRUE
    MaxAttempts = 2
    MaxRequests = 3
    MaxCrashes = 1
INVARIANT
    BriefIsFinalTally
PROPERTIES
    ImplementsOutcome
    DeadlineCloses
    BriefFollows
CHECK_DEADLOCK FALSE
