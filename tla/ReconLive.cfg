SPECIFICATION FairSpec
CONSTANTS
    p1 = p1
    r1 = r1
    w1 = w1
    w2 = w2
    Payments = {p1}
    Reservations = {r1}
    Workers = {w1, w2}
    MaxCharges = 1
    MaxCrashes = 0
    Requests = {"ingest", "poll", "retry", "undo", "hostaway"}
    Faults = {"archived", "lost", "inbox", "cancel"}
    None = None
    Offline = Offline
INVARIANTS PollLock
PROPERTIES ReceivedIsDecided
