SPECIFICATION FairSpec
CONSTANTS
    b1 = b1
    b2 = b2
    w1 = w1
    Bookings = {b1, b2}
    Workers = {w1}
    MaxRes = 2
    MaxFaults = 2
    PageSize = 2
    AutoAccept = TRUE
    Events = {"webhook", "poll", "sync", "staff"}
    Faults = {"portal", "mapping", "create", "fetch", "haCancel", "sticky"}
    None = None
INVARIANTS OneStay
PROPERTIES GuestCancelArrives
