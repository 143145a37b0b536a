SPECIFICATION FairSpec
CONSTANTS
    b1 = b1
    w1 = w1
    w2 = w2
    Bookings = {b1}
    Workers = {w1, w2}
    MaxRes = 1
    MaxFaults = 1
    PageSize = 1
    AutoAccept = TRUE
    Events = {"webhook", "poll", "sync", "unpaid"}
    Faults = {"fetch", "haCancel", "mapping", "create"}
    None = None
PROPERTIES ProviderCancelReachesPortal
