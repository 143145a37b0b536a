SPECIFICATION Spec
CONSTANTS
    b1 = b1
    b2 = b2
    w1 = w1
    w2 = w2
    Bookings = {b1, b2}
    Workers = {w1, w2}
    MaxRes = 2
    MaxFaults = 1
    PageSize = 2
    AutoAccept = TRUE
    Events = {"webhook", "unpaid"}
    Faults = {"lost", "crash", "haCancel"}
    None = None
SYMMETRY Symmetry
INVARIANTS LinkInv
PROPERTIES AcceptedIsImported
