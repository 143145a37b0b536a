SPECIFICATION Spec
CONSTANTS
    p1 = p1
    r1 = r1
    r2 = r2
    w1 = w1
    w2 = w2
    Payments = {p1}
    Reservations = {r1, r2}
    Workers = {w1, w2}
    MaxCharges = 2
    MaxCrashes = 1
    Requests = {"ingest", "confirm", "undo", "retry", "skip"}
    Faults = {"cancel", "lost", "inbox", "stalePage"}
    None = None
    Offline = Offline
SYMMETRY Symmetry
INVARIANTS OwnershipInv AllocationsAgree
PROPERTIES KeepsLedger
