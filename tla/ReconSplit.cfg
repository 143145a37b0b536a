SPECIFICATION Spec
CONSTANTS
    p1 = p1
    r1 = r1
    r2 = r2
    w1 = w1
    Payments = {p1}
    Reservations = {r1, r2}
    Workers = {w1}
    MaxCharges = 3
    MaxCrashes = 0
    Requests = {"ingest", "poll", "confirm", "skip", "retry", "undo", "plan", "hostaway", "listing"}
    Faults = {"note", "archived", "pollJob"}
    None = None
    Offline = Offline
SYMMETRY Symmetry
INVARIANTS ChargesAgree NoUnforcedRetry NotedOnce
