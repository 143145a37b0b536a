SPECIFICATION FairSpec
CONSTANTS
    r1 = r1
    p1 = p1
    Reservations = {r1}
    Kinds = {"import", "offer", "offline"}
    Payers = {p1}
    Rules <- MCRules
    Total = 4000
    Amounts = {60, 1945}
    Arrival = 5
    MaxDay = 3
    MaxPays = 2
    MaxFaults = 1
    Faults = {"fetch", "charge", "post", "throw", "cancel", "update"}
    None = None
INVARIANTS GuestInv
PROPERTIES CancelIsDue RequestIsSettled
