SPECIFICATION FonioSpec
CONSTANTS
    Callers = {"c1"}
    Bookings <- MCBookings
    Own <- MCOneCaller
    Says <- MCSays
    Wants <- MCWants
    KnownAtStart <- MCKnown
    Units <- MCUnits
    HostawayDays <- MCHostawayDays
    CachedDays <- MCCached
    Asked <- MCAsked
    Period <- MCPeriod
    Guests = 3
    Capacity = 3
    Number = "additional"
    Config <- MCConfig
    RetryLimit = 2
    MaxFaults = 0
    MaxEdits = 0
CHECK_DEADLOCK FALSE
INVARIANT CapacityKept
