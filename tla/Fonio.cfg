SPECIFICATION FonioSpec
CONSTANTS
    Callers = {"c1", "c2"}
    Bookings <- MCBookings
    Own <- MCOwn
    Says <- MCSays
    Wants <- MCWants
    KnownAtStart <- MCKnown
    Units <- MCUnits
    HostawayDays <- MCHostawayDays
    CachedDays <- MCCached
    Asked <- MCAsked
    Period <- MCPeriod
    Guests = 2
    Capacity = 3
    Number = "details"
    Config <- MCConfig
    RetryLimit = 2
    MaxFaults = 1
    MaxEdits = 1
CHECK_DEADLOCK FALSE
INVARIANTS    NamedCanBeOffered
PROPERTIES TrueCallerIsVerified ForwardedIsDelivered
