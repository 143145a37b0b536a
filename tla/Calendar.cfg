SPECIFICATION CalendarSpec
CONSTANTS
    Nights = {1}
    StayNights <- MCOneNight
    Cancelled = "c"
    Starts <- MCStarts
    MaxAttempts = 2
    FollowUps = 1
    MaxFaults = 1
    MaxChanges = 1
CHECK_DEADLOCK FALSE
INVARIANTS SyncTypeOK
PROPERTIES SoldAgainIsClosed PortalFollows CancelReopens ErrorsClear
