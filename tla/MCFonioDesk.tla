---------------------------- MODULE MCFonioDesk ----------------------------
(* Instances of FonioDesk for TLC.                                         *)
EXTENDS FonioDesk, TLC

\* Two bookings of the same dates and house: one was cancelled and the unit
\* was booked again.  The guests of r1 call twice.
Booking(id, person) ==
    [stayDates |-> "july", listingName |-> "house", phone |-> person, email |-> person,
     reservationId |-> id]
MCBookings == ("r1" :> Booking("r1", "anna")) @@ ("r2" :> Booking("r2", "bert"))
MCOwn == ("c1" :> "r1") @@ ("c2" :> "r1")
MCOneCaller == "c1" :> "r1"
MCSays == ("c1" :> {{"stayDates", "listingName", "phone"}})
          @@ ("c2" :> {{"stayDates", "listingName", "phone", "email"}})
MCWants == ("c1" :> {"ADD_GUEST", "EARLY_CHECKIN", "payment", "offer"})
           @@ ("c2" :> {"ADD_GUEST", "arrival"})
MCKnown == {{"r2"}, {}}

Unit(city, mode, parent, child) ==
    [city |-> city, mode |-> mode, isParent |-> parent, hasParent |-> child,
     bookable |-> TRUE, capacity |-> 4, pets |-> TRUE]
MCUnits == ("u1" :> Unit("a", "PARENT_ONLY", TRUE, FALSE)) @@ ("u2" :> Unit("a", "PARENT_ONLY", FALSE, TRUE))
Day(open, min) == [open |-> open, min |-> min, fresh |-> TRUE]
MCHostawayDays ==
    LET days == [n \in 1..14 |-> IF n \in {12, 13} THEN Day(TRUE, 2) ELSE Day(FALSE, 1)]
    IN  ("u1" :> days) @@ ("u2" :> days)
MCCached ==
    {LET days == [n \in 1..14 |-> IF n = 6 THEN Day(TRUE, 3) ELSE Day(TRUE, 1)]
     IN  ("u1" :> days) @@ ("u2" :> days)}
MCAsked == [city |-> "a", guests |-> 2, pets |-> FALSE, nearby |-> FALSE, nights |-> 2,
            checkIn |-> 0, checkOut |-> 0]
MCPeriod == [first |-> 1, last |-> 12]
MCConfig == [fields |-> VERIFICATION_FIELD_OPTIONS, min |-> 3, offers |-> TRUE]
=============================================================================
