--------------------------- MODULE MCCalendarSync ---------------------------
(* Instances of CalendarSync for TLC.                                      *)
EXTENDS CalendarSync, TLC

\* The cancelled stay and one that wants a night of it.
MCStayNights == ("c" :> {1, 2}) @@ ("o" :> {2})
MCOneNight == ("c" :> {1}) @@ ("o" :> {1})

\* Auto-sync on a stored calendar, or retries only before the first sync.
MCStarts == {<<TRUE, TRUE>>, <<FALSE, FALSE>>}
=============================================================================
