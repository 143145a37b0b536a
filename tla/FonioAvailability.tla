------------------------- MODULE FonioAvailability -------------------------
(***************************************************************************)
(* What the phone assistant may offer: fonio-availability.service.ts as    *)
(* operators.  A day of the calendar cache is a record [open, min, fresh], *)
(* or not there; a query gives the nights and the filters.                 *)
(***************************************************************************)
EXTENDS Integers, FiniteSets

\* enumerateDates: the nights from check-in to the day before check-out.
enumerateDates(checkIn, checkOut) == checkIn..(checkOut - 1)

\* A group shows its parent, its children or all of its units.
isVisibleForGroupMode(l) ==
    \/ l.mode \in {"NONE", "BOTH"}
    \/ l.mode = "PARENT_ONLY" /\ l.isParent
    \/ l.mode = "CHILDREN_ONLY" /\ l.hasParent /\ ~l.isParent

\* loadCandidates: bookable, large enough, in the city unless all are asked
\* for, with pets when there are some.
loadCandidates(listings, q) ==
    {i \in DOMAIN listings :
        LET l == listings[i] IN
        /\ l.bookable /\ l.capacity >= q.guests
        /\ q.nearby \/ q.city = "any" \/ l.city = q.city
        /\ q.pets => l.pets
        /\ isVisibleForGroupMode(l)}

Stored(days, nights) == nights \cap DOMAIN days

\* A listing is fetched again when a night is missing or none of its days
\* was stored lately; only a live search does it.
Stale(days, nights) ==
    \/ Stored(days, nights) # nights
    \/ \A n \in Stored(days, nights) : ~days[n].fresh

loadCalendarForRange(cache, remote, candidates, nights, live) ==
    [i \in DOMAIN cache |->
        IF live /\ i \in candidates /\ Stale(cache[i], nights)
        THEN [n \in DOMAIN cache[i] \cup nights |-> IF n \in nights THEN remote[i][n] ELSE cache[i][n]]
        ELSE cache[i]]

\* Plausible slip: only the night of arrival decides how long a stay must be.
isStayAvailableMut(days, nights) ==
    /\ Stored(days, nights) = nights
    /\ \A n \in nights : days[n].open
    /\ \A n \in nights : (\A k \in nights : n <= k) => Cardinality(nights) >= days[n].min

\* Every night is stored and open, and the stay is as long as the strictest
\* of them asks for.
isStayAvailable(days, nights) ==
    /\ Stored(days, nights) = nights
    /\ \A n \in nights : days[n].open /\ Cardinality(nights) >= days[n].min

evaluateListings(cache, candidates, nights) ==
    {i \in candidates : isStayAvailable(cache[i], nights)}

\* A search: the calendar cache afterwards, the listings that are free, and
\* those the cache cannot tell.
search(listings, cache, remote, q, live) ==
    LET nights == enumerateDates(q.checkIn, q.checkOut)
        candidates == loadCandidates(listings, q)
        now == loadCalendarForRange(cache, remote, candidates, nights, live)
        free == evaluateListings(now, candidates, nights)
    IN  [cache |-> now,
         free |-> {i \in free : q.nearby => listings[i].city # q.city},
         unknown |-> {i \in candidates : ~live /\ Stored(now[i], nights) # nights}]

Friday == 5

\* enumerateWeekends: the Fridays of the period with their check-out.
enumerateWeekends(first, last, nights) ==
    {[checkIn |-> d, checkOut |-> d + nights] : d \in {n \in first..last : n % 7 = Friday}}

\* The weekends of a period with their free listings, looked up in one go;
\* the answer is cut after limit weekends.
searchWeekends(listings, cache, remote, q, period, live, limit) ==
    LET weekends == enumerateWeekends(period.first, period.last, q.nights)
        all == UNION {enumerateDates(w.checkIn, w.checkOut) : w \in weekends}
        candidates == loadCandidates(listings, q)
        now == loadCalendarForRange(cache, remote, candidates, all, live)
        free(w) == {i \in evaluateListings(now, candidates, enumerateDates(w.checkIn, w.checkOut)) :
                        q.nearby => listings[i].city # q.city}
        slots == {[weekend |-> w, free |-> free(w)] : w \in {v \in weekends : free(v) # {}}}
    IN  [cache |-> now,
         slots |-> {s \in slots :
                      Cardinality({r \in slots : r.weekend.checkIn < s.weekend.checkIn}) < limit},
         truncated |-> Cardinality(slots) > limit]
=============================================================================
