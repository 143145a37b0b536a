-------------------------- MODULE FonioDeskProofs --------------------------
(***************************************************************************)
(* The promises of the phone assistant, for every set of callers,          *)
(* bookings, rules, calendars and faults (FonioDesk): who is verified,     *)
(* what is said of a change, what is offered, and what an offer leaves     *)
(* behind.                                                                 *)
(***************************************************************************)
EXTENDS FonioDesk, FiniteSetTheorems, TLAPS

----------------------------------------------------------------------------
(* Offers that were named.                                                 *)

\* A unit can be offered for a weekend by the calendar the weekend is from.
Holds(s, days) ==
    \A u \in s.free :
        /\ u \in search(Units, days, HostawayDays, Query(s.weekend), FALSE).free
        /\ \A n \in s.weekend.checkIn..(s.weekend.checkOut - 1) :
             days[u][n].open /\ days[u][n].min <= Asked.nights

NamedIInv ==
    /\ DOMAIN cache = DOMAIN Units
    /\ DOMAIN named = Callers
    /\ \A c \in Callers : \A s \in named[c].slots : Holds(s, named[c].from)

\* A search that fetches nothing leaves every calendar as it is.
LEMMA CachedSearch ==
    ASSUME NEW days, NEW q, NEW i \in DOMAIN days, NEW candidates, NEW nights
    PROVE  loadCalendarForRange(days, HostawayDays, candidates, nights, FALSE)[i] = days[i]
    BY DEF loadCalendarForRange

\* The weekends that are named hold by the calendar the search leaves: the
\* second search, for one weekend, looks at the same nights with the same
\* filters.
LEMMA WeekendsHold ==
    ASSUME NEW days, DOMAIN days = DOMAIN Units, NEW live \in BOOLEAN,
           NEW r, r = searchWeekends(Units, days, HostawayDays, Asked, Period, live, 8)
    PROVE  /\ DOMAIN r.cache = DOMAIN Units
           /\ \A s \in r.slots : Holds(s, r.cache)
<1>. DEFINE weekends == enumerateWeekends(Period.first, Period.last, Asked.nights)
            all == UNION {enumerateDates(w.checkIn, w.checkOut) : w \in weekends}
            candidates == loadCandidates(Units, Asked)
            now == loadCalendarForRange(days, HostawayDays, candidates, all, live)
            Nights(w) == enumerateDates(w.checkIn, w.checkOut)
            Free(w) == {i \in evaluateListings(now, candidates, Nights(w)) :
                            Asked.nearby => Units[i].city # Asked.city}
<1>1. r.cache = now /\ \A s \in r.slots : \E w \in weekends : s = [weekend |-> w, free |-> Free(w)]
    BY DEF searchWeekends
<1>2. DOMAIN now = DOMAIN Units
    BY DEF loadCalendarForRange
<1>3. \A i \in candidates : i \in DOMAIN Units
    BY DEF loadCandidates
<1>4. ASSUME NEW w \in weekends, NEW u \in Free(w)
      PROVE  /\ u \in search(Units, now, HostawayDays, Query(w), FALSE).free
             /\ \A n \in w.checkIn..(w.checkOut - 1) :
                  now[u][n].open /\ now[u][n].min <= Asked.nights
  <2>. HIDE DEF now, candidates, weekends
  <2>1. u \in candidates /\ isStayAvailable(now[u], Nights(w)) /\ (Asked.nearby => Units[u].city # Asked.city)
      BY DEF evaluateListings
  <2>2. /\ Query(w).checkIn = w.checkIn /\ Query(w).checkOut = w.checkOut
        /\ Query(w).nearby = Asked.nearby /\ Query(w).city = Asked.city
        /\ Query(w).guests = Asked.guests /\ Query(w).pets = Asked.pets
      BY Calendars DEF Query
  <2>3. loadCandidates(Units, Query(w)) = candidates
      BY <2>2 DEF loadCandidates, candidates
  <2>4. DEFINE again == loadCalendarForRange(now, HostawayDays, candidates, Nights(w), FALSE)
  <2>5. again[u] = now[u]
    <3>1. u \in DOMAIN now
        BY <1>2, <1>3, <2>1
    <3>. QED
        BY <3>1, CachedSearch, Zenon
  <2>6. u \in evaluateListings(again, candidates, Nights(w))
      BY <2>1, <2>5 DEF evaluateListings
  <2>7. search(Units, now, HostawayDays, Query(w), FALSE).free
          = {i \in evaluateListings(again, candidates, Nights(w)) : Asked.nearby => Units[i].city # Asked.city}
      BY <2>2, <2>3 DEF search
  <2>8. Cardinality(Nights(w)) = Asked.nights
    <3>1. w.checkIn \in Int /\ w.checkOut = w.checkIn + Asked.nights
        BY Calendars DEF weekends, enumerateWeekends
    <3>2. w.checkOut - 1 \in Int
        BY <3>1, Calendars
    <3>3. Cardinality(w.checkIn..(w.checkOut - 1))
            = IF w.checkIn > w.checkOut - 1 THEN 0 ELSE (w.checkOut - 1) - w.checkIn + 1
        BY <3>1, <3>2, FS_Interval, Zenon
    <3>. QED
        BY <3>1, <3>3, Calendars DEF enumerateDates
  <2>9. \A n \in Nights(w) : now[u][n].open /\ now[u][n].min <= Asked.nights
      BY <2>1, <2>8 DEF isStayAvailable
  <2>. QED
      BY <2>1, <2>6, <2>7, <2>9 DEF enumerateDates
<1>5. ASSUME NEW s \in r.slots
      PROVE  Holds(s, r.cache)
  <2>1. PICK w \in weekends : s = [weekend |-> w, free |-> Free(w)]
      BY <1>1
  <2>2. s.weekend = w /\ s.free = Free(w)
      BY <2>1
  <2>. HIDE DEF now, candidates, weekends, Free
  <2>. QED
      BY <1>1, <1>4, <2>2 DEF Holds
<1>. QED
    BY <1>1, <1>2, <1>5

\* Only a search and the sync with Hostaway touch what was named or the
\* calendar.
LEMMA NamedFrame ==
    ASSUME FonioNext,
           ~ \E c \in Callers : searchWeekendAvailability(c),
           ~ HostawaySync
    PROVE  UNCHANGED <<cache, named>>
<1>1. CASE \E c \in Callers : verifyGuest(c)
    BY <1>1 DEF verifyGuest, offers
<1>2. CASE \E c \in Callers : Call(c)
    BY <1>2 DEF Call, submitRequest, createOffer, recordPayment, sendCheckinInfo, offers
<1>3. CASE \E c \in Callers : CallStep(c)
    BY <1>3 DEF CallStep, applyRead, applyUpdate, postInboxMessage, MarkPosted, createReservation,
                ensureInquiryStatus, requestDeposit, rollbackOffer, notifyPaymentReceived,
                sendCheckinInfoEmail, offers
<1>4. CASE retryPendingForwards("sync") \/ (\E p \in Retriers : RetryStep(p))
           \/ (\E c \in Callers : retryForwardByStaff(c)) \/ (\E r \in Callable : ConversationOpens(r))
    BY <1>4 DEF retryPendingForwards, RetryStep, retryForward, RetryMarks, retryForwardByStaff,
                ConversationOpens, offers
<1>5. CASE Staff
    BY <1>5 DEF Staff, createRule, updateRule, deleteRule, updateVerificationConfig, ToggleOffers,
                Edit, offers
<1>. QED
    BY <1>1, <1>2, <1>3, <1>4, <1>5 DEF FonioNext

LEMMA NamedStep == NamedIInv /\ [FonioNext]_dvars => NamedIInv'
<1>. SUFFICES ASSUME NamedIInv, [FonioNext]_dvars
              PROVE  NamedIInv'
    OBVIOUS
<1>1. CASE UNCHANGED <<cache, named>>
    BY <1>1 DEF NamedIInv, Holds
<1>2. CASE \E c \in Callers : searchWeekendAvailability(c)
  <2>1. PICK c \in Callers : searchWeekendAvailability(c)
      BY <1>2
  <2>2. PICK live \in BOOLEAN :
          LET s == searchWeekends(Units, cache, HostawayDays, Asked, Period, live, 8) IN
          /\ cache' = s.cache
          /\ named' = [named EXCEPT ![c] = [slots |-> s.slots, from |-> s.cache]]
      BY <2>1 DEF searchWeekendAvailability
  <2>. DEFINE s == searchWeekends(Units, cache, HostawayDays, Asked, Period, live, 8)
  <2>3. DOMAIN s.cache = DOMAIN Units /\ \A w \in s.slots : Holds(w, s.cache)
      BY WeekendsHold DEF NamedIInv
  <2>. HIDE DEF s
  <2>4. cache' = s.cache /\ named' = [named EXCEPT ![c] = [slots |-> s.slots, from |-> s.cache]]
      BY <2>2 DEF s
  <2>5. DOMAIN named' = Callers /\ DOMAIN cache' = DOMAIN Units
      BY <2>3, <2>4 DEF NamedIInv
  <2>6. ASSUME NEW d \in Callers, NEW w \in named'[d].slots
        PROVE  Holds(w, named'[d].from)
    <3>1. CASE d = c
      <4>1. named'[d].slots = s.slots /\ named'[d].from = s.cache
          BY <2>4, <3>1 DEF NamedIInv
      <4>. QED
          BY <4>1, <2>3, <2>6
    <3>2. CASE d # c
      <4>1. named'[d] = named[d]
          BY <2>4, <3>2 DEF NamedIInv
      <4>. QED
          BY <4>1, <2>6 DEF NamedIInv
    <3>. QED
        BY <3>1, <3>2
  <2>. QED
      BY <2>5, <2>6 DEF NamedIInv, Holds
<1>3. CASE HostawaySync
    BY <1>3, Calendars DEF HostawaySync, NamedIInv, Holds
<1>4. CASE UNCHANGED dvars
    BY <1>1, <1>4 DEF dvars
<1>. QED
    BY <1>1, <1>2, <1>3, <1>4, NamedFrame

\* What a caller was told of a weekend can be offered as long as the calendar
\* has not changed, and every night of it is open for a stay as long as the
\* caller asked for (searchWeekendAvailability, searchAvailability).
THEOREM NamedTheorem == FonioSpec => []NamedCanBeOffered
<1>1. FonioInit => NamedIInv
    BY Calendars DEF FonioInit, NamedIInv
<1>2. NamedIInv => NamedCanBeOffered
    BY DEF NamedIInv, Holds, NamedCanBeOffered
<1>. QED
    BY <1>1, <1>2, NamedStep, PTL DEF FonioSpec

----------------------------------------------------------------------------
(* Offers that were made.                                                  *)

\* Before an offer is asked for at Hostaway there is nothing of it.
BeforeOffer == {"idle", "create", "apply", "update", "post", "mark", "note", "mail"}

OfferStates == {"none", "inquiry", "new", "cancelled"}

\* Where the call stands tells how far the offer is: what each step of
\* createOffer relies on, and what it leaves when it ends.
OfferFits(c) ==
    /\ offer[c] \in [status : OfferStates, asked : BOOLEAN]
    /\ at[c].at \in BeforeOffer \cup {"inquiry", "deposit", "rollback", "done"}
    /\ at[c].at \in BeforeOffer => offer[c] = NoOffer
    /\ heard[c] = "offered" => at[c].at = "done" /\ offer[c].status = "inquiry" /\ offer[c].asked
    /\ at[c].at \in {"inquiry", "rollback"} => offer[c].status \in {"inquiry", "new"} /\ ~offer[c].asked
    /\ at[c].at = "deposit" => offer[c].status = "inquiry" /\ ~offer[c].asked
    /\ at[c].at = "done" /\ offer[c].status = "new" => c \in critical
    /\ at[c].at = "done" /\ offer[c].status = "inquiry" /\ ~offer[c].asked => faults > 0

OfferIInv ==
    /\ DOMAIN offer = Callers /\ DOMAIN at = Callers /\ DOMAIN heard = Callers
    /\ faults \in Nat
    /\ \A c \in Callers : OfferFits(c)

\* A call changes only its own handler, offer and answer, critical offers are
\* only added, faults only counted.
OfferOf(c) ==
    /\ \A d \in Callers \ {c} : at'[d] = at[d] /\ offer'[d] = offer[d] /\ heard'[d] = heard[d]
    /\ DOMAIN offer' = DOMAIN offer /\ DOMAIN at' = DOMAIN at /\ DOMAIN heard' = DOMAIN heard
    /\ critical \subseteq critical'
    /\ faults' \in {faults, faults + 1}

LEMMA OthersKeepOffer ==
    ASSUME OfferIInv, NEW c \in Callers, OfferOf(c), OfferFits(c)'
    PROVE  OfferIInv'
<1>1. faults' \in Nat /\ faults' >= faults
    BY DEF OfferIInv, OfferOf
<1>2. ASSUME NEW d \in Callers, d # c
      PROVE  OfferFits(d)'
  <2>1. at'[d] = at[d] /\ offer'[d] = offer[d] /\ heard'[d] = heard[d]
      BY <1>2 DEF OfferOf
  <2>2. OfferFits(d) /\ critical \subseteq critical' /\ faults \in Nat
      BY DEF OfferIInv, OfferOf
  <2>. QED
      BY <2>1, <2>2, <1>1 DEF OfferFits
<1>. QED
    BY <1>1, <1>2 DEF OfferIInv, OfferOf

\* The calls that are no offer's neither touch one nor answer "offered".
LEMMA OtherCallStep ==
    ASSUME OfferIInv, NEW c \in Callers,
           \/ verifyGuest(c) \/ submitRequest(c) \/ searchWeekendAvailability(c) \/ recordPayment(c)
           \/ sendCheckinInfo(c) \/ applyRead(c) \/ applyUpdate(c) \/ postInboxMessage(c)
           \/ MarkPosted(c) \/ notifyPaymentReceived(c) \/ sendCheckinInfoEmail(c)
    PROVE  OfferOf(c) /\ OfferFits(c)'
<1>. DEFINE Shape == /\ UNCHANGED <<offer, critical>> /\ faults' \in {faults, faults + 1}
                     /\ at[c].at \in BeforeOffer
                     /\ at' = at \/ (\E a : at' = [at EXCEPT ![c] = a] /\ a.at \in BeforeOffer \cup {"done"})
                     /\ heard' = heard \/ (\E h : heard' = [heard EXCEPT ![c] = h] /\ h # "offered")
<1>1. CASE verifyGuest(c)
  <2>1. PICK s, result : result = verify(config, says[c], s.found, Bookings) /\ Answer(c, result)
                           /\ At(c, "idle") /\ UNCHANGED <<at, offers, faults>>
      BY <1>1 DEF verifyGuest
  <2>2. result # "offered"
      BY <2>1 DEF verify
  <2>. QED
      BY <2>1, <2>2 DEF Answer, offers, At, BeforeOffer, OfferIInv, OfferFits, OfferOf
<1>2. CASE submitRequest(c)
  <2>1. Shape
      BY <1>2 DEF submitRequest, NotYet, Answer, Goto, offers, At, BeforeOffer
  <2>. QED
      BY <2>1 DEF BeforeOffer, OfferIInv, OfferFits, OfferOf, NoOffer
<1>3. CASE searchWeekendAvailability(c) \/ recordPayment(c) \/ sendCheckinInfo(c)
  <2>1. Shape
      BY <1>3 DEF searchWeekendAvailability, recordPayment, sendCheckinInfo,
                  NotYet, Answer, Goto, Fault, offers, At, BeforeOffer
  <2>. QED
      BY <2>1 DEF BeforeOffer, OfferIInv, OfferFits, OfferOf, NoOffer
<1>4. CASE applyRead(c) \/ applyUpdate(c) \/ postInboxMessage(c) \/ MarkPosted(c)
  <2>1. Shape
      BY <1>4 DEF applyRead, applyUpdate, postInboxMessage, MarkPosted, Told,
                  NotYet, Answer, Goto, Fault, offers, At, BeforeOffer
  <2>. QED
      BY <2>1 DEF BeforeOffer, OfferIInv, OfferFits, OfferOf, NoOffer
<1>5. CASE notifyPaymentReceived(c) \/ sendCheckinInfoEmail(c)
  <2>1. Shape
      BY <1>5 DEF notifyPaymentReceived, sendCheckinInfoEmail,
                  NotYet, Answer, Goto, Fault, offers, At, BeforeOffer
  <2>. QED
      BY <2>1 DEF BeforeOffer, OfferIInv, OfferFits, OfferOf, NoOffer
<1>. QED
    BY <1>1, <1>2, <1>3, <1>4, <1>5

\* The steps of an offer.
LEMMA OfferCallStep ==
    ASSUME OfferIInv, NEW c \in Callers,
           \/ createOffer(c) \/ createReservation(c) \/ ensureInquiryStatus(c)
           \/ requestDeposit(c) \/ rollbackOffer(c)
    PROVE  OfferOf(c) /\ OfferFits(c)'
<1>. /\ DOMAIN offer = Callers /\ DOMAIN at = Callers /\ DOMAIN heard = Callers
     /\ faults \in Nat /\ OfferFits(c)
    BY DEF OfferIInv
<1>1. CASE createOffer(c)
  <2>1. at[c].at = "idle" /\ UNCHANGED <<offer, critical, faults>>
      BY <1>1 DEF createOffer, At, offers
  <2>2. PICK w, u :
          \/ at' = [at EXCEPT ![c] = [at |-> "create", unit |-> u, weekend |-> w]] /\ NotYet
          \/ Goto(c, "done") /\ Answer(c, "unavailable")
      BY <1>1, Zenon DEF createOffer
  <2>. QED
      BY <2>1, <2>2 DEF Goto, Answer, NotYet, BeforeOffer, OfferFits, OfferOf, NoOffer
<1>2. CASE createReservation(c)
    BY <1>2 DEF createReservation, NotYet, Answer, Goto, Fault, At, BeforeOffer, OfferFits, OfferOf,
                NoOffer, OfferStates
<1>3. CASE ensureInquiryStatus(c)
    BY <1>3 DEF ensureInquiryStatus, NotYet, Answer, Goto, Fault, At, BeforeOffer, OfferFits, OfferOf,
                NoOffer, OfferStates
<1>4. CASE requestDeposit(c)
  <2>1. at[c].at = "deposit" /\ UNCHANGED <<critical, faults>>
      BY <1>4 DEF requestDeposit, At
  <2>2. CASE /\ offer' = [offer EXCEPT ![c].asked = TRUE]
             /\ Goto(c, "done") /\ Answer(c, "offered")
      BY <2>1, <2>2 DEF Goto, Answer, BeforeOffer, OfferFits, OfferOf, OfferStates
  <2>3. CASE Goto(c, "rollback") /\ NotYet /\ UNCHANGED offer
      BY <2>1, <2>3 DEF Goto, NotYet, BeforeOffer, OfferFits, OfferOf, OfferStates
  <2>. QED
      BY <1>4, <2>2, <2>3 DEF requestDeposit
<1>5. CASE rollbackOffer(c)
    BY <1>5 DEF rollbackOffer, RolledBack, NotYet, Answer, Goto, Fault, At, BeforeOffer, OfferFits,
                OfferOf, NoOffer, OfferStates
<1>. QED
    BY <1>1, <1>2, <1>3, <1>4, <1>5

LEMMA OfferStep == OfferIInv /\ [FonioNext]_dvars => OfferIInv'
<1>. SUFFICES ASSUME OfferIInv, [FonioNext]_dvars
              PROVE  OfferIInv'
    OBVIOUS
<1>1. CASE \E c \in Callers : verifyGuest(c) \/ Call(c) \/ CallStep(c)
  <2>1. PICK c \in Callers : verifyGuest(c) \/ Call(c) \/ CallStep(c)
      BY <1>1
  <2>2. OfferOf(c) /\ OfferFits(c)'
      BY <2>1, OtherCallStep, OfferCallStep, Zenon DEF Call, CallStep
  <2>. QED
      BY <2>2, OthersKeepOffer
<1>2. CASE /\ UNCHANGED <<at, offer, heard>> /\ critical' = critical
           /\ faults' \in {faults, faults + 1}
    BY <1>2 DEF OfferIInv, OfferFits
<1>3. CASE retryPendingForwards("sync") \/ (\E p \in Retriers : RetryStep(p))
           \/ (\E c \in Callers : retryForwardByStaff(c)) \/ (\E r \in Callable : ConversationOpens(r))
           \/ HostawaySync
    BY <1>2, <1>3 DEF retryPendingForwards, RetryStep, retryForward, RetryMarks, retryForwardByStaff,
                      ConversationOpens, HostawaySync, offers, NotYet, Fault
<1>4. CASE Staff
    BY <1>2, <1>4 DEF Staff, createRule, updateRule, deleteRule, updateVerificationConfig, ToggleOffers,
                      Edit, offers, NotYet
<1>5. CASE UNCHANGED dvars
    BY <1>2, <1>5 DEF dvars
<1>. QED
    BY <1>1, <1>3, <1>4, <1>5 DEF FonioNext

LEMMA OfferStart == FonioInit => OfferIInv
<1>1. FonioInit => /\ at = [c \in Callers |-> Idle] /\ heard = [c \in Callers |-> "nothing"]
                   /\ offer = [c \in Callers |-> NoOffer] /\ faults = 0
    BY DEF FonioInit
<1>2. ASSUME FonioInit, NEW c \in Callers
      PROVE  OfferFits(c)
  <2>1. at[c].at = "idle" /\ heard[c] = "nothing" /\ offer[c] = [status |-> "none", asked |-> FALSE]
      BY <1>1, <1>2 DEF Idle, NoOffer
  <2>. QED
      BY <2>1 DEF OfferFits, NoOffer, BeforeOffer, OfferStates
<1>. QED
    BY <1>1, <1>2 DEF OfferIInv

\* However the calls of an offer fail: when it is over the guest has an
\* inquiry with a deposit asked for, or nothing is left, or the failed
\* rollback was reported (createReservation, ensureInquiryStatus,
\* requestDeposit, rollbackOffer).
THEOREM OfferTheorem == FonioSpec => []OfferSettled
<1>1. OfferIInv => OfferSettled
    BY DEF OfferIInv, OfferFits, OfferSettled, At, BeforeOffer
<1>. QED
    BY OfferStart, <1>1, OfferStep, PTL DEF FonioSpec

----------------------------------------------------------------------------
(* Who is calling.                                                         *)

\* What is asked for can be matched, and three matches are needed at least.
ConfigFits ==
    /\ DOMAIN config = {"fields", "min", "offers"}
    /\ config.min \in 3..Cardinality(normalizeVerificationConfigFields(config.fields))

\* Callers tell the truth about their own booking.
Truthful(c) == \A f \in DOMAIN says[c] : says[c][f] = Bookings[Own[c]][f]

LEMMA OptionsFinite ==
    /\ IsFiniteSet(VERIFICATION_FIELD_OPTIONS)
    /\ \A fields : /\ normalizeVerificationConfigFields(fields) \subseteq VERIFICATION_FIELD_OPTIONS
                   /\ IsFiniteSet(normalizeVerificationConfigFields(fields))
                   /\ Cardinality(normalizeVerificationConfigFields(fields)) \in Nat
<1>1. IsFiniteSet({"stayDates", "listingName", "phone", "email", "reservationId"})
  <2>1. IsFiniteSet({})
      BY FS_EmptySet
  <2>2. IsFiniteSet({} \cup {"stayDates"})
      BY <2>1, FS_AddElement
  <2>3. IsFiniteSet({} \cup {"stayDates"} \cup {"listingName"})
      BY <2>2, FS_AddElement
  <2>4. IsFiniteSet({} \cup {"stayDates"} \cup {"listingName"} \cup {"phone"})
      BY <2>3, FS_AddElement
  <2>5. IsFiniteSet({} \cup {"stayDates"} \cup {"listingName"} \cup {"phone"} \cup {"email"})
      BY <2>4, FS_AddElement
  <2>6. IsFiniteSet({} \cup {"stayDates"} \cup {"listingName"} \cup {"phone"} \cup {"email"}
                       \cup {"reservationId"})
      BY <2>5, FS_AddElement
  <2>7. {} \cup {"stayDates"} \cup {"listingName"} \cup {"phone"} \cup {"email"} \cup {"reservationId"}
          = {"stayDates", "listingName", "phone", "email", "reservationId"}
      OBVIOUS
  <2>. QED
      BY <2>6, <2>7
<1>2. \A fields : normalizeVerificationConfigFields(fields) \subseteq VERIFICATION_FIELD_OPTIONS
    BY DEF normalizeVerificationConfigFields, VERIFICATION_FIELD_OPTIONS
<1>. QED
    BY <1>1, <1>2, FS_Subset, FS_CardinalityType DEF VERIFICATION_FIELD_OPTIONS

\* A filter only takes bookings away.
LEMMA NarrowShrinks ==
    ASSUME NEW pool, NEW s
    PROVE  narrowCandidates(pool, s, Bookings) \subseteq pool
<1>1. \A S, f : Narrow(S, f, s, Bookings) \subseteq S
    BY DEF Narrow
<1>. QED
    BY <1>1 DEF narrowCandidates

\* Bookings are looked at only by number or by dates.
LEMMA FoundByNumberOrDates ==
    ASSUME NEW s, NEW S, S \subseteq Reservations,
           NEW out, out = findReservation(s, S, Bookings)
    PROVE  /\ out.known \subseteq Reservations /\ out.found \subseteq Reservations
           /\ \A r \in out.found :
                \/ fieldMatches("reservationId", s, Bookings[r])
                \/ fieldMatches("stayDates", s, Bookings[r])
<1>. DEFINE byId == {r \in Reservations : fieldMatches("reservationId", s, Bookings[r])}
            onDates == {r \in Reservations : fieldMatches("stayDates", s, Bookings[r])}
            now == IF onDates \cap S = {} THEN S \cup onDates ELSE S
            pool == onDates \cap now
            some == IF Cardinality(pool) <= 1 THEN pool ELSE narrowCandidates(pool, s, Bookings)
<1>1. out = IF byId # {} THEN [found |-> byId, known |-> S \cup byId] ELSE [found |-> some, known |-> now]
    BY DEF findReservation, Reservations
<1>2. some \subseteq onDates
    BY NarrowShrinks
<1>3. now \subseteq Reservations
    OBVIOUS
<1>. HIDE DEF some, now
<1>4. CASE byId # {}
    BY <1>1, <1>4
<1>5. CASE byId = {}
    BY <1>1, <1>2, <1>3, <1>5
<1>. QED
    BY <1>4, <1>5

\* Whoever is verified is verified for the own booking: another booking of
\* the same dates cannot match in three fields.
LEMMA VerifiedFindsOwn ==
    ASSUME NEW c \in Callers, Truthful(c), ConfigFits,
           NEW out, out.found \subseteq Reservations,
           \A r \in out.found : \/ fieldMatches("reservationId", says[c], Bookings[r])
                                \/ fieldMatches("stayDates", says[c], Bookings[r]),
           verify(config, says[c], out.found, Bookings) = "verified"
    PROVE  (CHOOSE r \in out.found : TRUE) = Own[c]
<1>1. /\ out.found # {} /\ ~(Cardinality(out.found) > 1)
      /\ \E r \in out.found : ~(Cardinality(Matched(config, says[c], Bookings[r])) < minMatch(config))
    BY DEF verify
<1>2. IsFiniteSet(out.found) /\ Cardinality(out.found) \in Nat
    BY FonioAssumption, FS_Subset, FS_CardinalityType
<1>3. Cardinality(out.found) = 1
    BY <1>1, <1>2, FS_EmptySet
<1>4. PICK r : out.found = {r}
    BY <1>2, <1>3, FS_Singleton
<1>5. r \in Reservations /\ Own[c] \in Reservations
    BY <1>4, FonioAssumption
<1>6. ASSUME r # Own[c]
      PROVE  FALSE
  <2>1. Bookings[r].reservationId # Bookings[Own[c]].reservationId
      BY <1>5, <1>6, GuestsDiffer
  <2>2. Bookings[r].stayDates = Bookings[Own[c]].stayDates
      BY <1>4, <2>1 DEF fieldMatches, Truthful
  <2>. DEFINE Shared == {f \in VERIFICATION_FIELD_OPTIONS : Bookings[r][f] = Bookings[Own[c]][f]}
              M == Matched(config, says[c], Bookings[r])
              n == Cardinality(normalizeVerificationConfigFields(config.fields))
  <2>3. Cardinality(Shared) <= 2
      BY <1>5, <1>6, <2>2, GuestsDiffer
  <2>4. M \subseteq Shared
      BY OptionsFinite DEF Matched, fieldMatches, Truthful
  <2>5. IsFiniteSet(Shared)
      BY OptionsFinite, FS_Subset
  <2>6. Cardinality(M) <= Cardinality(Shared) /\ Cardinality(M) \in Nat /\ Cardinality(Shared) \in Nat
      BY <2>4, <2>5, FS_Subset, FS_CardinalityType
  <2>7. n \in Nat /\ config.min \in 3..n
      BY OptionsFinite DEF ConfigFits
  <2>8. minMatch(config) \in Int /\ minMatch(config) >= 3
      BY <2>7 DEF minMatch
  <2>9. ~(Cardinality(M) < minMatch(config))
      BY <1>1, <1>4
  <2>. HIDE DEF Shared, M
  <2>. QED
      BY <2>3, <2>6, <2>8, <2>9
<1>. QED
    BY <1>4, <1>6

----------------------------------------------------------------------------
(* The tables and the handlers.                                            *)

Stay == [guests : Nat, pets : Nat, conv : BOOLEAN]

Requested == [status : {"AUTO_APPROVED", "REJECTED", "FORWARDED"},
              applied : BOOLEAN, sent : BOOLEAN, born : Nat]

\* A handler works on a request it has stored, for the caller's own booking;
\* what it read from Hostaway is a reservation; it marks a request only after
\* posting it.
DeskFits(c) ==
    /\ token[c] \in {Own[c], Offline}
    /\ posted[c] \in Nat
    /\ request[c] \in Requested \cup {NoRequest}
    /\ at[c].at \in {"apply", "update", "post", "mark"} =>
         request[c] \in Requested /\ token[c] = Own[c]
    /\ at[c].at = "update" => at[c].live \in Stay /\ CanApply(wish[c])
    /\ at[c].at \in {"note", "mail"} => token[c] = Own[c]
    /\ at[c].at = "mark" => posted[c] > 0
    /\ request[c] \in Requested /\ request[c].sent => posted[c] > 0

\* The retries hold stored requests, and mark what they have posted.
RetryFits(p) ==
    /\ retry[p].at \in {"next", "mark"} =>
         \A c \in retry[p].todo : c \in Callers /\ request[c] \in Requested
    /\ retry[p].at = "mark" /\ Next1(p) \in Callers =>
         request[Next1(p)] \in Requested /\ posted[Next1(p)] > 0

DeskIInv ==
    /\ known \subseteq Reservations
    /\ res \in [Reservations -> Stay] /\ row \in [Reservations -> Stay]
    /\ DOMAIN at = Callers /\ DOMAIN token = Callers /\ DOMAIN request = Callers
    /\ DOMAIN posted = Callers /\ DOMAIN retry = Retriers
    /\ ConfigFits
    /\ \A c \in Callers : Truthful(c) /\ DeskFits(c)
    /\ \A p \in Retriers : RetryFits(p)

LEMMA RequestKinds ==
    /\ NoRequest \notin Requested
    /\ \A q \in Requested : q # NoRequest /\ [q EXCEPT !.sent = TRUE] \in Requested
                              /\ [q EXCEPT !.applied = TRUE] \in Requested
    /\ NoRequest.status = "none"
<1>1. NoRequest.status = "none"
    BY DEF NoRequest
<1>2. \A q \in Requested : q.status # "none"
    BY DEF Requested
<1>3. \A q \in Requested : [q EXCEPT !.sent = TRUE] \in Requested
    BY DEF Requested
<1>4. \A q \in Requested : [q EXCEPT !.applied = TRUE] \in Requested
    BY DEF Requested
<1>. QED
    BY <1>1, <1>2, <1>3, <1>4

LEMMA StayKinds ==
    /\ \A q \in Stay : [q EXCEPT !.conv = TRUE] \in Stay
    /\ \A q, s \in Stay : [q EXCEPT !.conv = s.conv] \in Stay
    /\ \A r \in Reservations : row \in [Reservations -> Stay] /\ res \in [Reservations -> Stay] =>
         Linked(r) \in [Reservations -> Stay]
    BY DEF Stay, Linked, Conversation

LEMMA UpdateKinds ==
    ASSUME NEW type, NEW live \in Stay, NEW now \in Stay
    PROVE  buildHostawayUpdate(type, live, now) \in Stay
    BY DEF Stay, buildHostawayUpdate

\* What every step leaves of the requests: stored ones stay stored with their
\* age, no message is taken back.
Kept ==
    \A d \in Callers :
        /\ request[d] \in Requested => request'[d] \in Requested /\ request'[d].born = request[d].born
        /\ posted'[d] >= posted[d]

LEMMA RetryKept ==
    ASSUME NEW p \in Retriers, RetryFits(p), Kept, retry'[p] = retry[p],
           \A d \in Callers : posted[d] \in Nat /\ posted'[d] \in Nat
    PROVE  RetryFits(p)'
<1>1. CASE retry[p].at = "next"
    BY <1>1 DEF RetryFits, Kept
<1>2. CASE retry[p].at = "mark"
  <2>1. \A c \in retry[p].todo : c \in Callers /\ request[c] \in Requested
                                   /\ request'[c] \in Requested /\ request'[c].born = request[c].born
      BY <1>2 DEF RetryFits, Kept
  <2>2. Next1(p)' = Next1(p)
      BY <2>1 DEF Next1, Before
  <2>. HIDE DEF Next1
  <2>3. Next1(p) \in Callers => request'[Next1(p)] \in Requested /\ posted'[Next1(p)] > 0
      BY <1>2 DEF RetryFits, Kept
  <2>. QED
      BY <1>2, <2>1, <2>2, <2>3 DEF RetryFits
<1>. QED
    BY <1>1, <1>2 DEF RetryFits

\* A call's step changes the request and the messages of its caller only.
DeskOf(c) ==
    /\ \A d \in Callers \ {c} :
         /\ at'[d] = at[d] /\ token'[d] = token[d]
         /\ request'[d] = request[d] /\ posted'[d] = posted[d]
    /\ DOMAIN at' = Callers /\ DOMAIN token' = Callers /\ DOMAIN request' = Callers
    /\ DOMAIN posted' = Callers
    /\ request[c] \in Requested => request'[c] \in Requested /\ request'[c].born = request[c].born
    /\ posted'[c] \in Nat /\ posted'[c] >= posted[c]
    /\ UNCHANGED <<wish, says, config, retry>>
    /\ known' \subseteq Reservations
    /\ res' \in [Reservations -> Stay] /\ row' \in [Reservations -> Stay]

LEMMA OthersKeepDesk ==
    ASSUME DeskIInv, NEW c \in Callers, DeskOf(c), DeskFits(c)'
    PROVE  DeskIInv'
<1>1. ASSUME NEW d \in Callers, d # c
      PROVE  DeskFits(d)'
  <2>1. DeskFits(d)
      BY DEF DeskIInv
  <2>. QED
      BY <1>1, <2>1 DEF DeskOf, DeskFits
<1>2. Kept /\ \A d \in Callers : posted[d] \in Nat /\ posted'[d] \in Nat
    BY DEF DeskIInv, DeskFits, DeskOf, Kept
<1>3. ASSUME NEW p \in Retriers
      PROVE  RetryFits(p)'
    BY <1>2, RetryKept DEF DeskIInv, DeskOf
<1>4. ConfigFits' /\ \A d \in Callers : Truthful(d)'
    BY DEF DeskIInv, DeskOf, ConfigFits, Truthful
<1>5. \A d \in Callers : DeskFits(d)'
    BY <1>1
<1>. HIDE DEF DeskFits, RetryFits, ConfigFits, Truthful
<1>. QED
    BY <1>3, <1>4, <1>5 DEF DeskIInv, DeskOf

\* POST guest/verify: the token is for the caller's own booking.
LEMMA VerifyStep ==
    ASSUME DeskIInv, NEW c \in Callers, verifyGuest(c)
    PROVE  DeskOf(c) /\ DeskFits(c)'
<1>. DEFINE s == findReservation(says[c], known, Bookings)
            result == verify(config, says[c], s.found, Bookings)
<1>1. /\ known' = IF result = "missing" THEN known ELSE s.known
      /\ row' = [r \in Reservations |-> IF r \in known' \ known THEN res[r] ELSE row[r]]
      /\ token' = [token EXCEPT ![c] = IF result = "verified" THEN CHOOSE r \in s.found : TRUE ELSE @]
      /\ at[c].at = "idle" /\ token[c] = Offline
      /\ UNCHANGED <<wish, says, at, res, config, rules, request, posted, retry>>
    BY DEF verifyGuest, At, settings, requests
<1>2. /\ s.known \subseteq Reservations /\ s.found \subseteq Reservations
      /\ \A r \in s.found : \/ fieldMatches("reservationId", says[c], Bookings[r])
                            \/ fieldMatches("stayDates", says[c], Bookings[r])
    BY FoundByNumberOrDates DEF DeskIInv
<1>3. result = "verified" => (CHOOSE r \in s.found : TRUE) = Own[c]
    BY <1>2, VerifiedFindsOwn DEF DeskIInv
<1>. HIDE DEF s, result
<1>4. known' \subseteq Reservations /\ row' \in [Reservations -> Stay] /\ res' \in [Reservations -> Stay]
    BY <1>1, <1>2 DEF DeskIInv
<1>5. token'[c] \in {Own[c], Offline} /\ (\A d \in Callers \ {c} : token'[d] = token[d])
      /\ DOMAIN token' = Callers
    BY <1>1, <1>3 DEF DeskIInv
<1>6. DeskFits(c)
    BY DEF DeskIInv
<1>. QED
    BY <1>1, <1>4, <1>5, <1>6 DEF DeskIInv, DeskOf, DeskFits

\* handleRequest stores the request.
LEMMA SubmitStep ==
    ASSUME DeskIInv, NEW c \in Callers, submitRequest(c)
    PROVE  DeskOf(c) /\ DeskFits(c)'
<1>. DEFINE ctx == [current |-> row[token[c]].guests, requested |-> requestedGuests(token[c]),
                   capacity |-> Capacity, pets |-> TRUE, time |-> parseTimeToMinutes(15, 0)]
            status == StatusOf(evaluate(rules, wish[c], Bookings[token[c]].listingName, ctx))
            born == Cardinality({d \in Callers : request[d] # NoRequest})
            new == [status |-> status, applied |-> FALSE, sent |-> FALSE, born |-> born]
<1>1. /\ request' = [request EXCEPT ![c] = new]
      /\ CASE status = "AUTO_APPROVED" -> Goto(c, "apply") /\ NotYet
           [] status = "FORWARDED" -> Goto(c, "post") /\ NotYet
           [] OTHER -> Goto(c, "done") /\ Answer(c, "rejected")
      /\ request[c] = NoRequest /\ token[c] # Offline
      /\ UNCHANGED <<wish, says, token, config, known, res, row, posted, retry>>
    BY DEF submitRequest, assertVerified, people, settings, bookings
<1>2. status \in {"AUTO_APPROVED", "REJECTED", "FORWARDED"}
    BY DEF StatusOf
<1>3. born \in Nat
    BY FonioAssumption, FS_Subset, FS_CardinalityType
<1>. HIDE DEF status, born
<1>4. new \in Requested /\ ~new.sent
    BY <1>2, <1>3 DEF Requested
<1>. HIDE DEF new
<1>5. \E p \in {"apply", "post", "done"} : at' = [at EXCEPT ![c] = [at |-> p]]
    BY <1>1 DEF Goto
<1>6. DeskFits(c) /\ token[c] = Own[c]
    BY <1>1 DEF DeskIInv, DeskFits
<1>7. request[c] \notin Requested
    BY <1>1, RequestKinds
<1>. QED
    BY <1>1, <1>4, <1>5, <1>6, <1>7 DEF DeskIInv, DeskOf, DeskFits

\* applyToHostaway.
LEMMA ApplyReadStep ==
    ASSUME DeskIInv, NEW c \in Callers, applyRead(c)
    PROVE  DeskOf(c) /\ DeskFits(c)'
<1>1. /\ at[c].at = "apply"
      /\ UNCHANGED <<wish, says, token, config, known, res, row, request, posted, retry>>
      /\ \/ CanApply(wish[c]) /\ at' = [at EXCEPT ![c] = [at |-> "update", live |-> res[token[c]]]]
         \/ at' = [at EXCEPT ![c] = [at |-> "post"]]
    BY DEF applyRead, At, Goto, people, settings, bookings, requests
<1>2. DeskFits(c)
    BY DEF DeskIInv
<1>3. token[c] = Own[c] /\ request[c] \in Requested /\ res[token[c]] \in Stay
    BY <1>1, <1>2, FonioAssumption DEF DeskIInv, DeskFits
<1>. QED
    BY <1>1, <1>2, <1>3 DEF DeskIInv, DeskOf, DeskFits

LEMMA ApplyUpdateStep ==
    ASSUME DeskIInv, NEW c \in Callers, applyUpdate(c)
    PROVE  DeskOf(c) /\ DeskFits(c)'
<1>. DEFINE r == token[c]
            new == buildHostawayUpdate(wish[c], at[c].live, res[r])
<1>1. /\ at[c].at = "update"
      /\ UNCHANGED <<wish, says, token, config, known, posted, retry>>
      /\ at' = [at EXCEPT ![c] = [at |-> "post"]]
      /\ res' = res \/ res' = [res EXCEPT ![r] = new]
      /\ row' = row \/ row' = [row EXCEPT ![r] = [new EXCEPT !.conv = row[r].conv]]
      /\ request' = request \/ request' = [request EXCEPT ![c].applied = TRUE]
    BY DEF applyUpdate, At, Goto, people, settings
<1>2. DeskFits(c)
    BY DEF DeskIInv
<1>3. r \in Reservations /\ request[c] \in Requested /\ at[c].live \in Stay /\ r = Own[c]
    BY <1>1, <1>2, FonioAssumption DEF DeskFits
<1>4. new \in Stay /\ [new EXCEPT !.conv = row[r].conv] \in Stay
    BY <1>3, UpdateKinds, StayKinds DEF DeskIInv
<1>. HIDE DEF new
<1>5. res' \in [Reservations -> Stay] /\ row' \in [Reservations -> Stay]
    BY <1>1, <1>3, <1>4 DEF DeskIInv
<1>6. request'[c] \in Requested /\ request'[c].born = request[c].born
      /\ request'[c].sent = request[c].sent
      /\ \A d \in Callers \ {c} : request'[d] = request[d]
  <2>1. CASE request' = [request EXCEPT ![c].applied = TRUE]
    <3>1. request'[c] = [request[c] EXCEPT !.applied = TRUE]
        BY <2>1 DEF DeskIInv
    <3>2. [request[c] EXCEPT !.applied = TRUE].born = request[c].born
          /\ [request[c] EXCEPT !.applied = TRUE].sent = request[c].sent
        BY <1>3 DEF Requested
    <3>3. \A d \in Callers \ {c} : request'[d] = request[d]
        BY <2>1
    <3>. QED
        BY <1>3, <3>1, <3>2, <3>3, RequestKinds
  <2>. QED
      BY <1>1, <1>3, <2>1
<1>. QED
    BY <1>1, <1>2, <1>3, <1>5, <1>6 DEF DeskIInv, DeskOf, DeskFits

\* postInboxMessage and the mark after it.
LEMMA PostStep ==
    ASSUME DeskIInv, NEW c \in Callers, postInboxMessage(c) \/ notifyPaymentReceived(c)
    PROVE  DeskOf(c) /\ DeskFits(c)'
<1>1. /\ at[c].at \in {"post", "note"}
      /\ UNCHANGED <<wish, says, token, config, known, res, request, retry>>
      /\ row' = Linked(token[c])
      /\ \/ /\ posted' = [posted EXCEPT ![c] = @ + 1]
            /\ \/ at[c].at = "post" /\ at' = [at EXCEPT ![c] = [at |-> "mark"]]
               \/ at' = [at EXCEPT ![c] = [at |-> "done"]]
         \/ posted' = posted /\ at' = [at EXCEPT ![c] = [at |-> "done"]]
    BY DEF postInboxMessage, notifyPaymentReceived, At, Goto, people, settings
<1>2. DeskFits(c) /\ token[c] = Own[c] /\ token[c] \in Reservations
    BY <1>1, FonioAssumption DEF DeskIInv, DeskFits
<1>3. row' \in [Reservations -> Stay]
    BY <1>1, <1>2, StayKinds DEF DeskIInv
<1>. QED
    BY <1>1, <1>2, <1>3 DEF DeskIInv, DeskOf, DeskFits

LEMMA MarkStep ==
    ASSUME DeskIInv, NEW c \in Callers, MarkPosted(c)
    PROVE  DeskOf(c) /\ DeskFits(c)'
<1>1. /\ at[c].at = "mark" /\ at' = [at EXCEPT ![c] = [at |-> "done"]]
      /\ request' = [request EXCEPT ![c].sent = TRUE]
      /\ UNCHANGED <<wish, says, token, config, known, res, row, posted, retry>>
    BY DEF MarkPosted, At, Goto, people, settings, bookings
<1>2. DeskFits(c) /\ request[c] \in Requested /\ posted[c] > 0
    BY <1>1 DEF DeskIInv, DeskFits
<1>3. request'[c] \in Requested /\ request'[c].born = request[c].born
      /\ \A d \in Callers \ {c} : request'[d] = request[d]
  <2>1. request'[c] = [request[c] EXCEPT !.sent = TRUE]
      BY <1>1 DEF DeskIInv
  <2>2. [request[c] EXCEPT !.sent = TRUE].born = request[c].born
      BY <1>2 DEF Requested
  <2>. QED
      BY <1>1, <1>2, <2>1, <2>2, RequestKinds DEF DeskIInv
<1>. QED
    BY <1>1, <1>2, <1>3 DEF DeskIInv, DeskOf, DeskFits

\* Payments, arrival information and offers leave the requests alone.
LEMMA OtherWishStep ==
    ASSUME DeskIInv, NEW c \in Callers,
           \/ recordPayment(c) \/ sendCheckinInfo(c) \/ sendCheckinInfoEmail(c)
           \/ searchWeekendAvailability(c) \/ createOffer(c) \/ createReservation(c)
           \/ ensureInquiryStatus(c) \/ requestDeposit(c) \/ rollbackOffer(c)
    PROVE  DeskOf(c) /\ DeskFits(c)'
<1>. DEFINE Same == UNCHANGED <<wish, says, token, config, known, res, request, posted, retry>>
            Later == {"create", "inquiry", "deposit", "rollback", "done", "idle"}
<1>1. CASE recordPayment(c)
  <2>1. Same /\ row' = row /\ token[c] # Offline /\ (\E f : at' = [at EXCEPT ![c] = [at |-> "note", charge |-> f]])
      BY <1>1 DEF recordPayment, assertVerified, people, settings, bookings, requests
  <2>. QED
      BY <2>1 DEF DeskIInv, DeskOf, DeskFits
<1>2. CASE sendCheckinInfo(c)
  <2>1. Same /\ token[c] # Offline /\ (at' = at \/ at' = [at EXCEPT ![c] = [at |-> "mail"]])
      BY <1>2 DEF sendCheckinInfo, assertVerified, Goto, people, settings, requests
  <2>2. row' = row \/ row' = Linked(token[c])
      BY <1>2 DEF sendCheckinInfo
  <2>3. token[c] = Own[c] /\ token[c] \in Reservations
      BY <2>1, FonioAssumption DEF DeskIInv, DeskFits
  <2>4. row' \in [Reservations -> Stay]
      BY <2>2, <2>3, StayKinds DEF DeskIInv
  <2>. QED
      BY <2>1, <2>3, <2>4 DEF DeskIInv, DeskOf, DeskFits
<1>3. CASE sendCheckinInfoEmail(c) \/ searchWeekendAvailability(c)
  <2>1. Same /\ row' = row /\ (at' = at \/ at' = [at EXCEPT ![c] = [at |-> "idle"]])
      BY <1>3 DEF sendCheckinInfoEmail, searchWeekendAvailability, Goto, people, settings, bookings, requests
  <2>. QED
      BY <2>1 DEF DeskIInv, DeskOf, DeskFits
<1>4. CASE createOffer(c)
  <2>1. Same /\ row' = row
      BY <1>4 DEF createOffer, people, settings, bookings, requests
  <2>2. PICK w, u :
          \/ at' = [at EXCEPT ![c] = [at |-> "create", unit |-> u, weekend |-> w]] /\ NotYet
          \/ Goto(c, "done") /\ Answer(c, "unavailable")
      BY <1>4, Zenon DEF createOffer
  <2>. QED
      BY <2>1, <2>2 DEF Goto, DeskIInv, DeskOf, DeskFits
<1>5. CASE createReservation(c) \/ ensureInquiryStatus(c) \/ requestDeposit(c) \/ rollbackOffer(c)
  <2>1. Same /\ row' = row /\ (\E p \in Later : at' = [at EXCEPT ![c] = [at |-> p]])
      BY <1>5 DEF createReservation, ensureInquiryStatus, requestDeposit, rollbackOffer, Goto,
                  people, settings, bookings, requests
  <2>. QED
      BY <2>1 DEF DeskIInv, DeskOf, DeskFits
<1>. QED
    BY <1>1, <1>2, <1>3, <1>4, <1>5

\* The retries: a round is begun, ...
LEMMA RetryBegins ==
    ASSUME DeskIInv,
           retryPendingForwards("sync") \/ \E c \in Callers : retryForwardByStaff(c)
    PROVE  DeskIInv'
<1>1. PICK p \in Retriers, todo \in SUBSET {c \in Callers : Pending(c)} :
         /\ retry' = [retry EXCEPT ![p] = [at |-> "next", todo |-> todo]]
         /\ UNCHANGED <<wish, says, token, config, known, res, row, at, request, posted>>
  <2>1. CASE retryPendingForwards("sync")
    <3>. DEFINE due == {c \in Callers : Pending(c)}
                todo == {c \in due : Cardinality({d \in due : Before(d, c)}) < RetryLimit}
    <3>1. /\ retry' = [retry EXCEPT !["sync"] = [at |-> "next", todo |-> todo]]
          /\ UNCHANGED <<wish, says, token, config, known, res, row, at, request, posted>>
        BY <2>1 DEF retryPendingForwards, people, settings, bookings
    <3>2. todo \in SUBSET {c \in Callers : Pending(c)} /\ "sync" \in Retriers
        BY DEF Retriers
    <3>. QED
        BY <3>1, <3>2, Zenon
  <2>2. CASE \E c \in Callers : retryForwardByStaff(c)
    <3>1. PICK c \in Callers : retryForwardByStaff(c)
        BY <2>2
    <3>2. /\ retry' = [retry EXCEPT !["staff"] = [at |-> "next", todo |-> {c}]]
          /\ UNCHANGED <<wish, says, token, config, known, res, row, at, request, posted>>
        BY <3>1 DEF retryForwardByStaff, people, settings, bookings
    <3>3. {c} \in SUBSET {d \in Callers : Pending(d)} /\ "staff" \in Retriers
        BY <3>1 DEF Retriers, retryForwardByStaff
    <3>. QED
        BY <3>2, <3>3, Zenon
  <2>. QED
      BY <2>1, <2>2
<1>2. \A c \in todo : c \in Callers /\ request[c] \in Requested
    BY RequestKinds DEF Pending, DeskIInv, DeskFits
<1>3. ASSUME NEW q \in Retriers
      PROVE  RetryFits(q)'
  <2>1. CASE q = p
    <3>1. retry'[q].at = "next" /\ retry'[q].todo = todo
        BY <1>1, <2>1 DEF DeskIInv
    <3>. QED
        BY <1>1, <1>2, <3>1 DEF RetryFits
  <2>2. CASE q # p
    <3>1. retry'[q] = retry[q] /\ Kept /\ \A d \in Callers : posted[d] \in Nat /\ posted'[d] \in Nat
        BY <1>1, <2>2 DEF DeskIInv, DeskFits, Kept
    <3>. QED
        BY <3>1, RetryKept DEF DeskIInv
  <2>. QED
      BY <2>1, <2>2
<1>4. ASSUME NEW c \in Callers
      PROVE  DeskFits(c)' /\ Truthful(c)'
    BY <1>1 DEF DeskIInv, DeskFits, Truthful
<1>. QED
    BY <1>1, <1>3, <1>4 DEF DeskIInv, ConfigFits

\* ... a request of the round is posted again or passed over, ...
LEMMA RetryPosts ==
    ASSUME DeskIInv, NEW p \in Retriers, retryForward(p)
    PROVE  DeskIInv'
<1>. DEFINE c == Next1(p)
            r == token[c]
<1>1. /\ retry[p].at = "next"
      /\ UNCHANGED <<wish, says, token, config, known, res, at, request>>
      /\ row' = row \/ row' = Linked(r)
      /\ \/ retry' = [retry EXCEPT ![p] = Rest(p)] /\ posted' = posted
         \/ /\ Pending(c) /\ posted' = [posted EXCEPT ![c] = @ + 1]
            /\ retry' = [retry EXCEPT ![p] = [at |-> "mark", todo |-> retry[p].todo]]
    BY DEF retryForward, people, settings
<1>2. row' \in [Reservations -> Stay]
  <2>1. CASE r \in Reservations
      BY <1>1, <2>1, StayKinds DEF DeskIInv
  <2>2. CASE r \notin Reservations
    <3>1. Linked(r) = row
        BY <2>2 DEF Linked, DeskIInv
    <3>. QED
        BY <1>1, <3>1 DEF DeskIInv
  <2>. QED
      BY <2>1, <2>2
<1>. HIDE DEF c
<1>3. \A d \in Callers : posted[d] \in Nat /\ posted'[d] \in Nat /\ posted'[d] >= posted[d]
    BY <1>1 DEF DeskIInv, DeskFits
<1>4. Kept
    BY <1>1, <1>3 DEF Kept
<1>5. \A d \in retry[p].todo : d \in Callers /\ request[d] \in Requested
    BY <1>1 DEF DeskIInv, RetryFits
<1>6. RetryFits(p)'
  <2>1. CASE retry' = [retry EXCEPT ![p] = Rest(p)]
    <3>1. retry'[p] = Idle \/ (\E left \in SUBSET retry[p].todo : retry'[p] = [at |-> "next", todo |-> left])
        BY <2>1 DEF Rest, DeskIInv
    <3>2. CASE retry'[p] = Idle
        BY <3>2 DEF RetryFits, Idle
    <3>3. CASE \E left \in SUBSET retry[p].todo : retry'[p] = [at |-> "next", todo |-> left]
      <4>1. retry'[p].at = "next" /\ retry'[p].todo \subseteq retry[p].todo
          BY <3>3
      <4>. QED
          BY <1>1, <1>5, <4>1 DEF RetryFits
    <3>. QED
        BY <3>1, <3>2, <3>3
  <2>2. CASE /\ Pending(c) /\ posted' = [posted EXCEPT ![c] = @ + 1]
             /\ retry' = [retry EXCEPT ![p] = [at |-> "mark", todo |-> retry[p].todo]]
    <3>1. retry'[p].at = "mark" /\ retry'[p].todo = retry[p].todo
        BY <2>2 DEF DeskIInv
    <3>2. Next1(p)' = c
        BY <1>1, <3>1 DEF Next1, Before, c
    <3>3. c \in Callers => request'[c] \in Requested /\ posted'[c] > 0
        BY <1>1, <2>2, RequestKinds DEF Pending, DeskIInv, DeskFits
    <3>. QED
        BY <1>1, <1>5, <3>1, <3>2, <3>3 DEF RetryFits
  <2>. QED
      BY <1>1, <2>1, <2>2
<1>7. ASSUME NEW q \in Retriers
      PROVE  RetryFits(q)'
  <2>1. CASE q # p
    <3>1. retry'[q] = retry[q]
        BY <1>1, <2>1 DEF DeskIInv
    <3>. QED
        BY <1>3, <1>4, <3>1, RetryKept DEF DeskIInv
  <2>. QED
      BY <1>6, <2>1
<1>8. ASSUME NEW d \in Callers
      PROVE  DeskFits(d)' /\ Truthful(d)'
  <2>1. DeskFits(d) /\ Truthful(d) /\ posted'[d] \in Nat /\ posted'[d] >= posted[d]
      BY <1>3 DEF DeskIInv
  <2>. QED
      BY <1>1, <2>1 DEF DeskFits, Truthful
<1>9. DOMAIN retry' = Retriers /\ DOMAIN posted' = Callers
    BY <1>1 DEF DeskIInv
<1>. QED
    BY <1>1, <1>2, <1>7, <1>8, <1>9 DEF DeskIInv, ConfigFits

\* ... and marked.
LEMMA RetryMarksStep ==
    ASSUME DeskIInv, NEW p \in Retriers, RetryMarks(p)
    PROVE  DeskIInv'
<1>. DEFINE c == Next1(p)
<1>1. /\ retry[p].at = "mark"
      /\ UNCHANGED <<wish, says, token, config, known, res, row, at, posted>>
      /\ request' = [request EXCEPT ![c].sent = TRUE]
      /\ retry' = [retry EXCEPT ![p] = Rest(p)]
    BY DEF RetryMarks, people, settings, bookings
<1>2. /\ \A d \in retry[p].todo : d \in Callers /\ request[d] \in Requested
      /\ c \in Callers => request[c] \in Requested /\ posted[c] > 0
    BY <1>1 DEF DeskIInv, RetryFits
<1>3. retry'[p] = Idle \/ (\E left \in SUBSET retry[p].todo : retry'[p] = [at |-> "next", todo |-> left])
    BY <1>1 DEF Rest, DeskIInv
<1>. HIDE DEF c
<1>4. ASSUME c \in Callers
      PROVE  request'[c] \in Requested /\ request'[c].born = request[c].born
  <2>1. request'[c] = [request[c] EXCEPT !.sent = TRUE]
      BY <1>1, <1>4 DEF DeskIInv
  <2>2. [request[c] EXCEPT !.sent = TRUE].born = request[c].born
      BY <1>2, <1>4 DEF Requested
  <2>. QED
      BY <1>2, <1>4, <2>1, <2>2, RequestKinds
<1>5. \A d \in Callers \ {c} : request'[d] = request[d]
    BY <1>1 DEF DeskIInv
<1>6. Kept /\ \A d \in Callers : posted[d] \in Nat /\ posted'[d] \in Nat
  <2>1. \A d \in Callers : posted[d] \in Nat /\ posted'[d] = posted[d]
      BY <1>1 DEF DeskIInv, DeskFits
  <2>2. \A d \in Callers : request[d] \in Requested =>
            request'[d] \in Requested /\ request'[d].born = request[d].born
      BY <1>4, <1>5
  <2>. QED
      BY <2>1, <2>2 DEF Kept
<1>7. ASSUME NEW q \in Retriers
      PROVE  RetryFits(q)'
  <2>1. CASE q # p
    <3>1. retry'[q] = retry[q]
        BY <1>1, <2>1 DEF DeskIInv
    <3>. QED
        BY <1>6, <3>1, RetryKept DEF DeskIInv
  <2>2. CASE q = p
    <3>1. \A d \in retry[p].todo : d \in Callers /\ request'[d] \in Requested
        BY <1>2, <1>6 DEF Kept
    <3>2. CASE retry'[p] = Idle
        BY <2>2, <3>2 DEF RetryFits, Idle
    <3>3. CASE \E left \in SUBSET retry[p].todo : retry'[p] = [at |-> "next", todo |-> left]
      <4>1. retry'[p].at = "next" /\ retry'[p].todo \subseteq retry[p].todo
          BY <3>3
      <4>. QED
          BY <2>2, <3>1, <4>1 DEF RetryFits
    <3>. QED
        BY <1>3, <3>2, <3>3
  <2>. QED
      BY <2>1, <2>2
<1>8. ASSUME NEW d \in Callers
      PROVE  DeskFits(d)' /\ Truthful(d)'
  <2>1. DeskFits(d) /\ Truthful(d)
      BY DEF DeskIInv
  <2>2. CASE d = c
    <3>1. request[d] \in Requested /\ request'[d] \in Requested /\ posted[d] > 0
        BY <1>2, <1>4, <2>2
    <3>. QED
        BY <1>1, <2>1, <3>1 DEF DeskFits, Truthful
  <2>3. CASE d # c
      BY <1>1, <1>5, <2>1, <2>3 DEF DeskFits, Truthful
  <2>. QED
      BY <2>2, <2>3
<1>9. DOMAIN retry' = Retriers /\ DOMAIN request' = Callers
    BY <1>1 DEF DeskIInv
<1>. QED
    BY <1>1, <1>7, <1>8, <1>9 DEF DeskIInv, ConfigFits

\* Hostaway and staff: reservations move, settings change, the fields and the
\* matches asked for stay enough.
LEMMA OutsideStep ==
    ASSUME DeskIInv,
           (\E r \in Callable : ConversationOpens(r)) \/ HostawaySync \/ Staff \/ UNCHANGED dvars
    PROVE  DeskIInv'
<1>. DEFINE Same == UNCHANGED <<wish, says, token, at, request, posted, retry>>
<1>1. Same
  <2>1. CASE (\E r \in Callable : ConversationOpens(r)) \/ HostawaySync
      BY <2>1 DEF ConversationOpens, HostawaySync, people, requests
  <2>2. CASE Staff
      BY <2>2 DEF Staff, createRule, updateRule, deleteRule, updateVerificationConfig, ToggleOffers,
                  Edit, people, requests
  <2>. QED
      BY <2>1, <2>2 DEF dvars
<1>2. known' \subseteq Reservations /\ res' \in [Reservations -> Stay] /\ row' \in [Reservations -> Stay]
  <2>1. CASE \E r \in Callable : ConversationOpens(r)
    <3>1. PICK r \in Reservations : res' = [res EXCEPT ![r].conv = TRUE] /\ UNCHANGED <<known, row>>
        BY <2>1, FonioAssumption DEF ConversationOpens, Callable
    <3>2. [res[r] EXCEPT !.conv = TRUE] \in Stay
        BY StayKinds DEF DeskIInv
    <3>. QED
        BY <3>1, <3>2 DEF DeskIInv
  <2>2. CASE HostawaySync
    <3>1. known' = Reservations /\ res' = res
          /\ row' = [r \in Reservations |-> [res[r] EXCEPT !.conv = row[r].conv]]
        BY <2>2 DEF HostawaySync
    <3>2. \A r \in Reservations : [res[r] EXCEPT !.conv = row[r].conv] \in Stay
        BY StayKinds DEF DeskIInv
    <3>. QED
        BY <3>1, <3>2 DEF DeskIInv
  <2>3. CASE Staff
      BY <2>3 DEF Staff, createRule, updateRule, deleteRule, updateVerificationConfig, ToggleOffers,
                  Edit, bookings, DeskIInv
  <2>. QED
      BY <2>1, <2>2, <2>3 DEF dvars, DeskIInv
<1>3. ConfigFits'
  <2>1. CASE updateVerificationConfig({"phone", "listingName", "email"}, 5)
    <3>. DEFINE asked == {"phone", "listingName", "email"}
                all == normalizeVerificationConfigFields(asked)
                n == Cardinality(normalizeVerificationConfigFields(all))
    <3>1. all = {"stayDates", "phone", "listingName", "email"}
          /\ normalizeVerificationConfigFields(all) = all
        BY DEF normalizeVerificationConfigFields, VERIFICATION_FIELD_OPTIONS
    <3>2. Cardinality({} \cup {"stayDates"} \cup {"phone"} \cup {"listingName"} \cup {"email"}) = 4
      <4>1. IsFiniteSet({}) /\ Cardinality({}) = 0
          BY FS_EmptySet
      <4>2. IsFiniteSet({} \cup {"stayDates"}) /\ Cardinality({} \cup {"stayDates"}) = 1
          BY <4>1, FS_AddElement
      <4>3. IsFiniteSet({} \cup {"stayDates"} \cup {"phone"})
            /\ Cardinality({} \cup {"stayDates"} \cup {"phone"}) = 2
          BY <4>2, FS_AddElement
      <4>4. IsFiniteSet({} \cup {"stayDates"} \cup {"phone"} \cup {"listingName"})
            /\ Cardinality({} \cup {"stayDates"} \cup {"phone"} \cup {"listingName"}) = 3
          BY <4>3, FS_AddElement
      <4>. QED
          BY <4>4, FS_AddElement
    <3>3. {} \cup {"stayDates"} \cup {"phone"} \cup {"listingName"} \cup {"email"} = all
        BY <3>1
    <3>4. n = 4 /\ Cardinality(all) = 4
        BY <3>1, <3>2, <3>3
    <3>. HIDE DEF n
    <3>5. StoredConfig(asked, 5).fields = all /\ StoredConfig(asked, 5).min = 4
        BY <3>4 DEF StoredConfig, minMatch
    <3>6. config' = [config EXCEPT !.fields = all, !.min = 4]
        BY <2>1, <3>5 DEF updateVerificationConfig
    <3>. HIDE DEF all
    <3>7. config'.fields = all /\ config'.min = 4 /\ DOMAIN config' = {"fields", "min", "offers"}
        BY <3>6 DEF DeskIInv, ConfigFits
    <3>. QED
        BY <3>4, <3>7 DEF ConfigFits, n
  <2>2. CASE ToggleOffers
    <3>1. config'.fields = config.fields /\ config'.min = config.min /\ DOMAIN config' = DOMAIN config
        BY <2>2 DEF ToggleOffers, DeskIInv, ConfigFits
    <3>. QED
        BY <3>1 DEF DeskIInv, ConfigFits
  <2>3. CASE config' = config
      BY <2>3 DEF DeskIInv, ConfigFits
  <2>. QED
      BY <2>1, <2>2, <2>3 DEF Staff, createRule, updateRule, deleteRule, ConversationOpens, HostawaySync,
                              settings, dvars
<1>4. ASSUME NEW c \in Callers
      PROVE  DeskFits(c)' /\ Truthful(c)'
    BY <1>1 DEF DeskIInv, DeskFits, Truthful
<1>5. ASSUME NEW p \in Retriers
      PROVE  RetryFits(p)'
  <2>1. Kept /\ \A d \in Callers : posted[d] \in Nat /\ posted'[d] \in Nat
      BY <1>1 DEF Kept, DeskIInv, DeskFits
  <2>. QED
      BY <1>1, <2>1, RetryKept DEF DeskIInv
<1>. QED
    BY <1>1, <1>2, <1>3, <1>4, <1>5 DEF DeskIInv

LEMMA DeskStep == DeskIInv /\ [FonioNext]_dvars => DeskIInv'
<1>. SUFFICES ASSUME DeskIInv, [FonioNext]_dvars
              PROVE  DeskIInv'
    OBVIOUS
<1>1. CASE \E c \in Callers : verifyGuest(c) \/ Call(c) \/ CallStep(c)
  <2>1. PICK c \in Callers : verifyGuest(c) \/ Call(c) \/ CallStep(c)
      BY <1>1
  <2>2. DeskOf(c) /\ DeskFits(c)'
      BY <2>1, VerifyStep, SubmitStep, ApplyReadStep, ApplyUpdateStep, PostStep, MarkStep, OtherWishStep,
         Zenon DEF Call, CallStep
  <2>. QED
      BY <2>2, OthersKeepDesk
<1>2. CASE retryPendingForwards("sync") \/ \E c \in Callers : retryForwardByStaff(c)
    BY <1>2, RetryBegins
<1>3. CASE \E p \in Retriers : RetryStep(p)
    BY <1>3, RetryPosts, RetryMarksStep DEF RetryStep
<1>4. CASE (\E r \in Callable : ConversationOpens(r)) \/ HostawaySync \/ Staff \/ UNCHANGED dvars
    BY <1>4, OutsideStep
<1>. QED
    BY <1>1, <1>2, <1>3, <1>4 DEF FonioNext

LEMMA DeskStart == FonioInit => DeskIInv
<1>. SUFFICES ASSUME FonioInit
              PROVE  DeskIInv
    OBVIOUS
<1>1. /\ known \in KnownAtStart /\ config = Config
      /\ res = [r \in Reservations |-> [guests |-> Guests, pets |-> 0, conv |-> FALSE]] /\ row = res
      /\ at = [c \in Callers |-> Idle] /\ token = [c \in Callers |-> Offline]
      /\ request = [c \in Callers |-> NoRequest] /\ posted = [c \in Callers |-> 0]
      /\ retry = [p \in Retriers |-> Idle]
      /\ \E f : says = [c \in Callers |-> [g \in f[c] |-> Bookings[Own[c]][g]]]
    BY DEF FonioInit
<1>2. res \in [Reservations -> Stay] /\ row \in [Reservations -> Stay] /\ known \subseteq Reservations
    BY <1>1, FonioAssumption DEF Stay
<1>3. \A c \in Callers : Truthful(c)
    BY <1>1 DEF Truthful
<1>4. \A c \in Callers : DeskFits(c)
    BY <1>1, RequestKinds DEF DeskFits, Idle
<1>5. \A p \in Retriers : RetryFits(p)
    BY <1>1 DEF RetryFits, Idle
<1>. QED
    BY <1>1, <1>2, <1>3, <1>4, <1>5, VerificationStart DEF DeskIInv, ConfigFits

\* A caller who tells the truth never gets a token for another stay, tables
\* and handlers hold what they can, and a request is marked as posted only
\* when its message is in the inbox (findReservation, handleRequest,
\* retryPendingForwards).
THEOREM FonioTheorem == FonioSpec => []FonioInv
<1>1. FonioInit => OfferIInv /\ DeskIInv
    BY OfferStart, DeskStart
<1>2. OfferIInv /\ DeskIInv => FonioInv
  <2>. SUFFICES ASSUME OfferIInv, DeskIInv
                PROVE  FonioInv
      OBVIOUS
  <2>1. \A c \in Callers : token[c] \in Reservations \cup {Offline} /\ token[c] \in {Own[c], Offline}
      BY FonioAssumption DEF DeskIInv, DeskFits
  <2>2. \A r \in Reservations : res[r].guests \in Nat /\ row[r].guests \in Nat
      BY DEF DeskIInv, Stay
  <2>3. \A c \in Callers : offer[c].status \in {"none", "inquiry", "new", "cancelled"}
      BY DEF OfferIInv, OfferFits, OfferStates
  <2>4. \A c \in Callers : request[c] # NoRequest /\ request[c].sent => posted[c] > 0
      BY DEF DeskIInv, DeskFits
  <2>5. config.min \in 1..Cardinality(normalizeVerificationConfigFields(config.fields))
      BY OptionsFinite DEF DeskIInv, ConfigFits
  <2>. QED
      BY <2>1, <2>2, <2>3, <2>4, <2>5 DEF FonioInv, FonioTypeOK, VerifiedOwn, DeskIInv
<1>. QED
    BY <1>1, <1>2, OfferStep, DeskStep, PTL DEF FonioSpec

----------------------------------------------------------------------------
(* What callers are told.                                                  *)

\* The requests of one kind for a booking that no longer wait for Hostaway.
Past(r, type) ==
    {d \in Callers : /\ Own[d] = r /\ wish[d] = type /\ request[d] \in Requested
                     /\ at[d].at \notin {"apply", "update"}}

Guested(r) == Cardinality(Past(r, "ADD_GUEST"))
Petted(r) == Cardinality(Past(r, "ADD_PET"))

\* The guests and pets of a reservation, or of what a handler has read of it,
\* come from that many requests.
Counted(s, r) ==
    /\ s.guests >= Guests /\ s.guests - Guests <= Guested(r)
    /\ s.pets <= Petted(r)

\* A request that counts as applied was granted and has left its trace.
AppliedFits(c) ==
    /\ request[c].status = "AUTO_APPROVED" /\ CanApply(wish[c])
    /\ at[c].at \notin {"apply", "update"}
    /\ wish[c] = "ADD_GUEST" => res[Own[c]].guests > Guests
    /\ wish[c] = "ADD_PET" => res[Own[c]].pets > 0

HeardFits(c) ==
    /\ heard[c] = "applied" => request[c] \in Requested /\ request[c].applied
    /\ heard[c] = "rejected" => request[c] \in Requested /\ request[c].status = "REJECTED"
    /\ heard[c] = "forwarded" => posted[c] > 0

AnswerFits(c) ==
    /\ at[c].at \in {"apply", "update"} => request[c].status = "AUTO_APPROVED"
    /\ at[c].at = "update" => Counted(at[c].live, Own[c])
    /\ request[c] \in Requested /\ request[c].applied => AppliedFits(c)
    /\ HeardFits(c)

AnswerIInv ==
    /\ DOMAIN heard = Callers
    /\ \A r \in Reservations : Counted(res[r], r)
    /\ \A c \in Callers : AnswerFits(c)

LEMMA PastFinite ==
    \A r, type : /\ IsFiniteSet(Past(r, type)) /\ Cardinality(Past(r, type)) \in Nat
<1>1. \A r, type : Past(r, type) \in SUBSET Callers
    BY DEF Past
<1>. QED
    BY <1>1, FonioAssumption, FS_Subset, FS_CardinalityType

\* No request goes back to waiting for Hostaway, so these sets only grow.
Onward ==
    /\ wish' = wish
    /\ \A d \in Callers :
         /\ request[d] \in Requested => request'[d] \in Requested
         /\ at'[d].at \in {"apply", "update"} =>
              at[d].at \in {"apply", "update"} \/ request[d] \notin Requested

LEMMA PastGrows ==
    ASSUME Onward, NEW r, NEW type
    PROVE  /\ Past(r, type) \subseteq Past(r, type)'
           /\ Cardinality(Past(r, type)) <= Cardinality(Past(r, type)')
           /\ Cardinality(Past(r, type)) \in Nat /\ Cardinality(Past(r, type)') \in Nat
           /\ IsFiniteSet(Past(r, type)')
<1>1. Past(r, type) \subseteq Past(r, type)'
    BY DEF Past, Onward
<1>2. Past(r, type)' \in SUBSET Callers
    BY DEF Past
<1>3. IsFiniteSet(Past(r, type)') /\ Cardinality(Past(r, type)') \in Nat
    BY <1>2, FonioAssumption, FS_Subset, FS_CardinalityType
<1>. QED
    BY <1>1, <1>3, PastFinite, FS_Subset

LEMMA CountsGrow ==
    ASSUME Onward
    PROVE  \A r : /\ Guested(r) \in Nat /\ Guested(r)' \in Nat /\ Guested(r) <= Guested(r)'
                  /\ Petted(r) \in Nat /\ Petted(r)' \in Nat /\ Petted(r) <= Petted(r)'
<1>. SUFFICES ASSUME NEW r
              PROVE  /\ Guested(r) \in Nat /\ Guested(r)' \in Nat /\ Guested(r) <= Guested(r)'
                     /\ Petted(r) \in Nat /\ Petted(r)' \in Nat /\ Petted(r) <= Petted(r)'
    OBVIOUS
<1>. QED
    BY PastGrows DEF Guested, Petted

\* A step that changes neither the counts nor what was decided of a request.
Steady ==
    /\ \A r \in Reservations : res'[r].guests = res[r].guests /\ res'[r].pets = res[r].pets
    /\ wish' = wish /\ DOMAIN heard' = Callers
    /\ \A d \in Callers :
         /\ request'[d] = request[d] \/ (/\ request[d] \in Requested /\ request'[d] \in Requested
                                         /\ request'[d].status = request[d].status
                                         /\ request'[d].applied = request[d].applied)
         /\ at'[d] = at[d] \/ at'[d].at \notin {"apply", "update"}
         /\ HeardFits(d)'

LEMMA SteadyKeeps ==
    ASSUME DeskIInv, AnswerIInv, Steady
    PROVE  AnswerIInv'
<1>1. Onward
    BY DEF Steady, Onward
<1>2. \A r \in Reservations : res[r].guests \in Nat /\ res[r].pets \in Nat
    BY DEF DeskIInv, Stay
<1>3. \A r \in Reservations : Counted(res[r], r)'
  <2>. SUFFICES ASSUME NEW r \in Reservations
                PROVE  Counted(res[r], r)'
      OBVIOUS
  <2>1. Counted(res[r], r) /\ res'[r].guests = res[r].guests /\ res'[r].pets = res[r].pets
      BY DEF AnswerIInv, Steady
  <2>. QED
      BY <1>1, <1>2, <2>1, CountsGrow, FonioAssumption DEF Counted
<1>4. ASSUME NEW d \in Callers
      PROVE  AnswerFits(d)'
  <2>1. AnswerFits(d) /\ DeskFits(d) /\ HeardFits(d)' /\ Own[d] \in Reservations
      BY FonioAssumption DEF AnswerIInv, DeskIInv, Steady
  <2>2. /\ request'[d] \in Requested <=> request[d] \in Requested
        /\ request[d] \in Requested => /\ request'[d].status = request[d].status
                                       /\ request'[d].applied = request[d].applied
        /\ at'[d].at \in {"apply", "update"} => at'[d] = at[d]
      BY DEF Steady
  <2>3. at[d].at \in {"apply", "update"} => request[d] \in Requested
      BY <2>1 DEF DeskFits
  <2>4. at'[d].at \in {"apply", "update"} => request'[d].status = "AUTO_APPROVED"
      BY <2>1, <2>2, <2>3 DEF AnswerFits
  <2>5. ASSUME at'[d].at = "update"
        PROVE  Counted(at[d].live, Own[d])'
    <3>1. Counted(at[d].live, Own[d]) /\ at'[d].live = at[d].live /\ at[d].live \in Stay
        BY <2>1, <2>2, <2>5 DEF AnswerFits, DeskFits
    <3>2. at[d].live.guests \in Nat /\ at[d].live.pets \in Nat
        BY <3>1 DEF Stay
    <3>. QED
        BY <1>1, <3>1, <3>2, CountsGrow, FonioAssumption DEF Counted
  <2>6. ASSUME request'[d] \in Requested, request'[d].applied
        PROVE  AppliedFits(d)'
    <3>1. AppliedFits(d)
        BY <2>1, <2>2, <2>6 DEF AnswerFits
    <3>2. res'[Own[d]].guests = res[Own[d]].guests /\ res'[Own[d]].pets = res[Own[d]].pets
          /\ wish'[d] = wish[d] /\ at'[d].at \notin {"apply", "update"}
        BY <2>1, <2>2, <3>1 DEF Steady, AppliedFits
    <3>. QED
        BY <2>2, <2>6, <3>1, <3>2 DEF AppliedFits
  <2>. QED
      BY <2>1, <2>4, <2>5, <2>6 DEF AnswerFits
<1>5. DOMAIN heard' = Callers
    BY DEF Steady
<1>. QED
    BY <1>3, <1>4, <1>5 DEF AnswerIInv

Promises == {"applied", "rejected", "forwarded"}

\* A call's step that leaves the counts and the requests alone, and promises
\* nothing about a request.
QuietOf(c) ==
    /\ UNCHANGED <<wish, res, request>>
    /\ at'[c].at \notin {"apply", "update"}
    /\ heard' = heard \/ \E h : heard' = [heard EXCEPT ![c] = h] /\ h \notin Promises

LEMMA QuietIsSteady ==
    ASSUME DeskIInv, AnswerIInv, NEW c \in Callers, DeskOf(c), QuietOf(c)
    PROVE  Steady
<1>1. ASSUME NEW d \in Callers
      PROVE  (at'[d] = at[d] \/ at'[d].at \notin {"apply", "update"}) /\ HeardFits(d)'
  <2>1. HeardFits(d) /\ posted[d] \in Nat
      BY DEF AnswerIInv, AnswerFits, DeskIInv, DeskFits
  <2>2. at'[d] = at[d] \/ at'[d].at \notin {"apply", "update"}
      BY DEF QuietOf, DeskOf
  <2>3. heard'[d] = heard[d] \/ heard'[d] \notin Promises
      BY DEF QuietOf, AnswerIInv
  <2>4. request' = request /\ posted'[d] \in Nat /\ posted'[d] >= posted[d]
      BY <2>1 DEF QuietOf, DeskOf
  <2>. QED
      BY <2>1, <2>2, <2>3, <2>4 DEF HeardFits, Promises
<1>2. DOMAIN heard' = Callers
    BY DEF QuietOf, AnswerIInv
<1>. QED
    BY <1>1, <1>2 DEF Steady, QuietOf

LEMMA QuietSteps ==
    ASSUME DeskIInv, AnswerIInv, NEW c \in Callers,
           \/ verifyGuest(c) \/ searchWeekendAvailability(c) \/ createOffer(c) \/ createReservation(c)
           \/ ensureInquiryStatus(c) \/ requestDeposit(c) \/ rollbackOffer(c) \/ recordPayment(c)
           \/ notifyPaymentReceived(c) \/ sendCheckinInfo(c) \/ sendCheckinInfoEmail(c)
    PROVE  QuietOf(c)
<1>. DEFINE Same == UNCHANGED <<wish, res, request>>
<1>0. DOMAIN at = Callers
    BY DEF DeskIInv
<1>1. CASE verifyGuest(c)
  <2>1. PICK s, result : result = verify(config, says[c], s.found, Bookings) /\ Answer(c, result)
                           /\ at[c].at = "idle" /\ UNCHANGED <<wish, res, request, at>>
      BY <1>1 DEF verifyGuest, At, requests
  <2>2. result \notin Promises
      BY <2>1 DEF verify, Promises
  <2>. QED
      BY <1>0, <2>1, <2>2 DEF Answer, QuietOf
<1>2. CASE searchWeekendAvailability(c)
  <2>1. at[c].at = "idle" /\ UNCHANGED <<wish, res, request, at>>
      BY <1>2 DEF searchWeekendAvailability, At, people, bookings, requests
  <2>2. \E h \in {"weekends"} : Answer(c, h)
      BY <1>2 DEF searchWeekendAvailability
  <2>. QED
      BY <2>1, <2>2 DEF Answer, QuietOf, Promises
<1>3. CASE createOffer(c)
  <2>1. Same
      BY <1>3 DEF createOffer, people, settings, bookings, requests
  <2>2. PICK w, u :
          \/ at' = [at EXCEPT ![c] = [at |-> "create", unit |-> u, weekend |-> w]] /\ NotYet
          \/ Goto(c, "done") /\ Answer(c, "unavailable")
      BY <1>3, Zenon DEF createOffer
  <2>3. CASE at' = [at EXCEPT ![c] = [at |-> "create", unit |-> u, weekend |-> w]] /\ NotYet
    <3>1. at'[c].at = "create"
        BY <1>0, <2>3
    <3>. QED
        BY <2>1, <2>3, <3>1 DEF NotYet, QuietOf
  <2>4. CASE Goto(c, "done") /\ Answer(c, "unavailable")
    <3>1. \E h \in {"unavailable"} : Answer(c, h)
        BY <2>4
    <3>. QED
        BY <1>0, <2>1, <2>4, <3>1 DEF Goto, Answer, QuietOf, Promises
  <2>. QED
      BY <2>2, <2>3, <2>4
<1>4. CASE createReservation(c) \/ ensureInquiryStatus(c)
  <2>1. Same /\ \E p \in {"done", "inquiry", "deposit", "rollback"} : Goto(c, p)
      BY <1>4 DEF createReservation, ensureInquiryStatus, people, bookings, requests
  <2>2. NotYet \/ Answer(c, "noOffer")
      BY <1>4 DEF createReservation, ensureInquiryStatus
  <2>. QED
      BY <1>0, <2>1, <2>2 DEF Goto, NotYet, Answer, QuietOf, Promises
<1>5. CASE requestDeposit(c) \/ rollbackOffer(c)
  <2>1. Same /\ \E p \in {"done", "rollback"} : Goto(c, p)
      BY <1>5 DEF requestDeposit, rollbackOffer, people, bookings, requests
  <2>2. NotYet \/ Answer(c, "noOffer") \/ Answer(c, "offered")
      BY <1>5 DEF requestDeposit, rollbackOffer
  <2>. QED
      BY <1>0, <2>1, <2>2 DEF Goto, NotYet, Answer, QuietOf, Promises
<1>6. CASE recordPayment(c)
  <2>1. Same /\ NotYet /\ \E f : at' = [at EXCEPT ![c] = [at |-> "note", charge |-> f]]
      BY <1>6 DEF recordPayment, people, bookings, requests
  <2>. QED
      BY <1>0, <2>1 DEF NotYet, QuietOf
<1>7. CASE notifyPaymentReceived(c)
  <2>1. Same /\ Goto(c, "done")
      BY <1>7 DEF notifyPaymentReceived, people
  <2>2. \E h \in {"recorded", "noted", "failed"} : Answer(c, h)
      BY <1>7 DEF notifyPaymentReceived
  <2>. QED
      BY <1>0, <2>1, <2>2 DEF Goto, Answer, QuietOf, Promises
<1>8. CASE sendCheckinInfo(c)
  <2>1. Same /\ at[c].at = "idle" /\ (at' = at \/ Goto(c, "mail"))
      BY <1>8 DEF sendCheckinInfo, At, people, requests
  <2>2. NotYet \/ \E h \in {"unpaid", "alreadySent", "notSent"} : Answer(c, h)
      BY <1>8 DEF sendCheckinInfo
  <2>. QED
      BY <1>0, <2>1, <2>2 DEF Goto, NotYet, Answer, QuietOf, Promises
<1>9. CASE sendCheckinInfoEmail(c)
  <2>1. Same /\ Goto(c, "idle")
      BY <1>9 DEF sendCheckinInfoEmail, people, bookings, requests
  <2>2. \E h \in {"sent", "notSent"} : Answer(c, h)
      BY <1>9 DEF sendCheckinInfoEmail
  <2>. QED
      BY <1>0, <2>1, <2>2 DEF Goto, Answer, QuietOf, Promises
<1>. QED
    BY <1>1, <1>2, <1>3, <1>4, <1>5, <1>6, <1>7, <1>8, <1>9

\* postInboxMessage and the mark: what is told is what has happened.
LEMMA PostIsSteady ==
    ASSUME DeskIInv, AnswerIInv, NEW c \in Callers, DeskOf(c),
           postInboxMessage(c) \/ MarkPosted(c)
    PROVE  Steady
<1>1. /\ wish' = wish /\ res' = res /\ at[c].at \in {"post", "mark"}
      /\ at'[c].at \in {"mark", "done"}
      /\ \/ heard' = heard \/ heard' = [heard EXCEPT ![c] = Told(c, FALSE)]
         \/ heard' = [heard EXCEPT ![c] = Told(c, TRUE)] /\ at[c].at = "mark"
      /\ request' = request \/ request' = [request EXCEPT ![c].sent = TRUE]
  <2>1. CASE postInboxMessage(c)
    <3>1. wish' = wish /\ res' = res /\ at[c].at = "post" /\ request' = request
          /\ \E p \in {"mark", "done"} : Goto(c, p)
        BY <2>1 DEF postInboxMessage, At, people
    <3>2. NotYet \/ Answer(c, Told(c, FALSE))
        BY <2>1 DEF postInboxMessage
    <3>3. at'[c].at \in {"mark", "done"}
        BY <3>1 DEF Goto, DeskIInv
    <3>. QED
        BY <3>1, <3>2, <3>3 DEF NotYet, Answer
  <2>2. CASE MarkPosted(c)
    <3>1. wish' = wish /\ res' = res /\ at[c].at = "mark" /\ Goto(c, "done")
          /\ request' = [request EXCEPT ![c].sent = TRUE] /\ Answer(c, Told(c, TRUE))
        BY <2>2 DEF MarkPosted, At, people, bookings
    <3>. QED
        BY <3>1 DEF Answer, Goto, DeskIInv
  <2>. QED
      BY <2>1, <2>2
<1>2. DeskFits(c) /\ request[c] \in Requested /\ (at[c].at = "mark" => posted[c] > 0)
    BY <1>1 DEF DeskIInv, DeskFits
<1>3. ASSUME NEW d \in Callers
      PROVE  request'[d] = request[d] \/ (/\ request[d] \in Requested /\ request'[d] \in Requested
                                          /\ request'[d].status = request[d].status
                                          /\ request'[d].applied = request[d].applied)
  <2>1. CASE request' = [request EXCEPT ![c].sent = TRUE] /\ d = c
    <3>1. request'[c] = [request[c] EXCEPT !.sent = TRUE]
        BY <2>1 DEF DeskIInv
    <3>2. [request[c] EXCEPT !.sent = TRUE].status = request[c].status
          /\ [request[c] EXCEPT !.sent = TRUE].applied = request[c].applied
        BY <1>2 DEF Requested
    <3>3. request'[c] \in Requested
        BY <1>2, <3>1, RequestKinds
    <3>4. d = c
        BY <2>1
    <3>. QED
        BY <1>2, <3>1, <3>2, <3>3, <3>4
  <2>2. CASE d # c \/ request' = request
      BY <2>2 DEF DeskOf
  <2>. QED
      BY <1>1, <2>1, <2>2
<1>4. ASSUME NEW d \in Callers
      PROVE  HeardFits(d)'
  <2>1. HeardFits(d) /\ posted[d] \in Nat /\ posted'[d] \in Nat /\ posted'[d] >= posted[d]
      BY DEF AnswerIInv, AnswerFits, DeskIInv, DeskFits, DeskOf
  <2>2. CASE heard'[d] = heard[d]
      BY <1>3, <2>1, <2>2 DEF HeardFits
  <2>3. CASE heard'[d] # heard[d]
    <3>1. PICK sent \in BOOLEAN : heard' = [heard EXCEPT ![c] = Told(c, sent)]
                                  /\ (sent => at[c].at = "mark")
      <4>1. heard' # heard
          BY <2>3
      <4>. QED
          BY <1>1, <4>1
    <3>2. d = c /\ heard'[d] = Told(c, sent)
        BY <2>3, <3>1 DEF AnswerIInv
    <3>3. /\ Told(c, sent) = "applied" => request[c].applied
          /\ Told(c, sent) = "forwarded" => sent
          /\ Told(c, sent) # "rejected"
        BY DEF Told
    <3>4. request'[c] \in Requested /\ request'[c].applied = request[c].applied
        BY <1>2, <1>3
    <3>5. sent => posted'[c] > 0
        BY <1>2, <2>1, <3>1, <3>2
    <3>. QED
        BY <3>2, <3>3, <3>4, <3>5 DEF HeardFits
  <2>. QED
      BY <2>2, <2>3
<1>5. DOMAIN heard' = Callers
    BY <1>1 DEF AnswerIInv
<1>6. \A d \in Callers : at'[d] = at[d] \/ at'[d].at \notin {"apply", "update"}
    BY <1>1 DEF DeskOf
<1>. QED
    BY <1>1, <1>3, <1>4, <1>5, <1>6 DEF Steady

\* The retries, Hostaway and staff tell nobody anything.
LEMMA OutsideIsSteady ==
    ASSUME DeskIInv, AnswerIInv,
           \/ retryPendingForwards("sync") \/ (\E c \in Callers : retryForwardByStaff(c))
           \/ (\E p \in Retriers : RetryStep(p))
           \/ (\E r \in Callable : ConversationOpens(r)) \/ HostawaySync \/ Staff \/ UNCHANGED dvars
    PROVE  Steady
<1>1. UNCHANGED <<wish, heard, at>>
  <2>1. CASE retryPendingForwards("sync") \/ (\E c \in Callers : retryForwardByStaff(c))
             \/ (\E p \in Retriers : RetryStep(p))
      BY <2>1 DEF retryPendingForwards, retryForwardByStaff, RetryStep, retryForward, RetryMarks,
                  NotYet, people
  <2>2. CASE (\E r \in Callable : ConversationOpens(r)) \/ HostawaySync
      BY <2>2 DEF ConversationOpens, HostawaySync, NotYet, people
  <2>3. CASE Staff
      BY <2>3 DEF Staff, createRule, updateRule, deleteRule, updateVerificationConfig, ToggleOffers,
                  Edit, NotYet, people
  <2>. QED
      BY <2>1, <2>2, <2>3 DEF dvars
<1>2. \A r \in Reservations : res'[r].guests = res[r].guests /\ res'[r].pets = res[r].pets
  <2>1. CASE \E r \in Callable : ConversationOpens(r)
    <3>1. PICK r \in Reservations : res' = [res EXCEPT ![r].conv = TRUE]
        BY <2>1, FonioAssumption DEF ConversationOpens, Callable
    <3>2. res[r] \in Stay /\ DOMAIN res = Reservations
        BY DEF DeskIInv
    <3>3. res'[r] = [res[r] EXCEPT !.conv = TRUE] /\ \A s \in Reservations \ {r} : res'[s] = res[s]
        BY <3>1, <3>2
    <3>4. res'[r].guests = res[r].guests /\ res'[r].pets = res[r].pets
        BY <3>2, <3>3 DEF Stay
    <3>. QED
        BY <3>3, <3>4
  <2>2. CASE HostawaySync \/ Staff \/ UNCHANGED dvars
      BY <2>2 DEF HostawaySync, Staff, createRule, updateRule, deleteRule, updateVerificationConfig,
                  ToggleOffers, Edit, bookings, dvars
  <2>3. CASE retryPendingForwards("sync") \/ (\E c \in Callers : retryForwardByStaff(c))
             \/ (\E p \in Retriers : RetryStep(p))
      BY <2>3 DEF retryPendingForwards, retryForwardByStaff, RetryStep, retryForward, RetryMarks, bookings
  <2>. QED
      BY <2>1, <2>2, <2>3
<1>3. ASSUME NEW d \in Callers
      PROVE  /\ request'[d] = request[d] \/ (/\ request[d] \in Requested /\ request'[d] \in Requested
                                             /\ request'[d].status = request[d].status
                                             /\ request'[d].applied = request[d].applied)
             /\ posted'[d] \in Nat /\ posted'[d] >= posted[d]
  <2>1. CASE \E p \in Retriers : RetryMarks(p)
    <3>1. PICK p \in Retriers : RetryMarks(p)
        BY <2>1
    <3>2. request' = [request EXCEPT ![Next1(p)].sent = TRUE] /\ posted' = posted
          /\ retry[p].at = "mark"
        BY <3>1 DEF RetryMarks
    <3>3. CASE d = Next1(p)
      <4>1. request[d] \in Requested
          BY <3>2, <3>3 DEF DeskIInv, RetryFits
      <4>2. request'[d] = [request[d] EXCEPT !.sent = TRUE]
          BY <3>2, <3>3 DEF DeskIInv
      <4>3. [request[d] EXCEPT !.sent = TRUE].status = request[d].status
            /\ [request[d] EXCEPT !.sent = TRUE].applied = request[d].applied
          BY <4>1 DEF Requested
      <4>4. request'[d] \in Requested
          BY <4>1, <4>2, RequestKinds
      <4>5. posted'[d] \in Nat /\ posted'[d] >= posted[d]
          BY <3>2 DEF DeskIInv, DeskFits
      <4>. QED
          BY <4>1, <4>2, <4>3, <4>4, <4>5
    <3>4. CASE d # Next1(p)
        BY <3>2, <3>4 DEF DeskIInv, DeskFits
    <3>. QED
        BY <3>3, <3>4
  <2>2. CASE \E p \in Retriers : retryForward(p)
    <3>1. PICK p \in Retriers : retryForward(p)
        BY <2>2
    <3>2. request' = request /\ (posted' = posted \/ posted' = [posted EXCEPT ![Next1(p)] = @ + 1])
        BY <3>1 DEF retryForward
    <3>. QED
        BY <3>2 DEF DeskIInv, DeskFits
  <2>3. CASE retryPendingForwards("sync") \/ (\E c \in Callers : retryForwardByStaff(c))
             \/ (\E r \in Callable : ConversationOpens(r)) \/ HostawaySync \/ Staff \/ UNCHANGED dvars
    <3>1. request' = request /\ posted' = posted
        BY <2>3 DEF retryPendingForwards, retryForwardByStaff, ConversationOpens, HostawaySync, Staff,
                    createRule, updateRule, deleteRule, updateVerificationConfig, ToggleOffers, Edit,
                    requests, dvars
    <3>. QED
        BY <3>1 DEF DeskIInv, DeskFits
  <2>. QED
      BY <2>1, <2>2, <2>3 DEF RetryStep
<1>4. ASSUME NEW d \in Callers
      PROVE  HeardFits(d)'
  <2>1. HeardFits(d) /\ posted[d] \in Nat
      BY DEF AnswerIInv, AnswerFits, DeskIInv, DeskFits
  <2>. QED
      BY <1>1, <1>3, <2>1 DEF HeardFits
<1>. QED
    BY <1>1, <1>2, <1>3, <1>4 DEF Steady, AnswerIInv

\* handleRequest: only a granted request goes to Hostaway, a rejection is
\* told at once.
LEMMA SubmitAnswers ==
    ASSUME DeskIInv, AnswerIInv, NEW c \in Callers, DeskOf(c), submitRequest(c)
    PROVE  AnswerIInv'
<1>. DEFINE ctx == [current |-> row[token[c]].guests, requested |-> requestedGuests(token[c]),
                   capacity |-> Capacity, pets |-> TRUE, time |-> parseTimeToMinutes(15, 0)]
            status == StatusOf(evaluate(rules, wish[c], Bookings[token[c]].listingName, ctx))
            born == Cardinality({d \in Callers : request[d] # NoRequest})
            new == [status |-> status, applied |-> FALSE, sent |-> FALSE, born |-> born]
<1>1. /\ request' = [request EXCEPT ![c] = new]
      /\ CASE status = "AUTO_APPROVED" -> Goto(c, "apply") /\ NotYet
           [] status = "FORWARDED" -> Goto(c, "post") /\ NotYet
           [] OTHER -> Goto(c, "done") /\ Answer(c, "rejected")
      /\ request[c] = NoRequest
      /\ UNCHANGED <<wish, res, posted>>
    BY DEF submitRequest, people, bookings
<1>2. status \in {"AUTO_APPROVED", "REJECTED", "FORWARDED"}
    BY DEF StatusOf
<1>3. born \in Nat
    BY FonioAssumption, FS_Subset, FS_CardinalityType
<1>. HIDE DEF status, born
<1>4. new \in Requested /\ new.status = status /\ new.applied = FALSE
    BY <1>2, <1>3 DEF Requested
<1>. HIDE DEF new
<1>5. /\ at'[c].at \in {"apply", "update"} => status = "AUTO_APPROVED"
      /\ at'[c].at # "update"
    BY <1>1, <1>2 DEF Goto, DeskIInv
<1>6. heard' = heard \/ (heard' = [heard EXCEPT ![c] = "rejected"] /\ status = "REJECTED")
    BY <1>1, <1>2 DEF NotYet, Answer
<1>7. request'[c] = new /\ request[c] \notin Requested /\ \A d \in Callers \ {c} : request'[d] = request[d]
    BY <1>1, RequestKinds DEF DeskIInv
<1>8. Onward
    BY <1>1, <1>4, <1>7 DEF Onward, DeskOf
<1>9. ASSUME NEW r \in Reservations
      PROVE  Counted(res[r], r)'
  <2>1. Counted(res[r], r) /\ res' = res /\ res[r].guests \in Nat /\ res[r].pets \in Nat
      BY <1>1 DEF AnswerIInv, DeskIInv, Stay
  <2>. QED
      BY <1>8, <2>1, CountsGrow, FonioAssumption DEF Counted
<1>10. ASSUME NEW d \in Callers, d # c
       PROVE  AnswerFits(d)'
  <2>1. AnswerFits(d) /\ DeskFits(d) /\ at'[d] = at[d] /\ heard'[d] = heard[d]
        /\ request'[d] = request[d] /\ UNCHANGED <<wish, res, posted>>
      BY <1>1, <1>6, <1>7, <1>10 DEF AnswerIInv, DeskIInv, DeskOf
  <2>2. at[d].at = "update" => Counted(at[d].live, Own[d])'
    <3>. SUFFICES ASSUME at[d].at = "update"
                  PROVE  Counted(at[d].live, Own[d])'
        OBVIOUS
    <3>1. at[d].live.guests \in Nat /\ at[d].live.pets \in Nat /\ Counted(at[d].live, Own[d])
        BY <2>1 DEF DeskFits, Stay, AnswerFits
    <3>. QED
        BY <1>8, <2>1, <3>1, CountsGrow, FonioAssumption DEF Counted
  <2>. QED
      BY <2>1, <2>2 DEF AnswerFits, AppliedFits, HeardFits
<1>11. AnswerFits(c)'
  <2>1. HeardFits(c)
      BY DEF AnswerIInv, AnswerFits
  <2>2. HeardFits(c)'
      BY <1>1, <1>4, <1>6, <1>7, <2>1 DEF HeardFits, AnswerIInv
  <2>. QED
      BY <1>4, <1>5, <1>7, <2>2 DEF AnswerFits
<1>12. DOMAIN heard' = Callers
    BY <1>6 DEF AnswerIInv
<1>. QED
    BY <1>9, <1>10, <1>11, <1>12 DEF AnswerIInv

\* applyToHostaway reads what the requests so far have made of the booking.
LEMMA ReadAnswers ==
    ASSUME DeskIInv, AnswerIInv, NEW c \in Callers, DeskOf(c), applyRead(c)
    PROVE  AnswerIInv'
<1>1. /\ at[c].at = "apply" /\ UNCHANGED <<wish, res, request, posted, heard>>
      /\ \/ at' = [at EXCEPT ![c] = [at |-> "update", live |-> res[token[c]]]]
         \/ at' = [at EXCEPT ![c] = [at |-> "post"]]
    BY DEF applyRead, At, Goto, NotYet, people, bookings, requests
<1>2. token[c] = Own[c] /\ Own[c] \in Reservations /\ request[c] \in Requested
    BY <1>1, FonioAssumption DEF DeskIInv, DeskFits
<1>3. Onward
    BY <1>1 DEF Onward, DeskOf
<1>4. ASSUME NEW r \in Reservations
      PROVE  Counted(res[r], r)'
  <2>1. Counted(res[r], r) /\ res' = res /\ res[r].guests \in Nat /\ res[r].pets \in Nat
      BY <1>1 DEF AnswerIInv, DeskIInv, Stay
  <2>. QED
      BY <1>3, <2>1, CountsGrow, FonioAssumption DEF Counted
<1>5. ASSUME NEW d \in Callers
      PROVE  AnswerFits(d)'
  <2>1. AnswerFits(d) /\ DeskFits(d) /\ UNCHANGED <<wish, res, request, posted, heard>>
      BY <1>1 DEF AnswerIInv, DeskIInv
  <2>2. CASE at'[d] = at[d]
    <3>1. at[d].at = "update" => Counted(at[d].live, Own[d])'
      <4>. SUFFICES ASSUME at[d].at = "update"
                    PROVE  Counted(at[d].live, Own[d])'
          OBVIOUS
      <4>1. at[d].live.guests \in Nat /\ at[d].live.pets \in Nat /\ Counted(at[d].live, Own[d])
          BY <2>1 DEF DeskFits, Stay, AnswerFits
      <4>. QED
          BY <1>3, <2>2, <4>1, CountsGrow, FonioAssumption DEF Counted
    <3>. QED
        BY <2>1, <2>2, <3>1 DEF AnswerFits, AppliedFits, HeardFits
  <2>3. CASE at'[d] # at[d]
    <3>1. d = c /\ at'[c].at \in {"update", "post"} /\ (at'[c].at = "update" => at'[c].live = res[Own[c]])
        BY <1>1, <1>2, <2>3 DEF DeskOf, DeskIInv
    <3>2. request[c].status = "AUTO_APPROVED" /\ ~request[c].applied
        BY <1>1, <1>2, <2>1, <3>1 DEF AnswerFits, AppliedFits, Requested
    <3>3. at'[c].at = "update" => Counted(at[c].live, Own[c])'
      <4>. SUFFICES ASSUME at'[c].at = "update"
                    PROVE  Counted(at[c].live, Own[c])'
          OBVIOUS
      <4>1. Counted(res[Own[c]], Own[c])'
          BY <1>2, <1>4
      <4>. QED
          BY <1>1, <3>1, <4>1 DEF Counted
    <3>. QED
        BY <2>1, <3>1, <3>2, <3>3 DEF AnswerFits, AppliedFits, HeardFits
  <2>. QED
      BY <2>2, <2>3
<1>. QED
    BY <1>1, <1>4, <1>5 DEF AnswerIInv

\* A request that is written counts from then on.
LEMMA PastGains ==
    ASSUME DeskIInv, Onward, NEW c \in Callers, at[c].at = "update", at'[c].at = "post"
    PROVE  /\ wish[c] = "ADD_GUEST" => Guested(Own[c])' >= Guested(Own[c]) + 1
           /\ wish[c] = "ADD_PET" => Petted(Own[c])' >= Petted(Own[c]) + 1
<1>. SUFFICES ASSUME NEW type, wish[c] = type
              PROVE  Cardinality(Past(Own[c], type)') >= Cardinality(Past(Own[c], type)) + 1
    BY DEF Guested, Petted
<1>1. request'[c] \in Requested /\ wish'[c] = type
    BY DEF DeskIInv, DeskFits, Onward
<1>2. c \in Past(Own[c], type)' /\ c \notin Past(Own[c], type)
    BY <1>1 DEF Past
<1>3. Past(Own[c], type) \cup {c} \in SUBSET Past(Own[c], type)'
    BY <1>2, PastGrows
<1>4. /\ IsFiniteSet(Past(Own[c], type)') /\ IsFiniteSet(Past(Own[c], type))
      /\ Cardinality(Past(Own[c], type)) \in Nat /\ Cardinality(Past(Own[c], type)') \in Nat
    BY PastGrows, PastFinite
<1>5. Cardinality(Past(Own[c], type) \cup {c}) = Cardinality(Past(Own[c], type)) + 1
    BY <1>2, <1>4, FS_AddElement
<1>6. Cardinality(Past(Own[c], type) \cup {c}) <= Cardinality(Past(Own[c], type)')
    BY <1>3, <1>4, FS_Subset
<1>. QED
    BY <1>4, <1>5, <1>6

\* applyToHostaway writes: the counts it read and one more, whatever others
\* have written since.
LEMMA UpdateAnswers ==
    ASSUME DeskIInv, AnswerIInv, NEW c \in Callers, DeskOf(c), applyUpdate(c)
    PROVE  AnswerIInv'
<1>. DEFINE r == Own[c]
            live == at[c].live
            new == buildHostawayUpdate(wish[c], live, res[r])
<1>1. /\ at[c].at = "update" /\ at'[c].at = "post"
      /\ UNCHANGED <<wish, posted, heard>>
      /\ \/ res' = res /\ request' = request
         \/ res' = [res EXCEPT ![r] = new] /\ request' = request
         \/ res' = [res EXCEPT ![r] = new] /\ request' = [request EXCEPT ![c].applied = TRUE]
  <2>1. token[c] = Own[c]
      BY DEF applyUpdate, At, DeskIInv, DeskFits
  <2>. QED
      BY <2>1 DEF applyUpdate, At, Goto, NotYet, people, DeskIInv
<1>2. /\ r \in Reservations /\ request[c] \in Requested /\ live \in Stay /\ CanApply(wish[c])
      /\ request[c].status = "AUTO_APPROVED" /\ ~request[c].applied
      /\ Counted(live, r)
    BY <1>1, FonioAssumption DEF DeskIInv, DeskFits, AnswerIInv, AnswerFits, AppliedFits, Requested
<1>3. Onward
    BY <1>1 DEF Onward, DeskOf
<1>4. /\ wish[c] = "ADD_GUEST" => new.guests = live.guests + 1 /\ new.pets = res[r].pets
      /\ wish[c] = "ADD_PET" => new.pets = live.pets + 1 /\ new.guests = res[r].guests
  <2>1. res[r] \in Stay
      BY <1>2 DEF DeskIInv
  <2>. QED
      BY <2>1 DEF buildHostawayUpdate, Stay
<1>5. /\ live.guests \in Nat /\ live.pets \in Nat /\ Guests \in Nat
      /\ \A s \in Reservations : res[s].guests \in Nat /\ res[s].pets \in Nat /\ Counted(res[s], s)
    BY <1>2, FonioAssumption DEF Stay, DeskIInv, AnswerIInv
<1>. HIDE DEF new, live
<1>6. \A s \in Reservations : res'[s] = res[s] \/ (s = r /\ res'[s] = new)
    BY <1>1 DEF DeskIInv
<1>7. ASSUME NEW s \in Reservations
      PROVE  Counted(res[s], s)'
  <2>1. CASE res'[s] = res[s]
      BY <1>3, <1>5, <2>1, CountsGrow DEF Counted
  <2>2. CASE s = r /\ res'[s] = new
    <3>1. /\ wish[c] = "ADD_GUEST" => Guested(r)' >= Guested(r) + 1
          /\ wish[c] = "ADD_PET" => Petted(r)' >= Petted(r) + 1
        BY <1>1, <1>3, PastGains
    <3>2. /\ Guested(r) \in Nat /\ Guested(r)' \in Nat /\ Guested(r) <= Guested(r)'
          /\ Petted(r) \in Nat /\ Petted(r)' \in Nat /\ Petted(r) <= Petted(r)'
        BY <1>3, CountsGrow
    <3>3. Counted(res[r], r) /\ res[r].guests \in Nat /\ res[r].pets \in Nat
        BY <1>2, <1>5
    <3>. HIDE DEF r
    <3>4. CASE wish[c] = "ADD_GUEST"
        BY <1>2, <1>4, <1>5, <2>2, <3>1, <3>2, <3>3, <3>4 DEF Counted
    <3>5. CASE wish[c] = "ADD_PET"
        BY <1>2, <1>4, <1>5, <2>2, <3>1, <3>2, <3>3, <3>5 DEF Counted
    <3>. QED
        BY <1>2, <3>4, <3>5 DEF CanApply
  <2>. QED
      BY <1>6, <2>1, <2>2
<1>8. ASSUME NEW s \in Reservations
      PROVE  /\ res[s].guests > Guests => res'[s].guests > Guests
             /\ res[s].pets > 0 => res'[s].pets > 0
  <2>1. CASE res'[s] = res[s]
      BY <2>1
  <2>2. CASE s = r /\ res'[s] = new
    <3>1. live.guests >= Guests
        BY <1>2 DEF Counted
    <3>2. CASE wish[c] = "ADD_GUEST"
        BY <1>4, <1>5, <2>2, <3>1, <3>2
    <3>3. CASE wish[c] = "ADD_PET"
        BY <1>4, <1>5, <2>2, <3>1, <3>3
    <3>. QED
        BY <1>2, <3>2, <3>3 DEF CanApply
  <2>. QED
      BY <1>6, <2>1, <2>2
<1>9. ASSUME NEW d \in Callers, d # c
      PROVE  AnswerFits(d)'
  <2>1. AnswerFits(d) /\ DeskFits(d) /\ at'[d] = at[d] /\ request'[d] = request[d]
        /\ UNCHANGED <<wish, posted, heard>> /\ Own[d] \in Reservations
      BY <1>1, <1>9, FonioAssumption DEF AnswerIInv, DeskIInv, DeskOf
  <2>2. at[d].at = "update" => Counted(at[d].live, Own[d])'
    <3>. SUFFICES ASSUME at[d].at = "update"
                  PROVE  Counted(at[d].live, Own[d])'
        OBVIOUS
    <3>1. at[d].live.guests \in Nat /\ at[d].live.pets \in Nat /\ Counted(at[d].live, Own[d])
        BY <2>1 DEF DeskFits, Stay, AnswerFits
    <3>. QED
        BY <1>3, <2>1, <3>1, CountsGrow, FonioAssumption DEF Counted
  <2>3. AppliedFits(d) => AppliedFits(d)'
      BY <1>8, <2>1 DEF AppliedFits
  <2>. QED
      BY <2>1, <2>2, <2>3 DEF AnswerFits, HeardFits
<1>10. request'[c] \in Requested /\ request'[c].status = request[c].status
       /\ (request'[c].applied => res' = [res EXCEPT ![r] = new])
       /\ (request[c].applied => request'[c].applied)
  <2>1. CASE request' = [request EXCEPT ![c].applied = TRUE]
    <3>1. request'[c] = [request[c] EXCEPT !.applied = TRUE]
        BY <2>1 DEF DeskIInv
    <3>2. [request[c] EXCEPT !.applied = TRUE].status = request[c].status
          /\ [request[c] EXCEPT !.applied = TRUE].applied = TRUE
        BY <1>2 DEF Requested
    <3>3. request'[c] \in Requested
        BY <1>2, <3>1, RequestKinds
    <3>4. res' = [res EXCEPT ![r] = new]
      <4>1. request'[c].applied # request[c].applied
          BY <1>2, <3>1, <3>2
      <4>. QED
          BY <1>1, <4>1
    <3>. QED
        BY <3>1, <3>2, <3>3, <3>4
  <2>2. CASE request' = request
      BY <1>2, <2>2
  <2>. QED
      BY <1>1, <2>1, <2>2
<1>11. AnswerFits(c)'
  <2>1. HeardFits(c)'
    <3>1. HeardFits(c)
        BY DEF AnswerIInv, AnswerFits
    <3>. QED
        BY <1>1, <1>2, <1>10, <3>1 DEF HeardFits
  <2>2. request'[c].applied => AppliedFits(c)'
    <3>. SUFFICES ASSUME request'[c].applied
                  PROVE  AppliedFits(c)'
        OBVIOUS
    <3>1. res'[r] = new
        BY <1>2, <1>10 DEF DeskIInv
    <3>2. live.guests >= Guests
        BY <1>2 DEF Counted
    <3>3. wish[c] = "ADD_GUEST" => res'[r].guests > Guests
        BY <1>4, <1>5, <3>1, <3>2
    <3>4. wish[c] = "ADD_PET" => res'[r].pets > 0
        BY <1>4, <1>5, <3>1
    <3>. QED
        BY <1>1, <1>2, <1>10, <3>3, <3>4 DEF AppliedFits
  <2>. QED
      BY <1>1, <2>1, <2>2 DEF AnswerFits
<1>. QED
    BY <1>1, <1>7, <1>9, <1>11 DEF AnswerIInv

LEMMA AnswerStep == DeskIInv /\ AnswerIInv /\ [FonioNext]_dvars => AnswerIInv'
<1>. SUFFICES ASSUME DeskIInv, AnswerIInv, [FonioNext]_dvars
              PROVE  AnswerIInv'
    OBVIOUS
<1>1. CASE \E c \in Callers : verifyGuest(c) \/ Call(c) \/ CallStep(c)
  <2>1. PICK c \in Callers : verifyGuest(c) \/ Call(c) \/ CallStep(c)
      BY <1>1
  <2>2. DeskOf(c)
      BY <2>1, VerifyStep, SubmitStep, ApplyReadStep, ApplyUpdateStep, PostStep, MarkStep, OtherWishStep,
         Zenon DEF Call, CallStep
  <2>3. CASE submitRequest(c) \/ applyRead(c) \/ applyUpdate(c)
      BY <2>2, <2>3, SubmitAnswers, ReadAnswers, UpdateAnswers, Zenon
  <2>4. CASE postInboxMessage(c) \/ MarkPosted(c)
      BY <2>2, <2>4, PostIsSteady, SteadyKeeps, Zenon
  <2>5. CASE ~(submitRequest(c) \/ applyRead(c) \/ applyUpdate(c) \/ postInboxMessage(c) \/ MarkPosted(c))
    <3>1. QuietOf(c)
        BY <2>1, <2>5, QuietSteps, Zenon DEF Call, CallStep
    <3>. QED
        BY <2>2, <3>1, QuietIsSteady, SteadyKeeps, Zenon
  <2>. QED
      BY <2>3, <2>4, <2>5
<1>2. CASE ~ \E c \in Callers : verifyGuest(c) \/ Call(c) \/ CallStep(c)
    BY <1>2, OutsideIsSteady, SteadyKeeps, Zenon DEF FonioNext
<1>. QED
    BY <1>1, <1>2

\* What the invariant says of one caller's booking.
LEMMA AnswerGives == DeskIInv /\ AnswerIInv => AnswerIsTrue
<1>. SUFFICES ASSUME DeskIInv, AnswerIInv, NEW c \in Callers
              PROVE  LET r == res[Own[c]]
                         extra == (r.guests - Guests) + r.pets
                     IN  /\ extra <= Cardinality({d \in Callers : Own[d] = Own[c] /\ request[d] # NoRequest})
                         /\ heard[c] = "applied" => extra > 0
                         /\ heard[c] = "rejected" => request[c].status = "REJECTED" /\ ~request[c].applied
                         /\ heard[c] = "forwarded" => posted[c] > 0
    BY DEF AnswerIsTrue
<1>. DEFINE r == Own[c]
            G == Past(r, "ADD_GUEST")
            P == Past(r, "ADD_PET")
            All == {d \in Callers : Own[d] = Own[c] /\ request[d] # NoRequest}
<1>1. /\ r \in Reservations /\ Counted(res[r], r) /\ AnswerFits(c) /\ DeskFits(c)
      /\ res[r].guests \in Nat /\ res[r].pets \in Nat /\ Guests \in Nat
    BY FonioAssumption DEF DeskIInv, AnswerIInv, Stay
<1>2. G \cup P \in SUBSET All /\ G \cap P = {}
    BY RequestKinds DEF Past
<1>3. /\ IsFiniteSet(G) /\ IsFiniteSet(P) /\ IsFiniteSet(All)
      /\ Cardinality(G) \in Nat /\ Cardinality(P) \in Nat /\ Cardinality(All) \in Nat
  <2>1. All \in SUBSET Callers
      OBVIOUS
  <2>. QED
      BY <2>1, PastFinite, FonioAssumption, FS_Subset, FS_CardinalityType
<1>4. Cardinality(G \cup P) = Cardinality(G) + Cardinality(P)
  <2>1. Cardinality(G \cup P) = Cardinality(G) + Cardinality(P) - Cardinality(G \cap P)
      BY <1>3, FS_Union
  <2>2. Cardinality(G \cap P) = 0
      BY <1>2, FS_EmptySet
  <2>. QED
      BY <1>3, <2>1, <2>2
<1>5. Cardinality(G) + Cardinality(P) <= Cardinality(All)
    BY <1>2, <1>3, <1>4, FS_Subset
<1>6. res[r].guests - Guests <= Cardinality(G) /\ res[r].pets <= Cardinality(P) /\ res[r].guests >= Guests
    BY <1>1 DEF Counted, Guested, Petted
<1>. HIDE DEF G, P, All
<1>7. (res[r].guests - Guests) + res[r].pets <= Cardinality(All)
    BY <1>1, <1>3, <1>5, <1>6
<1>8. heard[c] = "applied" => (res[r].guests - Guests) + res[r].pets > 0
  <2>. SUFFICES ASSUME heard[c] = "applied"
                PROVE  (res[r].guests - Guests) + res[r].pets > 0
      OBVIOUS
  <2>1. CanApply(wish[c]) /\ (wish[c] = "ADD_GUEST" => res[r].guests > Guests)
        /\ (wish[c] = "ADD_PET" => res[r].pets > 0)
      BY <1>1 DEF AnswerFits, HeardFits, AppliedFits
  <2>. QED
      BY <1>1, <1>6, <2>1 DEF CanApply
<1>9. heard[c] = "rejected" => request[c].status = "REJECTED" /\ ~request[c].applied
    BY <1>1 DEF AnswerFits, HeardFits, AppliedFits
<1>10. heard[c] = "forwarded" => posted[c] > 0
    BY <1>1 DEF AnswerFits, HeardFits
<1>. QED
    BY <1>7, <1>8, <1>9, <1>10 DEF All

\* However calls, retries, the sync and staff overlap and fail, a booking
\* never has more guests and pets than were asked for, and what a caller was
\* told of a change is so (applyToHostaway, buildGuestMessageDe).
THEOREM AnswerTheorem == FonioSpec => []AnswerIsTrue
<1>1. FonioInit => AnswerIInv
  <2>. SUFFICES ASSUME FonioInit
                PROVE  AnswerIInv
      OBVIOUS
  <2>1. /\ res = [r \in Reservations |-> [guests |-> Guests, pets |-> 0, conv |-> FALSE]]
        /\ at = [c \in Callers |-> Idle] /\ request = [c \in Callers |-> NoRequest]
        /\ heard = [c \in Callers |-> "nothing"]
      BY DEF FonioInit
  <2>2. \A r \in Reservations : Counted(res[r], r)
    <3>1. \A r : Guested(r) \in Nat /\ Petted(r) \in Nat
        BY PastFinite DEF Guested, Petted
    <3>2. \A r \in Reservations : res[r].guests = Guests /\ res[r].pets = 0
        BY <2>1
    <3>. QED
        BY <3>1, <3>2, FonioAssumption DEF Counted
  <2>3. \A c \in Callers : AnswerFits(c)
      BY <2>1, RequestKinds DEF AnswerFits, HeardFits, Idle
  <2>. QED
      BY <2>1, <2>2, <2>3 DEF AnswerIInv
<1>. QED
    BY <1>1, DeskStart, DeskStep, AnswerStep, AnswerGives, PTL DEF FonioSpec
=============================================================================
