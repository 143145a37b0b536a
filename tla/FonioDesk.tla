----------------------------- MODULE FonioDesk -----------------------------
(***************************************************************************)
(* The phone assistant's calls: fonio.controller.ts with the services      *)
(* behind it.  A caller is verified and then wants something: a change of  *)
(* the booking, a payment noted, the arrival information, or an offer for  *)
(* other dates.  Requests that could not be posted to the Hostaway inbox   *)
(* are tried again by the sync with Hostaway and by staff.                 *)
(*                                                                         *)
(* Every call to Hostaway is a step.  How a caller is recognised, what is  *)
(* granted and what is free are operators of the modules extended here.    *)
(***************************************************************************)
EXTENDS FonioVerification, ApprovalRules, FonioAvailability

CONSTANTS
    Callers,
    Bookings,       \* reservation -> the fields a caller can be asked for
    Own,            \* caller -> the caller's reservation
    Says,           \* caller -> the sets of fields the caller may give
    Wants,          \* caller -> what the caller may call for
    KnownAtStart,   \* sets of reservations that may be known at the start
    Units,          \* listings, see FonioAvailability
    HostawayDays,   \* unit -> Hostaway's calendar
    CachedDays,     \* calendars that may be cached at the start
    Asked,          \* the search behind an offer
    Period,         \* first and last day of a weekend search
    Guests,         \* guests of every booking at the start
    Capacity,       \* of the listing booked
    Number,         \* "additional" or "details": where a call puts the
                    \*   number of additional guests
    Config,         \* verification settings at the start
    RetryLimit,     \* requests of one round of retryPendingForwards
    MaxFaults,      \* failing calls to Hostaway
    MaxEdits        \* changes by staff

Reservations == DOMAIN Bookings
Callable == {Own[c] : c \in Callers}
Retriers == {"sync", "staff"}
Offline == "none"

ASSUME FonioAssumption ==
    /\ Own \in [Callers -> Reservations]
    /\ \A S \in KnownAtStart : S \subseteq Reservations
    /\ Number \in {"additional", "details"}
    /\ {Guests, Capacity, RetryLimit, MaxFaults, MaxEdits} \subseteq Nat
    /\ IsFiniteSet(Callers) /\ IsFiniteSet(Reservations) /\ Offline \notin Reservations

\* Three matches are needed at least (the default of verification.config), of
\* fields that are asked for.
ASSUME VerificationStart ==
    /\ DOMAIN Config = {"fields", "min", "offers"}
    /\ Config.min \in 3..Cardinality(normalizeVerificationConfigFields(Config.fields))

\* A number stands for one booking; bookings of the same dates share at most
\* one further field, so the guest of the one cannot be the guest of the other.
ASSUME GuestsDiffer ==
    \A r, s \in Reservations : r # s =>
        /\ Bookings[r].reservationId # Bookings[s].reservationId
        /\ Bookings[r].stayDates = Bookings[s].stayDates =>
             Cardinality({f \in VERIFICATION_FIELD_OPTIONS : Bookings[r][f] = Bookings[s][f]}) <= 2

\* Every listing has a calendar, here and in Hostaway.
ASSUME Calendars ==
    /\ \A days \in CachedDays \cup {HostawayDays} : DOMAIN days = DOMAIN Units
    /\ DOMAIN Asked = {"city", "guests", "pets", "nearby", "nights", "checkIn", "checkOut"}
    /\ Asked.nights \in Nat /\ {Period.first, Period.last} \subseteq Int

VARIABLES
    wish,      \* what each caller calls for
    says,      \* what each caller tells
    config,    \* VerificationConfig, with bookingOfferEnabled
    rules,     \* ApprovalRule
    known,     \* reservations with a row here
    res,       \* reservations in Hostaway: guests, pets, conversation
    row,       \* the same as stored here
    at,        \* where the call's handler is
    token,     \* the reservation the caller's token is for, or Offline
    request,   \* GuestRequest
    posted,    \* how often the request was posted to the inbox
    heard,     \* what the caller was told last
    retry,     \* what each retrier is doing
    cache,     \* CalendarDay
    named,     \* the weekends named to the caller, and the cache they are from
    offer,     \* the reservation created for the caller's offer
    critical,  \* offers whose rollback failed
    paid, arrival,   \* charges booked by phone and arrival mails, by reservation
    faults, edits

people == <<wish, says, token>>
settings == <<config, rules, edits>>
bookings == <<known, res, row>>
requests == <<request, posted, retry>>
offers == <<cache, named, offer, critical>>
money == <<paid, arrival>>
dvars == <<wish, says, config, rules, known, res, row, at, token, request, posted, heard,
           retry, cache, named, offer, critical, paid, arrival, faults, edits>>

Idle == [at |-> "idle"]
NoRequest == [status |-> "none"]
NoOffer == [status |-> "none", asked |-> FALSE]

FonioInit ==
    /\ wish \in [Callers -> UNION {Wants[c] : c \in Callers}]
    /\ \A c \in Callers : wish[c] \in Wants[c]
    /\ \E f \in [Callers -> UNION {Says[c] : c \in Callers}] :
          /\ \A c \in Callers : f[c] \in Says[c]
          /\ says = [c \in Callers |-> [g \in f[c] |-> Bookings[Own[c]][g]]]
    /\ config = Config
    /\ rules = seedDefaults
    /\ known \in KnownAtStart
    /\ res = [r \in Reservations |-> [guests |-> Guests, pets |-> 0, conv |-> FALSE]]
    /\ row = res
    /\ at = [c \in Callers |-> Idle]
    /\ token = [c \in Callers |-> Offline]
    /\ request = [c \in Callers |-> NoRequest]
    /\ posted = [c \in Callers |-> 0]
    /\ heard = [c \in Callers |-> "nothing"]
    /\ retry = [p \in Retriers |-> Idle]
    /\ cache \in CachedDays
    /\ named = [c \in Callers |-> [slots |-> {}, from |-> cache]]
    /\ offer = [c \in Callers |-> NoOffer]
    /\ critical = {}
    /\ paid = [r \in Reservations |-> 0]
    /\ arrival = [r \in Reservations |-> 0]
    /\ faults = 0 /\ edits = 0

----------------------------------------------------------------------------
At(c, p) == at[c].at = p
Goto(c, p) == at' = [at EXCEPT ![c] = [at |-> p]]
Fault == faults < MaxFaults /\ faults' = faults + 1

\* The handler answers; the activity row it leaves is not kept here.
Answer(c, what) == heard' = [heard EXCEPT ![c] = what]

NotYet == UNCHANGED heard

\* POST guest/verify.  The rows fetched on the way stay.
verifyGuest(c) ==
    /\ At(c, "idle") /\ wish[c] # "offer" /\ token[c] = Offline
    /\ \E s \in {findReservation(says[c], known, Bookings)} :
       \E result \in {verify(config, says[c], s.found, Bookings)} :
          /\ known' = IF result = "missing" THEN known ELSE s.known
          /\ row' = [r \in Reservations |-> IF r \in known' \ known THEN res[r] ELSE row[r]]
          /\ token' = [token EXCEPT ![c] = IF result = "verified" THEN CHOOSE r \in s.found : TRUE ELSE @]
          /\ Answer(c, result)
    /\ UNCHANGED <<wish, says, at, res, settings, requests, offers, money, faults>>

----------------------------------------------------------------------------
(* Requests.                                                               *)

Pending(c) == request[c].status = "FORWARDED" /\ ~request[c].sent

\* The guests the rules are asked about.  A number given as additionalGuests
\* is taken for the total, one in the details is added to the guests there
\* are.
requestedGuests(r) == IF Number = "additional" THEN 1 ELSE row[r].guests + 1

StatusOf(mode) ==
    CASE mode = "AUTO" -> "AUTO_APPROVED" [] mode = "DENY" -> "REJECTED" [] OTHER -> "FORWARDED"

\* Every later call carries the token of the verification; without one, or for
\* another reservation than the token's, it is refused.
assertVerified(c) == token[c] # Offline

\* handleRequest: the request is judged and stored; a rejected one is
\* answered.
submitRequest(c) ==
    /\ At(c, "idle") /\ wish[c] \in RequestTypes
    /\ assertVerified(c) /\ token[c] \in known /\ request[c] = NoRequest
    /\ LET r == token[c]
           ctx == [current |-> row[r].guests, requested |-> requestedGuests(r),
                   capacity |-> Capacity, pets |-> TRUE, time |-> parseTimeToMinutes(15, 0)]
           status == StatusOf(evaluate(rules, wish[c], Bookings[r].listingName, ctx))
           born == Cardinality({d \in Callers : request[d] # NoRequest})
       IN  /\ request' = [request EXCEPT ![c] =
                            [status |-> status, applied |-> FALSE, sent |-> FALSE, born |-> born]]
           /\ CASE status = "AUTO_APPROVED" -> Goto(c, "apply") /\ NotYet
                [] status = "FORWARDED" -> Goto(c, "post") /\ NotYet
                [] OTHER -> Goto(c, "done") /\ Answer(c, "rejected")
    /\ UNCHANGED <<people, settings, bookings, posted, retry, offers, money, faults>>

\* buildHostawayUpdate on the counts of the reservation.
CanApply(type) == type \in {"ADD_GUEST", "ADD_PET"}

buildHostawayUpdate(type, live, now) ==
    IF type = "ADD_GUEST" THEN [now EXCEPT !.guests = live.guests + 1]
                          ELSE [now EXCEPT !.pets = live.pets + 1]

\* applyToHostaway reads the reservation ...
applyRead(c) ==
    /\ At(c, "apply")
    /\ IF CanApply(wish[c])
       THEN \/ /\ at' = [at EXCEPT ![c] = [at |-> "update", live |-> res[token[c]]]]
               /\ UNCHANGED faults
            \/ Fault /\ Goto(c, "post")
       ELSE Goto(c, "post") /\ UNCHANGED faults
    /\ NotYet /\ UNCHANGED <<people, settings, bookings, requests, offers, money>>

\* ... and writes the counts back, then the row is refreshed, or not when
\* Hostaway fails then.  The answer to the write may be lost.
applyUpdate(c) ==
    /\ At(c, "update")
    /\ LET r == token[c]
           new == buildHostawayUpdate(wish[c], at[c].live, res[r])
       IN  \/ /\ res' = [res EXCEPT ![r] = new]
              /\ request' = [request EXCEPT ![c].applied = TRUE]
              /\ \/ row' = [row EXCEPT ![r] = [new EXCEPT !.conv = row[r].conv]] /\ UNCHANGED faults
                 \/ UNCHANGED row /\ Fault
           \/ Fault /\ UNCHANGED <<res, row, request>>
           \/ Fault /\ res' = [res EXCEPT ![r] = new] /\ UNCHANGED <<row, request>>
    /\ Goto(c, "post")
    /\ NotYet /\ UNCHANGED <<people, settings, known, posted, retry, offers, money>>

\* Plausible slip: Hostaway is not asked for a conversation.
ConversationMut(r) == row[r].conv

\* resolveConversationId: the conversation stored here, or else Hostaway's.
Conversation(r) == row[r].conv \/ res[r].conv
Linked(r) == [row EXCEPT ![r].conv = Conversation(r)]

\* Plausible slip: the guest is told of the change because it was granted.
ToldMut(c, sent) ==
    IF request[c].status = "AUTO_APPROVED" THEN "applied"
    ELSE IF sent THEN "forwarded" ELSE "pending"

\* The end of handleRequest.
Told(c, sent) ==
    LET q == request[c] IN
    CASE q.status = "AUTO_APPROVED" /\ q.applied -> "applied"
      [] q.status = "AUTO_APPROVED" /\ ~q.applied -> "team"
      [] OTHER -> IF sent THEN "forwarded" ELSE "pending"

\* postInboxMessage of the handler: without a conversation, or when the
\* message cannot be sent, the request stays unposted.
postInboxMessage(c) ==
    /\ At(c, "post")
    /\ row' = Linked(token[c])
    /\ \/ /\ Conversation(token[c])
          /\ posted' = [posted EXCEPT ![c] = @ + 1]
          /\ Goto(c, "mark")
          /\ NotYet /\ UNCHANGED faults
       \/ /\ Conversation(token[c]) => Fault
          /\ ~Conversation(token[c]) => UNCHANGED faults
          /\ Goto(c, "done")
          /\ Answer(c, Told(c, FALSE))
          /\ UNCHANGED posted
    /\ UNCHANGED <<people, settings, known, res, request, retry, offers, money>>

\* The request is marked as posted.
MarkPosted(c) ==
    /\ At(c, "mark")
    /\ request' = [request EXCEPT ![c].sent = TRUE]
    /\ Goto(c, "done")
    /\ Answer(c, Told(c, TRUE))
    /\ UNCHANGED <<people, settings, bookings, posted, retry, offers, money, faults>>

----------------------------------------------------------------------------
(* Requests that wait for the inbox.                                       *)

Before(c, d) == request[c].born < request[d].born

\* retryPendingForwards takes the oldest requests of the table.
retryPendingForwards(p) ==
    /\ retry[p].at = "idle"
    /\ LET due == {c \in Callers : Pending(c)}
           todo == {c \in due : Cardinality({d \in due : Before(d, c)}) < RetryLimit}
       IN  /\ todo # {}
           /\ retry' = [retry EXCEPT ![p] = [at |-> "next", todo |-> todo]]
    /\ NotYet /\ UNCHANGED <<people, settings, bookings, at, request, posted, offers, money, faults>>

\* POST requests/:id/retry-forward.
retryForwardByStaff(c) ==
    /\ retry["staff"].at = "idle" /\ Pending(c)
    /\ retry' = [retry EXCEPT !["staff"] = [at |-> "next", todo |-> {c}]]
    /\ NotYet /\ UNCHANGED <<people, settings, bookings, at, request, posted, offers, money, faults>>

Next1(p) == CHOOSE c \in retry[p].todo : \A d \in retry[p].todo \ {c} : Before(c, d)
Rest(p) == LET left == retry[p].todo \ {Next1(p)}
           IN  IF left = {} THEN Idle ELSE [at |-> "next", todo |-> left]

\* retryForward reads the request again; it is posted like in the handler.
retryForward(p) ==
    /\ retry[p].at = "next"
    /\ LET c == Next1(p)
           r == token[c]
       IN  \/ /\ ~Pending(c)
              /\ retry' = [retry EXCEPT ![p] = Rest(p)]
              /\ UNCHANGED <<row, posted, faults>>
           \/ /\ Pending(c) /\ row' = Linked(r)
              /\ \/ /\ Conversation(r)
                    /\ posted' = [posted EXCEPT ![c] = @ + 1]
                    /\ retry' = [retry EXCEPT ![p] = [at |-> "mark", todo |-> retry[p].todo]]
                    /\ UNCHANGED faults
                 \/ /\ Conversation(r) => Fault
                    /\ ~Conversation(r) => UNCHANGED faults
                    /\ retry' = [retry EXCEPT ![p] = Rest(p)]
                    /\ UNCHANGED posted
    /\ NotYet /\ UNCHANGED <<people, settings, known, res, at, request, offers, money>>

RetryMarks(p) ==
    /\ retry[p].at = "mark"
    /\ request' = [request EXCEPT ![Next1(p)].sent = TRUE]
    /\ retry' = [retry EXCEPT ![p] = Rest(p)]
    /\ NotYet /\ UNCHANGED <<people, settings, bookings, at, posted, offers, money, faults>>

\* The guest's conversation appears in Hostaway.
ConversationOpens(r) ==
    /\ ~res[r].conv
    /\ res' = [res EXCEPT ![r].conv = TRUE]
    /\ NotYet /\ UNCHANGED <<people, settings, known, row, at, requests, offers, money, faults>>

\* A sync with Hostaway stores the reservations and calendars it finds.
HostawaySync ==
    /\ known' = Reservations
    /\ row' = [r \in Reservations |-> [res[r] EXCEPT !.conv = row[r].conv]]
    /\ cache' = HostawayDays
    /\ <<known', row', cache'>> # <<known, row, cache>>
    /\ NotYet
    /\ UNCHANGED <<people, settings, res, at, requests, named, offer, critical, money, faults>>

----------------------------------------------------------------------------
(* Offers.                                                                 *)

\* GET availability/weekends: what the caller is told.
searchWeekendAvailability(c) ==
    /\ At(c, "idle") /\ wish[c] = "offer" /\ heard[c] = "nothing"
    /\ \E live \in BOOLEAN :
          LET s == searchWeekends(Units, cache, HostawayDays, Asked, Period, live, 8) IN
          /\ cache' = s.cache
          /\ named' = [named EXCEPT ![c] = [slots |-> s.slots, from |-> s.cache]]
          /\ Answer(c, "weekends")
    /\ UNCHANGED <<people, settings, bookings, at, requests, offer, critical, money, faults>>

Query(w) == [Asked EXCEPT !.checkIn = w.checkIn, !.checkOut = w.checkOut]

\* createOffer searches again before it asks Hostaway for the price.
createOffer(c) ==
    /\ At(c, "idle") /\ wish[c] = "offer" /\ heard[c] = "weekends"
    /\ \E s \in named[c].slots : \E u \in s.free :
          IF config.offers /\ u \in search(Units, cache, HostawayDays, Query(s.weekend), FALSE).free
          THEN /\ at' = [at EXCEPT ![c] = [at |-> "create", unit |-> u, weekend |-> s.weekend]]
               /\ NotYet
          ELSE Goto(c, "done") /\ Answer(c, "unavailable")
    /\ UNCHANGED <<people, settings, bookings, requests, offers, money, faults>>

\* The reservation is created as an inquiry; Hostaway may make a booking of
\* it.  Without an answer the caller is told so, and nothing is undone.
createReservation(c) ==
    /\ At(c, "create")
    /\ \/ /\ \E s \in {"inquiry", "new"} : offer' = [offer EXCEPT ![c].status = s]
          /\ Goto(c, "inquiry") /\ NotYet /\ UNCHANGED faults
       \/ /\ Fault
          /\ \/ UNCHANGED offer
             \/ offer' = [offer EXCEPT ![c].status = "inquiry"]
          /\ Goto(c, "done") /\ Answer(c, "noOffer")
    /\ UNCHANGED <<people, settings, bookings, requests, cache, named, critical, money>>

\* syncLocalReservation and ensureInquiryStatus: the reservation is stored
\* here and turned into an inquiry.
ensureInquiryStatus(c) ==
    /\ At(c, "inquiry")
    /\ \/ offer[c].status = "inquiry" /\ Goto(c, "deposit") /\ UNCHANGED <<offer, faults>>
       \/ /\ offer[c].status = "new"
          /\ offer' = [offer EXCEPT ![c].status = "inquiry"]
          /\ Goto(c, "deposit") /\ UNCHANGED faults
       \/ Fault /\ Goto(c, "rollback") /\ UNCHANGED offer
    /\ NotYet /\ UNCHANGED <<people, settings, bookings, requests, cache, named, critical, money>>

\* requestDepositAfterFonioOffer may find no rule or nothing due, or fail.
requestDeposit(c) ==
    /\ At(c, "deposit")
    /\ \/ /\ offer' = [offer EXCEPT ![c].asked = TRUE]
          /\ Goto(c, "done") /\ Answer(c, "offered")
       \/ Goto(c, "rollback") /\ NotYet /\ UNCHANGED offer
    /\ UNCHANGED <<people, settings, bookings, requests, cache, named, critical, money, faults>>

\* Plausible slip: the row here is cancelled, the reservation is not.
RolledBackMut(c) == offer[c].status

RolledBack(c) == "cancelled"

rollbackOffer(c) ==
    /\ At(c, "rollback")
    /\ \/ offer' = [offer EXCEPT ![c].status = RolledBack(c)] /\ UNCHANGED <<critical, faults>>
       \/ Fault /\ critical' = critical \cup {c} /\ UNCHANGED offer
    /\ Goto(c, "done") /\ Answer(c, "noOffer")
    /\ UNCHANGED <<people, settings, bookings, requests, cache, named, money>>

----------------------------------------------------------------------------
(* Payments and arrival information.                                       *)

\* recordPayment: the charge is created, or not, and noted either way.
recordPayment(c) ==
    /\ At(c, "idle") /\ wish[c] = "payment" /\ assertVerified(c) /\ token[c] \in known
    /\ \/ /\ paid' = [paid EXCEPT ![token[c]] = @ + 1]
          /\ at' = [at EXCEPT ![c] = [at |-> "note", charge |-> TRUE]]
          /\ UNCHANGED faults
       \/ /\ Fault
          /\ at' = [at EXCEPT ![c] = [at |-> "note", charge |-> FALSE]]
          /\ UNCHANGED paid
    /\ NotYet /\ UNCHANGED <<people, settings, bookings, requests, offers, arrival>>

notifyPaymentReceived(c) ==
    /\ At(c, "note")
    /\ row' = Linked(token[c])
    /\ \/ /\ Conversation(token[c])
          /\ posted' = [posted EXCEPT ![c] = @ + 1]
          /\ Answer(c, IF at[c].charge THEN "recorded" ELSE "noted")
          /\ UNCHANGED faults
       \/ /\ Conversation(token[c]) => Fault
          /\ ~Conversation(token[c]) => UNCHANGED faults
          /\ Answer(c, IF at[c].charge THEN "recorded" ELSE "failed")
          /\ UNCHANGED posted
    /\ Goto(c, "done")
    /\ UNCHANGED <<people, settings, known, res, request, retry, offers, money>>

\* sendCheckinInfo: only after a payment, and once.
sendCheckinInfo(c) ==
    /\ At(c, "idle") /\ wish[c] = "arrival" /\ assertVerified(c) /\ token[c] \in known
    /\ CASE paid[token[c]] = 0 -> Answer(c, "unpaid") /\ UNCHANGED <<at, row>>
         [] paid[token[c]] > 0 /\ arrival[token[c]] > 0 ->
                Answer(c, "alreadySent") /\ UNCHANGED <<at, row>>
         [] OTHER -> /\ row' = Linked(token[c])
                     /\ IF Conversation(token[c]) THEN Goto(c, "mail") /\ NotYet
                        ELSE UNCHANGED at /\ Answer(c, "notSent")
    /\ UNCHANGED <<people, settings, known, res, requests, offers, money, faults>>

sendCheckinInfoEmail(c) ==
    /\ At(c, "mail")
    /\ \/ /\ arrival' = [arrival EXCEPT ![token[c]] = @ + 1]
          /\ Answer(c, "sent") /\ UNCHANGED faults
       \/ Fault /\ Answer(c, "notSent") /\ UNCHANGED arrival
    /\ Goto(c, "idle")
    /\ UNCHANGED <<people, settings, bookings, requests, offers, paid>>

----------------------------------------------------------------------------
(* Staff.                                                                  *)

Edit ==
    /\ edits < MaxEdits /\ edits' = edits + 1
    /\ NotYet /\ UNCHANGED <<people, bookings, at, requests, offers, money, faults>>

\* A rule is added for a listing, with the conditions it may have.
createRule(type, asked) ==
    /\ Edit
    /\ LET mode == StoredMode(type, asked)
           rule == [type |-> type, listing |-> Bookings[Own[CHOOSE c \in Callers : TRUE]].listingName,
                    mode |-> mode, cond |-> sanitizeRuleConditions(type, mode, NoConditions),
                    active |-> TRUE, priority |-> 0, created |-> edits + 1]
       IN  rules' = rules \cup {rule}
    /\ UNCHANGED config

\* The mode of a rule is changed, its conditions are cleaned with it, or the
\* rule is removed.
updateRule(type, asked) ==
    /\ Edit
    /\ \E r \in rules :
          LET mode == StoredMode(type, asked) IN
          /\ r.type = type /\ r.mode # mode
          /\ rules' = (rules \ {r}) \cup {[r EXCEPT !.mode = mode,
                                          !.cond = sanitizeRuleConditions(type, mode, r.cond)]}
    /\ UNCHANGED config

deleteRule(type) ==
    /\ Edit
    /\ \E r \in rules : r.type = type /\ rules' = rules \ {r}
    /\ UNCHANGED config

\* PATCH verification-config.
updateVerificationConfig(fields, min) ==
    /\ Edit
    /\ config' = [config EXCEPT !.fields = StoredConfig(fields, min).fields,
                                !.min = StoredConfig(fields, min).min]
    /\ UNCHANGED rules

ToggleOffers ==
    /\ Edit
    /\ config' = [config EXCEPT !.offers = ~@]
    /\ UNCHANGED rules

----------------------------------------------------------------------------
CallStep(c) ==
    \/ applyRead(c) \/ applyUpdate(c) \/ postInboxMessage(c) \/ MarkPosted(c)
    \/ createReservation(c) \/ ensureInquiryStatus(c) \/ requestDeposit(c) \/ rollbackOffer(c)
    \/ notifyPaymentReceived(c) \/ sendCheckinInfoEmail(c)

Call(c) ==
    \/ submitRequest(c) \/ searchWeekendAvailability(c) \/ createOffer(c)
    \/ recordPayment(c) \/ sendCheckinInfo(c)

RetryStep(p) == retryForward(p) \/ RetryMarks(p)

Staff ==
    \/ createRule("ADD_GUEST", "DENY")
    \/ updateRule("EARLY_CHECKIN", "AUTO")
    \/ deleteRule("ADD_GUEST")
    \/ updateVerificationConfig({"phone", "listingName", "email"}, 5)
    \/ ToggleOffers

FonioNext ==
    \/ \E c \in Callers : verifyGuest(c) \/ Call(c) \/ CallStep(c)
    \/ retryPendingForwards("sync")
    \/ \E p \in Retriers : RetryStep(p)
    \/ \E c \in Callers : retryForwardByStaff(c)
    \/ \E r \in Callable : ConversationOpens(r)
    \/ HostawaySync
    \/ Staff

\* Callers try until they are verified, handlers go on, the sync with
\* Hostaway runs and retries, conversations appear.
FonioSpec ==
    /\ FonioInit /\ [][FonioNext]_dvars
    /\ \A c \in Callers : WF_dvars(verifyGuest(c)) /\ WF_dvars(CallStep(c))
    /\ WF_dvars(retryPendingForwards("sync"))
    /\ \A p \in Retriers : WF_dvars(RetryStep(p))
    /\ \A r \in Callable : WF_dvars(ConversationOpens(r))
    /\ WF_dvars(HostawaySync)

----------------------------------------------------------------------------
(* Properties.                                                             *)

\* Tables and handlers hold what they can hold; a request is never marked
\* posted without a message in the inbox (forwardedToHostaway).
FonioTypeOK ==
    /\ known \subseteq Reservations
    /\ \A r \in Reservations : res[r].guests \in Nat /\ row[r].guests \in Nat
    /\ \A c \in Callers :
          /\ token[c] \in Reservations \cup {Offline}
          /\ offer[c].status \in {"none", "inquiry", "new", "cancelled"}
          /\ request[c] # NoRequest /\ request[c].sent => posted[c] > 0
    /\ config.min \in 1..Cardinality(normalizeVerificationConfigFields(config.fields))

\* A caller who tells the truth is never taken for another guest, also when
\* only the other guest's booking on the same dates is known here so far
\* (findReservation, narrowCandidates, minMatchCount).
VerifiedOwn == \A c \in Callers : token[c] \in {Own[c], Offline}

\* A caller who gives enough of the truth is recognised in the end.
TrueCallerIsVerified ==
    \A c \in Callers :
        (wish[c] # "offer" /\ Cardinality(DOMAIN says[c]) >= 4) ~> token[c] # Offline

\* What the guest was told of a change is so in Hostaway: "applied" and it
\* is in the booking, once; "rejected" and it is not; "forwarded" and the
\* inbox has it (buildGuestMessageDe).
AnswerIsTrue ==
    \A c \in Callers :
        LET r == res[Own[c]]
            extra == (r.guests - Guests) + r.pets
        IN  /\ extra <= Cardinality({d \in Callers : Own[d] = Own[c] /\ request[d] # NoRequest})
            /\ heard[c] = "applied" => extra > 0
            /\ heard[c] = "rejected" => request[c].status = "REJECTED" /\ ~request[c].applied
            /\ heard[c] = "forwarded" => posted[c] > 0

\* A request for the team reaches the inbox in the end, however often a
\* message fails and whoever retries (retryPendingForwards).
ForwardedIsDelivered ==
    \A c \in Callers : (request[c].status = "FORWARDED") ~> (posted[c] > 0)

\* When an offer is over there is an inquiry with a deposit asked for, or
\* nothing is left of it, or the failed rollback was reported; an unpaid
\* booking is never left behind (ensureInquiryStatus, rollbackOffer).
OfferSettled ==
    \A c \in Callers :
        /\ heard[c] = "offered" => offer[c].status = "inquiry" /\ offer[c].asked
        /\ (At(c, "done") /\ offer[c].status = "new") => c \in critical
        /\ (At(c, "done") /\ offer[c].status = "inquiry" /\ ~offer[c].asked) => faults > 0

\* A unit that was named for a weekend can be offered for it while the
\* calendar has not changed, and it is free every night of the stay.
NamedCanBeOffered ==
    \A c \in Callers : \A s \in named[c].slots : \A u \in s.free :
        /\ named[c].from = cache =>
             u \in search(Units, cache, HostawayDays, Query(s.weekend), FALSE).free
        /\ \A n \in s.weekend.checkIn..(s.weekend.checkOut - 1) :
             named[c].from[u][n].open /\ named[c].from[u][n].min <= Asked.nights

\* The note on the rule for additional guests: the total must not exceed the
\* capacity of the listing.
CapacityKept == \A r \in Reservations : res[r].guests <= Capacity

\* Every handler leaves the tables whole, and no token stands for a stay that
\* is not the caller's.
FonioInv == FonioTypeOK /\ VerifiedOwn
=============================================================================
