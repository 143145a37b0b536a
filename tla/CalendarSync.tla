---------------------------- MODULE CalendarSync ----------------------------
(***************************************************************************)
(* One listing's calendar on its way from Hostaway through the local cache *)
(* to CHECK24.  Models check24-sync.service.ts (ARI sync with retries, the *)
(* push after a booking change, force-open of cancelled nights and its     *)
(* follow-ups), check24-sync.scheduler.ts, and the listing, reservation    *)
(* and calendar phases of hostaway-sync.service.ts with its scheduler.     *)
(*                                                                         *)
(* Every await is a step: Hostaway's sync may write the cache between the  *)
(* reopening of a night and the read that is pushed, and two pushes of the *)
(* same listing may overtake each other.  Hostaway's own calendar lags     *)
(* behind its reservations.  How a booking is cancelled is the subject of  *)
(* Check24Booking; here it is one step with the outcomes it can have.      *)
(***************************************************************************)
EXTENDS Integers, FiniteSets

CONSTANTS
    Nights,         \* consecutive nights, a set of integers
    StayNights,     \* nights of each stay
    Cancelled,      \* the stay that came from CHECK24 and may be cancelled
    Starts,         \* <<autoSyncEnabled, the calendar is stored>> at the start
    MaxAttempts,    \* CHECK24_SYNC_RETRY_ATTEMPTS
    FollowUps,      \* number of delays in CHECK24_CANCEL_AVAILABILITY_RETRY_MS
    MaxFaults,      \* failing calls and restarts
    MaxChanges      \* bookings, blocks and archivings outside

Stays == DOMAIN StayNights

ASSUME CalendarAssumption ==
    /\ Nights \subseteq Int /\ \E a, b \in Nights : Nights = a..b
    /\ Cancelled \in Stays
    /\ \A s \in Stays : StayNights[s] \subseteq Nights
    /\ Starts \subseteq BOOLEAN \X BOOLEAN
    /\ MaxAttempts \in Nat \ {0} /\ FollowUps \in Nat
    /\ MaxFaults \in Nat /\ MaxChanges \in Nat

VARIABLES
    auto,      \* autoSyncEnabled of the CHECK24 settings
    stay,      \* Hostaway's reservations: "none", "active" or "cancelled"
    blocked,   \* nights the owner has blocked in Hostaway
    hostaway,  \* nights open in Hostaway's calendar
    archived,  \* the unit is archived in Hostaway
    row,       \* local reservation rows, like stay
    offline,   \* the local listing row, as of the last listing sync
    cal,       \* CalendarDay: "missing", "open" or "closed"
    hold,      \* the CHECK24 booking: "booked", "cancelled" or "over",
               \*   the last when the hold window has passed
    portal,    \* nights CHECK24 offers
    error,     \* the mapping has a lastError
    work,      \* what each process is doing
    lock,      \* syncInProgress of either service
    jobs,      \* SyncJob rows with status running
    timers,    \* follow-up pushes not fired yet
    faults, changes

outside == <<auto, stay, blocked, hostaway, archived>>
counters == <<faults, changes>>
cvars == <<auto, stay, blocked, hostaway, archived, row, offline, cal, hold, portal, error,
           work, lock, jobs, timers, faults, changes>>

Services == {"hostaway", "check24"}
Processes == {"hostaway", "check24", "cancel", "follow"}
Idle == [at |-> "idle"]

\* A stay from CHECK24 is imported and everything agrees on it; the local
\* calendar may not have been synced yet.
CalendarInit ==
    /\ stay = [s \in Stays |-> IF s = Cancelled THEN "active" ELSE "none"]
    /\ blocked = {}
    /\ hostaway = Nights \ StayNights[Cancelled]
    /\ archived = FALSE
    /\ row = stay
    /\ offline = FALSE
    /\ \E s \in Starts :
          /\ auto = s[1]
          /\ cal = [n \in Nights |-> IF ~s[2] THEN "missing"
                                     ELSE IF n \in hostaway THEN "open" ELSE "closed"]
    /\ hold = "booked"
    /\ portal = hostaway
    /\ error = FALSE
    /\ work = [p \in Processes |-> Idle]
    /\ lock = [s \in Services |-> FALSE]
    /\ jobs = {}
    /\ timers = 0
    /\ faults = 0 /\ changes = 0

----------------------------------------------------------------------------
(* Outside.                                                                *)

Change ==
    /\ changes < MaxChanges
    /\ changes' = changes + 1
    /\ UNCHANGED <<auto, row, offline, cal, hold, portal, error, work, lock, jobs, timers, faults>>

\* Another guest books in Hostaway or through another channel.
OtherBooks(s) ==
    /\ Change
    /\ s # Cancelled /\ stay[s] # "active"
    /\ \A r \in Stays : stay[r] = "active" => StayNights[r] \cap StayNights[s] = {}
    /\ stay' = [stay EXCEPT ![s] = "active"]
    /\ UNCHANGED <<blocked, hostaway, archived>>

OwnerBlocks(n) ==
    /\ Change
    /\ blocked' = (blocked \ {n}) \cup ({n} \ blocked)
    /\ UNCHANGED <<stay, hostaway, archived>>

Archive ==
    /\ Change
    /\ archived' = ~archived
    /\ UNCHANGED <<stay, blocked, hostaway>>

\* What Hostaway's calendar shows once it has caught up.
Free == Nights \ (blocked \cup UNION {StayNights[s] : s \in {r \in Stays : stay[r] = "active"}})

CatchUp ==
    /\ hostaway # Free
    /\ hostaway' = Free
    /\ UNCHANGED <<auto, stay, blocked, archived, row, offline, cal, hold, portal, error,
                   work, lock, jobs, timers, counters>>

----------------------------------------------------------------------------
(* Steps.                                                                  *)

At(p, at) == work[p].at = at
Goto(p, at) == work' = [work EXCEPT ![p] = [at |-> at]]
With(p, at, nights) == work' = [work EXCEPT ![p] = [at |-> at, nights |-> nights]]

Untouched == UNCHANGED <<auto, stay, blocked, hostaway, archived, hold, timers, changes>>

\* The push after a booking change begins.
pushAvailabilityAfterBookingChange == Goto("cancel", "get")

\* The guest cancels on CHECK24, or the provider's cancel goes through: the
\* stay is cancelled in Hostaway or sticks there, the row is marked here
\* either way, and the listing is pushed.
CancelBooking(sticky) ==
    /\ hold = "booked" /\ At("cancel", "idle")
    /\ hold' = "cancelled"
    /\ stay' = IF sticky THEN stay ELSE [stay EXCEPT ![Cancelled] = "cancelled"]
    /\ row' = [row EXCEPT ![Cancelled] = "cancelled"]
    /\ pushAvailabilityAfterBookingChange
    /\ UNCHANGED <<auto, blocked, hostaway, archived, offline, cal, portal, error, lock, jobs, timers, counters>>

HoldEnds ==
    /\ hold = "cancelled" /\ timers = 0 /\ At("cancel", "idle") /\ At("follow", "idle")
    /\ hold' = "over"
    /\ UNCHANGED <<outside, row, offline, cal, portal, error, work, lock, jobs, timers, counters>>

Refreshing == {"cancel", "follow"}

\* refreshAndPushAvailability begins: an archived unit is not pushed.
Offline(p) ==
    /\ p \in Refreshing /\ At(p, "get") /\ offline
    /\ Goto(p, "idle")
    /\ error' = FALSE
    /\ Untouched /\ UNCHANGED <<row, offline, cal, portal, lock, jobs, faults>>

\* syncListingCalendar: the calendar is fetched, then stored.
getCalendar(p) ==
    /\ At(p, "get") /\ (p \in Refreshing => ~offline)
    /\ With(p, "store", hostaway)
    /\ Untouched /\ UNCHANGED <<row, offline, cal, portal, error, lock, jobs, faults>>

\* Plausible slip: the job is marked, the flag is not released.
EndHostawayMut ==
    /\ Goto("hostaway", "idle")
    /\ jobs' = jobs \ {"hostaway"}
    /\ UNCHANGED lock

\* The job with Hostaway ends, well or not.
EndHostaway ==
    /\ Goto("hostaway", "idle")
    /\ lock' = [lock EXCEPT !["hostaway"] = FALSE]
    /\ jobs' = jobs \ {"hostaway"}

upsertCalendarDays(p) ==
    /\ At(p, "store")
    /\ cal' = [n \in Nights |-> IF n \in work[p].nights THEN "open" ELSE "closed"]
    /\ IF p = "hostaway"
       THEN EndHostaway
       ELSE Goto(p, "open") /\ UNCHANGED <<lock, jobs>>
    /\ Untouched /\ UNCHANGED <<row, offline, portal, error, faults>>

\* The nights to reopen: from the arrival of the cancelled stay up to its
\* departure, as the local row has them.
stayDatesForHostawayReservation == StayNights[Cancelled]

\* Plausible slip: only the calendar counts, not the stays on those nights.
ForceOpenMut == stayDatesForHostawayReservation

\* The nights forceOpenCalendarRange finds free: those of the cancelled
\* stay without the ones of another active stay known here.
ForceOpen ==
    stayDatesForHostawayReservation \
        UNION {StayNights[s] : s \in {r \in Stays \ {Cancelled} : row[r] = "active"}}

\* The nights of forceOpenCalendarRange are written, missing days included.
Opened(nights) == [n \in Nights |-> IF n \in nights THEN "open" ELSE cal[n]]

\* The cancelled range is reopened.  Read and writes are one step here: the
\* same is done again below, there with the await between them.
forceOpenCalendarRange(p) ==
    /\ At(p, "open")
    /\ cal' = Opened(ForceOpen)
    /\ Goto(p, "hold")
    /\ Untouched /\ UNCHANGED <<row, offline, portal, error, lock, jobs, faults>>

\* Plausible slip: the window is never over.
HeldMut == hold # "booked"

Held == hold = "cancelled"

applyRecentCancelForceOpens(p) ==
    /\ At(p, "hold")
    /\ IF Held THEN With(p, "reopen", ForceOpen) ELSE Goto(p, "read")
    /\ Untouched /\ UNCHANGED <<row, offline, cal, portal, error, lock, jobs, faults>>

Open(p) ==
    /\ At(p, "reopen")
    /\ cal' = Opened(work[p].nights)
    /\ Goto(p, "read")
    /\ Untouched /\ UNCHANGED <<row, offline, portal, error, lock, jobs, faults>>

\* Maximal runs of days that are stored and alike.
buildAvailabilityRanges(days) ==
    LET alike(i, j) == \A n \in i..j : n \in Nights /\ days[n] = days[i]
        stored(n) == n \in Nights /\ days[n] # "missing"
    IN  {[from |-> r[1], to |-> r[2], open |-> days[r[1]] = "open"] :
            r \in {q \in Nights \X Nights :
                /\ q[1] <= q[2] /\ stored(q[1]) /\ alike(q[1], q[2])
                /\ ~(stored(q[1] - 1) /\ days[q[1] - 1] = days[q[1]])
                /\ ~(stored(q[2] + 1) /\ days[q[2] + 1] = days[q[2]])}}

\* What CHECK24 offers after it was sent the ranges.
Sent(ranges) ==
    {n \in Nights :
        \/ \E r \in ranges : n \in r.from..r.to /\ r.open
        \/ n \in portal /\ ~\E r \in ranges : n \in r.from..r.to}

\* The days are read, then pushed; without a stored day nothing is pushed.
ReadDays(p) ==
    /\ At(p, "read")
    /\ work' = [work EXCEPT ![p] = [at |-> "push", ranges |-> buildAvailabilityRanges(cal)]]
    /\ Untouched /\ UNCHANGED <<row, offline, cal, portal, error, lock, jobs, faults>>

\* Follow-ups are scheduled after a push that went through.
pushAvailability(p) ==
    /\ p \in Refreshing /\ At(p, "push")
    /\ portal' = IF work[p].ranges = {} THEN portal ELSE Sent(work[p].ranges)
    /\ error' = (error /\ work[p].ranges = {})
    /\ timers' = IF p = "cancel" THEN FollowUps ELSE timers
    /\ Goto(p, "idle")
    /\ UNCHANGED <<outside, row, offline, cal, hold, lock, jobs, counters>>

\* CHECK24 or Hostaway does not answer: the push is given up and logged.
RefreshFails(p) ==
    /\ p \in Refreshing /\ (At(p, "get") \/ At(p, "push"))
    /\ faults < MaxFaults /\ faults' = faults + 1
    /\ Goto(p, "idle")
    /\ Untouched /\ UNCHANGED <<row, offline, cal, portal, error, lock, jobs>>

\* A timer of scheduleFollowUpAvailabilityPushes fires.
FollowUp ==
    /\ timers > 0 /\ At("follow", "idle")
    /\ timers' = timers - 1
    /\ Goto("follow", "get")
    /\ UNCHANGED <<outside, row, offline, cal, hold, portal, error, lock, jobs, counters>>

----------------------------------------------------------------------------
(* The ARI sync of CHECK24.                                                *)

\* Where a try of the listing begins; content is sent with the retries of
\* failed listings, which is what runs while auto-sync is off.
Try(n) == [at |-> IF auto THEN "hold" ELSE "content", try |-> n]

\* syncAll takes the lock and loads the listing; archived units are not
\* loaded.
syncAll ==
    /\ ~lock["check24"] /\ At("check24", "idle") /\ ~offline
    /\ lock' = [lock EXCEPT !["check24"] = TRUE]
    /\ jobs' = jobs \cup {"check24"}
    /\ work' = [work EXCEPT !["check24"] = Try(1)]
    /\ Untouched /\ UNCHANGED <<row, offline, cal, portal, error, faults>>

\* Plausible slip: failed listings wait for auto-sync too.
DueMut == auto

\* tick syncs every listing, or with auto-sync off those that failed.
Due == auto \/ error

tick == Due /\ syncAll

\* Staff start a sync.
SyncNow == ~Due /\ syncAll

\* The retry clears the error of an archived unit.
retryFailedListings ==
    /\ ~auto /\ offline /\ error /\ ~lock["check24"]
    /\ error' = FALSE
    /\ Untouched /\ UNCHANGED <<row, offline, cal, portal, work, lock, jobs, faults>>

\* Plausible slip: the lock is released on the way out of the try block,
\* not in the finally.
EndAriMut ==
    /\ Goto("check24", "idle")
    /\ lock' = [lock EXCEPT !["check24"] = error']
    /\ jobs' = jobs \ {"check24"}

\* The job is finished and the lock released.
EndAri ==
    /\ Goto("check24", "idle")
    /\ lock' = [lock EXCEPT !["check24"] = FALSE]
    /\ jobs' = jobs \ {"check24"}

\* The steps above on the ARI sync's own count of tries.
AriAt(at) == At("check24", at)
AriGoto(at) == work' = [work EXCEPT !["check24"] = [at |-> at, try |-> @.try]]
AriWith(at, nights) == work' = [work EXCEPT !["check24"] = [at |-> at, try |-> @.try, nights |-> nights]]

\* syncListingContent: skipped for an archived unit.
syncListingContent ==
    /\ AriAt("content")
    /\ error' = FALSE
    /\ AriGoto("hold")
    /\ Untouched /\ UNCHANGED <<row, offline, cal, portal, lock, jobs, faults>>

AriHold ==
    /\ AriAt("hold")
    /\ IF Held THEN AriWith("reopen", ForceOpen) ELSE AriGoto("read")
    /\ Untouched /\ UNCHANGED <<row, offline, cal, portal, error, lock, jobs, faults>>

AriOpen ==
    /\ AriAt("reopen")
    /\ cal' = Opened(work["check24"].nights)
    /\ AriGoto("read")
    /\ Untouched /\ UNCHANGED <<row, offline, portal, error, lock, jobs, faults>>

AriRead ==
    /\ AriAt("read")
    /\ work' = [work EXCEPT !["check24"] =
                  [at |-> "push", try |-> @.try, ranges |-> buildAvailabilityRanges(cal)]]
    /\ Untouched /\ UNCHANGED <<row, offline, cal, portal, error, lock, jobs, faults>>

AriPush ==
    /\ AriAt("push")
    /\ LET ranges == work["check24"].ranges IN
       /\ portal' = IF ranges = {} THEN portal ELSE Sent(ranges)
       /\ error' = (error /\ ranges = {})
    /\ AriGoto("rates")
    /\ Untouched /\ UNCHANGED <<row, offline, cal, lock, jobs, faults>>

syncListingRates ==
    /\ AriAt("rates")
    /\ error' = FALSE
    /\ EndAri
    /\ Untouched /\ UNCHANGED <<row, offline, cal, portal, faults>>

\* One of the calls fails; the listing is tried again or given up.  An
\* outage counts once however many attempts fall into it.
AriFails ==
    /\ AriAt("content") \/ AriAt("push") \/ AriAt("rates")
    /\ error' = TRUE
    /\ LET n == work["check24"].try IN
       /\ IF n = 1 THEN faults < MaxFaults /\ faults' = faults + 1 ELSE UNCHANGED faults
       /\ IF n < MaxAttempts
          THEN work' = [work EXCEPT !["check24"] = Try(n + 1)] /\ UNCHANGED <<lock, jobs>>
          ELSE EndAri
    /\ Untouched /\ UNCHANGED <<row, offline, cal, portal>>

\* The unit is refused as archived: the error is cleared and the listing is
\* not tried again.
AriRefused ==
    /\ AriAt("content") \/ AriAt("push") \/ AriAt("rates")
    /\ archived
    /\ error' = FALSE
    /\ EndAri
    /\ Untouched /\ UNCHANGED <<row, offline, cal, portal, faults>>

----------------------------------------------------------------------------
(* The sync with Hostaway.                                                 *)

\* clearCheck24ErrorsForOfflineListings.
ClearedErrors(off) == error /\ ~off

\* The listing row takes the status Hostaway has; a unit that is gone there is
\* hidden.  Only a live one is bookable, and an archived one keeps no error.
UpsertListing ==
    /\ offline' = archived
    /\ error' = ClearedErrors(archived)

\* The scheduler starts a sync unless one is running; the listings come first.
syncListings ==
    /\ ~lock["hostaway"] /\ At("hostaway", "idle")
    /\ lock' = [lock EXCEPT !["hostaway"] = TRUE]
    /\ jobs' = jobs \cup {"hostaway"}
    /\ UpsertListing
    /\ Goto("hostaway", "reservations")
    /\ Untouched /\ UNCHANGED <<row, cal, portal, faults>>

\* The reservations are fetched and stored; a cancel that stuck in Hostaway
\* makes the row active again.  Calendars are fetched for bookable units.
syncAllReservations ==
    /\ At("hostaway", "reservations")
    /\ row' = stay
    /\ IF offline THEN EndHostaway ELSE Goto("hostaway", "get") /\ UNCHANGED <<lock, jobs>>
    /\ Untouched /\ UNCHANGED <<offline, cal, portal, error, faults>>

HostawayFails ==
    /\ At("hostaway", "reservations") \/ At("hostaway", "get")
    /\ faults < MaxFaults /\ faults' = faults + 1
    /\ EndHostaway
    /\ Untouched /\ UNCHANGED <<row, offline, cal, portal, error>>

\* The process is restarted: timers and flags are gone, onModuleInit marks
\* the jobs that were running as failed.
Restart ==
    /\ faults < MaxFaults /\ faults' = faults + 1
    /\ work' = [p \in Processes |-> Idle]
    /\ lock' = [s \in Services |-> FALSE]
    /\ jobs' = {}
    /\ timers' = 0
    /\ UNCHANGED <<outside, row, offline, cal, hold, portal, error, changes>>

----------------------------------------------------------------------------
RefreshStep(p) ==
    \/ Offline(p) \/ forceOpenCalendarRange(p) \/ applyRecentCancelForceOpens(p) \/ Open(p)
    \/ ReadDays(p) \/ pushAvailability(p) \/ RefreshFails(p)

Calendar(p) == getCalendar(p) \/ upsertCalendarDays(p)

AriStep ==
    \/ syncListingContent \/ AriHold \/ AriOpen \/ AriRead \/ AriPush
    \/ syncListingRates \/ AriFails \/ AriRefused

HostawayStep == syncAllReservations \/ HostawayFails

CalendarNext ==
    \/ \E s \in Stays : OtherBooks(s)
    \/ \E n \in Nights : OwnerBlocks(n)
    \/ Archive
    \/ CatchUp
    \/ \E sticky \in BOOLEAN : CancelBooking(sticky)
    \/ HoldEnds
    \/ \E p \in Refreshing : RefreshStep(p)
    \/ \E p \in Refreshing \cup {"hostaway"} : Calendar(p)
    \/ FollowUp
    \/ tick \/ SyncNow
    \/ retryFailedListings
    \/ AriStep
    \/ syncListings
    \/ HostawayStep
    \/ Restart

\* Hostaway's calendar catches up in the end, timers fire, the schedulers
\* tick and what has been started goes on.  Nothing is assumed of guests,
\* owners, webhooks or the end of the hold window.
CalendarSpec ==
    /\ CalendarInit /\ [][CalendarNext]_cvars
    /\ WF_cvars(CatchUp)
    /\ \A p \in Refreshing : WF_cvars(RefreshStep(p) \/ Calendar(p))
    /\ WF_cvars(FollowUp) /\ WF_cvars(tick) /\ WF_cvars(retryFailedListings) /\ WF_cvars(AriStep)
    /\ WF_cvars(syncListings) /\ WF_cvars(HostawayStep \/ Calendar("hostaway"))

----------------------------------------------------------------------------
(* Properties.                                                             *)

\* A lock is held and a job row is running exactly while the service works,
\* through failures and restarts (syncInProgress, SyncJob, onModuleInit),
\* and the stores hold what their columns can hold.
SyncTypeOK ==
    /\ cal \in [Nights -> {"missing", "open", "closed"}]
    /\ portal \subseteq Nights /\ hostaway \subseteq Nights
    /\ row \in [Stays -> {"none", "active", "cancelled"}]
    /\ timers \in 0..FollowUps
    /\ \A s \in Services : lock[s] = (work[s] # Idle) /\ lock[s] = (s \in jobs)

\* A stay another guest keeps is closed on CHECK24 in the end, also while
\* the cancelled stay on the same nights is still reopened by every sync
\* (forceOpenCalendarRange and the hold window of 24 hours).
SoldAgainIsClosed ==
    \A s \in Stays \ {Cancelled} :
        <>[](auto /\ stay[s] = "active" /\ ~archived) => <>[](portal \cap StayNights[s] = {})

\* When the hold window is over CHECK24 ends up with Hostaway's calendar,
\* whatever was pushed out of order before.
PortalFollows ==
    <>[](auto /\ hold # "cancelled" /\ ~archived) => <>[](portal = hostaway)

\* The nights of a cancelled stay are offered again, or they are taken or
\* blocked in Hostaway, or the unit is archived.
Reopened ==
    \/ StayNights[Cancelled] \subseteq portal
    \/ hold = "over" \/ archived \/ StayNights[Cancelled] \cap blocked # {}
    \/ \E s \in Stays \ {Cancelled} : stay[s] = "active"

\* With auto-sync on they are, whatever call fails, whenever the process is
\* restarted and however long Hostaway's calendar lags behind.
CancelReopens ==
    (auto /\ hold = "cancelled" /\ stay[Cancelled] = "cancelled") ~> []<>Reopened

\* An archived unit keeps no error, also when it was archived while the
\* sync was working on it (clearCheck24ErrorsForOfflineListings).
ArchivedHasNoError == <>[]archived => <>[]~error

\* A failed listing is pushed again until it goes through, with auto-sync
\* on or off (retryFailedListings).
FailedIsRetried == (error /\ ~archived) ~> (~error \/ archived)

\* No error stays for good: it goes when the unit is archived, and before that
\* the listing is pushed until it goes through.
ErrorsClear == ArchivedHasNoError /\ FailedIsRetried
=============================================================================
