------------------------ MODULE CalendarSyncProofs ------------------------
(***************************************************************************)
(* The calendar sync for every set of nights, stays, retries and faults    *)
(* (CalendarSync): the locks and jobs of the two sync services tell what   *)
(* the services do, a cancelled stay is reopened only where nobody else is *)
(* known to stay, and what is pushed agrees with the calendar it was built *)
(* from.                                                                   *)
(***************************************************************************)
EXTENDS CalendarSync, WellFoundedInduction, TLAPS

DayKinds == {"missing", "open", "closed"}
StayKinds == {"none", "active", "cancelled"}

StoreTypes ==
    /\ cal \in [Nights -> DayKinds]
    /\ portal \subseteq Nights /\ hostaway \subseteq Nights
    /\ row \in [Stays -> StayKinds] /\ stay \in [Stays -> StayKinds]
    /\ timers \in 0..FollowUps

\* A service that does nothing is Idle, and its lock and job say so.
ServiceFits(s) ==
    /\ lock[s] \in BOOLEAN
    /\ work[s].at = "idle" => work[s] = Idle
    /\ lock[s] <=> work[s] # Idle
    /\ lock[s] <=> s \in jobs

LocksFit ==
    /\ DOMAIN work = Processes /\ DOMAIN lock = Services
    /\ \A s \in Services : ServiceFits(s)

----------------------------------------------------------------------------
(* Stores.                                                                 *)

LEMMA SentType ==
    \A ranges : Sent(ranges) \subseteq Nights
    BY DEF Sent

LEMMA OpenedType ==
    ASSUME StoreTypes
    PROVE  \A nights : Opened(nights) \in [Nights -> DayKinds]
    BY DEF Opened, StoreTypes, DayKinds

LEMMA StoreStep == StoreTypes /\ [CalendarNext]_cvars => StoreTypes'
<1>. SUFFICES ASSUME StoreTypes, [CalendarNext]_cvars
              PROVE  StoreTypes'
    OBVIOUS
<1>. /\ Free \subseteq Nights /\ FollowUps \in Nat /\ Cancelled \in Stays
    BY CalendarAssumption DEF Free
<1>1. CASE \E s \in Stays : OtherBooks(s)
    BY <1>1 DEF OtherBooks, Change, StoreTypes, StayKinds
<1>2. CASE (\E n \in Nights : OwnerBlocks(n)) \/ Archive \/ CatchUp \/ HoldEnds
    BY <1>2 DEF OwnerBlocks, Archive, CatchUp, HoldEnds, Change, StoreTypes, outside
<1>3. CASE \E sticky \in BOOLEAN : CancelBooking(sticky)
    BY <1>3 DEF CancelBooking, pushAvailabilityAfterBookingChange, StoreTypes, StayKinds
<1>4. CASE \E p \in Refreshing : RefreshStep(p)
  <2>1. PICK p \in Refreshing : RefreshStep(p)
      BY <1>4
  <2>2. CASE forceOpenCalendarRange(p) \/ Open(p)
      BY <2>2, OpenedType DEF forceOpenCalendarRange, Open, Untouched, StoreTypes
  <2>3. CASE pushAvailability(p)
      BY <2>3, SentType DEF pushAvailability, outside, StoreTypes
  <2>4. CASE Offline(p) \/ applyRecentCancelForceOpens(p) \/ ReadDays(p) \/ RefreshFails(p)
      BY <2>4 DEF Offline, applyRecentCancelForceOpens, ReadDays, RefreshFails, Untouched, StoreTypes
  <2>. QED
      BY <2>1, <2>2, <2>3, <2>4 DEF RefreshStep
<1>5. CASE \E p \in Refreshing \cup {"hostaway"} : Calendar(p)
  <2>1. PICK p \in Refreshing \cup {"hostaway"} : getCalendar(p) \/ upsertCalendarDays(p)
      BY <1>5 DEF Calendar
  <2>2. CASE getCalendar(p)
      BY <2>2 DEF getCalendar, Untouched, StoreTypes
  <2>3. CASE upsertCalendarDays(p)
      BY <2>3 DEF upsertCalendarDays, Untouched, StoreTypes, DayKinds
  <2>. QED
      BY <2>1, <2>2, <2>3
<1>6. CASE FollowUp
    BY <1>6 DEF FollowUp, outside, StoreTypes
<1>7. CASE tick \/ SyncNow \/ retryFailedListings
    BY <1>7 DEF tick, SyncNow, syncAll, retryFailedListings, Untouched, StoreTypes
<1>8. CASE AriStep
  <2>1. CASE AriOpen
      BY <2>1, OpenedType DEF AriOpen, Untouched, StoreTypes
  <2>2. CASE AriPush
    <3>1. portal' \subseteq Nights
        BY <2>2, SentType DEF AriPush, StoreTypes
    <3>. QED
        BY <2>2, <3>1 DEF AriPush, Untouched, StoreTypes
  <2>3. CASE syncListingContent \/ AriHold \/ AriRead \/ syncListingRates \/ AriFails \/ AriRefused
      BY <2>3 DEF syncListingContent, AriHold, AriRead, syncListingRates, AriFails, AriRefused,
                  Untouched, StoreTypes
  <2>. QED
      BY <1>8, <2>1, <2>2, <2>3 DEF AriStep
<1>9. CASE syncListings \/ HostawayStep
    BY <1>9 DEF syncListings, UpsertListing, HostawayStep, syncAllReservations, HostawayFails, Untouched, StoreTypes
<1>10. CASE Restart \/ UNCHANGED cvars
    BY <1>10 DEF Restart, outside, cvars, StoreTypes
<1>. QED
    BY <1>1, <1>2, <1>3, <1>4, <1>5, <1>6, <1>7, <1>8, <1>9, <1>10 DEF CalendarNext

----------------------------------------------------------------------------
(* Locks and jobs.                                                         *)

LEMMA LockStep == LocksFit /\ [CalendarNext]_cvars => LocksFit'
<1>. SUFFICES ASSUME LocksFit, [CalendarNext]_cvars
              PROVE  LocksFit'
    OBVIOUS
<1>. USE DEF LocksFit, ServiceFits, Services, Processes, Idle
\* A step of the push after a booking change is none of the services.
<1>0. ASSUME NEW p \in Refreshing, NEW w, work' = [work EXCEPT ![p] = w], UNCHANGED <<lock, jobs>>
      PROVE  LocksFit'
    BY <1>0 DEF Refreshing
\* A service goes on, its lock and its job stay.
<1>00. ASSUME NEW s \in Services, NEW w, work' = [work EXCEPT ![s] = w], w.at # "idle",
              work[s].at # "idle", UNCHANGED <<lock, jobs>>
       PROVE  LocksFit'
    BY <1>00
<1>1. CASE UNCHANGED <<work, lock, jobs>>
    BY <1>1
<1>2. CASE \/ (\E s \in Stays : OtherBooks(s)) \/ (\E n \in Nights : OwnerBlocks(n)) \/ Archive
           \/ CatchUp \/ HoldEnds \/ retryFailedListings
    BY <1>1, <1>2 DEF OtherBooks, OwnerBlocks, Archive, CatchUp, HoldEnds, retryFailedListings, Change
<1>3. CASE (\E sticky \in BOOLEAN : CancelBooking(sticky)) \/ FollowUp
  <2>1. \E p \in Refreshing : work' = [work EXCEPT ![p] = [at |-> "get"]] /\ UNCHANGED <<lock, jobs>>
      BY <1>3 DEF CancelBooking, pushAvailabilityAfterBookingChange, FollowUp, Goto, Refreshing
  <2>. QED
      BY <2>1, <1>0
<1>4. CASE \E p \in Refreshing : RefreshStep(p)
  <2>1. PICK p \in Refreshing : RefreshStep(p)
      BY <1>4
  <2>2. UNCHANGED <<lock, jobs>>
      BY <2>1 DEF RefreshStep, Offline, forceOpenCalendarRange, applyRecentCancelForceOpens, Open,
                  ReadDays, pushAvailability, RefreshFails
  <2>3. \E w : work' = [work EXCEPT ![p] = w]
      BY <2>1 DEF RefreshStep, Offline, forceOpenCalendarRange, applyRecentCancelForceOpens, Open,
                  ReadDays, pushAvailability, RefreshFails, Goto, With
  <2>. QED
      BY <2>2, <2>3, <1>0
<1>5. CASE \E p \in Refreshing \cup {"hostaway"} : Calendar(p)
  <2>1. PICK p \in Refreshing \cup {"hostaway"} : getCalendar(p) \/ upsertCalendarDays(p)
      BY <1>5 DEF Calendar
  <2>2. CASE getCalendar(p)
    <3>1. work' = [work EXCEPT ![p] = [at |-> "store", nights |-> hostaway]]
          /\ work[p].at = "get" /\ UNCHANGED <<lock, jobs>>
        BY <2>2 DEF getCalendar, With, At
    <3>2. CASE p \in Refreshing
        BY <3>1, <3>2, <1>0
    <3>3. CASE p = "hostaway"
        BY <3>1, <3>3, <1>00
    <3>. QED
        BY <2>1, <3>2, <3>3
  <2>3. CASE upsertCalendarDays(p) /\ p = "hostaway"
      BY <2>3 DEF upsertCalendarDays, EndHostaway, Goto
  <2>4. CASE upsertCalendarDays(p) /\ p \in Refreshing
    <3>1. work' = [work EXCEPT ![p] = [at |-> "open"]] /\ UNCHANGED <<lock, jobs>>
        BY <2>4 DEF upsertCalendarDays, Goto, Refreshing
    <3>. QED
        BY <2>4, <3>1, <1>0
  <2>. QED
      BY <2>1, <2>2, <2>3, <2>4
<1>6. CASE tick \/ SyncNow
  <2>1. /\ work[ "check24" ].at = "idle"
        /\ lock' = [lock EXCEPT !["check24"] = TRUE] /\ jobs' = jobs \cup {"check24"}
        /\ work' = [work EXCEPT !["check24"] = Try(1)]
      BY <1>6 DEF tick, SyncNow, syncAll, At
  <2>2. Try(1).at # "idle"
      BY DEF Try
  <2>. QED
      BY <2>1, <2>2
<1>7. CASE AriStep
  <2>0. CASE EndAri
    <3>1. /\ work' = [work EXCEPT !["check24"] = [at |-> "idle"]]
          /\ lock' = [lock EXCEPT !["check24"] = FALSE] /\ jobs' = jobs \ {"check24"}
        BY <2>0 DEF EndAri, Goto
    <3>. QED
        BY <3>1
  <2>1. CASE syncListingRates \/ AriRefused
      BY <2>0, <2>1 DEF syncListingRates, AriRefused
  <2>2. CASE AriFails
    <3>1. Try(work["check24"].try + 1).at # "idle" /\ work["check24"].at # "idle"
        BY <2>2 DEF Try, AriFails, AriAt, At
    <3>2. CASE work' = [work EXCEPT !["check24"] = Try(work["check24"].try + 1)] /\ UNCHANGED <<lock, jobs>>
        BY <3>1, <3>2, <1>00
    <3>. QED
        BY <2>0, <2>2, <3>2 DEF AriFails
  <2>3. CASE syncListingContent \/ AriHold \/ AriOpen \/ AriRead \/ AriPush
    <3>1. work["check24"].at # "idle" /\ UNCHANGED <<lock, jobs>>
        BY <2>3 DEF syncListingContent, AriHold, AriOpen, AriRead, AriPush, AriAt, At
    <3>2. CASE syncListingContent \/ AriOpen \/ AriPush
      <4>1. PICK x \in {"hold", "read", "rates"} : work' = [work EXCEPT !["check24"] = [at |-> x, try |-> @.try]]
          BY <3>2 DEF syncListingContent, AriOpen, AriPush, AriGoto
      <4>. QED
          BY <3>1, <4>1
    <3>3. CASE AriHold
      <4>1. \/ work' = [work EXCEPT !["check24"] = [at |-> "reopen", try |-> @.try, nights |-> ForceOpen]]
            \/ work' = [work EXCEPT !["check24"] = [at |-> "read", try |-> @.try]]
          BY <3>3 DEF AriHold, AriGoto, AriWith
      <4>. QED
          BY <3>1, <4>1
    <3>4. CASE AriRead
        BY <3>1, <3>4 DEF AriRead
    <3>. QED
        BY <2>3, <3>2, <3>3, <3>4
  <2>. QED
      BY <1>7, <2>1, <2>2, <2>3 DEF AriStep
<1>8. CASE syncListings
    BY <1>8 DEF syncListings, UpsertListing, Goto, At
<1>9. CASE HostawayStep
  <2>1. work["hostaway"].at # "idle"
      BY <1>9 DEF HostawayStep, syncAllReservations, HostawayFails, At
  <2>2. CASE EndHostaway
      BY <2>2 DEF EndHostaway, Goto
  <2>3. CASE Goto("hostaway", "get") /\ UNCHANGED <<lock, jobs>>
      BY <2>1, <2>3, <1>00 DEF Goto
  <2>. QED
      BY <1>9, <2>2, <2>3 DEF HostawayStep, syncAllReservations, HostawayFails
<1>10. CASE Restart
    BY <1>10 DEF Restart
<1>11. CASE UNCHANGED cvars
    BY <1>1, <1>11 DEF cvars
<1>. QED
    BY <1>2, <1>3, <1>4, <1>5, <1>6, <1>7, <1>8, <1>9, <1>10, <1>11 DEF CalendarNext

\* Through failures, retries and restarts at any step a lock is held and a
\* job is running exactly while its service works: no sync is blocked for
\* good, and none runs twice (syncInProgress, SyncJob, onModuleInit).
THEOREM SyncTheorem == CalendarSpec => []SyncTypeOK
<1>1. CalendarInit => StoreTypes /\ LocksFit
  <2>. SUFFICES ASSUME CalendarInit
                PROVE  StoreTypes /\ LocksFit
      OBVIOUS
  <2>1. StoreTypes
      BY CalendarAssumption DEF CalendarInit, StoreTypes, DayKinds, StayKinds
  <2>2. LocksFit
      BY DEF CalendarInit, LocksFit, ServiceFits, Services, Processes, Idle
  <2>. QED
      BY <2>1, <2>2
<1>2. StoreTypes /\ LocksFit => SyncTypeOK
  <2>. SUFFICES ASSUME StoreTypes, LocksFit
                PROVE  SyncTypeOK
      OBVIOUS
  <2>1. \A s \in Services : lock[s] = (work[s] # Idle) /\ lock[s] = (s \in jobs)
    <3>. SUFFICES ASSUME NEW s \in Services
                  PROVE  lock[s] = (work[s] # Idle) /\ lock[s] = (s \in jobs)
        OBVIOUS
    <3>1. /\ lock[s] = TRUE \/ lock[s] = FALSE
          /\ lock[s] <=> work[s] # Idle
          /\ lock[s] <=> s \in jobs
        BY DEF LocksFit, ServiceFits
    <3>2. CASE lock[s] = TRUE
      <4>1. (work[s] # Idle) = TRUE /\ (s \in jobs) = TRUE
          BY <3>1, <3>2
      <4>. QED
          BY <3>2, <4>1
    <3>3. CASE lock[s] = FALSE
      <4>1. (work[s] # Idle) = FALSE /\ (s \in jobs) = FALSE
          BY <3>1, <3>3
      <4>. QED
          BY <3>3, <4>1
    <3>. QED
        BY <3>1, <3>2, <3>3
  <2>. QED
      BY <2>1 DEF SyncTypeOK, StoreTypes, DayKinds, StayKinds
<1>. QED
    BY <1>1, <1>2, StoreStep, LockStep, PTL DEF CalendarSpec

----------------------------------------------------------------------------
(* What is pushed.                                                         *)

\* The least-number principle, which takes the place of an induction.
LEMMA LeastNumber ==
    ASSUME NEW S \in SUBSET Nat, S # {}
    PROVE  \E x \in S : \A y \in S : x <= y
<1>1. IsWellFoundedOn(OpToRel(<, Nat), Nat)
    BY NatLessThanWellFounded
<1>2. PICK x \in S : \A y \in S : ~ (<<y, x>> \in OpToRel(<, Nat))
    BY <1>1, WFMin
<1>3. \A y \in S : ~(y < x)
    BY <1>2 DEF OpToRel
<1>. QED
    BY <1>3

\* The days up to a night, or from it, that are like it.
LEMMA RunBefore ==
    ASSUME NEW days, NEW n \in Nights
    PROVE  \E i \in Nights : /\ i <= n /\ \A m \in i..n : m \in Nights /\ days[m] = days[n]
                             /\ ~(i - 1 \in Nights /\ days[i - 1] = days[n])
<1>. DEFINE Like(k) == n - k \in Nights /\ days[n - k] = days[n]
            Ends == {k \in Nat : ~Like(k)}
<1>1. PICK a, b \in Nights : Nights = a..b
    BY CalendarAssumption
<1>2. a \in Int /\ b \in Int /\ n \in Int /\ a <= n
    BY <1>1, CalendarAssumption
<1>3. n - a + 1 \in Ends
    BY <1>1, <1>2
<1>4. PICK k \in Ends : \A j \in Ends : k <= j
    BY <1>3, LeastNumber
<1>5. k \in Nat /\ k # 0 /\ ~Like(k)
    BY <1>2, <1>4
<1>6. \A j \in 0..(k - 1) : Like(j)
  <2>. SUFFICES ASSUME NEW j \in 0..(k - 1), ~Like(j)
                PROVE  FALSE
      OBVIOUS
  <2>1. j \in Ends
      BY <1>5
  <2>. QED
      BY <1>4, <1>5, <2>1
<1>. DEFINE i == n - k + 1
<1>7. i \in Nights /\ i <= n
    BY <1>2, <1>5, <1>6
<1>8. ASSUME NEW m \in i..n
      PROVE  m \in Nights /\ days[m] = days[n]
  <2>1. n - m \in 0..(k - 1) /\ n - (n - m) = m
      BY <1>2, <1>5
  <2>. QED
      BY <1>6, <2>1
<1>9. ~(i - 1 \in Nights /\ days[i - 1] = days[n])
  <2>1. i - 1 = n - k
      BY <1>2, <1>5
  <2>. QED
      BY <1>5, <2>1
<1>. QED
    BY <1>7, <1>8, <1>9

LEMMA RunAfter ==
    ASSUME NEW days, NEW n \in Nights
    PROVE  \E j \in Nights : /\ n <= j /\ \A m \in n..j : m \in Nights /\ days[m] = days[n]
                             /\ ~(j + 1 \in Nights /\ days[j + 1] = days[n])
<1>. DEFINE Like(k) == n + k \in Nights /\ days[n + k] = days[n]
            Ends == {k \in Nat : ~Like(k)}
<1>1. PICK a, b \in Nights : Nights = a..b
    BY CalendarAssumption
<1>2. a \in Int /\ b \in Int /\ n \in Int /\ n <= b
    BY <1>1, CalendarAssumption
<1>3. b - n + 1 \in Ends
    BY <1>1, <1>2
<1>4. PICK k \in Ends : \A j \in Ends : k <= j
    BY <1>3, LeastNumber
<1>5. k \in Nat /\ k # 0 /\ ~Like(k)
    BY <1>2, <1>4
<1>6. \A j \in 0..(k - 1) : Like(j)
  <2>. SUFFICES ASSUME NEW j \in 0..(k - 1), ~Like(j)
                PROVE  FALSE
      OBVIOUS
  <2>1. j \in Ends
      BY <1>5
  <2>. QED
      BY <1>4, <1>5, <2>1
<1>. DEFINE i == n + k - 1
<1>7. i \in Nights /\ n <= i
  <2>1. Like(k - 1) /\ n + (k - 1) = i
      BY <1>2, <1>5, <1>6
  <2>. QED
      BY <1>2, <1>5, <2>1
<1>8. ASSUME NEW m \in n..i
      PROVE  m \in Nights /\ days[m] = days[n]
  <2>1. m - n \in 0..(k - 1) /\ n + (m - n) = m
      BY <1>2, <1>5
  <2>. QED
      BY <1>6, <2>1
<1>9. ~(i + 1 \in Nights /\ days[i + 1] = days[n])
  <2>1. i + 1 = n + k
      BY <1>2, <1>5
  <2>. QED
      BY <1>5, <2>1
<1>. QED
    BY <1>7, <1>8, <1>9

\* Every stored night is in a range, no other night is, and a range tells of
\* each of its nights what is stored.
LEMMA RangesCover ==
    ASSUME NEW days, NEW n \in Nights
    PROVE  /\ \A r \in buildAvailabilityRanges(days) : n \in r.from..r.to =>
                days[n] # "missing" /\ (r.open <=> days[n] = "open")
           /\ days[n] # "missing" => \E r \in buildAvailabilityRanges(days) : n \in r.from..r.to
<1>. DEFINE stored(m) == m \in Nights /\ days[m] # "missing"
            Run(i, j) == /\ i \in Nights /\ j \in Nights /\ i <= j /\ stored(i)
                         /\ \A m \in i..j : m \in Nights /\ days[m] = days[i]
                         /\ ~(stored(i - 1) /\ days[i - 1] = days[i])
                         /\ ~(stored(j + 1) /\ days[j + 1] = days[j])
            Range(i, j) == [from |-> i, to |-> j, open |-> days[i] = "open"]
<1>1. ASSUME NEW r \in buildAvailabilityRanges(days)
      PROVE  \E i, j : Run(i, j) /\ r = Range(i, j)
    BY DEF buildAvailabilityRanges
<1>2. ASSUME NEW i, NEW j, Run(i, j)
      PROVE  Range(i, j) \in buildAvailabilityRanges(days)
  <2>1. <<i, j>>[1] = i /\ <<i, j>>[2] = j /\ <<i, j>> \in Nights \X Nights
      BY <1>2
  <2>. QED
      BY <1>2, <2>1 DEF buildAvailabilityRanges
<1>3. ASSUME NEW r \in buildAvailabilityRanges(days), n \in r.from..r.to
      PROVE  days[n] # "missing" /\ (r.open <=> days[n] = "open")
  <2>1. PICK i, j : Run(i, j) /\ r = Range(i, j)
      BY <1>1
  <2>2. days[n] = days[i]
      BY <1>3, <2>1
  <2>. QED
      BY <2>1, <2>2
<1>4. ASSUME days[n] # "missing"
      PROVE  \E r \in buildAvailabilityRanges(days) : n \in r.from..r.to
  <2>1. PICK i \in Nights : /\ i <= n /\ \A m \in i..n : m \in Nights /\ days[m] = days[n]
                            /\ ~(i - 1 \in Nights /\ days[i - 1] = days[n])
      BY RunBefore
  <2>2. PICK j \in Nights : /\ n <= j /\ \A m \in n..j : m \in Nights /\ days[m] = days[n]
                            /\ ~(j + 1 \in Nights /\ days[j + 1] = days[n])
      BY RunAfter
  <2>3. i \in Int /\ j \in Int /\ n \in Int
      BY CalendarAssumption
  <2>4. days[i] = days[n] /\ days[j] = days[n]
      BY <2>1, <2>2, <2>3
  <2>5. \A m \in i..j : m \in Nights /\ days[m] = days[i]
      BY <2>1, <2>2, <2>3, <2>4
  <2>6. Run(i, j)
      BY <1>4, <2>1, <2>2, <2>3, <2>4, <2>5
  <2>7. Range(i, j) \in buildAvailabilityRanges(days)
      BY <1>2, <2>6
  <2>. QED
      BY <2>1, <2>2, <2>3, <2>7
<1>. QED
    BY <1>3, <1>4

\* A push makes CHECK24 offer exactly the nights that are stored as open and
\* leaves nights alone of which nothing is stored, however the days fall into
\* ranges (buildAvailabilityRanges, pushAvailability).
THEOREM PushIsExact ==
    \A days : Sent(buildAvailabilityRanges(days)) =
        {n \in Nights : IF days[n] = "missing" THEN n \in portal ELSE days[n] = "open"}
<1>. SUFFICES ASSUME NEW days, NEW n \in Nights
              PROVE  n \in Sent(buildAvailabilityRanges(days))
                       <=> IF days[n] = "missing" THEN n \in portal ELSE days[n] = "open"
    BY DEF Sent
<1>. DEFINE ranges == buildAvailabilityRanges(days)
<1>1. \A r \in ranges : n \in r.from..r.to => days[n] # "missing" /\ (r.open <=> days[n] = "open")
    BY RangesCover
<1>2. days[n] # "missing" => \E r \in ranges : n \in r.from..r.to
    BY RangesCover
<1>. HIDE DEF ranges
<1>3. n \in Sent(ranges) <=> \/ \E r \in ranges : n \in r.from..r.to /\ r.open
                             \/ n \in portal /\ ~\E r \in ranges : n \in r.from..r.to
    BY DEF Sent
<1>. QED
    BY <1>1, <1>2, <1>3 DEF ranges
=============================================================================
