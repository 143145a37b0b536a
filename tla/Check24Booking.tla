--------------------------- MODULE Check24Booking ---------------------------
(***************************************************************************)
(* Bookings of the CHECK24 portal are imported as Hostaway reservations,   *)
(* and a cancellation on either side is carried to the other.  This module *)
(* models check24-booking.service.ts (webhook, poll, import, cancel,       *)
(* propagate), the unpaid cancel that calls it and the sync that copies a  *)
(* reservation's status to the local row.                                  *)
(*                                                                         *)
(* A worker is one handler in flight, suspended at an await.  Nothing      *)
(* serialises two handlers of the same booking: each trusts the row and    *)
(* the portal answer it read first.                                        *)
(***************************************************************************)
EXTENDS Naturals, FiniteSets

CONSTANTS
    Bookings,    \* CHECK24 bookings
    Workers,     \* bound on handlers in flight at the same time
    MaxRes,      \* bound on the reservations Hostaway accepts
    MaxFaults,   \* bound on failures
    PageSize,    \* the limit of listBookings
    AutoAccept,  \* CHECK24_AUTO_ACCEPT_ENQUIRY
    Events,      \* what happens, see EventKinds
    Faults,      \* what may go wrong, see FaultKinds
    None         \* a null column or an unset local

EventKinds ==
    {"webhook",  \* CHECK24 notifies the server of a booking
     "poll",     \* pollRecentBookings, by the scheduler or by staff
     "sync",     \* a Hostaway webhook or full sync copies a reservation
     "unpaid",   \* the payment job cancels an unpaid stay
     "staff"}    \* a stay is cancelled in the Hostaway interface

FaultKinds ==
    {"portal",    \* getBooking, listBookings, accept or cancel fails
     "mapping",   \* no property mapping, or the custom fields do not load
     "create",    \* Hostaway refuses the reservation
     "lost",      \* a call takes effect but its answer is lost
     "fetch",     \* getReservation throws
     "haCancel",  \* cancelReservation throws
     "sticky",    \* Hostaway answers the cancel and keeps the stay
     "crash"}     \* the process restarts

ResIds == 1..MaxRes

ASSUME BookingBounds ==
    /\ MaxRes \in Nat
    /\ MaxFaults \in Nat
    /\ PageSize \in Nat
    /\ AutoAccept \in BOOLEAN
    /\ Events \subseteq EventKinds
    /\ Faults \subseteq FaultKinds

ASSUME NullNotId == None \notin ResIds /\ None \notin Bookings

VARIABLES
    portal,  \* the booking's status at CHECK24
    row,     \* Check24Booking: status and hostawayReservationId
    ha,      \* Hostaway's reservations; b is the booking in the host note
    nRes,    \* how many reservations Hostaway has accepted
    local,   \* status of the local Reservation row
    auto,    \* reservations with autoCanceledAt set
    worker,  \* the handlers in flight
    faults   \* failures so far

vars == <<portal, row, ha, nRes, local, auto, worker, faults>>

haVars == <<ha, nRes>>
localVars == <<local, auto>>

----------------------------------------------------------------------------
(* State.                                                                  *)

\* "cancelled" stands for every status isTerminalStatus knows, "pending" for
\* one the importer does not support.
PortalStatuses == {"absent", "pending", "requested", "booked", "cancelled"}

isTerminalStatus(st) == st = "cancelled"

BookingRow == [status : PortalStatuses, hid : ResIds \cup {None}]

Reservation == [st : {"unused", "active", "cancelled"}, b : Bookings \cup {None}]

LocalStatuses == {"absent", "active", "cancelled"}

isHostawayCancelled(st) == st = "cancelled"

Pcs == {"idle", "get", "list", "next", "find", "upsert", "ignore", "import",
        "create", "fetch", "store", "link", "accept", "accepted", "readLocal",
        "already", "mark", "haCancel", "goneLocal", "gone", "keptLocal",
        "keptRow", "unpaid", "unpaidLocal", "linked", "portalCancel",
        "propagated"}

WorkerState ==
    [pc     : Pcs,
     poll   : BOOLEAN,                        \* inside pollRecentBookings
     list   : [Bookings -> PortalStatuses],   \* the rest of the poll's page
     b      : Bookings \cup {None},
     seen   : PortalStatuses,                 \* booking.status as it was read
     h      : ResIds \cup {None},             \* existing, created or cancelled
     labels : BOOLEAN,                        \* labelsOnCreate
     got    : LocalStatuses,                  \* status getReservation answered
     then   : Pcs]                            \* what follows the sync

NoPage == [b \in Bookings |-> "absent"]

IdleWorker ==
    [pc |-> "idle", poll |-> FALSE, list |-> NoPage, b |-> None,
     seen |-> "absent", h |-> None, labels |-> FALSE, got |-> "absent",
     then |-> "idle"]

Init ==
    /\ portal = [b \in Bookings |-> "absent"]
    /\ row = [b \in Bookings |-> [status |-> "absent", hid |-> None]]
    /\ ha = [h \in ResIds |-> [st |-> "unused", b |-> None]]
    /\ nRes = 0
    /\ local = [h \in ResIds |-> "absent"]
    /\ auto = {}
    /\ worker = [w \in Workers |-> IdleWorker]
    /\ faults = 0

----------------------------------------------------------------------------
(* Helpers.                                                                *)

Go(w, t) == worker' = [worker EXCEPT ![w] = t]

\* The end of processBooking, by return or by exception: the poll catches and
\* goes on with its page, a webhook or job is over.
Done(s) ==
    IF s.poll
    THEN [IdleWorker EXCEPT !.pc = "next", !.poll = TRUE, !.list = s.list]
    ELSE IdleWorker

\* One more failure of this kind.
Fault(kind) ==
    /\ kind \in Faults
    /\ faults < MaxFaults
    /\ faults' = faults + 1

\* Hostaway accepts a reservation for booking b.
Accept(b) ==
    /\ nRes < MaxRes
    /\ nRes' = nRes + 1
    /\ ha' = [ha EXCEPT ![nRes + 1] = [st |-> "active", b |-> b]]

CancelAtHostaway(h) == ha' = [ha EXCEPT ![h].st = "cancelled"]

----------------------------------------------------------------------------
(* CHECK24 and Hostaway.                                                   *)

\* A booking appears, becomes a request, or is cancelled by its guest.
PortalBooks(b) ==
    /\ portal[b] \in {"absent", "pending"}
    /\ \E st \in {"pending", "requested", "booked"} \ {portal[b]} :
          portal' = [portal EXCEPT ![b] = st]
    /\ UNCHANGED <<row, haVars, localVars, worker, faults>>

GuestCancels(b) ==
    /\ portal[b] \in {"pending", "requested", "booked"}
    /\ portal' = [portal EXCEPT ![b] = "cancelled"]
    /\ UNCHANGED <<row, haVars, localVars, worker, faults>>

\* Staff cancel a stay in the Hostaway interface.
StaffCancels(h) ==
    /\ "staff" \in Events
    /\ ha[h].st = "active"
    /\ CancelAtHostaway(h)
    /\ UNCHANGED <<portal, row, nRes, localVars, worker, faults>>

----------------------------------------------------------------------------
(* Webhook and poll.                                                       *)

WebhookCall(w, b) ==
    /\ "webhook" \in Events
    /\ worker[w].pc = "idle"
    /\ portal[b] # "absent"
    /\ Go(w, [IdleWorker EXCEPT !.pc = "get", !.b = b])
    /\ UNCHANGED <<portal, row, haVars, localVars, faults>>

GetBooking(w) ==
    LET s == worker[w] IN
    /\ s.pc = "get"
    /\ \/ Go(w, [s EXCEPT !.pc = "find", !.seen = portal[s.b]]) /\ UNCHANGED faults
       \/ Fault("portal") /\ Go(w, IdleWorker)
    /\ UNCHANGED <<portal, row, haVars, localVars>>

PollCall(w) ==
    /\ "poll" \in Events
    /\ worker[w].pc = "idle"
    /\ Go(w, [IdleWorker EXCEPT !.pc = "list", !.poll = TRUE])
    /\ UNCHANGED <<portal, row, haVars, localVars, faults>>

\* One page of bookings, with the status they have now.
ListBookings(w) ==
    LET s == worker[w]
        known == {b \in Bookings : portal[b] # "absent"} IN
    /\ s.pc = "list"
    /\ \/ \E page \in SUBSET known :
             /\ page = known \/ Cardinality(page) = PageSize
             /\ Cardinality(page) <= PageSize
             /\ Go(w, [s EXCEPT !.pc = "next",
                                !.list = [b \in Bookings |->
                                            IF b \in page THEN portal[b] ELSE "absent"]])
             /\ UNCHANGED faults
       \/ Fault("portal") /\ Go(w, IdleWorker)
    /\ UNCHANGED <<portal, row, haVars, localVars>>

\* The next booking of the page, in any order; its status may be stale by now.
PollNext(w) ==
    LET s == worker[w] IN
    /\ s.pc = "next"
    /\ \/ \E b \in Bookings :
             /\ s.list[b] # "absent"
             /\ Go(w, [s EXCEPT !.pc = "find", !.b = b, !.seen = s.list[b],
                                !.list[b] = "absent"])
       \/ s.list = NoPage /\ Go(w, IdleWorker)
    /\ UNCHANGED <<portal, row, haVars, localVars, faults>>

----------------------------------------------------------------------------
(* processBooking: the row, then import or cancel.                         *)

\* existing is read before the row is written.
FindExisting(w) ==
    LET s == worker[w] IN
    /\ s.pc = "find"
    /\ Go(w, [s EXCEPT !.pc = "upsert", !.h = row[s.b].hid])
    /\ UNCHANGED <<portal, row, haVars, localVars, faults>>

\* Mutant of UpsertRow: an imported booking is answered before the row is
\* written and before its status is looked at.
UpsertImportedFirst(w) ==
    LET s == worker[w] IN
    /\ s.pc = "upsert"
    /\ row' = [row EXCEPT ![s.b].status = IF s.h = None THEN s.seen ELSE @]
    /\ Go(w, CASE s.h # None -> Done(s)
               [] s.h = None /\ isTerminalStatus(s.seen) -> [s EXCEPT !.pc = "ignore"]
               [] s.h = None /\ s.seen \in {"requested", "booked"} -> [s EXCEPT !.pc = "import"]
               [] OTHER -> Done(s))
    /\ UNCHANGED <<portal, haVars, localVars, faults>>

\* The status that was read overwrites the row's; existing decides the rest.
UpsertRow(w) ==
    LET s == worker[w] IN
    /\ s.pc = "upsert"
    /\ row' = [row EXCEPT ![s.b].status = s.seen]
    /\ Go(w, CASE isTerminalStatus(s.seen) /\ s.h = None -> [s EXCEPT !.pc = "ignore"]
               [] isTerminalStatus(s.seen) /\ s.h # None -> [s EXCEPT !.pc = "readLocal"]
               [] ~isTerminalStatus(s.seen) /\ s.h = None /\ s.seen \in {"requested", "booked"}
                    -> [s EXCEPT !.pc = "import"]
               [] OTHER -> Done(s))
    /\ UNCHANGED <<portal, haVars, localVars, faults>>

\* The property mapping and Hostaway's custom fields are looked up.
PrepareImport(w) ==
    LET s == worker[w] IN
    /\ s.pc = "import"
    /\ \/ /\ \E labels \in BOOLEAN : Go(w, [s EXCEPT !.pc = "create", !.labels = labels])
          /\ UNCHANGED faults
       \/ Fault("mapping") /\ Go(w, Done(s))
    /\ UNCHANGED <<portal, row, haVars, localVars>>

\* createReservation; the sync of the new reservation is next.
CreateReservation(w) ==
    LET s == worker[w] IN
    /\ s.pc = "create"
    /\ Accept(s.b)
    /\ Go(w, [s EXCEPT !.pc = "fetch", !.then = "link", !.h = nRes + 1])
    /\ UNCHANGED <<portal, row, localVars, faults>>

\* An error is retried once without labels, then ends the import.  Hostaway
\* may have refused, or accepted with its answer lost.
CreateFails(w) ==
    LET s == worker[w] IN
    /\ s.pc = "create"
    /\ \/ Fault("create") /\ UNCHANGED haVars
       \/ Fault("lost") /\ Accept(s.b)
       \/ nRes = MaxRes /\ UNCHANGED <<haVars, faults>>
    /\ Go(w, IF s.labels THEN [s EXCEPT !.labels = FALSE] ELSE Done(s))
    /\ UNCHANGED <<portal, row, localVars>>

\* Mutant of LinkRow: the link is written only for bookings, not for requests.
LinkBookedOnly(w) ==
    LET s == worker[w] IN
    /\ s.pc = "link"
    /\ row' = [row EXCEPT ![s.b] =
                 [status |-> s.seen, hid |-> IF s.seen = "booked" THEN s.h ELSE @.hid]]
    /\ Go(w, IF s.seen = "requested" /\ AutoAccept
             THEN [s EXCEPT !.pc = "accept"] ELSE Done(s))
    /\ UNCHANGED <<portal, haVars, localVars, faults>>

\* Mutant of LinkRow: the newest reservation is linked, not the created one.
LinkNewest(w) ==
    LET s == worker[w] IN
    /\ s.pc = "link"
    /\ row' = [row EXCEPT ![s.b] = [status |-> s.seen, hid |-> nRes]]
    /\ Go(w, IF s.seen = "requested" /\ AutoAccept
             THEN [s EXCEPT !.pc = "accept"] ELSE Done(s))
    /\ UNCHANGED <<portal, haVars, localVars, faults>>

\* After contact, payment request and welcome message the row is linked, and
\* its status written again as it was read.
LinkRow(w) ==
    LET s == worker[w] IN
    /\ s.pc = "link"
    /\ row' = [row EXCEPT ![s.b] = [status |-> s.seen, hid |-> s.h]]
    /\ Go(w, IF s.seen = "requested" /\ AutoAccept
             THEN [s EXCEPT !.pc = "accept"] ELSE Done(s))
    /\ UNCHANGED <<portal, haVars, localVars, faults>>

\* CHECK24 confirms a request that is still open and refuses any other.
AcceptBooking(w) ==
    LET s == worker[w] IN
    /\ s.pc = "accept"
    /\ \/ /\ portal[s.b] = "requested"
          /\ portal' = [portal EXCEPT ![s.b] = "booked"]
          /\ Go(w, [s EXCEPT !.pc = "accepted"])
          /\ UNCHANGED faults
       \/ /\ portal[s.b] # "requested"
          /\ Go(w, Done(s))
          /\ UNCHANGED <<portal, faults>>
       \/ Fault("portal") /\ Go(w, Done(s)) /\ UNCHANGED portal
       \/ /\ Fault("lost")
          /\ portal[s.b] = "requested"
          /\ portal' = [portal EXCEPT ![s.b] = "booked"]
          /\ Go(w, Done(s))
    /\ UNCHANGED <<row, haVars, localVars>>

AcceptedRow(w) ==
    LET s == worker[w] IN
    /\ s.pc = "accepted"
    /\ row' = [row EXCEPT ![s.b].status = "booked"]
    /\ Go(w, Done(s))
    /\ UNCHANGED <<portal, haVars, localVars, faults>>

----------------------------------------------------------------------------
(* syncSingleReservation, alone or inside another handler.                 *)

\* A Hostaway webhook or a full sync takes up reservation h.
SyncCall(w, h) ==
    /\ "sync" \in Events
    /\ worker[w].pc = "idle"
    /\ ha[h].st # "unused"
    /\ Go(w, [IdleWorker EXCEPT !.pc = "fetch", !.h = h])
    /\ UNCHANGED <<portal, row, haVars, localVars, faults>>

\* What the handler that asked for the sync does next.
Resume(s) == IF s.then = "idle" THEN IdleWorker ELSE [s EXCEPT !.pc = s.then]

\* A failed read is swallowed: the handler goes on without the sync.
FetchReservation(w) ==
    LET s == worker[w] IN
    /\ s.pc = "fetch"
    /\ \/ Go(w, [s EXCEPT !.pc = "store", !.got = ha[s.h].st]) /\ UNCHANGED faults
       \/ Fault("fetch") /\ Go(w, Resume(s))
    /\ UNCHANGED <<portal, row, haVars, localVars>>

StoreReservation(w) ==
    LET s == worker[w] IN
    /\ s.pc = "store"
    /\ local' = [local EXCEPT ![s.h] = s.got]
    /\ Go(w, Resume(s))
    /\ UNCHANGED <<portal, row, haVars, auto, faults>>

----------------------------------------------------------------------------
(* cancelImportedReservation.                                              *)

\* A booking cancelled before it was imported: only the row is written.
IgnoreCancelled(w) ==
    LET s == worker[w] IN
    /\ s.pc \in {"ignore", "already"}
    /\ row' = [row EXCEPT ![s.b].status = s.seen]
    /\ Go(w, Done(s))
    /\ UNCHANGED <<portal, haVars, localVars, faults>>

\* The local row decides whether Hostaway is asked to cancel.
ReadLocal(w) ==
    LET s == worker[w] IN
    /\ s.pc = "readLocal"
    /\ Go(w, [s EXCEPT !.pc = IF isHostawayCancelled(local[s.h]) THEN "already" ELSE "mark"])
    /\ UNCHANGED <<portal, row, haVars, localVars, faults>>

MarkCancelled(w) ==
    LET s == worker[w] IN
    /\ s.pc = "mark"
    /\ row' = [row EXCEPT ![s.b].status = s.seen]
    /\ Go(w, [s EXCEPT !.pc = "haCancel"])
    /\ UNCHANGED <<portal, haVars, localVars, faults>>

\* cancelReservation: done, answered but not done, or failed with the stay
\* kept or gone.
CancelReservation(w) ==
    LET s == worker[w] IN
    /\ s.pc = "haCancel"
    /\ \/ /\ CancelAtHostaway(s.h)
          /\ Go(w, [s EXCEPT !.pc = "goneLocal"])
          /\ UNCHANGED faults
       \/ Fault("sticky") /\ Go(w, [s EXCEPT !.pc = "goneLocal"]) /\ UNCHANGED ha
       \/ Fault("haCancel") /\ Go(w, [s EXCEPT !.pc = "keptLocal"]) /\ UNCHANGED ha
       \/ /\ Fault("lost")
          /\ CancelAtHostaway(s.h)
          /\ Go(w, [s EXCEPT !.pc = "keptLocal"])
    /\ UNCHANGED <<portal, row, nRes, localVars>>

\* updateMany: a row that does not exist stays absent.
MarkLocal(h) == local' = [local EXCEPT ![h] = IF @ = "absent" THEN @ ELSE "cancelled"]

\* The local row is cancelled, synced, and cancelled again.
CancelLocal(w) ==
    LET s == worker[w] IN
    /\ s.pc = "goneLocal"
    /\ MarkLocal(s.h)
    /\ Go(w, [s EXCEPT !.pc = "fetch", !.then = "gone"])
    /\ UNCHANGED <<portal, row, haVars, auto, faults>>

ReassertLocal(w) ==
    LET s == worker[w] IN
    /\ s.pc = "gone"
    /\ MarkLocal(s.h)
    /\ Go(w, Done(s))
    /\ UNCHANGED <<portal, row, haVars, auto, faults>>

\* The catch: CHECK24 is the source of truth, so the local row is cancelled
\* although Hostaway may still have the stay.
KeptLocal(w) ==
    LET s == worker[w] IN
    /\ s.pc = "keptLocal"
    /\ MarkLocal(s.h)
    /\ Go(w, [s EXCEPT !.pc = "keptRow"])
    /\ UNCHANGED <<portal, row, haVars, auto, faults>>

KeptRow(w) ==
    LET s == worker[w] IN
    /\ s.pc = "keptRow"
    /\ row' = [row EXCEPT ![s.b].status = s.seen]
    /\ Go(w, Done(s))
    /\ UNCHANGED <<portal, haVars, localVars, faults>>

----------------------------------------------------------------------------
(* cancelUnpaidReservation and propagateHostawayCancellation.              *)

\* The payment job finds h unpaid.  Deadlines are days after the import, so h
\* is not one that a handler is still importing.
UnpaidCall(w, h) ==
    /\ "unpaid" \in Events
    /\ worker[w].pc = "idle"
    /\ local[h] = "active"
    /\ h \notin auto
    /\ \A v \in Workers : worker[v].h = h => worker[v].then # "link"
    /\ Go(w, [IdleWorker EXCEPT !.pc = "unpaid", !.h = h])
    /\ UNCHANGED <<portal, row, haVars, localVars, faults>>

\* A cancel that fails ends the attempt; the next run of the job tries again.
UnpaidCancel(w) ==
    LET s == worker[w] IN
    /\ s.pc = "unpaid"
    /\ \/ /\ CancelAtHostaway(s.h)
          /\ Go(w, [s EXCEPT !.pc = "unpaidLocal"])
          /\ UNCHANGED faults
       \/ Fault("sticky") /\ Go(w, [s EXCEPT !.pc = "unpaidLocal"]) /\ UNCHANGED ha
       \/ Fault("haCancel") /\ Go(w, IdleWorker) /\ UNCHANGED ha
       \/ Fault("lost") /\ CancelAtHostaway(s.h) /\ Go(w, IdleWorker)
    /\ UNCHANGED <<portal, row, nRes, localVars>>

\* Mutant of UnpaidLocal: CHECK24 is not told.
UnpaidLocalOnly(w) ==
    LET s == worker[w] IN
    /\ s.pc = "unpaidLocal"
    /\ local' = [local EXCEPT ![s.h] = "cancelled"]
    /\ auto' = auto \cup {s.h}
    /\ Go(w, IdleWorker)
    /\ UNCHANGED <<portal, row, haVars, faults>>

\* autoCanceledAt keeps the job from taking the stay up again.
UnpaidLocal(w) ==
    LET s == worker[w] IN
    /\ s.pc = "unpaidLocal"
    /\ local' = [local EXCEPT ![s.h] = "cancelled"]
    /\ auto' = auto \cup {s.h}
    /\ Go(w, [s EXCEPT !.pc = "linked"])
    /\ UNCHANGED <<portal, row, haVars, faults>>

\* The booking linked to h, if any.  One that the row shows as cancelled is
\* not cancelled again.
FindLinked(w) ==
    LET s == worker[w] IN
    /\ s.pc = "linked"
    /\ \/ \E b \in Bookings :
             /\ row[b].hid = s.h
             /\ Go(w, IF isTerminalStatus(row[b].status) THEN IdleWorker
                      ELSE [s EXCEPT !.pc = "portalCancel", !.b = b])
       \/ /\ \A b \in Bookings : row[b].hid # s.h
          /\ Go(w, IdleWorker)
    /\ UNCHANGED <<portal, row, haVars, localVars, faults>>

\* CHECK24 refuses to cancel what is already cancelled.
CancelBooking(w) ==
    LET s == worker[w] IN
    /\ s.pc = "portalCancel"
    /\ \/ /\ ~isTerminalStatus(portal[s.b])
          /\ portal' = [portal EXCEPT ![s.b] = "cancelled"]
          /\ Go(w, [s EXCEPT !.pc = "propagated"])
          /\ UNCHANGED faults
       \/ /\ isTerminalStatus(portal[s.b])
          /\ Go(w, IdleWorker)
          /\ UNCHANGED <<portal, faults>>
       \/ Fault("portal") /\ Go(w, IdleWorker) /\ UNCHANGED portal
       \/ /\ Fault("lost")
          /\ portal' = [portal EXCEPT ![s.b] = "cancelled"]
          /\ Go(w, IdleWorker)
    /\ UNCHANGED <<row, haVars, localVars>>

PropagatedRow(w) ==
    LET s == worker[w] IN
    /\ s.pc = "propagated"
    /\ row' = [row EXCEPT ![s.b].status = "cancelled"]
    /\ Go(w, IdleWorker)
    /\ UNCHANGED <<portal, haVars, localVars, faults>>

----------------------------------------------------------------------------
(* The specification.                                                      *)

\* A restart loses the handlers in flight; rows and reservations stay.
Crash ==
    /\ Fault("crash")
    /\ worker' = [w \in Workers |-> IdleWorker]
    /\ UNCHANGED <<portal, row, haVars, localVars>>

\* A handler in flight goes on from its await.
Step(w) ==
    \/ GetBooking(w) \/ ListBookings(w) \/ PollNext(w)
    \/ FindExisting(w) \/ UpsertRow(w) \/ PrepareImport(w)
    \/ CreateReservation(w) \/ CreateFails(w)
    \/ FetchReservation(w) \/ StoreReservation(w)
    \/ LinkRow(w) \/ AcceptBooking(w) \/ AcceptedRow(w)
    \/ IgnoreCancelled(w) \/ ReadLocal(w) \/ MarkCancelled(w)
    \/ CancelReservation(w) \/ CancelLocal(w) \/ ReassertLocal(w)
    \/ KeptLocal(w) \/ KeptRow(w)
    \/ UnpaidCancel(w) \/ UnpaidLocal(w) \/ FindLinked(w)
    \/ CancelBooking(w) \/ PropagatedRow(w)

Call(w) ==
    \/ PollCall(w)
    \/ \E b \in Bookings : WebhookCall(w, b)
    \/ \E h \in ResIds : SyncCall(w, h) \/ UnpaidCall(w, h)

World ==
    \/ \E b \in Bookings : PortalBooks(b) \/ GuestCancels(b)
    \/ \E h \in ResIds : StaffCancels(h)

Next ==
    \/ \E w \in Workers : Step(w) \/ Call(w)
    \/ World
    \/ Crash

Spec == Init /\ [][Next]_vars

\* Handlers in flight are resumed by the event loop.  The booking poll and the
\* reservation sync are cron jobs: they start again and again, whatever else
\* the server is doing.
FairSpec ==
    /\ Spec
    /\ \A w \in Workers : WF_vars(Step(w))
    /\ SF_vars(\E w \in Workers : PollCall(w))
    /\ \A h \in ResIds : SF_vars(\E w \in Workers : SyncCall(w, h))

----------------------------------------------------------------------------
(* Properties.                                                             *)

\* Every column, local and counter keeps its type.
BookingTypeOK ==
    /\ portal \in [Bookings -> PortalStatuses]
    /\ row \in [Bookings -> BookingRow]
    /\ ha \in [ResIds -> Reservation]
    /\ nRes \in 0..MaxRes
    /\ local \in [ResIds -> LocalStatuses]
    /\ auto \in SUBSET ResIds
    /\ worker \in [Workers -> WorkerState]
    /\ faults \in 0..MaxFaults

\* In the table r, Hostaway made reservation h for booking b.
MadeFor(r, h, b) == r[h].st # "unused" /\ r[h].b = b

\* A booking's row is linked only to a reservation made for that booking, so
\* a guest's cancel never hits another guest's stay and two bookings never
\* share one.
LinkOwnership ==
    /\ \A b \in Bookings : row[b].hid # None => MadeFor(ha, row[b].hid, b)
    /\ \A a, b \in Bookings : row[a].hid = row[b].hid /\ row[a].hid # None => a = b

\* What a handler's locals satisfy at each await.
ImportPcs == {"upsert", "ignore", "import", "create", "link", "accept",
              "accepted", "readLocal", "already", "mark", "haCancel",
              "goneLocal", "gone", "keptLocal", "keptRow"}

LocalsOK(s, r) ==
    /\ s.pc \in ImportPcs \cup {"get", "find", "portalCancel", "propagated"} => s.b \in Bookings
    /\ s.pc \in {"fetch", "store", "link", "readLocal", "mark", "haCancel", "goneLocal",
                 "gone", "keptLocal", "keptRow", "unpaid", "unpaidLocal"}
          => s.h \in ResIds
    /\ s.pc \in {"fetch", "store"} =>
          /\ s.then \in {"idle", "link", "gone"}
          /\ s.then # "idle" => s.b \in Bookings
    /\ s.pc \in ImportPcs /\ s.h # None => MadeFor(r, s.h, s.b)
    /\ s.pc \in {"fetch", "store"} /\ s.then # "idle" => MadeFor(r, s.h, s.b)
    /\ s.pc \in {"fetch", "store", "unpaid", "unpaidLocal"} => r[s.h].st # "unused"
    /\ s.pc = "store" => s.got \in {"active", "cancelled"}

\* LinkOwnership made inductive: reservation ids are handed out in order, what
\* a handler holds for its booking was made for it, and a handler about to
\* accept has linked the row.
LinkInv ==
    /\ BookingTypeOK
    /\ \A b \in Bookings : row[b].hid # None => MadeFor(ha, row[b].hid, b)
    /\ \A h \in ResIds : h > nRes => ha[h].st = "unused"
    /\ \A h \in ResIds : local[h] # "absent" => ha[h].st # "unused"
    /\ \A w \in Workers : LocalsOK(worker[w], ha)
    /\ \A w \in Workers : worker[w].pc = "accept" => row[worker[w].b].hid # None

\* The import is not repeated: one stay per booking at Hostaway.  Checked with
\* one handler at a time and no lost answer or restart; the code has no lock
\* and no idempotency key.
OneStay ==
    \A g, h \in ResIds :
        ha[g].st = "active" /\ ha[h].st = "active" /\ ha[g].b = ha[h].b => g = h

\* A step that accepts a request finds its row linked to a stay made for it.
AcceptsLinked ==
    \A b \in Bookings :
        portal[b] = "requested" /\ portal'[b] = "booked" =>
            row[b].hid # None /\ MadeFor(ha, row[b].hid, b)

\* CHECK24 is told that a request is accepted only once the booking is linked
\* to a stay made for it, whatever interleaves or restarts.
AcceptedIsImported == [][AcceptsLinked]_vars

\* A guest's cancel reaches Hostaway: every stay made for the booking is
\* cancelled in the end, although single cancels fail or do not stick.
CancelReachesHostaway ==
    \A b \in Bookings :
        portal[b] = "cancelled" ~>
            \A h \in ResIds : ha[h].b = b => ha[h].st = "cancelled"

\* The row follows too: stale answers may overwrite its status for a while,
\* but in the end it shows the cancel for good.
CancelReachesRow ==
    \A b \in Bookings :
        portal[b] = "cancelled" ~> [](isTerminalStatus(row[b].status))

\* A stay the provider cancels is cancelled at CHECK24 as well.
ProviderCancelReachesPortal ==
    \A b \in Bookings, h \in ResIds :
        row[b].hid = h /\ ha[h].st = "cancelled" ~> portal[b] = "cancelled"

\* A guest's cancel arrives everywhere: at the stays made for the booking and,
\* for good, in the row of the console.
GuestCancelArrives == CancelReachesHostaway /\ CancelReachesRow
=============================================================================
