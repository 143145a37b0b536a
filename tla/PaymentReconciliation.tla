----------------------- MODULE PaymentReconciliation -----------------------
(***************************************************************************)
(* Bank and PayPal payments are imported, matched to reservations and      *)
(* booked as paid charges in Hostaway.  This module models the payment     *)
(* rows, their allocations, the Hostaway charges and the local rows that   *)
(* count a charge as paid (NotifiedGuestCharge), with every handler of     *)
(* payment-reconciliation.service.ts, the Qonto poll, the plan endpoints   *)
(* that re-run the queue, and the Hostaway webhook that discovers charges. *)
(*                                                                         *)
(* The server is one Node process: a handler runs atomically between two   *)
(* awaits, and handlers interleave at their awaits.  A worker is one       *)
(* handler in flight; its record is the handler's locals and its pc the    *)
(* await it is suspended on.  There is no lock and no transaction around   *)
(* a handler, so what it read first may be stale when it writes.           *)
(***************************************************************************)
EXTENDS Naturals, FiniteSets

CONSTANTS
    Payments,      \* ExternalPayment rows, keyed by (source, externalId)
    Reservations,  \* reservations that may receive a payment
    Workers,       \* bound on handlers in flight at the same time
    MaxCharges,    \* bound on the charges Hostaway accepts
    MaxCrashes,    \* bound on restarts of the process
    Requests,      \* which requests arrive, see RequestKinds
    Faults,        \* what may go wrong, see FaultKinds
    None,          \* a null column, or a local not yet assigned
    Offline        \* an allocation booked locally, with a null charge id

FaultKinds ==
    {"archived",  \* create is refused with an archived-unit message
     "lost",      \* create happens but its answer is lost
     "note",      \* the guest has no conversation: the note stays pending
     "inbox",     \* looking up the conversation throws
     "cancel",    \* cancelGuestCharge throws
     "pollJob",   \* creating the poll's SyncJob row throws
     "stalePage"} \* staff skip a payment an outdated page still lists

RequestKinds ==
    {"ingest", "poll", "confirm", "skip", "retry", "undo", "plan",
     "hostaway",  \* Hostaway's reservation webhook
     "listing"}   \* a sync that archives a unit or takes it back

ChargeIds == 1..MaxCharges

ASSUME BoundsAssumption ==
    /\ MaxCharges \in Nat
    /\ MaxCrashes \in Nat
    /\ Requests \subseteq RequestKinds
    /\ Faults \subseteq FaultKinds

ASSUME NullAssumption ==
    /\ None # Offline
    /\ None \notin ChargeIds /\ Offline \notin ChargeIds
    /\ None \notin Reservations /\ None \notin Payments

VARIABLES
    payment,    \* ExternalPayment columns the handlers branch on
    alloc,      \* PaymentAllocation, at most one row per (payment, reservation)
    charge,     \* Hostaway's charges; pay is a history field
    nCharges,   \* how many charges Hostaway has accepted
    notified,   \* charge ids that have a NotifiedGuestCharge row
    notes,      \* inbox notes posted for a charge: 0, 1, or 2 for several
    baselined,  \* reservations with paymentBaselinedAt set
    offline,    \* reservations whose listing isListingOffline
    hasPlan,    \* reservations with an installment plan row
    running,    \* QontoPollService.running
    worker,     \* the handlers in flight
    crashes,    \* restarts so far
    fails       \* history: failed attempts since staff last forced one

vars == <<payment, alloc, charge, nCharges, notified, notes, baselined,
          offline, hasPlan, running, worker, crashes, fails>>

chargeVars == <<charge, nCharges>>
inboxVars == <<notified, notes, baselined>>
envVars == <<offline, hasPlan, running, crashes>>

----------------------------------------------------------------------------
(* State.                                                                  *)

Applied == {"AUTO_APPLIED", "MANUALLY_APPLIED"}
Statuses == Applied \cup {"ABSENT", "RECEIVED", "PENDING_REVIEW", "SKIPPED"}

\* The error column: "applyFailed" is any text matched by the pattern of
\* priorApplyFailed, "undoIncomplete" is the text undoApplication writes.
Errors == {"none", "applyFailed", "undoIncomplete"}

PaymentRow ==
    [status  : Statuses,
     matched : Reservations \cup {None},
     charge  : ChargeIds \cup {None},
     error   : Errors]

Slots == ChargeIds \cup {None, Offline}
NoLines == [r \in Reservations |-> None]

ChargeRow ==
    [st  : {"unused", "paid", "cancelled"},
     res : Reservations \cup {None},
     pay : Payments \cup {None}]

\* Which request a worker serves.  "poll" and "pollRematch" are the two loops
\* of pollOnce; "planUndo" and "planRematch" those of deletePaymentPlan.
Jobs == {"none", "ingest", "retry", "confirm", "undo", "poll", "pollRematch",
         "planUndo", "planRematch", "hostaway"}

Pcs == {"idle", "create", "reconcile", "charge", "inbox", "record", "commit",
        "commitOffline", "settleFailed", "settle", "cancel", "forget", "undo",
        "clear", "reset", "batch", "pending", "fetchFirst", "fetch",
        "baseline", "note", "noteRow"}

WorkerState ==
    [pc     : Pcs,
     job    : Jobs,
     p      : Payments \cup {None},          \* the payment at hand
     batch  : SUBSET Payments,               \* the rest of the loop
     r      : Reservations \cup {None},      \* plan or webhook reservation
     todo   : SUBSET Reservations,           \* lines not yet handled
     done   : [Reservations -> Slots],       \* lines applied, or to cancel
     first  : Reservations \cup {None},      \* match.best, or the first line
     c      : ChargeIds \cup {None},         \* the charge at hand
     off    : BOOLEAN,                       \* matchedListingOffline
     failed : BOOLEAN,                       \* some cancel failed
     status : {"none", "PENDING_REVIEW", "SKIPPED"},
     ids    : SUBSET ChargeIds]              \* known, then new paid charges

IdleWorker ==
    [pc |-> "idle", job |-> "none", p |-> None, batch |-> {}, r |-> None,
     todo |-> {}, done |-> NoLines, first |-> None, c |-> None,
     off |-> FALSE, failed |-> FALSE, status |-> "none", ids |-> {}]

Init ==
    /\ payment = [p \in Payments |->
                    [status |-> "ABSENT", matched |-> None,
                     charge |-> None, error |-> "none"]]
    /\ alloc = [p \in Payments |-> NoLines]
    /\ charge = [c \in ChargeIds |-> [st |-> "unused", res |-> None, pay |-> None]]
    /\ nCharges = 0
    /\ notified = {}
    /\ notes = [c \in ChargeIds |-> 0]
    /\ baselined = {}
    /\ offline \in SUBSET Reservations
    /\ hasPlan = {}
    /\ running = FALSE
    /\ worker = [w \in Workers |-> IdleWorker]
    /\ crashes = 0
    /\ fails = [p \in Payments |-> 0]

----------------------------------------------------------------------------
(* How a handler's locals move from one await to the next.                 *)

PollJobs == {"poll", "pollRematch"}

\* forceAutoApply, allowAutoApply and confirmReview's own error handling.
Forced(s) == s.job \in {"retry", "planRematch"}
AllowAuto(s) == s.job \notin {"undo", "planUndo"}
Manual(s) == s.job = "confirm"

Go(w, s) == worker' = [worker EXCEPT ![w] = s]

\* The loop around a handler takes its next payment; without one the request
\* is answered.
Return(s) ==
    IF s.job \in {"ingest", "retry", "confirm", "undo", "hostaway"}
    THEN IdleWorker
    ELSE [IdleWorker EXCEPT !.pc = "batch", !.job = s.job, !.r = s.r,
                            !.batch = s.batch]

\* Mutant of Abort: pollOnce without its finally.
AbortKeepsLock(w) ==
    /\ Go(w, IF worker[w].job = "planUndo" THEN Return(worker[w]) ELSE IdleWorker)
    /\ UNCHANGED running

\* An exception ends the request.  Only undoAutoAppliedForReservation catches
\* it and goes on; pollOnce's finally releases the poll lock.
Abort(w) ==
    LET s == worker[w] IN
    /\ Go(w, IF s.job = "planUndo" THEN Return(s) ELSE IdleWorker)
    /\ running' = (running /\ s.job \notin PollJobs)

\* One line of the payment is booked under slot; the next line follows.
LineDone(s, r, slot) ==
    LET left == s.todo \ {r} IN
    [s EXCEPT !.todo = left, !.done[r] = slot, !.c = None,
              !.first = IF @ = None THEN r ELSE @,
              !.pc = IF left = {} THEN "commit" ELSE "charge"]

\* Mutant of Rollback: a failed split just ends.
NoRollback(s) == IdleWorker

\* confirmReview's catch: cancel the charges of the lines booked so far.
Rollback(s) ==
    LET made == {r \in Reservations : s.done[r] \in ChargeIds} IN
    IF made = {}
    THEN IdleWorker
    ELSE [s EXCEPT !.pc = "cancel", !.todo = made, !.c = None]

\* Inside confirmReview: a line of an archived unit is booked locally.
LineFailed(s, r, archived) ==
    IF r \in offline \/ archived THEN LineDone(s, r, Offline) ELSE Rollback(s)

\* applyToReservation threw for line r.
Failed(s, r, archived) ==
    IF Manual(s)
    THEN LineFailed(s, r, archived)
    ELSE [s EXCEPT !.c = None,
                   !.pc = IF s.off \/ archived THEN "commitOffline" ELSE "settleFailed"]

----------------------------------------------------------------------------
(* Import.                                                                 *)

\* ingestAndReconcile from a webhook or the admin API.  A payment that exists
\* is answered with its status and nothing changes.
IngestCall(w, p) ==
    /\ "ingest" \in Requests
    /\ worker[w].pc = "idle"
    /\ payment[p].status = "ABSENT"
    /\ Go(w, [IdleWorker EXCEPT !.pc = "create", !.job = "ingest", !.p = p])
    /\ UNCHANGED <<payment, alloc, chargeVars, inboxVars, envVars, fails>>

\* The insert; the unique key on (source, externalId) rejects a second one.
Create(w) ==
    LET s == worker[w] IN
    /\ s.pc = "create"
    /\ \/ /\ payment[s.p].status = "ABSENT"
          /\ payment' = [payment EXCEPT ![s.p].status = "RECEIVED"]
          /\ Go(w, [s EXCEPT !.pc = "reconcile"])
          /\ UNCHANGED running
       \/ /\ payment[s.p].status # "ABSENT"
          /\ Abort(w)
          /\ UNCHANGED payment
    /\ UNCHANGED <<alloc, chargeVars, inboxVars, offline, hasPlan, crashes, fails>>

\* pollOnce takes the lock, then lists recent credits: any of the payments.
PollStart(w) ==
    /\ "poll" \in Requests
    /\ worker[w].pc = "idle"
    /\ ~running
    /\ running' = TRUE
    /\ \E credits \in SUBSET Payments :
          Go(w, [IdleWorker EXCEPT !.pc = "batch", !.job = "poll", !.batch = credits])
    /\ UNCHANGED <<payment, alloc, chargeVars, inboxVars, offline, hasPlan, crashes, fails>>

\* The SyncJob row is created after the lock is taken and outside the try.
PollStartThrows ==
    /\ "poll" \in Requests
    /\ "pollJob" \in Faults
    /\ ~running
    /\ running' = TRUE
    /\ UNCHANGED <<payment, alloc, chargeVars, inboxVars, offline, hasPlan,
                   worker, crashes, fails>>

\* rematchPendingReview: the queue as it is now.
LoadPending(w) ==
    LET s == worker[w] IN
    /\ s.pc = "pending"
    /\ Go(w, [s EXCEPT !.pc = "batch",
                       !.batch = {p \in Payments : payment[p].status = "PENDING_REVIEW"}])
    /\ UNCHANGED <<payment, alloc, chargeVars, inboxVars, envVars, fails>>

\* What a loop does with a payment.
FirstPc(job) ==
    CASE job = "poll" -> "create"
      [] job = "planUndo" -> "undo"
      [] OTHER -> "reconcile"

\* The next payment of a loop.  The poll passes over the ones already imported.
BatchNext(w) ==
    LET s == worker[w] IN
    /\ s.pc = "batch"
    /\ \E p \in s.batch :
          LET t == [s EXCEPT !.batch = @ \ {p}] IN
          \/ /\ s.job = "poll" /\ payment[p].status # "ABSENT"
             /\ Go(w, t)
          \/ /\ s.job = "poll" => payment[p].status = "ABSENT"
             /\ Go(w, [t EXCEPT !.p = p, !.pc = FirstPc(s.job)])
    /\ UNCHANGED <<payment, alloc, chargeVars, inboxVars, envVars, fails>>

\* A loop is over: the poll goes on to the review queue and then releases the
\* lock; a plan delete removes the plan row (or throws when there is none) and
\* goes on to the review queue.
BatchEnd(w) ==
    LET s == worker[w]
        Rematch(job) == [IdleWorker EXCEPT !.pc = "pending", !.job = job] IN
    /\ s.pc = "batch"
    /\ s.batch = {}
    /\ Go(w, CASE s.job = "poll" -> Rematch("pollRematch")
               [] s.job = "planUndo" /\ s.r \in hasPlan -> Rematch("planRematch")
               [] OTHER -> IdleWorker)
    /\ running' = (running /\ s.job # "pollRematch")
    /\ hasPlan' = IF s.job = "planUndo" THEN hasPlan \ {s.r} ELSE hasPlan
    /\ UNCHANGED <<payment, alloc, chargeVars, inboxVars, offline, crashes, fails>>

----------------------------------------------------------------------------
(* reconcile.  The matcher's verdict is any of: unambiguous with a best     *)
(* reservation, a review case, a case to skip.                              *)

TryAutoApply(s, p, best) ==
    /\ AllowAuto(s)
    /\ Forced(s) \/ payment[p].error # "applyFailed" \/ best \in offline

Reconcile(w) ==
    LET s == worker[w]
        p == s.p
        t == [s EXCEPT !.todo = {}, !.done = NoLines, !.first = None, !.c = None]
    IN
    /\ s.pc = "reconcile"
    /\ \/ /\ payment[p].status \in Applied
          /\ Go(w, Return(s))
       \/ /\ payment[p].status \notin Applied
          /\ \E best \in Reservations :
                Go(w, IF TryAutoApply(s, p, best)
                      THEN [t EXCEPT !.pc = "charge", !.todo = {best}, !.first = best,
                                     !.off = best \in offline]
                      ELSE [t EXCEPT !.pc = "settle", !.status = "PENDING_REVIEW",
                                     !.first = best])
       \/ /\ payment[p].status \notin Applied
          /\ \E status \in {"PENDING_REVIEW", "SKIPPED"} :
                Go(w, [t EXCEPT !.pc = "settle", !.status = status])
    /\ fails' = IF Forced(s) THEN [fails EXCEPT ![p] = 0] ELSE fails
    /\ UNCHANGED <<payment, alloc, chargeVars, inboxVars, envVars>>

\* Mutant of Settle: a rematch forgets the earlier apply error.
SettleForgetsError(w) ==
    LET s == worker[w] IN
    /\ s.pc = "settle"
    /\ payment' = [payment EXCEPT ![s.p].status = s.status,
                                  ![s.p].matched = s.first,
                                  ![s.p].error = "none"]
    /\ fails' = IF s.status = "SKIPPED" THEN [fails EXCEPT ![s.p] = 0] ELSE fails
    /\ Go(w, Return(s))
    /\ UNCHANGED <<alloc, chargeVars, inboxVars, envVars>>

\* No automatic booking: only an unambiguous match stays bound, and an earlier
\* apply error is kept unless the payment is skipped.
Settle(w) ==
    LET s == worker[w]
        skip == s.status = "SKIPPED"
    IN
    /\ s.pc = "settle"
    /\ payment' = [payment EXCEPT ![s.p].status = s.status,
                                  ![s.p].matched = s.first,
                                  ![s.p].error = IF skip THEN "none" ELSE @]
    /\ fails' = IF skip THEN [fails EXCEPT ![s.p] = 0] ELSE fails
    /\ Go(w, Return(s))
    /\ UNCHANGED <<alloc, chargeVars, inboxVars, envVars>>

\* Mutant of SettleFailed: the error is written, the status forgotten.
SettleFailedKeepsStatus(w) ==
    LET s == worker[w] IN
    /\ s.pc = "settleFailed"
    /\ payment' = [payment EXCEPT ![s.p].matched = s.first,
                                  ![s.p].error = "applyFailed"]
    /\ fails' = [fails EXCEPT ![s.p] = IF @ = 2 THEN 2 ELSE @ + 1]
    /\ Go(w, Return(s))
    /\ UNCHANGED <<alloc, chargeVars, inboxVars, envVars>>

\* A failed automatic booking stays in the review queue with its error.
SettleFailed(w) ==
    LET s == worker[w] IN
    /\ s.pc = "settleFailed"
    /\ payment' = [payment EXCEPT ![s.p].status = "PENDING_REVIEW",
                                  ![s.p].matched = s.first,
                                  ![s.p].error = "applyFailed"]
    /\ fails' = [fails EXCEPT ![s.p] = IF @ = 2 THEN 2 ELSE @ + 1]
    /\ Go(w, Return(s))
    /\ UNCHANGED <<alloc, chargeVars, inboxVars, envVars>>

----------------------------------------------------------------------------
(* applyToReservation, for the line at hand.                               *)

\* An offline listing is booked locally, without any Hostaway call.
ApplyOffline(w) ==
    LET s == worker[w] IN
    /\ s.pc = "charge"
    /\ \E r \in s.todo \cap offline : Go(w, LineDone(s, r, Offline))
    /\ UNCHANGED <<payment, alloc, chargeVars, inboxVars, envVars, fails>>

\* Hostaway accepts a new paid charge for payment p on reservation r.
Accept(p, r) ==
    /\ nCharges < MaxCharges
    /\ nCharges' = nCharges + 1
    /\ charge' = [charge EXCEPT ![nCharges + 1] = [st |-> "paid", res |-> r, pay |-> p]]

ChargeCreate(w) ==
    LET s == worker[w] IN
    /\ s.pc = "charge"
    /\ \E r \in s.todo \ offline :
          /\ Accept(s.p, r)
          /\ Go(w, [s EXCEPT !.pc = "inbox", !.c = nCharges + 1])
    /\ UNCHANGED <<payment, alloc, inboxVars, envVars, fails>>

\* createOfflineCharge throws: refused, refused because the unit is archived,
\* or accepted with the answer lost.
ChargeFail(w) ==
    LET s == worker[w] IN
    /\ s.pc = "charge"
    /\ \E r \in s.todo \ offline :
          \/ /\ Go(w, Failed(s, r, FALSE))
             /\ UNCHANGED chargeVars
          \/ /\ "archived" \in Faults
             /\ Go(w, Failed(s, r, TRUE))
             /\ UNCHANGED chargeVars
          \/ /\ "lost" \in Faults
             /\ Accept(s.p, r)
             /\ Go(w, Failed(s, r, FALSE))
    /\ UNCHANGED <<payment, alloc, inboxVars, envVars, fails>>

\* postInboxMessage: the guest's inbox gets a note about c.
Note(c) ==
    \/ notes' = [notes EXCEPT ![c] = IF @ = 0 THEN 1 ELSE 2]
    \/ "note" \in Faults /\ UNCHANGED notes

InboxNote(w) ==
    LET s == worker[w] IN
    /\ s.pc = "inbox"
    /\ Note(s.c)
    /\ Go(w, [s EXCEPT !.pc = "record"])
    /\ UNCHANGED <<payment, alloc, chargeVars, notified, baselined, envVars, fails>>

\* Looking up the conversation threw: the charge exists, the line failed.
InboxThrows(w) ==
    LET s == worker[w] IN
    /\ s.pc = "inbox"
    /\ "inbox" \in Faults
    /\ Go(w, Failed(s, charge[s.c].res, FALSE))
    /\ UNCHANGED <<payment, alloc, chargeVars, inboxVars, envVars, fails>>

\* Mutant of Record: the baseline is set but the row is not written.
RecordBaselineOnly(w) ==
    LET s == worker[w]
        r == charge[s.c].res
    IN
    /\ s.pc = "record"
    /\ baselined' = baselined \cup {r}
    /\ Go(w, LineDone(s, r, s.c))
    /\ UNCHANGED <<payment, alloc, chargeVars, notified, notes, envVars, fails>>

\* recordNotifiedCharge: from here on the charge counts as paid.
Record(w) ==
    LET s == worker[w]
        r == charge[s.c].res
    IN
    /\ s.pc = "record"
    /\ notified' = notified \cup {s.c}
    /\ baselined' = baselined \cup {r}
    /\ Go(w, LineDone(s, r, s.c))
    /\ UNCHANGED <<payment, alloc, chargeVars, notes, envVars, fails>>

----------------------------------------------------------------------------
(* Writing the result: the row and its allocations, in one statement.       *)

\* Mutant of Clash: the lines are upserted, one charge replaces another.
ClashWithOffline(s) ==
    \E r \in Reservations : s.done[r] # None /\ alloc[s.p][r] = Offline

\* The unique key on (externalPaymentId, reservationId) rejects the statement.
Clash(s) ==
    \E r \in Reservations : s.done[r] # None /\ alloc[s.p][r] # None

\* Mutant of Booked: every line is stored with the primary line's charge id.
BookedUnderPrimary(s, status, error) ==
    /\ payment' = [payment EXCEPT ![s.p] =
                     [status |-> status, matched |-> s.first, error |-> error,
                      charge |-> IF s.done[s.first] = Offline THEN None
                                 ELSE s.done[s.first]]]
    /\ alloc' = [alloc EXCEPT ![s.p] =
                   [r \in Reservations |->
                      IF s.done[r] = None THEN @[r] ELSE s.done[s.first]]]
    /\ fails' = [fails EXCEPT ![s.p] = 0]

Booked(s, status, error) ==
    /\ payment' = [payment EXCEPT ![s.p] =
                     [status |-> status, matched |-> s.first, error |-> error,
                      charge |-> IF s.done[s.first] = Offline THEN None
                                 ELSE s.done[s.first]]]
    /\ alloc' = [alloc EXCEPT ![s.p] =
                   [r \in Reservations |-> IF s.done[r] = None THEN @[r] ELSE s.done[r]]]
    /\ fails' = [fails EXCEPT ![s.p] = 0]

Commit(w) ==
    LET s == worker[w] IN
    /\ s.pc = "commit"
    /\ \/ /\ ~Clash(s)
          /\ Booked(s, IF Manual(s) THEN "MANUALLY_APPLIED" ELSE "AUTO_APPLIED", "none")
          /\ Go(w, Return(s))
          /\ UNCHANGED running
       \/ /\ Clash(s) /\ ~Manual(s)
          /\ Go(w, Failed(s, s.first, FALSE))
          /\ UNCHANGED <<payment, alloc, fails, running>>
       \/ /\ Clash(s) /\ Manual(s)
          /\ Abort(w)
          /\ UNCHANGED <<payment, alloc, fails>>
    /\ UNCHANGED <<chargeVars, inboxVars, offline, hasPlan, crashes>>

\* The catch of reconcile for archived units: booked without a charge.
CommitOffline(w) ==
    LET s == worker[w]
        t == [s EXCEPT !.done = [NoLines EXCEPT ![s.first] = Offline]]
    IN
    /\ s.pc = "commitOffline"
    /\ \/ /\ ~Clash(t)
          /\ Booked(t, "AUTO_APPLIED", "none")
          /\ Go(w, Return(s))
          /\ UNCHANGED running
       \/ /\ Clash(t)
          /\ Abort(w)
          /\ UNCHANGED <<payment, alloc, fails>>
    /\ UNCHANGED <<chargeVars, inboxVars, offline, hasPlan, crashes>>

----------------------------------------------------------------------------
(* Staff requests.                                                         *)

\* confirmReview: staff pick one reservation or split over several.
ConfirmCall(w, p) ==
    /\ "confirm" \in Requests
    /\ worker[w].pc = "idle"
    /\ payment[p].status = "PENDING_REVIEW"
    /\ \E lines \in SUBSET Reservations \ {{}} :
          Go(w, [IdleWorker EXCEPT !.pc = "charge", !.job = "confirm",
                                   !.p = p, !.todo = lines])
    /\ UNCHANGED <<payment, alloc, chargeVars, inboxVars, envVars, fails>>

\* skipReview does not look at the status.  The page offers it for payments
\* in review; a page that is out of date offers it for any.
SkipReview(p) ==
    /\ "skip" \in Requests
    /\ payment[p].status # "ABSENT"
    /\ payment[p].status = "PENDING_REVIEW" \/ "stalePage" \in Faults
    /\ payment' = [payment EXCEPT ![p].status = "SKIPPED"]
    /\ UNCHANGED <<alloc, chargeVars, inboxVars, envVars, worker, fails>>

\* The retry endpoint: reconcile with forceAutoApply.
RetryCall(w, p) ==
    /\ "retry" \in Requests
    /\ worker[w].pc = "idle"
    /\ payment[p].status # "ABSENT"
    /\ Go(w, [IdleWorker EXCEPT !.pc = "reconcile", !.job = "retry", !.p = p])
    /\ UNCHANGED <<payment, alloc, chargeVars, inboxVars, envVars, fails>>

UndoCall(w, p) ==
    /\ "undo" \in Requests
    /\ worker[w].pc = "idle"
    /\ payment[p].status # "ABSENT"
    /\ Go(w, [IdleWorker EXCEPT !.pc = "undo", !.job = "undo", !.p = p])
    /\ UNCHANGED <<payment, alloc, chargeVars, inboxVars, envVars, fails>>

\* undoApplication reads the charges to cancel: the allocations' or, for a row
\* without allocations, the payment's own.
UndoTargets(p) ==
    IF alloc[p] # NoLines
    THEN [r \in Reservations |-> IF alloc[p][r] = Offline THEN None ELSE alloc[p][r]]
    ELSE [r \in Reservations |-> IF payment[p].matched = r THEN payment[p].charge ELSE None]

UndoRead(w) ==
    LET s == worker[w]
        targets == UndoTargets(s.p)
        todo == {r \in Reservations : targets[r] # None}
    IN
    /\ s.pc = "undo"
    /\ \/ /\ payment[s.p].status \in Applied
          /\ Go(w, [s EXCEPT !.done = targets, !.todo = todo,
                             !.pc = IF todo = {} THEN "clear" ELSE "cancel"])
          /\ UNCHANGED running
       \/ /\ payment[s.p].status \notin Applied
          /\ Abort(w)
    /\ UNCHANGED <<payment, alloc, chargeVars, inboxVars, offline, hasPlan, crashes, fails>>

\* cancelGuestCharge; an error is noted and the loop goes on.
CancelCharge(w) ==
    LET s == worker[w] IN
    /\ s.pc = "cancel"
    /\ \E r \in s.todo :
          \/ /\ charge' = [charge EXCEPT ![s.done[r]].st = "cancelled"]
             /\ Go(w, [s EXCEPT !.pc = "forget", !.c = s.done[r], !.todo = @ \ {r}])
          \/ /\ "cancel" \in Faults
             /\ Go(w, [s EXCEPT !.pc = "forget", !.c = s.done[r], !.todo = @ \ {r},
                                !.failed = TRUE])
             /\ UNCHANGED charge
    /\ UNCHANGED <<payment, alloc, nCharges, inboxVars, envVars, fails>>

\* The NotifiedGuestCharge row goes whether or not the cancel worked.  After
\* the last charge confirmReview rethrows and undoApplication goes on.
ForgetCharge(w) ==
    LET s == worker[w] IN
    /\ s.pc = "forget"
    /\ notified' = notified \ {s.c}
    /\ Go(w, CASE s.todo # {} -> [s EXCEPT !.pc = "cancel", !.c = None]
               [] s.todo = {} /\ Manual(s) -> IdleWorker
               [] s.todo = {} /\ ~Manual(s) -> [s EXCEPT !.pc = "clear", !.c = None])
    /\ UNCHANGED <<payment, alloc, chargeVars, notes, baselined, envVars, fails>>

\* Mutant of ClearAllocations: the deleteMany is missing.
ClearNothing(w) ==
    LET s == worker[w] IN
    /\ s.pc = "clear"
    /\ Go(w, [s EXCEPT !.pc = "reset"])
    /\ UNCHANGED <<payment, alloc, chargeVars, inboxVars, envVars, fails>>

ClearAllocations(w) ==
    LET s == worker[w] IN
    /\ s.pc = "clear"
    /\ alloc' = [alloc EXCEPT ![s.p] = NoLines]
    /\ Go(w, [s EXCEPT !.pc = "reset"])
    /\ UNCHANGED <<payment, chargeVars, inboxVars, envVars, fails>>

\* Back to the review queue, then matched again without automatic booking.
ResetPayment(w) ==
    LET s == worker[w] IN
    /\ s.pc = "reset"
    /\ payment' = [payment EXCEPT ![s.p] =
                     [status |-> "PENDING_REVIEW", matched |-> None, charge |-> None,
                      error |-> IF s.failed THEN "undoIncomplete" ELSE "none"]]
    /\ fails' = [fails EXCEPT ![s.p] = 0]
    /\ Go(w, [s EXCEPT !.pc = "reconcile"])
    /\ UNCHANGED <<alloc, chargeVars, inboxVars, envVars>>

\* Saving a plan re-runs the review queue, forcing another attempt.
PlanUpsert(w, r) ==
    /\ "plan" \in Requests
    /\ worker[w].pc = "idle"
    /\ hasPlan' = hasPlan \cup {r}
    /\ Go(w, [IdleWorker EXCEPT !.pc = "pending", !.job = "planRematch"])
    /\ UNCHANGED <<payment, alloc, chargeVars, inboxVars, offline, running, crashes, fails>>

\* Deleting a plan first undoes what was applied automatically to it.
PlanDelete(w, r) ==
    /\ "plan" \in Requests
    /\ worker[w].pc = "idle"
    /\ Go(w, [IdleWorker EXCEPT !.pc = "batch", !.job = "planUndo", !.r = r,
                !.batch = {p \in Payments :
                             /\ payment[p].status = "AUTO_APPLIED"
                             /\ payment[p].matched = r \/ alloc[p][r] # None}])
    /\ UNCHANGED <<payment, alloc, chargeVars, inboxVars, envVars, fails>>

----------------------------------------------------------------------------
(* Hostaway webhooks: processReservationPaymentUpdates.                    *)

HostawayUpdate(w, r) ==
    /\ "hostaway" \in Requests
    /\ worker[w].pc = "idle"
    /\ Go(w, [IdleWorker EXCEPT !.pc = IF r \in baselined THEN "fetch" ELSE "fetchFirst",
                                !.job = "hostaway", !.r = r, !.ids = notified])
    /\ UNCHANGED <<payment, alloc, chargeVars, inboxVars, envVars, fails>>

\* getGuestCharges answers after the local rows were read.
FetchCharges(w) ==
    LET s == worker[w]
        new == {c \in ChargeIds : charge[c].st = "paid" /\ charge[c].res = s.r} \ s.ids
    IN
    /\ s.pc \in {"fetch", "fetchFirst"}
    /\ Go(w, CASE s.pc = "fetchFirst" -> [s EXCEPT !.pc = "baseline", !.ids = new]
               [] s.pc = "fetch" /\ new # {} -> [s EXCEPT !.pc = "note", !.ids = new]
               [] s.pc = "fetch" /\ new = {} -> IdleWorker)
    /\ UNCHANGED <<payment, alloc, chargeVars, inboxVars, envVars, fails>>

\* The first look at a reservation records what is there, without notes.
Baseline(w) ==
    LET s == worker[w] IN
    /\ s.pc = "baseline"
    /\ notified' = notified \cup s.ids
    /\ baselined' = baselined \cup {s.r}
    /\ Go(w, IdleWorker)
    /\ UNCHANGED <<payment, alloc, chargeVars, notes, envVars, fails>>

\* Later looks post a note for each new paid charge and record it.
NoteCharge(w) ==
    LET s == worker[w] IN
    /\ s.pc = "note"
    /\ \E c \in s.ids :
          /\ Note(c)
          /\ Go(w, [s EXCEPT !.pc = "noteRow", !.c = c, !.ids = @ \ {c}])
    /\ UNCHANGED <<payment, alloc, chargeVars, notified, baselined, envVars, fails>>

\* A plain create: a row someone else wrote meanwhile makes it throw.
NoteRow(w) ==
    LET s == worker[w] IN
    /\ s.pc = "noteRow"
    /\ notified' = notified \cup {s.c}
    /\ Go(w, IF s.c \in notified \/ s.ids = {}
             THEN IdleWorker
             ELSE [s EXCEPT !.pc = "note", !.c = None])
    /\ UNCHANGED <<payment, alloc, chargeVars, notes, baselined, envVars, fails>>

----------------------------------------------------------------------------
(* The environment.                                                        *)

\* A listing sync changes whether the unit of r is archived or bookable.
ListingSync(r) ==
    /\ "listing" \in Requests
    /\ offline' = IF r \in offline THEN offline \ {r} ELSE offline \cup {r}
    /\ UNCHANGED <<payment, alloc, chargeVars, inboxVars, hasPlan, running,
                   worker, crashes, fails>>

\* The process restarts: every handler in flight is gone, the rows stay.
Crash ==
    /\ crashes < MaxCrashes
    /\ crashes' = crashes + 1
    /\ worker' = [w \in Workers |-> IdleWorker]
    /\ running' = FALSE
    /\ UNCHANGED <<payment, alloc, chargeVars, inboxVars, offline, hasPlan, fails>>

----------------------------------------------------------------------------

Apply(w) ==
    \/ ApplyOffline(w) \/ ChargeCreate(w) \/ ChargeFail(w)
    \/ InboxNote(w) \/ InboxThrows(w) \/ Record(w)
    \/ Commit(w) \/ CommitOffline(w)

Undo(w) ==
    \/ UndoRead(w) \/ CancelCharge(w) \/ ForgetCharge(w)
    \/ ClearAllocations(w) \/ ResetPayment(w)

\* What a handler in flight does next.
Step(w) ==
    \/ Create(w) \/ LoadPending(w) \/ BatchNext(w) \/ BatchEnd(w)
    \/ Reconcile(w) \/ Settle(w) \/ SettleFailed(w)
    \/ Apply(w) \/ Undo(w)
    \/ FetchCharges(w) \/ Baseline(w) \/ NoteCharge(w) \/ NoteRow(w)

\* What arrives from outside.
Call(w) ==
    \/ \E p \in Payments : \/ IngestCall(w, p) \/ ConfirmCall(w, p)
                           \/ RetryCall(w, p) \/ UndoCall(w, p)
    \/ \E r \in Reservations : \/ PlanUpsert(w, r) \/ PlanDelete(w, r)
                               \/ HostawayUpdate(w, r)
    \/ PollStart(w)

Next ==
    \/ \E w \in Workers : Step(w) \/ Call(w)
    \/ \E p \in Payments : SkipReview(p)
    \/ \E r \in Reservations : ListingSync(r)
    \/ PollStartThrows
    \/ Crash

Spec == Init /\ [][Next]_vars

\* Promises of the process run to completion; nothing forces a request to
\* arrive, a poll to start or a listing to change.
FairSpec == Spec /\ \A w \in Workers : WF_vars(Step(w))

\* With the scheduler of the Qonto poll, which fires every five minutes.
PolledSpec == FairSpec /\ \A w \in Workers : WF_vars(PollStart(w))

----------------------------------------------------------------------------
(* Properties.                                                             *)

\* Every column, every local of a handler and every counter keeps its type.
TypeOK ==
    /\ payment \in [Payments -> PaymentRow]
    /\ alloc \in [Payments -> [Reservations -> Slots]]
    /\ charge \in [ChargeIds -> ChargeRow]
    /\ nCharges \in 0..MaxCharges
    /\ notified \in SUBSET ChargeIds
    /\ notes \in [ChargeIds -> 0..2]
    /\ baselined \in SUBSET Reservations
    /\ offline \in SUBSET Reservations
    /\ hasPlan \in SUBSET Reservations
    /\ running \in BOOLEAN
    /\ worker \in [Workers -> WorkerState]
    /\ crashes \in 0..MaxCrashes
    /\ fails \in [Payments -> 0..2]

\* In the charge table ch, charge c was made for payment p on reservation r.
Made(ch, c, p, r) ==
    ch[c].st # "unused" /\ ch[c].pay = p /\ ch[c].res = r

\* A charge id that a row or a handler holds is a charge Hostaway made for
\* that very payment on that very reservation, whatever interleaves, fails or
\* restarts: an undo can never cancel another payment's money.
ChargeOwnership ==
    /\ \A p \in Payments, r \in Reservations :
          alloc[p][r] \in ChargeIds => Made(charge, alloc[p][r], p, r)
    /\ \A p \in Payments :
          payment[p].status \in Applied /\ payment[p].charge # None
             => Made(charge, payment[p].charge, p, payment[p].matched)
    /\ \A w \in Workers, r \in Reservations :
          worker[w].done[r] \in ChargeIds
             => Made(charge, worker[w].done[r], worker[w].p, r)

\* What a handler's locals satisfy at each await.
PaymentPcs == {"create", "reconcile", "charge", "inbox", "record", "commit",
               "commitOffline", "settleFailed", "settle", "cancel", "forget",
               "undo", "clear", "reset"}

LocalsOK(s) ==
    /\ s.pc \in PaymentPcs => s.p \in Payments
    /\ s.pc \in {"commit", "commitOffline", "settleFailed"} => s.first \in Reservations
    /\ s.pc \in {"charge", "inbox", "record"} /\ ~Manual(s) => s.first \in Reservations
    /\ s.pc = "settle" => s.status # "none"
    /\ s.pc \in {"inbox", "record", "forget", "noteRow"} => s.c \in ChargeIds
    /\ s.pc \in {"cancel", "forget"} => \A r \in s.todo : s.done[r] \in ChargeIds
    /\ s.pc \in {"fetch", "fetchFirst", "baseline"} => s.r \in Reservations
    /\ s.pc \in {"batch", "pending"} => s.done = NoLines

\* The charge just made, between createOfflineCharge and the line's end.
HandOK(s, ch) ==
    s.pc \in {"inbox", "record"} =>
        /\ Made(ch, s.c, s.p, ch[s.c].res)
        /\ ch[s.c].res \in Reservations

\* ChargeOwnership made inductive: ids are handed out in order, handlers keep
\* their locals in shape, and the charge in hand is owned before it is stored.
OwnershipInv ==
    /\ TypeOK
    /\ ChargeOwnership
    /\ \A c \in ChargeIds : c > nCharges => charge[c].st = "unused"
    /\ \A w \in Workers : LocalsOK(worker[w]) /\ HandOK(worker[w], charge)

\* Handlers of p that are inside undoApplication's cancel loop.
Cancelling(p) ==
    \E w \in Workers : /\ worker[w].p = p
                       /\ worker[w].job \in {"undo", "planUndo"}
                       /\ worker[w].pc \in {"cancel", "forget", "clear"}

\* A payment is not left assigned to a charge that is cancelled: only the undo
\* that cancels it may see the two together.  (A restart in the middle of the
\* undo leaves them so: nothing resumes it.)
CancelledNotAllocated ==
    crashes = 0 =>
        \A p \in Payments, r \in Reservations :
            alloc[p][r] \in ChargeIds /\ charge[alloc[p][r]].st = "cancelled"
                => Cancelling(p)

\* An applied payment has an allocation, except between the two writes of the
\* undo that takes it back (again as long as no restart cuts the undo short).
AppliedIsAllocated ==
    crashes = 0 =>
        \A p \in Payments :
            payment[p].status \in Applied =>
                \/ alloc[p] # NoLines
                \/ \E w \in Workers : worker[w].p = p /\ worker[w].pc = "reset"

\* Charges a handler has made or read and still answers for.
InHand(c) ==
    \E w \in Workers : worker[w].c = c \/ \E r \in Reservations : worker[w].done[r] = c

\* Money is booked once: every charge that stands as paid belongs to an
\* allocation of its payment, or to the handler at work on it.
PaidIsAllocated ==
    \A c \in ChargeIds :
        charge[c].st = "paid" =>
            InHand(c) \/ \E p \in Payments, r \in Reservations : alloc[p][r] = c

\* Handlers, in flight together and cut short by restarts, keep the books as
\* PaymentLedger promises: each of their steps posts or cancels one charge,
\* assigns a payment's lines at once, takes them all back, or changes neither.
Ledger == INSTANCE PaymentLedger WITH lines <- alloc, charges <- charge

KeepsLedger == Ledger!LedgerSpec

\* A cancelled charge no longer counts toward what the guest has paid.
CancelledNotCounted ==
    \A c \in notified :
        charge[c].st = "cancelled" =>
            \E w \in Workers : worker[w].pc = "forget" /\ worker[w].c = c

\* As long as the process is not restarted, a guest is told once about a
\* charge, by the apply or by the webhook.
NotedOnce ==
    crashes = 0 => \A c \in ChargeIds : notes[c] <= 1

\* The comment in reconcile: a failed apply is not tried again by the poll
\* until staff or a plan change force it.
NoUnforcedRetry ==
    \A p \in Payments : fails[p] <= 1

\* The poll lock is held exactly while a poll is in flight, and by one poll.
PollLock ==
    /\ running <=> \E w \in Workers : worker[w].job \in PollJobs
    /\ \A v, w \in Workers :
          worker[v].job \in PollJobs /\ worker[w].job \in PollJobs => v = w

\* Every imported payment is decided: applied, in review or skipped.
ReceivedIsDecided ==
    \A p \in Payments :
        payment[p].status = "RECEIVED" ~> payment[p].status # "RECEIVED"

\* Books and charges agree: what stands as paid is allocated or in a handler's
\* hand, and what is cancelled is forgotten, or about to be.
ChargesAgree == PaidIsAllocated /\ CancelledNotCounted

\* A payment and its lines agree, through every undo that is not cut short:
\* no line on a cancelled charge, no applied payment without a line.
AllocationsAgree == CancelledNotAllocated /\ AppliedIsAllocated
=============================================================================
