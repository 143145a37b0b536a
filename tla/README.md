# Formal verification of fonio-middleware

The repository is a NestJS server that sits between Hostaway (the property
management system), CHECK24 (a booking portal), Qonto and PayPal (payments) and
Fonio (a telephone assistant), with an admin console in the browser. It is one Node
process with a PostgreSQL database reached through Prisma. This directory holds TLA+
models of the parts of the server and the console where interleaving, failure and
ordering decide whether money, bookings, calendars and answers stay right, the TLC
configurations that check them on small instances, and TLAPS proofs of the results
that hold for every instance.

`PROJECT.json` is the machine-readable index: components, runs, the source lines
every definition stands for, hazards, the finding and the theorems.

## 1. Inventory of the system

| Component (source) | State | Operations | What is hard | What makes it correct |
|---|---|---|---|---|
| Payment reconciliation (`automation/payment-reconciliation.service.ts`, `payment-admin.controller.ts`) | `ExternalPayment` (status, match, charge, error), `PaymentAllocation` | ingest, reconcile, confirm, split, skip, retry, undo, rematch queue, plan create / delete | no lock or transaction around a handler; a split fails half way; a restart between the bank import and the decision | money is booked once, for the right reservation; every payment is decided; an undo takes back only its own charges |
| Payment apply (`payment-apply.service.ts`, `hostaway.client.ts`) | Hostaway charges, `NotifiedGuestCharge` | create charge, post inbox note, record, cancel; local booking of archived units | Hostaway refuses, or accepts and its answer is lost | an allocation names a charge made for it; a cancelled charge is not counted |
| Qonto poll (`qonto-poll.service.ts`) | in-memory lock `running`, `SyncJob` | import loop, rematch loop | the lock is taken outside the `try` | one poll at a time; the lock is released |
| Payment inbox (`payment-inbox.service.ts`) | `paymentBaselinedAt`, `NotifiedGuestCharge` | baseline, discover new charges, note | races the apply that made the charge | the guest is told once |
| Payment matcher (`payment-matcher.service.ts`) | none; its verdict depends on every stored stay, charge and plan | score, filter, decide automatic or review | thresholds and ties, the order of the rows | never automatic across the portal's border, on a paid stay, or for two equal candidates |
| Installment plans (`payment-plan.*`) | plan row: next date, amount due, `paidTowardPlan` | upsert, apply, reverse | read-modify-write; the 29th to the 31st of a month | what is due fits the balance that was read; dates move by months |
| Guest payment automation (`guest-payment-*`) | request and reminder marks, deadline | request on import or offer, remind, cancel unpaid stays | a payment that arrives while the deadline job runs on its old list | a cancel is due; a request is settled in the end |
| Check-in release (`guest-checkin-release.service.ts`) | sent marks | welcome, contact data, arrival information after payment | two payments at once; the welcome mail on its way | never before payment, once per handler |
| Portal payment rules, alerts (`portal-payment-rules.*`, `payment-alert.service.ts`) | rule rows, reminder marks | seed, edit, choose the rule of a stay, daily reminder | two callers seed at once; a failed refresh or mail | one rule per channel; reminded once, and only of money that is owed |
| CHECK24 bookings (`check24/check24-booking.service.ts`) | `Check24Booking` (status, link to Hostaway) | import by webhook or poll, cancel, propagate a cancel | webhook and poll together; a lost create answer; the cancel of a booking that is being imported | one reservation per booking; a cancel on either side reaches the other |
| CHECK24 availability, Hostaway sync (`check24-sync.service.ts`, `hostaway-sync.service.ts`, schedulers) | `CalendarDay`, `Reservation`, `Listing`, `SyncJob`, `syncInProgress`, timers | sync, refresh, force-open, push, follow-ups, retry | Hostaway's calendar lags; pushes overtake each other; timers are lost at a restart | a cancelled stay reopens; a night sold again is closed; errors clear |
| Fonio (`fonio/*`, `hostaway/guest-request-*`) | verification tokens, requests, offers, calendar cache | verify, request a change, forward, note a payment, offer with rollback | a call to Hostaway fails or its answer is lost; the calendar changes between naming and offering | nobody is taken for another guest; what is said is so; no unpaid booking is left behind |
| Approval rules (`rules/*`) | rule rows | evaluate, edit | defaults and fallbacks | a wish is granted only by a rule that covers it |
| Admin users and permissions (`admin/*`) | users, permissions, login counter, the browser's session | login, guards, user forms, permission editor | two edits at once; a token outlives a change; late answers | a super admin remains; a page shows only what the role may see |
| Logging and retention (`logging/*`) | log rows with expiry, settings row | store, purge nightly and by hand, edit settings | settings change between reading and writing; summer time | no row outlives its limit; the promised hour is kept |
| Admin web interface (`public/admin/app.js`) | caches, filters, pages, drawers, spinner, timers | lists, drawers, forms, polling | answers arrive in any order and are not tied to the question | the table shows the filter; the spinner ends |
| Content mapping, dashboards, scripts | none or display only | map fields, draw, maintain | little | - |

Interaction: webhooks, cron jobs and clicks start handlers; a handler runs without
interruption between two `await`s, and all handlers in flight interleave there. They
share only the database, a few in-memory flags and the state of the external
systems. The payment handlers call Hostaway and write rows; Hostaway's own webhook
then starts the inbox handler for the same reservation; the deadline job cancels
stays and tells CHECK24; every CHECK24 change pushes a calendar; the console polls
what all of them have written.

The hazards, each at its line, are listed in `PROJECT.json` with the properties that
would catch them.

## 2. Modules

| Part | Modules | Instance | Proofs |
|---|---|---|---|
| Payments (section 3) | `PaymentReconciliation`; `PaymentLedger` (abstract) | `MCPaymentReconciliation` | `PaymentReconciliationProofs` |
| CHECK24 bookings (4) | `Check24Booking` | `MCCheck24Booking` | `Check24BookingProofs` |
| Guest payments (5) | `GuestPayments` | `MCGuestPayments` | `GuestPaymentsProofs` |
| Matching and plans (6) | `PaymentMatcher`, `PaymentPlan` (operators), `PaymentMatching` (composes them) | `MCPaymentMatching` | `PaymentMatchingProofs` |
| Portal rules and reminders (7) | `PortalReminders` | `MCPortalReminders` | `PortalRemindersProofs` |
| Calendars (8) | `CalendarSync` | `MCCalendarSync` | `CalendarSyncProofs` |
| Telephone (9) | `FonioVerification`, `ApprovalRules`, `FonioAvailability` (operators), `FonioDesk` (composes them) | `MCFonioDesk` | `FonioDeskProofs` |
| Console (10) | `AdminAccess`, `PermissionEditor`, `LogRetention`, `PurgeClock`, `ConsoleLists`, `Check24Desk` | `MCConsole` | `ConsoleProofs` |
| Side by side (11) | - | `MCOffice`, `MCOfficeLive` | - |

Conventions. A module about handlers has a record per handler (*worker*, *task*,
*job*, *call*) that holds the handler's locals; its `pc` (or `at`) is the `await` it
is suspended on, so each action is the code from one `await` to the next, and
actions of different handlers interleave exactly where Node may switch. `Faults` or
`MaxFaults` name and bound what goes wrong outside. An operator whose name ends in
`Mut`, or that says what it forgets (`AbortKeepsLock`, `LinkNewest`), is a plausible
slip in the definition below it, kept to show that a property notices; no
specification uses it.

What is left to do: the listing hierarchy. Every invariant and every action property
the runs check is also proved; section 12 says which are proved under a condition
and why the liveness properties stay with TLC.

## 3. Payment reconciliation

### State and steps

The number of workers bounds handlers in flight, not requests.

| Model | Code |
|---|---|
| `payment`, `alloc` | `ExternalPayment`, `PaymentAllocation` (unique per payment and reservation) |
| `charge`, `nCharges` | Hostaway's charges; `pay` records for whom a charge was made and no handler reads it |
| `notified`, `notes`, `baselined` | `NotifiedGuestCharge`, inbox notes, `paymentBaselinedAt` |
| `offline`, `hasPlan`, `running` | archived listings, plan rows, `QontoPollService.running` |
| `fails` | history: failed bookings since the last forced attempt |
| `IngestCall`, `PollStart`, `ConfirmCall`, `SkipReview`, `RetryCall`, `UndoCall`, `PlanUpsert`, `PlanDelete` | the endpoints, webhooks and the cron job |
| `Reconcile`, `ChargeCreate`, `InboxNote`, `Record`, `Commit`, `Settle` | `reconcile`, `applyToReservation`, the writes after it |
| `Rollback`, `CancelCharge`, `ForgetCharge` | the catch of a split, and the cancel loop of an undo |
| `LoadPending`, `BatchNext`, `BatchEnd` | the loops of the poll and of the plan endpoints |
| `HostawayUpdate`, `FetchCharges`, `Baseline`, `NoteCharge`, `NoteRow` | `PaymentInboxService` on a reservation webhook |
| `Crash` | a restart: locals and the lock are gone, rows and charges stay |

What goes wrong is named in `Faults`: a refusal for an archived unit, a charge whose
answer is lost, a guest without a conversation, an inbox lookup that throws, a
cancel that throws, the poll's `SyncJob` insert that throws, and a staff page that
is out of date. `Requests` says which requests arrive.

The matcher's verdict is any verdict (automatic, review, skip, any reservation or
split): the properties do not depend on how good the match is, which is the subject
of section 6.

`PaymentLedger` is the abstract specification: the lines that assign payments to
reservations and the charges posted in Hostaway, without handlers. A line is
assigned once and to the charge made for it, a posted charge only ever becomes
cancelled, and a payment is taken back as a whole. `KeepsLedger` says that the
handlers implement it (`lines` is `alloc`, `charges` is `charge`).

### Runs

| Run | Instance | Shows |
|---|---|---|
| `recon_split` | 1 payment, 2 reservations, 1 worker, 3 charges, all requests, no restart | `ChargesAgree`: a failed split is rolled back, a paid charge has an allocation, a cancelled one is not counted; `NoUnforcedRetry`: a failed booking is tried again only when forced; `NotedOnce`: one note per charge, by the apply or by the webhook |
| `recon_staff` | 1 payment, 2 reservations, 2 workers, 2 charges, 1 restart; cancels fail, answers are lost, pages are old | `OwnershipInv`, the inductive invariant of the proofs; `AllocationsAgree`: rows and allocations agree as long as no restart cuts a handler short; `KeepsLedger` |
| `recon_live` | 1 payment, 2 workers, no restart | `PollLock`: the lock is held exactly while one poll runs; `ReceivedIsDecided`: every imported payment is decided |

Bounds. Two reservations are what a split needs to fail half way; two workers are
what a stale read needs; two charges are the lines of a split, a third one repeats
one of them, and no property compares more than two. When `MaxCharges` charges exist
Hostaway refuses further ones, which is a behaviour the code handles anyway. A note
count of 2 stands for "several". `Payments`, `Reservations` and `Workers` are only
compared for equality, so the safety runs use symmetry; the liveness run does not.

Fairness. `FairSpec` says that a handler in flight whose `await` can be answered
continues: Node's event loop resumes every settled promise, and the HTTP client has
a timeout, so an await settles with an answer or an error. Nothing makes a request
arrive.

`ChargesAgree`, `NoUnforcedRetry` and `NotedOnce` are checked with one handler at a
time and answers that arrive: the code keeps no idempotency key, and
`NotifiedGuestCharge` is written after the note, so a racing webhook does not see
it.

What does not hold, and is therefore not claimed:

- After a restart between insert and decision a payment stays `RECEIVED`: the poll
  answers it as a duplicate and the rematch loads only `PENDING_REVIEW`.
- The poll's lock is set before a database insert that is outside the `try`: if the
  insert throws no poll runs until the next restart. `recon_live` leaves that fault
  out.
- Two confirms in flight both pass the status check and both create a charge; the
  loser's charge stays paid without a line.
- The error text of an incomplete undo is not the one that stops a retry, so the
  next poll books the payment again next to the charge that was not cancelled.
- `skipReview` does not look at the status, so a skip from an old page hides an
  applied payment and its charge.
- The forced rematch that ends a plan delete may apply again what the delete has
  just restored to the queue.

### Proofs (`PaymentReconciliationProofs`)

For all payments, reservations, workers, bounds, requests and faults:

- `OwnershipTheorem`: `Spec => []OwnershipInv`;
- `ChargeOwnershipTheorem`: `Spec => []ChargeOwnership`. A charge id in an
  allocation, in an applied row or in a handler's lines is a charge Hostaway made
  for that payment on that reservation. So whatever interleaves, fails or restarts,
  an undo and a rollback cancel only the payment's own charges;
- `TypeTheorem`: `Spec => []TypeOK`;
- `LedgerTheorem`: `Spec => KeepsLedger`, the refinement: the initial states map to
  initial states and every step of a handler is a step of the ledger or a stutter;
- `AllocationsTheorem`: `Spec => []AllocationsAgree`. As long as no restart cuts a
  handler short, no payment is left with a line on a cancelled charge and none
  stands as applied without a line, except inside the undo that takes it back.

Under a condition, which is a hypothesis of the theorem, and which some run's
instance satisfies:

- `PollLockTheorem`, without the fault `pollJob`: `Spec => []PollLock`, restarts
  included;
- `NoUnforcedRetryTheorem`, with handlers that run one at a time (`OneHandler`):
  `Spec => []NoUnforcedRetry`, whatever fails and however often the process
  restarts;
- `NotedOnceTheorem`, with `OneHandler` and without the fault `cancel`: `Spec =>
  []NotedOnce`;
- `ChargesTheorem`, under `Calm` (`OneHandler`, no restart, and none of the faults
  `lost`, `inbox`, `cancel`, `stalePage`): `Spec => []ChargesAgree`.

The conditions are not the prover's but the code's: there is no idempotency key, no
lock per payment and no transaction over a handler, and "What does not hold" above
names an execution for each condition that is dropped. Each of them is stated as
weak as it could be: refusals, archived units, missing conversations, listing
changes, splits, rollbacks and undos stay in.

`ChargeOwnership` is not inductive: a step that stores a charge needs to know whose
charge the handler holds, and a step that creates one needs an id nobody holds.
`OwnershipInv` adds that ids are handed out in order (above `nCharges` nothing is
used), that a handler's locals are in shape at each `await` (`LocalsOK`), and that
the charge in hand between creation and recording belongs to the handler's payment
(`HandOK`). The proof splits the invariant into what is said of rows, of handlers
and of the rest (`Rows`, `Handlers`, `Rest`): most actions leave the rows alone and
only move one handler to sound locals (`QuietKeeps`); the ones that write rows or
charges have a lemma each, and `Grows` says that a charge never changes owner. The
refinement uses the same invariant: a line is written only where the unique key lets
it, and with the charge of the handler's own payment.

`AllocationsAgree` is about the handlers that undo and those that book at the same
time, so it needs that the two are apart. `AllocInv` adds `Hands`: a handler that
may still book (or roll back) holds charges that no row and no other handler has,
and they are paid until it cancels them (`OwnHand`); only handlers of
`undoApplication` hold charges that rows have too, and those never store any
(`Course`). Most steps are `Tame`: they store nothing and hold no more than before.
`LockInv` of the poll lock says in addition that the webhook's handlers, which are
dropped without a `finally`, never belong to a poll.

The three conditional proofs read a step through its *moves* (`LoopMoves`,
`FailMoves`, ...), what it does to a handler's locals. `RetryInv`: a failure stands
in the row's error for the next `reconcile` to see, and whoever attempts again has
had the count forced to 0. `NoteInv`: a charge with a note has its row, or is about
to, or is cancelled. `AgreeInv`: besides what a paid charge belongs to, an undo
holds every charge its payment is allocated and has cancelled all of them when it
clears the allocations, and nothing is booked for a payment that has lines. TLC
checked each of these on an instance before it was proved.

The assumptions are `BoundsAssumption` (bounds are naturals, requests and faults are
known ones) and `NullAssumption` (null is none of the ids).

### Left out, and merged

Left out: promotion of Fonio inquiries, alert mails, webhook signatures,
normalisation of bank payloads, errors of the Qonto download before any row is
touched. Plan amounts and portal booking codes are in section 6, what follows from a
charge in section 5. Merged: the reads at the start of `reconcile` (payment, match,
listing) are one step, since the match is arbitrary; `Baseline` writes the charges
it found and the mark together; a loop takes its rows in any order.

## 4. CHECK24 bookings

### State and steps

| Model | Code |
|---|---|
| `portal` | status of each booking at CHECK24 (external) |
| `row` | `Check24Booking`: status and `hostawayReservationId` |
| `ha`, `nRes` | Hostaway's reservations; `b` records for which booking one was made and no handler reads it |
| `local`, `auto` | `Reservation.status`, `autoCanceledAt` |
| `PortalBooks`, `GuestCancels`, `StaffCancels` | what guests do at CHECK24 and staff in Hostaway's interface |
| `WebhookCall`, `GetBooking`; `PollCall`, `ListBookings`, `PollNext` | the two ways a booking reaches `processBooking` |
| `FindExisting`, `UpsertRow`, `PrepareImport`, `CreateReservation`, `CreateFails`, `LinkRow`, `AcceptBooking`, `AcceptedRow` | `processBooking` |
| `IgnoreCancelled`, `ReadLocal`, `MarkCancelled`, `CancelReservation`, `CancelLocal`, `ReassertLocal`, `KeptLocal`, `KeptRow` | `cancelImportedReservation` with its catch |
| `SyncCall`, `FetchReservation`, `StoreReservation` | `syncSingleReservation`, alone or inside the other two |
| `UnpaidCall`, `UnpaidCancel`, `UnpaidLocal`, `FindLinked`, `CancelBooking`, `PropagatedRow` | `cancelUnpaidReservation`, `propagateHostawayCancellation` |
| `Crash` | a restart |

`Faults` names what fails: a CHECK24 call, the property mapping, a create that is
refused, any call whose answer is lost, a read from Hostaway, a cancel that is
refused, a cancel that is answered but does not stick, a restart. At most
`MaxFaults` of them happen in a behaviour. The status `pending` stands for every
status the import does not support, `cancelled` for all the terminal ones.

### Runs

| Run | Instance | Shows |
|---|---|---|
| `booking_links` | 2 bookings, 2 workers, 2 reservations, 1 of: lost answer, refused cancel, restart | `LinkInv`, the inductive invariant; `AcceptedIsImported`: a request is accepted only once linked |
| `booking_live` | 2 bookings, 1 worker, 2 reservations, 2 faults, no lost answers or restarts | `OneStay`: a booking never has two active stays; `GuestCancelArrives`: a guest's cancel reaches the stay and the row |
| `booking_unpaid` | 1 booking, 2 workers, 1 fault | `ProviderCancelReachesPortal`: a stay cancelled as unpaid is cancelled at CHECK24 |

Bounds. Two bookings are what a link to the wrong stay needs, two workers what a
stale read needs, and two reservations what a repeated import needs. The poll's page
is limited to `PageSize` (50 in the code); the liveness run uses a page that holds
all bookings, since one that never shows up in a page is never polled. When `MaxRes`
reservations exist Hostaway refuses the next.

Fairness. `FairSpec` lets a handler in flight go on, as in section 3, and lets the
poll (cron, every `CHECK24_BOOKING_POLL_INTERVAL_MINUTES`) and the sync of each
reservation (webhooks and the full sync) start again and again: strong fairness,
since another handler may hold the worker in between. Failures do stop, by
`MaxFaults`; without that no cancel could be promised.

`OneStay` is checked with one handler and without lost answers or restarts, since a
create has no idempotency key. `UnpaidCall` does not take up a stay whose import is
still in flight, because a payment deadline lies hours or days after the request
that the import sends.

What does not hold, and is therefore not claimed:

- Only the unpaid job calls `propagateHostawayCancellation`: a stay cancelled in
  Hostaway's own interface stays booked at CHECK24 (`booking_unpaid` has no staff).
  `docs/CHECK24.md` and the method's comment speak of every cancel.
- Webhook and poll may import one booking together; the later link overwrites the
  earlier one, and a guest's cancel reaches only the linked stay.
- If the propagated cancel fails at CHECK24 nothing tries it again.

### Proofs (`Check24BookingProofs`)

For all bookings, workers, bounds, events and faults:

- `LinkTheorem`: `Spec => []LinkInv`;
- `LinkOwnershipTheorem`: a row is linked only to a reservation made for its
  booking, so two bookings never share one, and a cancel never takes another guest's
  stay;
- `AcceptTheorem`: `Spec => AcceptedIsImported`. When the server accepts a request,
  the row is linked to a stay made for it, whatever raced or failed;
- `OneStayTheorem`, under `OneByOne` (one worker, no lost answer, no restart): `Spec
  => []OneStay`. Refused creates and cancels, failing calls, cancels that do not
  stick and unmapped bookings stay in.

Link ownership alone is not inductive: `LinkRow` writes the id the handler holds, so
`LocalsOK` says at which awaits that id was made for the handler's booking;
`CreateReservation` needs an id that no row holds, so ids above `nRes` are unused;
and the accept needs that a row, once linked, stays linked while the handler waits
(`StaysLinked`). The proof splits `LinkInv` into what is said of tables, of handlers
and of their relation (`Tables`, `Handlers`, `Sound`); `Grows` says that a
reservation never changes its booking.

`OneStay` needs more than who owns a link: every reservation Hostaway has accepted
is linked in the row of its booking, or is in the hand of the handler that is about
to link it (`Held`), and a handler that imports still sees what the row holds
(`Fresh`). `StayInv` is `LinkInv` with these two. A second handler breaks `Fresh`, a
lost answer or a restart breaks `Held`, and each lets the code import a booking
twice, so `OneByOne` is the condition of the code and not of the prover.

The assumptions are `BookingBounds` and `NullNotId`.

### Left out, and merged

Left out: guest data, labels, payment request and welcome message of an import
(section 5 has them; they fail without effect on the link), webhook registration,
and the availability pushes that end each handler (section 8). Merged: the mapping
lookup and the custom-field lookup are one step; the page of a poll is processed in
any order.

## 5. Guest payments

`GuestPayments` follows a stay from the booking to the day of arrival: the request
at import or after a phone offer, the daily job, the payments that come in
meanwhile, and what a payment releases. A task is a handler in flight: the daily
job, the handler that brought the stay (`origin`), and one task per payment being
applied. Days are counted from the day of booking, amounts are in cents.

| Model | Code |
|---|---|
| `rule`, `kind` | the portal payment rule of the stay; import, phone offer, archived unit |
| `row`, `paid`, `ha` | the local reservation, its `notifiedCharges`, the reservation in Hostaway |
| `NewStay`, `FirstRequest`, `SendWelcome`, `WelcomeSent` | request and welcome message at import or offer |
| `dailyGuestPaymentJob`, `JobNext`, `Decide`, `MarkCancelled`, `ReminderSent` | the job with the list, rows and charges it read at its start |
| `CreateDueCharge`, `PostRequest`, `RequestSent` | `requestPayment`, from the job and from the origin |
| `BookPayment`, `RecordCharge`, `SendArrivalInfo`, `ArrivalInfoSent`, `ConfirmInHostaway`, `ConfirmLocally` | what follows a charge |
| `UndoPayment`, `PortalPayment` | a charge taken back, a payment the portal books |
| `Tick` | a day passes |
| `asked`, `sent`, `log` | history: what was asked for, what the guest got |

The run `guest_payments` has one stay and one payment handler beside the job, every
kind of stay, a rule that collects everything at import, one with deposit and
balance, and a disabled one; a price of 40.00 with a deposit of 19.60, transfers of
19.45 (which passes as the deposit, but falls short as the balance) and 0.60,
arrival on day 5, days 0 to 3, two payments or undos, and one failure of any kind.
Two payments are what a deposit and a balance, or a payment and its undo, need; one
stay is enough since tasks of different stays share only the job's list. It checks

- `GuestInv`: contact data and arrival information only after money that was booked,
  an inquiry confirmed only on its deposit, one reminder per request, arrival
  information at most once per handler;
- `CancelIsDue`: the job cancels only when the deadline has come and the charges as
  the job read them are more than half a euro short of what was asked. The job
  leaves out a euro; but a deposit counts as arrived half a euro short, and the
  balance asked after it does not make up for that half: with the transfers above a
  guest is cancelled who owes 0.95 of the 39.85 asked for;
- `RequestIsSettled`: a request with a deadline is paid, taken back or cancelled in
  the end.

Fairness: days pass, the job runs on each of them, an import is handled, a handler
in flight goes on. Failures are bounded by `MaxFaults`; a failure that never ends
would keep a stay unsettled for ever.

What does not hold: a payment booked while the job runs on its old sums does not
save the stay; two payments applied together can each send the arrival information;
a phase can be charged again when the message after its charge fails.

### Proof (`GuestPaymentsProofs`)

`GuestTheorem`: `Spec => []GuestInv` for any stays, rules, amounts, handlers and
number of payments. The inductive invariant `GuestIInv` adds to the types that the
history bounds what the tables say has been paid (`MoneyInv`) and what each handler
has read of it (`SeenInv`), that a handler that releases something saw the money for
it (`ReleaseInv`), that the arrival messages sent, and those still to be sent,
number no more than the handlers at work (`ArrivalInv`, with the cardinality of that
set), and that where a reminder may still follow, in the table or in the job's old
list, there is a request without one (`RemindInv`). The assumptions are
`GuestBounds`, `NullRule` and `GuestPrices` (a price is positive, and a rule's
deposit, where it has one, exceeds the tolerance of one euro).

`CancelTheorem`: `Spec => CancelIsDue`, for the same constants. The invariant
`DueInv` says that a request in the table was asked for, with its phase; that a
request on its way asks for its whole phase, counted from the charges it read
(`AskInv`, from lemmas on what the schedule decides, `DueDecision`); that a request
the job has in hand is in the table as the job read it, for which the request of a
new stay must not overlap with it (`HandStep`: such a request begins only without
one, and the job has then read none); and what the job knows when it cancels
(`CancelKnown`).

## 6. Matching and plans

`PaymentMatcher` gives the matcher as functions of a payment and a list of stays:
what it reads out of names, notes and reference texts is a set of facts about each
stay, the scores, filters, order, ambiguity gap and decision are the code's.
`PaymentPlan` is the ledger of an installment plan: what is due next and when, with
months of their real length. `PaymentMatching` lets them work together: a payment is
matched against what is stored (`Match`), booked (`AutoApply`, `ReadForApply`,
`WriteApplied`, `NextLine`, `Finish`) or kept (`ToReview`) and matched again at the
next poll (`Rematch`), confirmed on one or two stays (`confirmReview`), taken back
(`Undo`, `ReadForReverse`, `WriteReversed`); a split that fails half way takes its
charges back (`SplitFails`); staff save, disable and delete plans in between.

Checked in the run `office` with three stays (a guest with two stays, a portal
booking), one handler, one payment and two bookings; the evidence covers names,
references, notes, settlements, payouts and portal codes, and the plan a monthly one
that begins on the 31st:

- `MatchingInv`: an automatic booking never crosses the portal's border and never
  hits a paid stay unless the transfer names it; it does not depend on the order of
  the rows, and a twin of the chosen stay makes it a case for review, both unless
  each of two stays is a sure match by itself; charges never fall below zero;
- `PlanFollows`: what a payment leaves due in a plan is no more than the stay still
  owes and nothing once it is paid (`DueFitsBalance`), and the date of a monthly
  plan moves by exactly one month or stays (`OncePerMonth`).

Staff edit plans between the read and the write of a handler, with a form that sends
the whole plan or with a call that sends some fields (`upsertByHostawayId`); what
the handler writes then overwrites the edit, and `OncePerMonth` excepts a plan whose
date was set in between. With two handlers on one plan an apply is lost (read,
change, write back), so the plan's amount is not claimed to agree with the charges.

### Proofs (`PaymentMatchingProofs`)

- `OrderFree`: for any list of stays of any length, `match` on the list and on the
  reversed list book the same stay, unless two stays are sure matches;
- `TwinIsSure`: where a second stay with the same evidence does not stop an
  automatic booking, the stay is a sure match by itself;
- `MatchingTheorem`: `MatchingSpec => []MatchingInv` for any stays, evidence, plans
  and any finite number of handlers.

Everything in `MatchingInv` about one booking follows from what `match` returns for
any list (the best candidate has the highest score, and a gap to every other). The
hard part is that charges never fall below zero: `MatchingIInv` says that the
charges of each stay cover the lines of the booked payments not taken back, plus
what the handlers in flight have booked so far, minus what they have taken back. The
sums are recursive functions over the payments and over an enumeration of the
handlers; that such sums exist, and what changing one term does to them, is proved
by looking at the least number that fails (`LeastNumber`), since the library's
induction theorems cannot be used. The assumption is `MatchingAssumption` (finitely
many handlers, stays and plans of the right shape, null is not a plan).

- `MonthTheorem`: `MatchingSpec => OncePerMonth` for any number of handlers;
- `PlanTheorem`, with handlers one at a time (`OneHandler`): `MatchingSpec =>
  PlanFollows`.

`FollowInv` says what a handler that is about to write a plan has in hand: a date in
the month after (or before) the one of the plan it read, or that plan's own
(`DateInv`), and, with one handler, an amount that fits the balance as it is now
(`DueInv`); a second handler's payment would change that balance.

## 7. Portal rules and reminders

`PortalReminders` models the eleven shipped rules, how one is chosen for a channel,
what it says is owed before arrival and after departure, the filling in of missing
rules by the job and by the admin page at the same time (`JobRules`, `AdminLists`,
`AdminSeeds`), edits of staff (`UpdateRule`), and the daily job from its query to
its mail (`morningUnpaidReminder`, `JobSkips`, `JobRefreshes`, `JobRequests`,
`JobMails`, `JobDone`, `JobThrows`). Payments, cancels and "Fully Paid" in Hostaway
come at any time. A rule's matchers are the channels they find.

The instance is one stay that arrives in 30 days, under each of several channels,
with a complete or an incomplete set of rules, one failing call and one rule edited
in three ways. The days on which the server is up (`JobDays`) are those around the
boundaries of the rules, so that "a day too early" and "a day too late" both occur.

- `ReminderInv` (run `office`): every channel keeps exactly one rule; a stay is
  reminded of, by mail and in the inbox, at most once, and only while money was owed
  by the rule that applied when the job looked;
- `OverdueIsReminded` (run `office_live`): an overdue stay with more job days ahead
  than calls may fail is marked in the end, unless it is settled or excused.
  Fairness: days pass, the job runs and goes on, the admin's handler goes on.

`ReminderTheorem` (`PortalRemindersProofs`): `ReminderSpec => []ReminderInv` for any
stays, portals, receipts and failures. `ReminderIInv` adds `TablesOK` (types, keys),
`JobOK` (the list the job works on is in shape), `MarksFresh` (the marks of a loaded
row are still those of the table, except the one the job has just set),
`SentIsMarked` (what was sent is marked, and sent once) and `AskIsOwed` (what the
job is about to ask for was owed on that day). Assumption: `ReminderAssumption`.

## 8. Calendars

`CalendarSync` follows one listing's calendar from Hostaway through the local cache
to CHECK24. The processes are the ARI sync, the full Hostaway sync, the push after a
cancel and its follow-up; two pushes may overtake each other and Hostaway's calendar
lags behind its reservations (`CatchUp`).

| Model | Code |
|---|---|
| `stay`, `blocked`, `hostaway`, `archived` | Hostaway's reservations, the owner's blocks, the open nights, the unit |
| `row`, `offline`, `cal` | local `Reservation`, `Listing`, `CalendarDay` |
| `hold`, `portal`, `error` | the cancelled booking and its hold window of 24 hours, what CHECK24 offers, `lastError` |
| `work`, `lock`, `jobs`, `timers` | handlers in flight, `syncInProgress`, running `SyncJob` rows, follow-ups not fired |
| `CancelBooking`, `RefreshStep`, `FollowUp` | the push after a cancel, `forceOpenCalendarRange`, `applyRecentCancelForceOpens` |
| `tick`, `SyncNow`, `AriStep`, `retryFailedListings` | `check24-sync.scheduler.ts`, `syncAll`, the retry of failed listings |
| `syncListings`, `HostawayStep`, `Calendar` | the phases of the Hostaway sync |
| `Restart` | a restart: timers and locks are gone, running jobs are failed by `onModuleInit` |

The run `calendar` has one night, the stay from CHECK24 that is cancelled and
another guest's, two attempts, one follow-up, one failure or restart, and one change
outside (a booking, a block or an archiving), with auto-sync on and off. One night
is enough for the races, which are about who writes last; that ranges of several
nights are built exactly is proved (`PushIsExact`).

- `SyncTypeOK`: besides types, a lock is held and a job is running exactly while its
  service works, through failures and restarts;
- `CancelReopens`: with auto-sync on the nights of a cancelled stay are offered
  again, or taken, blocked or archived;
- `SoldAgainIsClosed`, `PortalFollows`: a stay another guest keeps is closed in the
  end, and after the hold window CHECK24 has Hostaway's calendar;
- `ErrorsClear`: no listing error stays for good.

Fairness: Hostaway's calendar catches up, refreshes and follow-ups go on, the
schedulers tick, running syncs go on. Each is a timer, a cron job or a promise with
a timeout.

With auto-sync off, a Hostaway sync that stores the lagging calendar between the
reopening and the read makes the push close what was just reopened, and nothing
sends it again once the follow-ups are over: `CancelReopens` is therefore claimed
with auto-sync on.

Proofs (`CalendarSyncProofs`), for any nights, stays, retries and faults:
`SyncTheorem`, `CalendarSpec => []SyncTypeOK`, with the stores' types and the fit of
locks, jobs and handlers as its inductive parts (`StoreTypes`, `LocksFit`); and
`PushIsExact`: the ranges that `buildAvailabilityRanges` merges say for every stored
night exactly whether it is free, and nothing of nights that are not stored. The
assumption `CalendarAssumption` takes the nights as an interval of days. The other
four properties are about what happens in the end and stay with TLC.

## 9. The telephone

`FonioDesk` composes the operators of `FonioVerification` (who is calling),
`ApprovalRules` (what is granted by itself) and `FonioAvailability` (what is free)
with every call to Hostaway as a step: `verifyGuest`, `submitRequest` with
`applyRead`, `applyUpdate` and `postInboxMessage`; `recordPayment`,
`sendCheckinInfo`; `searchWeekendAvailability` and `createOffer` with
`createReservation`, `ensureInquiryStatus`, `requestDeposit` and `rollbackOffer`;
the retries of the sync and of staff; edits of rules and settings.

The run `fonio` has two callers about one booking, a stranger's booking of the same
dates in the same house, two units with a calendar of fourteen days that is fresh or
stale, one failing call, one edit, two tries of each retry:

- `FonioInv`: the tables stay whole, and no token stands for a stay that is not the
  caller's;
- `AnswerIsTrue`: "applied" and it is in the booking, once; "rejected" and it is
  not; "forwarded" and the inbox has it;
- `OfferSettled`: when an offer is over there is an inquiry with a deposit asked
  for, nothing, or a reported failure of the rollback;
- `NamedCanBeOffered`: a unit named to the caller is free on every night and found
  again while the calendar has not changed;
- `TrueCallerIsVerified`, `ForwardedIsDelivered`: a caller who tells enough is
  recognised, a forwarded request reaches the inbox in the end. Fairness: calls go
  on, the sync with Hostaway and its retry come again, a conversation opens.

Finding (`find_guest_capacity`, violates `CapacityKept`): a request with
`additionalGuests` is compared with the capacity as if the number were the total, so
a full booking that asks for one more guest is granted and booked beyond what the
note on the rule says ("Total guests must not exceed listing capacity").

Proofs (`FonioDeskProofs`), for any callers, bookings, calendars, rules and faults:
`FonioTheorem`, `AnswerTheorem`, `OfferTheorem`, `NamedTheorem` state the four
invariants of the run. `DeskIInv` says for each caller what the handler's place
implies about the token, the request and the booking (`Truthful`, `DeskFits`), for
each retrier that it posts only what is pending (`RetryFits`), and of the settings
that they ask for at least three fields (`ConfigFits`); `OfferIInv` does the same
for offers, `NamedIInv` for what was named. That nobody is taken for another guest
rests on `VerificationStart` (an installation asks for at least three matches, which
every edit keeps, `updateVerificationConfig`) and `GuestsDiffer` (bookings of the
same dates share at most one further field); without the second, two guests who
share a telephone and a house could not be told apart by any code. The other
assumptions are `FonioAssumption` and `Calendars`. The two liveness properties stay
with TLC.

## 10. The console

Six modules without shared state, instantiated in `MCConsole` and `MCOffice`.

| Module | What it models | Checked | Proved (`ConsoleProofs`) |
|---|---|---|---|
| `AdminAccess` (3 users) | login and its limit, tokens that outlive a change, guards, the forms of a user, the session of a browser, calls in flight, a restart (`seedAdmin`) | `AccessInv`: a super admin remains, failed logins are bounded, a page stands on a tab its role may see; `AccessSteps`: accounts change only by a super admin, a session ends by itself only by a 401 | `AccessTheorem`, `AccessStepsTheorem` |
| `PermissionEditor` (3 permissions) | the stored matrix and an editor with draft, snapshot and overlapping calls | `EditorInv`: a clean editor shows what holds, a save changes only what was clicked | `EditorTheorem` |
| `LogRetention` (1 row) | environment, settings row, expiry at writing, purges, the form | `RetentionInv`: no row outlives its limit, the rule shown is the one that counted, a clean form is stored | `RetentionTheorem` |
| `PurgeClock` | the next 03:00 of Berlin across the change of the clock | `PromiseKept`: the job runs at the hour that was promised | `PromiseTheorem` |
| `ConsoleLists` (requests, activity, log entries, reservations; 3 rows, pages of 1) | filters, pages, drawers, badges, polling, late and failing answers | `ListsTellTruth`: table, pager, drawer, badges and widgets agree; `ActivityHeals` | `ListsTheorem` |
| `Check24Desk` (2 apartments) | spinner, polls, counts, switches, settings form | `DeskInv`: header, counts, list and switches agree; `SpinnerEnds` | `DeskTheorem` |

The inductive invariants: `EditorIInv` adds to `EditorInv` that a matrix no save has
overtaken is the one in force and that the draft differs from the snapshot only
where a click has settled it; `AccessIInv` adds that a session's user and its calls
belong together, that a request which passed the guard was legitimate, that the last
super admin is protected up to a counted race, and how many logins are past the
check; `LogIInv` adds what each call in flight carries, and for each row that its
age and the days it has left add up to a period within its class. `ClockInv` says
that between two runs every promise is what would be promised now. `DeskIInv` adds
to `DeskInv` that an answer on its way which no write has outdated holds the
settings in force, and that header and switches show what is stored unless a call
that will set them right is under way.

`ListIInv` is the largest one. In `ConsoleLists`, `late` holds the kinds of call (a
list, a reservation's details) whose last word was overtaken or lost: the answer of
a call behind which a newer one of its kind has already been answered, or a call
that failed. The invariant says that of the calls of a kind those overtaken are the
older ones (`OldInOrder`); that the newest list call not overtaken asks for the
filter on the screen, unless it is still preparing and will read it (`NewestAsks`);
that the cache is what the server found by that filter, unless a newer answer is
coming or the last word was lost (`CacheFits`); that the table is drawn from the
cache by the browser's part of the filter (`TableOfCache`); and the same of the
reservation in the drawer (`NewestFetches`, `DrawerFits`). It rests on lemmas about
what selecting, cutting and paging a list returns (`SelectFacts`, `PageFacts`,
`AnswerFacts`): that rows exist makes the last page a page with rows, for every page
size.

Two things are excepted in the properties because the code does not have them: two
super admins who demote each other at the same moment may both succeed (count and
update are separate statements), and a 401 that belongs to a call from before the
last login ends the new session.

Fairness (`ListFairness`, `DeskFairness`): timers of the page fire, calls are
answered or fail, answers are handled. Failures are bounded: a spinner whose polls
fail for ever does not count them and does not end.

## 11. Side by side: `office` and `office_live`

A behaviour of `MCOffice` picks one of eight parts (matching, reminders, retention,
clock, lists, access, editor, CHECK24 page) at its first state and stays with it;
the others rest in one of their initial states. The parts share no variable and no
action of one reads another, so a property of a part holds of the part alone exactly
if it holds here; the run saves a configuration per part and loses nothing.
`MCOfficeLive` does the same for the reminders, the lists and the CHECK24 page, with
the fairness of the part a behaviour is about. Deadlock is not checked in these runs
nor in `calendar` and `fonio`: days, calls and edits are bounded there and the
system may come to rest.

## 12. Proofs

| Theorem | States | Module |
|---|---|---|
| `OwnershipTheorem`, `ChargeOwnershipTheorem`, `TypeTheorem` | `OwnershipInv` and its parts | `PaymentReconciliationProofs` |
| `LedgerTheorem` | `KeepsLedger` (refinement) | `PaymentReconciliationProofs` |
| `AllocationsTheorem` | `AllocationsAgree` | `PaymentReconciliationProofs` |
| `PollLockTheorem`, `NoUnforcedRetryTheorem`, `NotedOnceTheorem`, `ChargesTheorem` | `PollLock`, `NoUnforcedRetry`, `NotedOnce`, `ChargesAgree`, each under its condition | `PaymentReconciliationProofs` |
| `LinkTheorem`, `LinkOwnershipTheorem`, `AcceptTheorem` | `LinkInv`, `AcceptedIsImported` | `Check24BookingProofs` |
| `OneStayTheorem` | `OneStay`, under its condition | `Check24BookingProofs` |
| `GuestTheorem`, `CancelTheorem` | `GuestInv`, `CancelIsDue` | `GuestPaymentsProofs` |
| `MatchingTheorem`, `OrderFree`, `TwinIsSure` | `MatchingInv`; `match` for every list | `PaymentMatchingProofs` |
| `MonthTheorem`, `PlanTheorem` | `OncePerMonth`; `PlanFollows` with one handler | `PaymentMatchingProofs` |
| `ReminderTheorem` | `ReminderInv` | `PortalRemindersProofs` |
| `SyncTheorem`, `PushIsExact` | `SyncTypeOK`; the ranges of a push | `CalendarSyncProofs` |
| `FonioTheorem`, `AnswerTheorem`, `OfferTheorem`, `NamedTheorem` | `FonioInv`, `AnswerIsTrue`, `OfferSettled`, `NamedCanBeOffered` | `FonioDeskProofs` |
| `EditorTheorem`, `AccessTheorem`, `AccessStepsTheorem`, `RetentionTheorem` | `EditorInv`, `AccessInv`, `AccessSteps`, `RetentionInv` | `ConsoleProofs` |
| `PromiseTheorem`, `DeskTheorem`, `ListsTheorem` | `PromiseKept`, `DeskInv`, `ListsTellTruth` | `ConsoleProofs` |

Every proof has the same outline: an inductive invariant that names what each
handler's place implies about its locals and the tables; a lemma that the initial
states satisfy it; one lemma per action, or per group of actions that disturb the
same part; and a last step that combines them by temporal logic. Lemmas about the
model's operators (amounts, percentages, dates, clamps, sums, sequences, sorted
lists) come first in each module.

All constants are arbitrary up to the named assumptions in the modules, which TLC
evaluates in the runs: `BoundsAssumption`, `NullAssumption`; `BookingBounds`,
`NullNotId`; `GuestBounds`, `NullRule`, `GuestPrices`; `MatchingAssumption`;
`ReminderAssumption`; `CalendarAssumption`; `FonioAssumption`, `VerificationStart`,
`GuestsDiffer`, `Calendars`; `AccessBounds`, `AccessStart` (an installation begins
with an active super admin, and the roles are the code's); `EditorAssumption`;
`LogBounds`; `ClockAssumption`; `DeskBounds`; `ListBounds`.

Only model-checked are the liveness properties `ReceivedIsDecided`,
`GuestCancelArrives`, `ProviderCancelReachesPortal`, `RequestIsSettled`,
`SoldAgainIsClosed`, `PortalFollows`, `CancelReopens`, `ErrorsClear`,
`TrueCallerIsVerified`, `ForwardedIsDelivered`, `OverdueIsReminded`, `ActivityHeals`
and `SpinnerEnds`: the prover does not reason about fairness and ENABLED. What the
recursive definitions compute for every input is not proved by induction either,
since the library's induction theorems cannot be instantiated; where a proof needs
it (sums, selections from a list), it looks at the least number that fails.

## 13. Not modelled

CHECK24 content mapping and the operations scripts have no state of their own.
Dashboard, rules, listings and messages pages, layout, translations, mails and the
wording of answers are display. Of the modelled components these parts are left out:
rates and content payload of the CHECK24 push, webhook registration and signatures,
the Qonto client and payload normalisation, the digest of payment alerts, listing
groups and conversations of the Hostaway sync, the ordering of nearby cities, the
redaction of log texts, passwords and the contents of tokens. `PROJECT.json` says so
for each component.
