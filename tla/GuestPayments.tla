---------------------------- MODULE GuestPayments ----------------------------
(***************************************************************************)
(* What a guest is asked to pay, when, and what follows from paying: the   *)
(* payment request at import or after a phone offer, the daily job that    *)
(* requests deposits and balances, reminds and cancels, and the release    *)
(* of contact data, arrival information and the inquiry once money has     *)
(* been booked.  Models guest-payment-automation.service.ts,               *)
(* guest-payment-schedule.util.ts, guest-checkin-release.service.ts and    *)
(* the part of payment-apply.service.ts that follows the charge.           *)
(*                                                                         *)
(* A task is one handler suspended at an await.  Days are counted from the *)
(* day of booking, amounts in cents.                                       *)
(***************************************************************************)
EXTENDS Integers, FiniteSets

CONSTANTS
    Reservations,  \* the stays
    Kinds,         \* how a stay may have come about, see StayKinds
    Payers,        \* bound on payments applied at the same time
    Rules,         \* the portal payment rules a stay may fall under
    Total,         \* totalPrice
    Amounts,       \* what a guest may transfer
    Arrival,       \* day of arrival
    MaxDay,        \* bound on the days that pass
    MaxPays,       \* bound on the payments and undos
    MaxFaults,     \* bound on failures
    Faults,        \* what may go wrong, see FaultKinds
    None           \* a null column

StayKinds ==
    {"import",   \* imported from CHECK24
     "offer",    \* an inquiry made by a phone offer (fonio.ai in hostNote)
     "offline"}  \* imported, of a listing that is archived in Hostaway

FaultKinds ==
    {"fetch",    \* getReservation throws or has no portal URL
     "charge",   \* createDueCharge throws
     "post",     \* the message is not posted
     "throw",    \* resolveConversationId throws
     "cancel",   \* cancelReservation throws
     "update"}   \* updateReservation (contact, status) throws

\* A rule as guest-payment-schedule reads it; None is an unset column.
RuleType ==
    [enabled      : BOOLEAN,
     depositPct   : 0..100,               \* depositDuePercent, 0 for null
     depositDays  : Nat \cup {None},      \* depositDueDaysAfterBooking
     hostPct      : 0..100,               \* hostDuePercent
     dueBy        : Nat \cup {None},      \* hostDueByDaysBeforeArrival
     deadlineDays : Nat \cup {None},      \* paymentDeadlineDays
     reminderDays : Nat,                  \* guestReminderDaysBeforeDeadline
     autoCancel   : BOOLEAN,              \* autoCancelIfUnpaid
     autoSend     : BOOLEAN,              \* autoSendGuestPaymentLink
     onImport     : BOOLEAN]              \* autoRequestOnImport

ASSUME GuestBounds ==
    /\ Total \in Nat /\ Arrival \in Int /\ MaxDay \in Nat
    /\ IsFiniteSet(Payers) /\ {"job", "origin"} \cap Payers = {}
    /\ MaxPays \in Nat /\ MaxFaults \in Nat
    /\ Amounts \subseteq Nat
    /\ Kinds \subseteq StayKinds
    /\ Faults \subseteq FaultKinds
    /\ Rules \subseteq RuleType

ASSUME NullRule == None \notin Int \cup {"deposit", "deposit_paid", "balance", "full"}

VARIABLES
    today,   \* the current day
    ran,     \* today's run of the cron job has started
    rule,    \* the rule of each stay
    kind,    \* how it came about
    row,     \* the local Reservation row
    paid,    \* sum of its notifiedCharges
    ha,      \* the reservation in Hostaway: status, charges paid, contact
    task,    \* the handlers in flight
    opened,  \* stays whose import or offer has been handled
    asked,   \* what the guest was asked to have paid in all
    sent,    \* reminders and arrival information the guest got
    log,     \* history: see History
    nPays,   \* payments and undos so far
    faults   \* failures so far

vars == <<today, ran, rule, kind, row, paid, ha, task, opened, asked, sent, log,
          nPays, faults>>

----------------------------------------------------------------------------
(* Amounts and the schedule.                                               *)

LesserOf(a, b) == IF a < b THEN a ELSE b
GreaterOf(a, b) == IF a > b THEN a ELSE b
AtLeastZero(n) == IF n < 0 THEN 0 ELSE n

\* A percentage of an amount, rounded to cents.
Percent(total, pct) == (total * pct + 50) \div 100

depositAmount(total, u) == IF u.depositPct = 0 THEN 0 ELSE Percent(total, u.depositPct)

\* A stay has a price, and a deposit is more than the euro below which the
\* code asks for nothing.
ASSUME GuestPrices ==
    /\ Total > 0
    /\ \A u \in Rules : u.depositPct > 0 => depositAmount(Total, u) > 100

balanceAmount(total, u) ==
    IF depositAmount(total, u) > 0 THEN AtLeastZero(total - depositAmount(total, u))
                                   ELSE Percent(total, u.hostPct)

fullAmount(total, u) == Percent(total, u.hostPct)

paidTowardPhase(matched, phase, total, u) ==
    CASE phase = "deposit" -> LesserOf(matched, depositAmount(total, u))
      [] phase = "balance" -> AtLeastZero(matched - depositAmount(total, u))
      [] OTHER -> matched

DueForPhaseMut(phase, total, u) == fullAmount(total, u)
DueForPhase(phase, total, u) ==
    CASE phase = "deposit" -> depositAmount(total, u)
      [] phase = "balance" -> balanceAmount(total, u)
      [] OTHER -> fullAmount(total, u)

Phases == {None, "deposit", "deposit_paid", "balance", "full"}

Decision(act, phase, amt) == [act |-> act, phase |-> phase, amt |-> amt]
NoDecision == Decision("none", None, 0)

\* The branch for a request that has a deadline.  late tells whether the
\* time of day is past the deadline's: the job compares instants.
AfterRequestMut(u, s, matched, late) ==
    LET phase == IF s.phase = None THEN "full" ELSE s.phase
        out == AtLeastZero(DueForPhase(phase, Total, u)
                           - paidTowardPhase(matched, phase, Total, u))
    IN  IF out > 100 /\ s.dl = 0 /\ late /\ u.autoCancel
        THEN Decision("cancel", phase, out)
        ELSE NoDecision
AfterRequest(u, s, matched, late) ==
    LET phase == IF s.phase = None THEN "full" ELSE s.phase
        out == AtLeastZero(DueForPhase(phase, Total, u)
                           - paidTowardPhase(matched, phase, Total, u))
        Reached(d) == d < 0 \/ (d = 0 /\ late)
    IN  IF out <= 100 THEN NoDecision
        ELSE IF Reached(s.dl) /\ u.autoCancel THEN Decision("cancel", phase, out)
        ELSE IF /\ u.reminderDays > 0
                /\ Reached(s.dl - u.reminderDays) /\ ~Reached(s.dl)
                /\ ~s.rem
             THEN Decision("remind", phase, out)
        ELSE Decision("await", phase, out)

\* The branch for a rule with a deposit and no request pending.
DepositSchedule(u, s, matched, day) ==
    LET dep == depositAmount(Total, u)
        depOut == AtLeastZero(dep - paidTowardPhase(matched, "deposit", Total, u))
        balOut == AtLeastZero(balanceAmount(Total, u)
                              - paidTowardPhase(matched, "balance", Total, u))
    IN  IF depOut > 100 /\ day <= u.depositDays /\ ~s.req
        THEN Decision(IF u.autoSend THEN "request" ELSE "none", "deposit", depOut)
        ELSE IF /\ balOut > 100
                /\ u.dueBy # None /\ Arrival - day <= u.dueBy
                /\ matched + 50 >= dep
                /\ ~s.req
                /\ s.phase \in {None, "deposit", "deposit_paid"}
             THEN Decision(IF u.autoSend THEN "request" ELSE "none", "balance", balOut)
        ELSE NoDecision

hasDeposit(u) == u.depositPct > 0 /\ u.depositDays # None

evaluateGuestPaymentSchedule(u, s, matched, isPaid, day, late) ==
    CASE isPaid \/ Total = 0 -> NoDecision
      [] ~(isPaid \/ Total = 0) /\ s.req /\ s.dl # None ->
            AfterRequest(u, s, matched, late)
      [] ~(isPaid \/ Total = 0) /\ ~(s.req /\ s.dl # None) /\ hasDeposit(u) ->
            DepositSchedule(u, s, matched, day)
      [] OTHER -> NoDecision

----------------------------------------------------------------------------
(* State.                                                                  *)

\* A deadline is kept as the days left until it, -1 once its day is over.
Days == Nat \cup {-1, None}

Row == [st      : {"inquiry", "new", "cancelled"},
        auto    : BOOLEAN,                  \* autoCanceledAt
        isPaid  : BOOLEAN,
        phase   : Phases,                   \* paymentPhase
        req     : BOOLEAN,                  \* guestPaymentRequestSentAt
        dl      : Days,                     \* paymentDeadlineAt, see Days
        rem     : BOOLEAN,                  \* guestPaymentReminderSentAt
        info    : BOOLEAN,                  \* checkinInfoSentAt
        welcome : BOOLEAN]                  \* welcomeMessageSentAt

isFonioOffer(r) == kind[r] = "offer"

EmptyRow == [st |-> "new", auto |-> FALSE,
             isPaid |-> FALSE, phase |-> None, req |-> FALSE, dl |-> None,
             rem |-> FALSE, info |-> FALSE, welcome |-> FALSE]

Pcs == {"idle", "next", "refresh", "decide", "haCancel", "localCancel",
        "remind", "remindMark", "charge", "post", "requestMark",
        "welcome", "attach", "welcomeSend", "strip", "welcomeMark",
        "record", "info", "qualify", "release", "arrival", "infoMark",
        "confirm", "confirmHa", "confirmLocal"}

\* seen and matched are the row and the sum of charges as they were read.
Task == [pc      : Pcs,
         r       : Reservations \cup {None},
         todo    : SUBSET Reservations,
         seen    : [Reservations -> Row],
         matched : [Reservations -> Nat],
         amt     : Nat,
         phase   : Phases,
         dl      : Days,
         ok      : BOOLEAN]

NoRows == [r \in Reservations |-> EmptyRow]
NoCharges == [r \in Reservations |-> 0]

IdleTask == [pc |-> "idle", r |-> None, todo |-> {}, seen |-> NoRows,
             matched |-> NoCharges, amt |-> 0, phase |-> None, dl |-> None,
             ok |-> FALSE]

Tasks == {"job", "origin"} \cup Payers

FirstStatus(r) == IF isFonioOffer(r) THEN "inquiry" ELSE "new"

Messages == [reminder : Nat, arrival : Nat]

\* max is the most the charges of a stay ever came to, full that Hostaway saw
\* it paid, marks how often a request was noted, kept that contact data was
\* left in Hostaway because removing it failed.
History == [max : Nat, full : BOOLEAN, marks : Nat, kept : BOOLEAN]

Init ==
    /\ today = 0
    /\ ran = FALSE
    /\ rule \in [Reservations -> Rules]
    /\ kind \in [Reservations -> Kinds]
    /\ row = [r \in Reservations |-> [EmptyRow EXCEPT !.st = FirstStatus(r)]]
    /\ paid = NoCharges
    /\ ha = [r \in Reservations |->
               [st |-> FirstStatus(r), sum |-> 0, contact |-> FALSE]]
    /\ task = [w \in Tasks |-> IdleTask]
    /\ opened = {}
    /\ asked = NoCharges
    /\ sent = [r \in Reservations |->
                 [reminder |-> 0, arrival |-> 0]]
    /\ log = [r \in Reservations |-> [max |-> 0, full |-> FALSE, marks |-> 0, kept |-> FALSE]]
    /\ nPays = 0
    /\ faults = 0

----------------------------------------------------------------------------
(* Helpers.                                                                *)

Go(w, t) == task' = [task EXCEPT ![w] = t]
At(w, pc) == task[w].pc = pc
To(w, pc) == Go(w, [task[w] EXCEPT !.pc = pc])

\* One more failure of this kind.
Fault(what) ==
    /\ what \in Faults
    /\ faults < MaxFaults
    /\ faults' = faults + 1

Sent(r, what) == sent' = [sent EXCEPT ![r][what] = @ + 1]

\* The job goes on with what is left of its list.
NextStay(t) ==
    [IdleTask EXCEPT
        !.pc = "next", !.todo = t.todo,
        !.seen = [r \in Reservations |-> IF r \in t.todo THEN t.seen[r] ELSE EmptyRow],
        !.matched = [r \in Reservations |-> IF r \in t.todo THEN t.matched[r] ELSE 0]]

\* Where the request ends, by return (and by exception): the job goes on with
\* the next stay (or ends), an import goes on to the welcome message.
AfterReturn(w) ==
    CASE w = "job" -> NextStay(task[w])
      [] w # "job" /\ ~isFonioOffer(task[w].r) -> [IdleTask EXCEPT !.pc = "welcome", !.r = task[w].r]
      [] OTHER -> IdleTask

AfterThrow(w) == IF w = "job" THEN IdleTask ELSE AfterReturn(w)

----------------------------------------------------------------------------
(* The daily job.                                                          *)

OneDayLess(d) == IF d = None \/ d = -1 THEN d ELSE d - 1

\* The clock: the job runs every day, and every handler is assumed to end on
\* the day it began; a new stay is handled on the day of its booking.  Day
\* MaxDay stands for all later days.
Tick ==
    /\ \A w \in Tasks : At(w, "idle")
    /\ ran
    /\ opened = Reservations
    /\ today' = LesserOf(today + 1, MaxDay)
    /\ ran' = FALSE
    /\ row' = [r \in Reservations |-> [row[r] EXCEPT !.dl = OneDayLess(@)]]
    /\ UNCHANGED <<rule, kind, paid, ha, task, opened, asked, sent, log, nPays, faults>>

\* The where clause of processScheduledPayments.
Candidate(r) ==
    /\ ~row[r].auto
    /\ Total > 0
    /\ \/ row[r].st = "new"
       \/ row[r].st = "inquiry" /\ isFonioOffer(r) /\ row[r].req

\* findMany reads all candidates with their charges at once.
dailyGuestPaymentJob ==
    /\ At("job", "idle")
    /\ ~ran
    /\ ran' = TRUE
    /\ Go("job", NextStay([IdleTask EXCEPT !.todo = {r \in Reservations : Candidate(r)},
                                           !.seen = row, !.matched = paid]))
    /\ UNCHANGED <<today, rule, kind, row, paid, ha, opened, asked, sent, log, nPays, faults>>

JobNext ==
    /\ At("job", "next")
    /\ \/ /\ task["job"].todo = {}
          /\ Go("job", IdleTask)
       \/ \E r \in task["job"].todo :
            LET t == [task["job"] EXCEPT !.todo = @ \ {r}, !.r = r, !.pc = "refresh"]
            IN  Go("job", IF rule[r].enabled THEN t ELSE NextStay(t))
    /\ UNCHANGED <<today, ran, rule, kind, row, paid, ha, opened, asked, sent, log, nPays, faults>>

\* Hostaway reports a stay as paid once its total is covered.
HostawayPaid(r) == ha[r].sum >= Total

\* refreshIsPaid: a paid row is trusted, otherwise Hostaway is asked, and a
\* call that fails counts as unpaid.
refreshIsPaid(w) ==
    LET t == task[w]
        After(isPaid) == IF isPaid THEN AfterReturn(w) ELSE [t EXCEPT !.pc = "decide"]
    IN  /\ At(w, "refresh")
        /\ \/ /\ t.seen[t.r].isPaid
              /\ Go(w, AfterReturn(w))
              /\ UNCHANGED <<row, faults>>
           \/ /\ ~t.seen[t.r].isPaid
              /\ row' = [row EXCEPT ![t.r].isPaid = @ \/ HostawayPaid(t.r)]
              /\ Go(w, After(HostawayPaid(t.r)))
              /\ UNCHANGED faults
           \/ /\ ~t.seen[t.r].isPaid
              /\ Fault("fetch")
              /\ Go(w, After(FALSE))
              /\ UNCHANGED row
        /\ UNCHANGED <<today, ran, rule, kind, paid, ha, opened, asked, sent, log, nPays>>

\* The deposit has arrived: the marks of the request are cleared.
DepositArrived(u, s, matched) ==
    /\ u.depositPct > 0
    /\ s.phase = "deposit" /\ s.req
    /\ matched + 50 >= depositAmount(Total, u)

ClearMarksMut(s) == [s EXCEPT !.phase = "deposit_paid", !.req = FALSE, !.dl = None]
ClearMarks(s) == [s EXCEPT !.phase = "deposit_paid", !.req = FALSE, !.rem = FALSE,
                           !.dl = None]

DeadlineOf(days) == IF days = 0 THEN None ELSE days

Decide(late) ==
    LET t == task["job"]
        r == t.r
        u == rule[r]
        clear == DepositArrived(u, t.seen[r], t.matched[r])
        s == IF clear THEN ClearMarks(t.seen[r]) ELSE t.seen[r]
        d == evaluateGuestPaymentSchedule(u, s, t.matched[r], FALSE, today, late)
        days == IF d.phase = "deposit" THEN u.depositDays ELSE u.deadlineDays
        t2 == [t EXCEPT !.seen[r] = s, !.amt = d.amt, !.phase = d.phase]
    IN  /\ At("job", "decide")
        /\ row' = [row EXCEPT ![r] = IF clear THEN ClearMarks(@) ELSE @]
        /\ Go("job", CASE d.act = "cancel" -> [t2 EXCEPT !.pc = "haCancel"]
                       [] d.act = "remind" -> [t2 EXCEPT !.pc = "remind"]
                       [] d.act = "request" -> [t2 EXCEPT !.pc = "charge",
                                                          !.dl = DeadlineOf(days)]
                       [] OTHER -> NextStay(t))
        /\ UNCHANGED <<today, ran, rule, kind, paid, ha, opened, asked, sent, log, nPays, faults>>

cancelUnpaidReservation ==
    LET r == task["job"].r
    IN  /\ At("job", "haCancel")
        /\ \/ /\ ha' = [ha EXCEPT ![r].st = "cancelled"]
              /\ To("job", "localCancel")
              /\ UNCHANGED faults
           \/ /\ Fault("cancel")
              /\ Go("job", NextStay(task["job"]))
              /\ UNCHANGED ha
        /\ UNCHANGED <<today, ran, rule, kind, row, paid, opened, asked, sent, log, nPays>>

MarkCancelled ==
    /\ At("job", "localCancel")
    /\ row' = [row EXCEPT ![task["job"].r].auto = TRUE, ![task["job"].r].st = "cancelled"]
    /\ Go("job", NextStay(task["job"]))
    /\ UNCHANGED <<today, ran, rule, kind, paid, ha, opened, asked, sent, log, nPays, faults>>

sendGuestPaymentReminder ==
    LET r == task["job"].r
    IN  /\ At("job", "remind")
        /\ \/ /\ Sent(r, "reminder")
              /\ To("job", "remindMark")
              /\ UNCHANGED faults
           \/ /\ Fault("fetch") \/ Fault("post")
              /\ Go("job", NextStay(task["job"]))
              /\ UNCHANGED sent
           \/ /\ Fault("throw")
              /\ Go("job", AfterThrow("job"))
              /\ UNCHANGED sent
        /\ UNCHANGED <<today, ran, rule, kind, row, paid, ha, opened, asked, log, nPays>>

ReminderSent ==
    /\ At("job", "remindMark")
    /\ row' = [row EXCEPT ![task["job"].r].rem = TRUE]
    /\ Go("job", NextStay(task["job"]))
    /\ UNCHANGED <<today, ran, rule, kind, paid, ha, opened, asked, sent, log, nPays, faults>>

----------------------------------------------------------------------------
(* sendGuestPaymentRequest, for the job and for a new stay.                *)

CreateDueCharge(w) ==
    LET t == task[w]
    IN  /\ At(w, "charge")
        /\ \/ /\ asked' = [asked EXCEPT ![t.r] = GreaterOf(@, t.matched[t.r] + t.amt)]
              /\ To(w, "post")
              /\ UNCHANGED faults
           \/ /\ Fault("charge")
              /\ Go(w, AfterReturn(w))
              /\ UNCHANGED asked
        /\ UNCHANGED <<today, ran, rule, kind, row, paid, ha, opened, sent, log, nPays>>

PostRequest(w) ==
    /\ At(w, "post")
    /\ \/ To(w, "requestMark") /\ UNCHANGED faults    \* posted or not
       \/ Fault("throw") /\ Go(w, AfterThrow(w))
    /\ UNCHANGED <<today, ran, rule, kind, row, paid, ha, opened, asked, sent, log, nPays>>

\* The marks of the request; only a balance resets the reminder.
Requested(s, t) == [s EXCEPT !.req = TRUE, !.dl = t.dl, !.phase = t.phase,
                             !.rem = IF t.phase = "balance" THEN FALSE ELSE @]

RequestSent(w) ==
    LET t == task[w]
    IN  /\ At(w, "requestMark")
        /\ row' = [row EXCEPT ![t.r] = Requested(@, t)]
        /\ log' = [log EXCEPT ![t.r].marks = @ + 1]
        /\ Go(w, AfterReturn(w))
        /\ UNCHANGED <<today, ran, rule, kind, paid, ha, opened, asked, sent, nPays, faults>>

----------------------------------------------------------------------------
(* A new stay: the import's request and welcome, or the offer's deposit.   *)

\* requestPaymentOnImport and requestDepositAfterFonioOffer up to the first
\* call; the row is read here and trusted until the marks are written.
NewStay(r) ==
    LET asks == rule[r].enabled /\ (isFonioOffer(r) \/ rule[r].onImport) /\ ~row[r].req
    IN  /\ At("origin", "idle")
        /\ r \notin opened
        /\ opened' = opened \cup {r}
        /\ Go("origin", IF asks
                        THEN [IdleTask EXCEPT !.pc = "refresh", !.r = r, !.seen[r] = row[r]]
                        ELSE [IdleTask EXCEPT !.pc = IF isFonioOffer(r) THEN "idle" ELSE "welcome",
                                              !.r = IF isFonioOffer(r) THEN None ELSE r])
        /\ UNCHANGED <<today, ran, rule, kind, row, paid, ha, asked, sent, log, nPays, faults>>

\* An import asks for the whole host share; an offer for the deposit, or for
\* 30% when the rule has none.
FirstAmount(r) ==
    IF ~isFonioOffer(r) THEN fullAmount(Total, rule[r])
    ELSE IF depositAmount(Total, rule[r]) > 100 THEN depositAmount(Total, rule[r])
    ELSE Percent(Total, 30)

FirstDays(r) ==
    LET u == rule[r]
        late == IF u.deadlineDays = None THEN 7 ELSE u.deadlineDays
    IN  IF isFonioOffer(r) /\ u.depositDays # None THEN u.depositDays ELSE late

FirstRequest ==
    LET t == task["origin"]
        r == t.r
        links == isFonioOffer(r) \/ rule[r].autoSend    \* forceGuestLink
    IN  /\ At("origin", "decide")
        /\ Go("origin",
              IF FirstAmount(r) > 100 /\ links
              THEN [t EXCEPT !.pc = "charge", !.amt = FirstAmount(r),
                             !.phase = IF isFonioOffer(r) THEN "deposit" ELSE "full",
                             !.dl = DeadlineOf(FirstDays(r))]
              ELSE AfterReturn("origin"))
        /\ UNCHANGED <<today, ran, rule, kind, row, paid, ha, opened, asked, sent, log, nPays, faults>>

\* sendImportWelcome: the row and the conversation are read.
sendImportWelcome ==
    LET r == task["origin"].r
    IN  /\ At("origin", "welcome")
        /\ \/ /\ ~row[r].welcome
              /\ To("origin", "attach")
              /\ UNCHANGED faults
           \/ /\ Fault("post") \/ Fault("throw")
              /\ Go("origin", IdleTask)
        /\ UNCHANGED <<today, ran, rule, kind, row, paid, ha, opened, asked, sent, log, nPays>>

\* attachStoredGuestContactAfterPayment, called for the welcome message and
\* after a payment.  Its failure is logged only.
attachStoredGuestContact(w, from, to) ==
    /\ At(w, from)
    /\ \/ /\ ha' = [ha EXCEPT ![task[w].r].contact = TRUE]
          /\ UNCHANGED faults
       \/ /\ Fault("update")
          /\ UNCHANGED ha
    /\ To(w, to)
    /\ UNCHANGED <<today, ran, rule, kind, row, paid, opened, asked, sent, log, nPays>>

SendWelcomeMut ==
    LET t == task["origin"]
    IN  /\ At("origin", "welcomeSend")
        /\ \/ /\ Go("origin", [t EXCEPT !.pc = "strip", !.ok = TRUE])
              /\ UNCHANGED faults
           \/ /\ Fault("post")
              /\ Go("origin", IdleTask)
        /\ UNCHANGED <<today, ran, rule, kind, row, paid, ha, opened, asked, sent, log, nPays>>
SendWelcome ==
    LET t == task["origin"]
    IN  /\ At("origin", "welcomeSend")
        /\ \/ /\ Go("origin", [t EXCEPT !.pc = "strip", !.ok = TRUE])
              /\ UNCHANGED faults
           \/ /\ Fault("post")
              /\ Go("origin", [t EXCEPT !.pc = "strip"])
        /\ UNCHANGED <<today, ran, rule, kind, row, paid, ha, opened, asked, sent, log, nPays>>

stripHostawayGuestContact ==
    LET t == task["origin"]
    IN  /\ At("origin", "strip")
        /\ \/ /\ ha' = [ha EXCEPT ![t.r].contact = FALSE]
              /\ UNCHANGED <<log, faults>>
           \/ /\ Fault("update")
              /\ log' = [log EXCEPT ![t.r].kept = TRUE]
              /\ UNCHANGED ha
        /\ Go("origin", IF t.ok THEN [t EXCEPT !.pc = "welcomeMark"] ELSE IdleTask)
        /\ UNCHANGED <<today, ran, rule, kind, row, paid, opened, asked, sent, nPays>>

WelcomeSent ==
    /\ At("origin", "welcomeMark")
    /\ row' = [row EXCEPT ![task["origin"].r].welcome = TRUE]
    /\ Go("origin", IdleTask)
    /\ UNCHANGED <<today, ran, rule, kind, paid, ha, opened, asked, sent, log, nPays, faults>>

----------------------------------------------------------------------------
(* A payment is booked, or undone.                                         *)

\* createOfflineCharge in Hostaway, which marks the stay paid once its total
\* is covered.  For a listing that is offline no charge is made or recorded.
BookPayment(p, r, amt) ==
    LET sum == ha[r].sum + amt
    IN  /\ At(p, "idle")
        /\ nPays < MaxPays
        /\ nPays' = nPays + 1
        /\ IF kind[r] = "offline"
           THEN /\ Go(p, [IdleTask EXCEPT !.pc = "info", !.r = r])
                /\ UNCHANGED <<ha, log>>
           ELSE /\ ha' = [ha EXCEPT ![r].sum = sum]
                /\ log' = [log EXCEPT ![r].full = @ \/ sum >= Total]
                /\ Go(p, [IdleTask EXCEPT !.pc = "record", !.r = r, !.amt = amt])
        /\ UNCHANGED <<today, ran, rule, kind, row, paid, opened, asked, sent, faults>>

\* The guest pays in the Hostaway portal: no local charge until the sync.
PortalPayment(r) ==
    /\ nPays < MaxPays
    /\ nPays' = nPays + 1
    /\ ~HostawayPaid(r)
    /\ ha' = [ha EXCEPT ![r].sum = Total]
    /\ log' = [log EXCEPT ![r].full = TRUE]
    /\ UNCHANGED <<today, ran, rule, kind, row, paid, task, opened, asked, sent, faults>>

\* recordNotifiedCharge, after the note in the inbox.
RecordCharge(p) ==
    LET t == task[p]
        sum == paid[t.r] + t.amt
    IN  /\ At(p, "record")
        /\ \/ /\ paid' = [paid EXCEPT ![t.r] = sum]
              /\ log' = [log EXCEPT ![t.r].max = GreaterOf(@, sum)]
              /\ Go(p, [t EXCEPT !.pc = "info", !.amt = 0])
              /\ UNCHANGED faults
           \/ /\ Fault("throw")
              /\ Go(p, IdleTask)
              /\ UNCHANGED <<paid, log>>
        /\ UNCHANGED <<today, ran, rule, kind, row, ha, opened, asked, sent, nPays>>

\* Staff undo a payment: its record goes, and its charge unless the call fails.
UndoPayment(r, amt) ==
    /\ nPays < MaxPays
    /\ amt <= paid[r]
    /\ nPays' = nPays + 1
    /\ paid' = [paid EXCEPT ![r] = @ - amt]
    /\ \/ ha' = [ha EXCEPT ![r].sum = @ - amt] /\ UNCHANGED faults
       \/ Fault("cancel") /\ UNCHANGED ha
    /\ UNCHANGED <<today, ran, rule, kind, row, task, opened, asked, sent, log>>

\* releaseAfterPayment reads checkinInfoSentAt ...
releaseAfterPayment(p) ==
    /\ At(p, "info")
    /\ To(p, IF row[task[p].r].info THEN "confirm" ELSE "qualify")
    /\ UNCHANGED <<today, ran, rule, kind, row, paid, ha, opened, asked, sent, log, nPays, faults>>

\* ... then whether there is money ...
Qualifies(r) ==
    \/ row[r].isPaid
    \/ row[r].phase = "deposit_paid"
    \/ paid[r] > 50

hasQualifyingPayment(p) ==
    /\ At(p, "qualify")
    /\ To(p, IF Qualifies(task[p].r) THEN "release" ELSE "confirm")
    /\ UNCHANGED <<today, ran, rule, kind, row, paid, ha, opened, asked, sent, log, nPays, faults>>

\* ... and sends.  A missing template or conversation, or a failed send, is
\* not tried again until the next payment.
SendArrivalInfo(p) ==
    /\ At(p, "arrival")
    /\ \/ /\ Sent(task[p].r, "arrival")
          /\ To(p, "infoMark")
          /\ UNCHANGED faults
       \/ /\ Fault("post") \/ Fault("throw")
          /\ To(p, "confirm")
          /\ UNCHANGED sent
    /\ UNCHANGED <<today, ran, rule, kind, row, paid, ha, opened, asked, log, nPays>>

ArrivalInfoSent(p) ==
    /\ At(p, "infoMark")
    /\ row' = [row EXCEPT ![task[p].r].info = TRUE]
    /\ To(p, "confirm")
    /\ UNCHANGED <<today, ran, rule, kind, paid, ha, opened, asked, sent, log, nPays, faults>>

\* 90% of the deposit, or of 30% of the price when the rule has no deposit.
NeededDeposit(u) ==
    IF depositAmount(Total, u) > 100 THEN depositAmount(Total, u) ELSE Percent(Total, 30)

hasFonioDepositPaid(s, u, sum) ==
    \/ s.isPaid
    \/ s.phase = "deposit_paid"
    \/ /\ sum > 50
       /\ NeededDeposit(u) > 100 => 10 * (sum + 1) >= 9 * NeededDeposit(u)

confirmFonioInquiryAfterDeposit(p) ==
    LET r == task[p].r
    IN  /\ At(p, "confirm")
        /\ IF isFonioOffer(r) /\ row[r].st = "inquiry" /\ hasFonioDepositPaid(row[r], rule[r], paid[r])
           THEN To(p, "confirmHa")
           ELSE Go(p, IdleTask)
        /\ UNCHANGED <<today, ran, rule, kind, row, paid, ha, opened, asked, sent, log, nPays, faults>>

ConfirmInHostaway(p) ==
    /\ At(p, "confirmHa")
    /\ \/ /\ ha' = [ha EXCEPT ![task[p].r].st = "new"]
          /\ To(p, "confirmLocal")
          /\ UNCHANGED faults
       \/ /\ Fault("update")
          /\ Go(p, IdleTask)
          /\ UNCHANGED ha
    /\ UNCHANGED <<today, ran, rule, kind, row, paid, opened, asked, sent, log, nPays>>

ConfirmLocally(p) ==
    /\ At(p, "confirmLocal")
    /\ row' = [row EXCEPT ![task[p].r].st = "new"]
    /\ Go(p, IdleTask)
    /\ UNCHANGED <<today, ran, rule, kind, paid, ha, opened, asked, sent, log, nPays, faults>>

----------------------------------------------------------------------------
Job ==
    \/ dailyGuestPaymentJob \/ JobNext
    \/ \E late \in BOOLEAN : Decide(late)
    \/ cancelUnpaidReservation \/ MarkCancelled
    \/ sendGuestPaymentReminder \/ ReminderSent

Request ==
    \E w \in {"job", "origin"} :
        refreshIsPaid(w) \/ CreateDueCharge(w) \/ PostRequest(w) \/ RequestSent(w)

Origin ==
    \/ \E r \in Reservations : NewStay(r)
    \/ FirstRequest \/ sendImportWelcome
    \/ attachStoredGuestContact("origin", "attach", "welcomeSend")
    \/ SendWelcome \/ stripHostawayGuestContact \/ WelcomeSent

Payment ==
    \/ \E p \in Payers :
          \/ \E r \in Reservations, amt \in Amounts : BookPayment(p, r, amt)
          \/ RecordCharge(p) \/ releaseAfterPayment(p) \/ hasQualifyingPayment(p)
          \/ attachStoredGuestContact(p, "release", "arrival")
          \/ SendArrivalInfo(p) \/ ArrivalInfoSent(p)
          \/ confirmFonioInquiryAfterDeposit(p)
          \/ ConfirmInHostaway(p) \/ ConfirmLocally(p)
    \/ \E r \in Reservations : PortalPayment(r)
    \/ \E r \in Reservations, amt \in Amounts : UndoPayment(r, amt)

\* What a handler that is already in flight does next.
Step(w) ==
    /\ ~At(w, "idle")
    /\ Job \/ Request \/ Origin \/ Payment
    /\ task'[w] # task[w]

Next == Tick \/ Job \/ Request \/ Origin \/ Payment

Spec == Init /\ [][Next]_vars

\* The cron job fires every day and every handler in flight goes on.
Fairness ==
    /\ WF_vars(Tick)
    /\ WF_vars(dailyGuestPaymentJob)
    /\ \A r \in Reservations : WF_vars(NewStay(r))
    /\ \A w \in Tasks : WF_vars(Step(w))

FairSpec == Spec /\ Fairness

----------------------------------------------------------------------------
(* Properties.                                                             *)

\* Every column, local and counter has its type.
GuestTypeOK ==
    /\ today \in 0..MaxDay /\ ran \in BOOLEAN
    /\ rule \in [Reservations -> Rules] /\ kind \in [Reservations -> Kinds]
    /\ row \in [Reservations -> Row] /\ paid \in [Reservations -> Nat]
    /\ ha \in [Reservations -> [st : {"inquiry", "new", "cancelled"},
                                sum : Int, contact : BOOLEAN]]
    /\ task \in [Tasks -> Task]
    /\ opened \subseteq Reservations
    /\ asked \in [Reservations -> Nat]
    /\ sent \in [Reservations -> Messages]
    /\ log \in [Reservations -> History]
    /\ nPays \in 0..MaxPays /\ faults \in 0..MaxFaults

\* Some money for the stay has been booked.
Money(r) == log[r].max > 50 \/ log[r].full

\* "CHECK24 imports keep email/phone off Hostaway until payment": contact data
\* is in Hostaway only after money, while the welcome message is being sent,
\* or because taking it out again failed.
ContactAfterMoney ==
    \A r \in Reservations :
        ha[r].contact => \/ Money(r) \/ log[r].kept
                         \/ task["origin"].r = r /\ task["origin"].pc \in {"welcomeSend", "strip"}

\* Arrival information goes to guests whose money has been booked, whatever is
\* undone or retried around it, also for listings that take no charge.
ArrivalAfterMoney ==
    \A r \in Reservations : sent[r].arrival > 0 => Money(r)

\* Arrival information is sent once, however many payments follow; only
\* handlers that overlap can each send it.
ArrivalSentOnce ==
    \A r \in Reservations : sent[r].arrival <= Cardinality(Payers)

\* A phone offer becomes a confirmed stay only once the charges came within
\* half a euro of the deposit or to nine tenths of it, or the total was paid,
\* never on a token payment and whatever is undone afterwards.
InquiryNeedsDeposit ==
    \A r \in Reservations :
        isFonioOffer(r) /\ "new" \in {ha[r].st, row[r].st} =>
            \/ log[r].full
            \/ log[r].max + 50 >= NeededDeposit(rule[r])
            \/ 10 * (log[r].max + 1) >= 9 * NeededDeposit(rule[r])

\* A request is followed by one reminder at most, over all phases and job runs.
OneReminderPerRequest ==
    \A r \in Reservations : sent[r].reminder <= log[r].marks

\* The job cancels a stay only when its deadline has come and the charges
\* recorded when the job began are more than half a euro short of what the
\* guest was asked for: the job leaves out a euro, but a deposit counts as
\* arrived half a euro short, and the balance asked then does not make up
\* for that half.
CancelIsDue ==
    [][\A r \in Reservations :
         ha[r].st # "cancelled" /\ ha'[r].st = "cancelled" =>
            /\ row[r].dl # None /\ row[r].dl <= 0
            /\ task["job"].matched[r] + 50 < asked[r]]_vars

\* A request with a deadline is settled in the end: it is paid, or the stay is
\* cancelled, though messages, lookups and cancel calls fail on the way.  Not
\* so for an offer under a rule without a deposit: its 30% has a deadline, but
\* the schedule sees a deposit of zero and takes it as covered.
RequestIsSettled ==
    \A r \in Reservations :
        /\ row[r].req /\ row[r].dl # None
        /\ rule[r].autoCancel
        /\ isFonioOffer(r) => rule[r].depositPct > 0
        ~>
            row[r].auto \/ ~row[r].req \/ paid[r] + 100 >= asked[r] \/ HostawayPaid(r)

\* What a guest hears and gets follows the money: contact data, arrival
\* information and a confirmed offer only after it, each message once.
GuestInv ==
    /\ GuestTypeOK
    /\ ContactAfterMoney
    /\ ArrivalAfterMoney
    /\ ArrivalSentOnce
    /\ InquiryNeedsDeposit
    /\ OneReminderPerRequest
=============================================================================
