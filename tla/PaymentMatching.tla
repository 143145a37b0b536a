-------------------------- MODULE PaymentMatching --------------------------
(***************************************************************************)
(* The matcher, the review queue and the installment plans at work         *)
(* together: a payment is matched against what is stored and booked on the *)
(* chosen stay, or kept for review and matched again at the next poll; the *)
(* plan of a stay is read, advanced and written back                       *)
(* (payment-plan.service); an undo takes the charge and then the plan      *)
(* back; a split that fails half way takes the charge back and leaves the  *)
(* plan as it is.  A portal code in a transfer is stored with the best     *)
(* stay (persistPortalBookingCodeFromPayment).                             *)
(*                                                                         *)
(* A payment in review is taken by one handler at a time; what happens when *)
(* two handle the same payment is the subject of PaymentReconciliation.    *)
(*                                                                         *)
(* Stays[i] is the i-th stay by arrival, the order of                      *)
(* loadCandidateReservations.  Its plan is NoPlan or a record              *)
(*   [enabled, inst, freq, custom, next, due, toward].                     *)
(***************************************************************************)
EXTENDS PaymentMatcher, PaymentPlan

CONSTANTS
    Stays,        \* sequence of [total, guest, unit, from, to, facts]
    Evidence,     \* pairs <<payment, fact set of each stay>>
    Upserts,      \* what staff can save as a plan
    Earlier,      \* what may be booked on the stays already
    Planned,      \* stays staff keep a plan for
    Choices,      \* pairs of stays staff books a payment on, equal for one stay
    Handlers,     \* requests and polls at work at the same time
    MaxPayments,  \* payments matched in one behaviour
    MaxQueue,     \* payments in review at the same time
    MaxBookings,  \* times a payment is booked, again after an undo included
    Today, NoPlan

Dates == {date \in [m : Int, d : 1..31] : date.d <= DaysIn(date.m)}

\* What the form of a plan can send; its rules are checked in Valid.
PlanInputs ==
    [enabled : BOOLEAN, inst : Int, freq : STRING, custom : Int,
     next : Dates \cup {NoDate}, due : Int, toward : Int]

ASSUME MatchingAssumption ==
    /\ MaxPayments \in Nat /\ MaxQueue \in Nat /\ MaxBookings \in Nat
    /\ IsFiniteSet(Handlers)
    /\ Stays \in Seq([total : Int, guest : STRING, unit : STRING, from : Int, to : Int,
                      facts : SUBSET Facts])
    /\ \A e \in Evidence : e[1].amount \in Int /\ e[2] \in [DOMAIN Stays -> SUBSET Facts]
    /\ Earlier \subseteq [DOMAIN Stays -> Nat]
    /\ Planned \subseteq DOMAIN Stays /\ Upserts \subseteq PlanInputs
    /\ NoPlan \notin PlanInputs
    /\ Choices \subseteq (DOMAIN Stays) \X (DOMAIN Stays)
    /\ Today \in Dates

Ids == DOMAIN Stays

\* A handler with nothing to do.
Idle == [at |-> "idle"]

VARIABLES
    plan,     \* ReservationPaymentPlan of each stay
    paid,     \* sum of its notified charges
    job,      \* what each handler is doing
    ref,      \* payment whose portal code is the stay's booking ref, or 0
    queue,    \* payments in review
    applied,  \* booked payments, each with the sequence of its lines
    count,    \* payments matched so far
    bookings  \* bookings begun so far

mvars == <<plan, paid, job, ref, queue, applied, count, bookings>>

\* The stays as the matcher loads them for payment n: a stored code of the
\* payment is found, and has replaced any other reference of the stay.
loadCandidateReservations(n, facts) ==
    [i \in Ids |->
        [facts |-> Stays[i].facts \cup
                     (IF ref[i] = 0 THEN facts[i]
                      ELSE (facts[i] \ {"ref"}) \cup (IF ref[i] = n THEN {"code"} ELSE {})),
         total |-> Stays[i].total, paid |-> paid[i],
         due   |-> IF plan[i] # NoPlan /\ plan[i].enabled THEN plan[i].due ELSE 0,
         guest |-> Stays[i].guest, unit |-> Stays[i].unit,
         from  |-> Stays[i].from, to |-> Stays[i].to]]

remainingBalance(i) == NotNegative(Stays[i].total - paid[i])

MatchingInit ==
    /\ plan = [i \in Ids |-> NoPlan]
    /\ paid \in Earlier
    /\ job = [h \in Handlers |-> Idle]
    /\ ref = [i \in Ids |-> 0]
    /\ queue = {}
    /\ applied = << >>
    /\ count = 0
    /\ bookings = 0

----------------------------------------------------------------------------
(* A payment comes in.                                                     *)

\* A payment Hostaway refused before is held, it is not tried again by itself
\* (priorApplyFailed).
Matching(q, allowAutoApply) ==
    LET stays == loadCandidateReservations(q.n, q.facts)
    IN  [at |-> "matched", n |-> q.n, payment |-> q.payment, facts |-> q.facts, stays |-> stays,
         held |-> q.held, auto |-> allowAutoApply,
         result |-> match(q.payment, stays)]

BooksItself(j) == j.result.decision = "UNAMBIGUOUS" /\ ~j.held /\ j.auto

Pending(j, held) ==
    [n |-> j.n, payment |-> j.payment, facts |-> j.facts, held |-> held]

\* ingestAndReconcile of a new payment.
Match(h, e) ==
    /\ job[h] = Idle
    /\ count < MaxPayments /\ Cardinality(queue) < MaxQueue
    /\ count' = count + 1
    /\ job' = [job EXCEPT ![h] =
                 Matching([n |-> count + 1, payment |-> e[1], facts |-> e[2], held |-> FALSE], TRUE)]
    /\ UNCHANGED <<plan, paid, ref, queue, applied, bookings>>

\* rematchPendingReview takes a payment out of the queue again.
Rematch(h, q) ==
    /\ job[h] = Idle
    /\ job' = [job EXCEPT ![h] = Matching(q, TRUE)]
    /\ queue' = queue \ {q}
    /\ UNCHANGED <<plan, paid, ref, applied, count, bookings>>

\* Only a first portal code is kept.
persistPortalBookingCodeFromPayment(n, p, i) ==
    ref' = IF i # 0 /\ "code" \in p.says /\ ref[i] = 0 THEN [ref EXCEPT ![i] = n] ELSE ref

\* Not booked: refunds, payouts and bulk payments are skipped, the rest is
\* kept for review; the code goes to the best stay in both cases.
ToReview(h) ==
    /\ job[h].at = "matched"
    /\ LET j == job[h] IN
       /\ ~BooksItself(j)
       /\ queue' = IF j.result.decision \in {"BULK_PAYMENT", "REFUND", "PLATFORM_PAYOUT"} THEN queue
                   ELSE queue \cup {Pending(j, j.held)}
       /\ persistPortalBookingCodeFromPayment(j.n, j.payment, j.result.best)
    /\ job' = [job EXCEPT ![h] = Idle]
    /\ UNCHANGED <<plan, paid, applied, count, bookings>>

Line(i, amount) == [stay |-> i, amount |-> amount]

\* The first line's charge is created and recorded locally; done are the
\* lines of payment q booked before it, rest the ones after it.
Charge(h, q, done, lines) ==
    /\ paid' = [paid EXCEPT ![Head(lines).stay] = @ + Head(lines).amount]
    /\ job' = [job EXCEPT ![h] =
                 [at |-> "advance", q |-> q, line |-> Head(lines), done |-> done, rest |-> Tail(lines)]]
    /\ UNCHANGED <<plan, applied, count>>

\* A booking of the payment begins.
Begin(h, q, lines) ==
    /\ bookings < MaxBookings
    /\ bookings' = bookings + 1
    /\ Charge(h, q, << >>, lines)

AutoApply(h) ==
    /\ job[h].at = "matched" /\ BooksItself(job[h])
    /\ Begin(h, Pending(job[h], FALSE), <<Line(job[h].result.best, job[h].payment.amount)>>)
    /\ persistPortalBookingCodeFromPayment(job[h].n, job[h].payment, job[h].result.best)
    /\ UNCHANGED queue

\* confirmReview: staff books a payment in review on a stay of their choice,
\* or on two of them.
confirmReview(h, q, i, k) ==
    /\ job[h] = Idle
    /\ LET amount == q.payment.amount
           half   == amount \div 2
       IN  Begin(h, q, IF i = k THEN <<Line(i, amount)>>
                      ELSE <<Line(i, half), Line(k, amount - half)>>)
    /\ queue' = queue \ {q}
    /\ UNCHANGED ref

skipReview(q) ==
    /\ queue' = queue \ {q}
    /\ UNCHANGED <<plan, paid, job, ref, applied, count, bookings>>

\* Hostaway refuses the automatic charge: the payment is kept for review.
ApplyFails(h) ==
    /\ job[h].at = "matched" /\ BooksItself(job[h])
    /\ job' = [job EXCEPT ![h] = Idle]
    /\ queue' = queue \cup {Pending(job[h], TRUE)}
    /\ UNCHANGED <<plan, paid, ref, applied, count, bookings>>

----------------------------------------------------------------------------
(* The plan of the stay.                                                   *)

\* Where a handler goes when the line in hand is done: the next line, or the
\* payment is recorded as applied.
Done(j) == [at |-> "next", q |-> j.q, done |-> Append(j.done, j.line), rest |-> j.rest]

\* recordPaymentApplied up to its update: the plan and the balance are read.
ReadForApply(h) ==
    /\ job[h].at = "advance"
    /\ LET j == job[h]
           i == j.line.stay
       IN  job' = [job EXCEPT ![h] =
                     IF plan[i] # NoPlan /\ plan[i].enabled
                     THEN [at |-> "advanceWrite", q |-> j.q, line |-> j.line, done |-> j.done,
                           rest |-> j.rest, read |-> plan[i],
                           next |-> applyPaymentToPlan(plan[i], j.line.amount,
                                                       remainingBalance(i), Today)]
                     ELSE Done(j)]
    /\ UNCHANGED <<plan, paid, ref, queue, applied, count, bookings>>

\* Only the three ledger fields are written, and only to the row that was
\* read: the update of a deleted plan fails and is logged.
Write(j) ==
    plan' = IF j.next = NoPlan THEN plan
            ELSE [plan EXCEPT ![j.line.stay].toward = j.next.toward,
                              ![j.line.stay].due    = j.next.due,
                              ![j.line.stay].next   = j.next.next]

WriteApplied(h) ==
    /\ job[h].at = "advanceWrite"
    /\ Write(job[h])
    /\ job' = [job EXCEPT ![h] = Done(job[h])]
    /\ UNCHANGED <<paid, ref, queue, applied, count, bookings>>

NextLine(h) ==
    /\ job[h].at = "next" /\ job[h].rest # << >>
    /\ Charge(h, job[h].q, job[h].done, job[h].rest)
    /\ UNCHANGED <<ref, queue, bookings>>

\* The charge of a later line is refused: the charges of the earlier ones
\* are taken back, their plans are not, and the payment stays in review.
SplitFails(h) ==
    /\ job[h].at = "next" /\ job[h].rest # << >>
    /\ LET d == job[h].done[1] IN paid' = [paid EXCEPT ![d.stay] = @ - d.amount]
    /\ job' = [job EXCEPT ![h] = Idle]
    /\ queue' = queue \cup {job[h].q}
    /\ UNCHANGED <<plan, ref, applied, count, bookings>>

\* All lines are booked: the allocations are stored, an old error is cleared.
Finish(h) ==
    /\ job[h].at = "next" /\ job[h].rest = << >>
    /\ applied' = Append(applied, [q |-> [job[h].q EXCEPT !.held = FALSE], lines |-> job[h].done])
    /\ job' = [job EXCEPT ![h] = Idle]
    /\ UNCHANGED <<plan, paid, ref, queue, count, bookings>>

BookedOn(lines, i) ==
    LET sum[n \in 0..Len(lines)] ==
          IF n = 0 THEN 0
          ELSE sum[n - 1] + IF lines[n].stay = i THEN lines[n].amount ELSE 0
    IN  sum[Len(lines)]

\* Undo removes all charges; after that the plan of each line is taken back
\* and the payment is matched again, for review only.
Undo(h, n) ==
    /\ job[h] = Idle
    /\ paid' = [i \in Ids |-> paid[i] - BookedOn(applied[n].lines, i)]
    /\ applied' = SubSeq(applied, 1, n - 1) \o SubSeq(applied, n + 1, Len(applied))
    /\ job' = [job EXCEPT ![h] = [at |-> "reverse", q |-> applied[n].q, rest |-> applied[n].lines]]
    /\ UNCHANGED <<plan, ref, queue, count, bookings>>

Reversing(q, rest) ==
    IF rest = << >> THEN Matching(q, FALSE) ELSE [at |-> "reverse", q |-> q, rest |-> rest]

\* recordPaymentReversed: a disabled plan is taken back too.
ReadForReverse(h) ==
    /\ job[h].at = "reverse"
    /\ LET line == Head(job[h].rest)
           i == line.stay
       IN  job' = [job EXCEPT ![h] =
                     IF plan[i] = NoPlan THEN Reversing(@.q, Tail(@.rest))
                     ELSE [at |-> "reverseWrite", q |-> @.q, line |-> line,
                           rest |-> Tail(@.rest), read |-> plan[i],
                           next |-> reversePaymentOnPlan(plan[i], line.amount,
                                                         remainingBalance(i))]]
    /\ UNCHANGED <<plan, paid, ref, queue, applied, count, bookings>>

WriteReversed(h) ==
    /\ job[h].at = "reverseWrite"
    /\ Write(job[h])
    /\ job' = [job EXCEPT ![h] = Reversing(@.q, @.rest)]
    /\ UNCHANGED <<paid, ref, queue, applied, count, bookings>>

----------------------------------------------------------------------------
(* Staff edits plans.                                                      *)

\* validateInput and the check of the custom interval.
Valid(u) ==
    /\ u.inst >= 1 /\ u.due >= 0 /\ u.toward >= 0
    /\ u.freq \in Frequencies
    /\ u.freq = "CUSTOM" => u.custom >= 1

\* upsertByHostawayId: the form of the console sends date and sum along
\* (whole); an input that leaves them out keeps them.
upsertByHostawayId(i, u, whole) ==
    /\ Valid(u)
    /\ plan' = [plan EXCEPT ![i] =
                  IF @ = NoPlan \/ whole THEN u
                  ELSE [@ EXCEPT !.enabled = u.enabled, !.inst = u.inst, !.freq = u.freq,
                                 !.custom = u.custom, !.due = u.due]]
    /\ UNCHANGED <<paid, job, ref, queue, applied, count, bookings>>

disablePlan(i) ==
    /\ plan[i] # NoPlan /\ plan[i].enabled
    /\ plan' = [plan EXCEPT ![i].enabled = FALSE]
    /\ UNCHANGED <<paid, job, ref, queue, applied, count, bookings>>

deleteByHostawayId(i) ==
    /\ plan[i] # NoPlan
    /\ plan' = [plan EXCEPT ![i] = NoPlan]
    /\ job' = [h \in Handlers |->
                 IF job[h].at \in {"advanceWrite", "reverseWrite"} /\ job[h].line.stay = i
                 THEN [job[h] EXCEPT !.next = NoPlan] ELSE job[h]]
    /\ UNCHANGED <<paid, ref, queue, applied, count, bookings>>

----------------------------------------------------------------------------
MatchingNext ==
    \/ \E h \in Handlers, e \in Evidence : Match(h, e)
    \/ \E h \in Handlers : AutoApply(h)
    \/ \E h \in Handlers : ToReview(h)
    \/ \E h \in Handlers : ApplyFails(h)
    \/ \E h \in Handlers, q \in queue : Rematch(h, q)
    \/ \E h \in Handlers, q \in queue, c \in Choices : confirmReview(h, q, c[1], c[2])
    \/ \E q \in queue : skipReview(q)
    \/ \E h \in Handlers : ReadForApply(h)
    \/ \E h \in Handlers : WriteApplied(h)
    \/ \E h \in Handlers : NextLine(h)
    \/ \E h \in Handlers : SplitFails(h)
    \/ \E h \in Handlers : Finish(h)
    \/ \E h \in Handlers, n \in DOMAIN applied : Undo(h, n)
    \/ \E h \in Handlers : ReadForReverse(h)
    \/ \E h \in Handlers : WriteReversed(h)
    \/ \E i \in Planned, u \in Upserts, whole \in BOOLEAN : upsertByHostawayId(i, u, whole)
    \/ \E i \in Planned : disablePlan(i)
    \/ \E i \in Planned : deleteByHostawayId(i)

MatchingSpec == MatchingInit /\ [][MatchingNext]_mvars

----------------------------------------------------------------------------
(* Properties.                                                             *)

\* The stores hold what their columns can hold, a stay's charges are the
\* payments booked on it, and a handler works on a stay there is
\* (ReservationPaymentPlan, NotifiedGuestCharge).
MatchingTypeOK ==
    /\ count \in 0..MaxPayments
    /\ \A i \in Ids : plan[i] # NoPlan =>
          /\ plan[i].inst >= 1 /\ plan[i].due >= 0 /\ plan[i].toward >= 0
          /\ plan[i].freq \in Frequencies
          /\ plan[i].next # NoDate => plan[i].next.d \in 1..DaysIn(plan[i].next.m)
    /\ \A i \in Ids : paid[i] >= 0
    /\ \A h \in Handlers : job[h] # Idle =>
          \/ job[h].at = "matched" /\ job[h].result.best \in Ids \cup {0}
          \/ job[h].at \in {"advance", "next", "reverse"}
          \/ job[h].at \in {"advanceWrite", "reverseWrite"} /\ job[h].line.stay \in Ids

Matched == {job[h] : h \in {g \in Handlers : job[g].at = "matched"}}
Booking == {j \in Matched : BooksItself(j)}

\* Money a guest sent is never booked without a person on a stay the portal
\* collects for, nor a portal's payout on a direct stay, unless number or
\* booking reference of the stay was in the transfer (the filter of match).
PortalMoneyApart ==
    \A j \in Booking :
        LET s == j.stays[j.result.best] IN
        ("settlement" \in j.payment.says) # ("portal" \in s.facts)
            => s.facts \cap {"id", "code", "codeNote", "ref"} # {}

\* A stay that is paid in full gets no payment by itself unless the transfer
\* names it, whatever its plan still claims to be due (the filter of match
\* against nextDueAmount, which staff can set and an undo can raise).
PaidStayNotBooked ==
    \A j \in Booking :
        LET s == j.stays[j.result.best] IN
        s.total > 0 /\ s.total - s.paid <= 1
            => s.facts \cap {"id", "code", "codeNote", "ref"} # {}

Reversed(s) == [i \in DOMAIN s |-> s[Len(s) + 1 - i]]
Sure(p, s) ==
    LET c == scoreReservation(p, s)
    IN  strongLink(c) \/ hasStrongInstallmentPlanMatch(c)

\* Two orders of the stays never book the same payment on two different
\* stays, as long as no two stays have a link of their own to the transfer
\* (the sort of match breaks ties by the order the database returns).
ChoiceIsOrderFree ==
    \A j \in Booking :
        LET n == Len(j.stays)
            back == match(j.payment, Reversed(j.stays))
        IN  \/ back.decision = "UNAMBIGUOUS" => back.best = n + 1 - j.result.best
            \/ Cardinality({i \in DOMAIN j.stays : Sure(j.payment, j.stays[i])}) >= 2

\* A second stay of the same guest with exactly the same evidence makes an
\* automatic booking a case for review, except where each of the two would
\* be a sure match on its own (canAutoApply and the ambiguity gap).
TwinGoesToReview ==
    \A j \in Booking :
        LET best == j.stays[j.result.best]
            twin == match(j.payment, Append(j.stays, best))
        IN  twin.decision = "UNAMBIGUOUS" => Sure(j.payment, best)

\* Writing a payment into a plan never leaves more due than the stay still
\* owes, and nothing once it is paid (applyPaymentToPlan).
DueFitsBalance ==
    [][\A h \in Handlers :
          WriteApplied(h) /\ job[h].next # NoPlan =>
             LET i == job[h].line.stay
             IN  plan'[i].due <= (IF remainingBalance(i) <= 50 THEN 0 ELSE remainingBalance(i))]_mvars

\* A monthly plan asks once in every month: a payment moves the date to the
\* next month or leaves it, an undo to the month before or leaves it, unless
\* staff have set another date since the plan was read (advanceDueDate and
\* rewindDueDate at the end of a month).
OncePerMonth ==
    [][\A h \in Handlers :
          LET j == job[h]
              i == j.line.stay
          IN  /\ WriteApplied(h) \/ WriteReversed(h)
              /\ j.next # NoPlan /\ j.read.freq = "MONTHLY"
              /\ plan[i].next # NoDate /\ plan[i].next = j.read.next
              /\ plan'[i].next # plan[i].next
              => plan'[i].next.m - plan[i].next.m =
                    IF j.at = "advanceWrite" THEN 1 ELSE 0 - 1]_mvars

\* A payment is booked without a person only where that cannot be wrong: not
\* across the portal's border, not on a paid stay, not by the order of the
\* rows, not against a twin.
MatchingInv ==
    /\ MatchingTypeOK
    /\ PortalMoneyApart
    /\ PaidStayNotBooked
    /\ ChoiceIsOrderFree
    /\ TwinGoesToReview

\* A plan follows its payments, in what is due and in when.
PlanFollows == DueFitsBalance /\ OncePerMonth
=============================================================================
