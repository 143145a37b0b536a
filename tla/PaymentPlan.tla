---------------------------- MODULE PaymentPlan ----------------------------
(***************************************************************************)
(* The ledger of an installment plan, models payment-plan.util.ts: what is *)
(* due next and when, after a payment is applied or taken back.  Amounts   *)
(* are in cents.  A date is a month, counted through the years, and a day  *)
(* of it; leap days are left out.                                          *)
(***************************************************************************)
EXTENDS Integers

CONSTANT NoDate

Frequencies == {"WEEKLY", "SEMI_MONTHLY", "MONTHLY", "CUSTOM"}

Lesser(a, b) == IF a < b THEN a ELSE b
Greater(a, b) == IF a > b THEN a ELSE b

----------------------------------------------------------------------------
(* Dates.                                                                  *)

DaysBefore == <<0, 31, 59, 90, 120, 151, 181, 212, 243, 273, 304, 334, 365>>
MonthOfYear(m) == ((m - 1) % 12) + 1
DaysIn(m) == DaysBefore[MonthOfYear(m) + 1] - DaysBefore[MonthOfYear(m)]

DayNumber(date) ==
    365 * ((date.m - 1) \div 12) + DaysBefore[MonthOfYear(date.m)] + date.d

DateOf(n) ==
    LET year == (n - 1) \div 365
        day  == (n - 1) % 365
        m    == CHOOSE k \in 1..12 : DaysBefore[k] <= day /\ day < DaysBefore[k + 1]
    IN  [m |-> 12 * year + m, d |-> day - DaysBefore[m] + 1]

addDays(date, n) == DateOf(DayNumber(date) + n)

\* The day after the last of a short month becomes its last day.
addMonths(date, k) ==
    [m |-> date.m + k, d |-> Lesser(date.d, DaysIn(date.m + k))]

Period(plan) ==
    CASE plan.freq = "WEEKLY"       -> 7
      [] plan.freq = "SEMI_MONTHLY" -> 14
      [] plan.freq = "CUSTOM"       -> IF plan.custom > 0 THEN plan.custom ELSE 30

advanceDueDate(date, plan) ==
    IF plan.freq = "MONTHLY" THEN addMonths(date, 1) ELSE addDays(date, Period(plan))

rewindDueDate(date, plan) ==
    IF plan.freq = "MONTHLY" THEN addMonths(date, 0 - 1) ELSE addDays(date, 0 - Period(plan))

----------------------------------------------------------------------------
(* Amounts.                                                                *)

\* Within one euro, or half a percent of the second amount.
amountsClose(a, b) ==
    (IF a < b THEN b - a ELSE a - b) * 200 <= Greater(20000, b)

\* Plausible slip: the amount due is not cut to what is still open.
applyPaymentToPlanMut(plan, amount, remaining, today) ==
    LET covers == amountsClose(amount, plan.due) \/ amount + 50 >= plan.due
    IN  [plan EXCEPT
           !.toward = @ + amount,
           !.next   = IF covers
                      THEN advanceDueDate(IF @ = NoDate THEN today ELSE @, plan)
                      ELSE @,
           !.due    = IF covers THEN plan.inst ELSE plan.due - amount]

\* remaining is the open balance of the stay.
applyPaymentToPlan(plan, amount, remaining, today) ==
    LET covers == amountsClose(amount, plan.due) \/ amount + 50 >= plan.due
        due    == IF covers THEN plan.inst ELSE plan.due - amount
    IN  [plan EXCEPT
           !.toward = @ + amount,
           !.next   = IF covers
                      THEN advanceDueDate(IF @ = NoDate THEN today ELSE @, plan)
                      ELSE @,
           !.due    = IF remaining <= 50 THEN 0 ELSE Lesser(due, remaining)]

\* A reversed amount that looks like an installment takes the schedule back.
reversePaymentOnPlan(plan, amount, remaining) ==
    LET whole == \/ amountsClose(amount, plan.inst)
                 \/ amountsClose(amount, plan.due)
                 \/ amount + 50 >= plan.inst
        due   == IF whole THEN plan.inst ELSE plan.due + amount
    IN  [plan EXCEPT
           !.toward = Greater(0, @ - amount),
           !.next   = IF whole /\ @ # NoDate THEN rewindDueDate(@, plan) ELSE @,
           !.due    = IF remaining > 0 THEN Lesser(Greater(due, amount), remaining) ELSE due]
=============================================================================
