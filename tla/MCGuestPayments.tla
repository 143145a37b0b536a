--------------------------- MODULE MCGuestPayments ---------------------------
(* Instances of GuestPayments for TLC.                                     *)
EXTENDS GuestPayments

\* A portal that collects the whole price at import, and cancels.
ImportRule ==
    [enabled |-> TRUE, depositPct |-> 0, depositDays |-> None, hostPct |-> 100,
     dueBy |-> None, deadlineDays |-> 2, reminderDays |-> 1,
     autoCancel |-> TRUE, autoSend |-> TRUE, onImport |-> TRUE]

\* A direct booking: deposit after booking, balance before arrival, near
\* enough to each other that one amount can pass as the one and not the other.
DepositRule ==
    [enabled |-> TRUE, depositPct |-> 49, depositDays |-> 1, hostPct |-> 100,
     dueBy |-> 3, deadlineDays |-> 1, reminderDays |-> 1,
     autoCancel |-> TRUE, autoSend |-> TRUE, onImport |-> FALSE]

DisabledRule == [ImportRule EXCEPT !.enabled = FALSE]

MCRules == {ImportRule, DepositRule, DisabledRule}
=============================================================================
