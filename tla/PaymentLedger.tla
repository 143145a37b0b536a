--------------------------- MODULE PaymentLedger ---------------------------
(***************************************************************************)
(* What the payment handlers promise to the books, without handlers: the   *)
(* charges posted in Hostaway and the lines that assign payments to        *)
(* reservations.  A line is assigned once and to the charge that was made  *)
(* for it, a posted charge only ever becomes cancelled, and a payment is   *)
(* taken back as a whole.  The key of PaymentAllocation (schema.prisma) is *)
(* what keeps handlers in flight at the same time from breaking this.      *)
(***************************************************************************)
EXTENDS Naturals

CONSTANTS Payments, Reservations, MaxCharges, None, Offline

VARIABLES
    lines,      \* lines[p][r]: the charge of payment p on reservation r
    charges     \* what Hostaway keeps for each charge

ledger == <<lines, charges>>

LedgerIds == 1..MaxCharges
Free == [r \in Reservations |-> None]

LedgerInit ==
    /\ lines = [p \in Payments |-> Free]
    /\ charges = [c \in LedgerIds |-> [st |-> "unused", res |-> None, pay |-> None]]

\* A charge is posted for one payment on one reservation, ahead of its line.
Post(p, r) ==
    /\ \E c \in LedgerIds :
          /\ charges[c].st = "unused"
          /\ charges' = [charges EXCEPT ![c] = [st |-> "paid", res |-> r, pay |-> p]]
    /\ UNCHANGED lines

Cancel(c) ==
    /\ charges[c].st = "paid"
    /\ charges' = [charges EXCEPT ![c].st = "cancelled"]
    /\ UNCHANGED lines

\* A payment gets its lines, all at once and only where it has none: each is
\* a charge made for just this payment and reservation, or local.
Assign(p, new) ==
    /\ \A r \in Reservations :
          \/ new[r] = None
          \/ lines[p][r] = None /\ new[r] = Offline
          \/ /\ lines[p][r] = None /\ new[r] \in LedgerIds
             /\ charges[new[r]].st # "unused"
             /\ charges[new[r]].res = r /\ charges[new[r]].pay = p
    /\ lines' = [lines EXCEPT ![p] =
                   [r \in Reservations |-> IF new[r] = None THEN @[r] ELSE new[r]]]
    /\ UNCHANGED charges

\* The payment is taken back: none of its lines stays.
Release(p) ==
    /\ lines' = [lines EXCEPT ![p] = Free]
    /\ UNCHANGED charges

LedgerNext ==
    \/ \E p \in Payments, r \in Reservations : Post(p, r)
    \/ \E c \in LedgerIds : Cancel(c)
    \/ \E p \in Payments :
          \E new \in [Reservations -> LedgerIds \cup {None, Offline}] : Assign(p, new)
    \/ \E p \in Payments : Release(p)

LedgerSpec == LedgerInit /\ [][LedgerNext]_ledger
=============================================================================
