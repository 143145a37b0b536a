---------------------- MODULE MCPaymentReconciliation ----------------------
(* Instances of PaymentReconciliation for TLC.                             *)
EXTENDS PaymentReconciliation, TLC

\* Payments, reservations and workers are only compared for equality.
Symmetry ==
    Permutations(Payments) \cup Permutations(Reservations) \cup Permutations(Workers)
=============================================================================
