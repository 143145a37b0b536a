-------------------------- MODULE MCCheck24Booking --------------------------
(* Instances of Check24Booking for TLC.                                    *)
EXTENDS Check24Booking, TLC

\* Bookings and workers are only compared for equality.
Symmetry == Permutations(Bookings) \cup Permutations(Workers)
=============================================================================
