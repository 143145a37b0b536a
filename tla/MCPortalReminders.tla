------------------------- MODULE MCPortalReminders -------------------------
(* Instances of PortalReminders for TLC.                                   *)
EXTENDS PortalReminders, TLC

CONSTANTS r1

\* Days until the stay.
MCArrival == (r1 :> 30)
MCInstalled == {Keys, 1..8}
MCEdits == {[enabled |-> FALSE, skip |-> FALSE, hostPct |-> 70],
            [enabled |-> TRUE, skip |-> TRUE, hostPct |-> 70],
            [enabled |-> TRUE, skip |-> FALSE, hostPct |-> 150]}
=============================================================================
