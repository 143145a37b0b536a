----------------------------- MODULE MCConsole -----------------------------
(* Values of the console's constants for TLC.                              *)
EXTENDS ConsoleLists, AdminAccess, Check24Desk

MCRowKinds ==
  [requests |-> {[status |-> "PENDING", sent |-> FALSE],
                 [status |-> "FORWARDED", sent |-> FALSE],
                 [status |-> "AUTO_APPROVED", sent |-> TRUE]},
   fonio |-> {[action |-> "guest_verify", outcome |-> "none", verified |-> "no", code |-> 200],
              [action |-> "availability_search", outcome |-> "none", verified |-> "none",
               code |-> 0]},
   logs |-> {[source |-> "fonio", level |-> "DEBUG", pii |-> TRUE],
             [source |-> "fonio", level |-> "INFO", pii |-> TRUE],
             [source |-> "admin", level |-> "SECURITY", pii |-> FALSE]},
   reservations |-> {[status |-> "confirmed", isPaid |-> FALSE, charged |-> TRUE, today |-> FALSE],
                     [status |-> "cancelled", isPaid |-> FALSE, charged |-> FALSE, today |-> TRUE],
                     [status |-> "confirmed", isPaid |-> TRUE, charged |-> TRUE, today |-> FALSE]}]

MCTabs == [requests |-> {"all", "pending", "failed", "forwarded", "auto"},
           fonio |-> {"all", "availability_search"},
           logs |-> {"all", "fonio", "admin"},
           reservations |-> {"all", "payment_due", "cancelled_today"}]

MCSubs == [requests |-> {"all", "failed"}, fonio |-> {"all", "failed"},
           logs |-> {"all", "debug", "pii", "operational"},
           reservations |-> {"all", "partial"}]

MCFlags == {[debugOn |-> TRUE, piiOn |-> TRUE, operOn |-> TRUE],
            [debugOn |-> FALSE, piiOn |-> TRUE, operOn |-> FALSE]}

MCTurns == [requests |-> 3, fonio |-> 2, logs |-> 2, reservations |-> 3]

SuperAdmin == [role |-> "SUPER_ADMIN", active |-> TRUE]

\* Two super admins and a free name; one with a legacy and an inactive account.
MCStart == {[a |-> SuperAdmin, b |-> SuperAdmin, c |-> Absent],
            [a |-> SuperAdmin, b |-> [role |-> "EDITOR", active |-> TRUE],
             c |-> [role |-> "ADMIN", active |-> FALSE]]}

MCNav == [SUPER_ADMIN |-> {"dashboard", "payments", "users"}, ADMIN |-> {"payments"},
          BACK_OFFICE |-> {"dashboard", "payments"}, EDITOR |-> {"users"},
          NONE |-> {}]

MCBudgets == {[saves |-> 2, clicks |-> 0], [saves |-> 1, clicks |-> 2],
              [saves |-> 0, clicks |-> 4]}

Flat(data, prices, lastError, offline) ==
  [data |-> data, availability |-> prices, prices |-> prices,
   lastError |-> lastError, offline |-> offline]

MCFlat == {Flat(TRUE, TRUE, TRUE, FALSE), Flat(TRUE, FALSE, TRUE, FALSE),
           Flat(TRUE, TRUE, FALSE, TRUE)}

MCPortals ==
  {[job |-> IF on THEN "completed" ELSE "none", on |-> on, content |-> on,
    alerts |-> FALSE,
    mappings |-> [f \in Flats |-> IF f = 1 THEN Flat(TRUE, FALSE, TRUE, FALSE)
                                  ELSE Flat(TRUE, TRUE, FALSE, TRUE)]] : on \in BOOLEAN}

-----------------------------------------------------------------------------
(* A part that a behaviour is not about rests in one initial state.        *)

ListAtRest ==
  /\ ListInit /\ board = "fonio"
  /\ db = [i \in 1..(MaxRows - 1) |->
             Row(i, CHOOSE kind \in RowKinds["fonio"] : kind.verified = "no")]

AccessAtRest == AccessInit /\ users["c"] = Absent /\ acts.saves = 1

DeskAtRest == DeskInit /\ portal.on
=============================================================================
