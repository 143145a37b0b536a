----------------------------- MODULE MCOffice ------------------------------
(***************************************************************************)
(* The safety of the office's parts, side by side: a behaviour picks one   *)
(* of them and stays with it, the others rest. The parts share no state,   *)
(* so nothing is lost by looking at them one by one.                       *)
(***************************************************************************)
EXTENDS MCConsole, MCPaymentMatching, MCPortalReminders, LogRetention, PurgeClock,
        PermissionEditor

VARIABLE part   \* the part this behaviour is about

Days(debug, oper, pii, max) == [debug |-> debug, oper |-> oper, pii |-> pii, max |-> max]

\* An ordinary environment; one with limits too large and one unreadable.
MCEnvDays == {Days(14, 30, 30, 90), Days(60, 365, NaN, 365)}

FormEdit(days, debugOn, purgeOn) ==
  [debug |-> days.debug, oper |-> days.oper, pii |-> days.pii, max |-> days.max,
   debugOn |-> debugOn, operOn |-> debugOn, piiOn |-> TRUE, purgeOn |-> purgeOn]

MCFormEdits == {FormEdit(Days(7, 90, 30, 30), FALSE, FALSE),
                FormEdit(Days(0, 30, 10, 90), TRUE, TRUE)}

-----------------------------------------------------------------------------
ReminderAtRest ==
  /\ ReminderInit
  /\ DOMAIN rules = Keys /\ \A r \in Reservations : row[r].channel = "travanto"

MatchingAtRest == MatchingInit /\ \A i \in Ids : paid[i] = 0

OfficeInit ==
  /\ part \in {"matching", "reminders", "retention", "clock", "lists", "access",
              "permissions", "check24"}
  /\ IF part = "matching" THEN MatchingInit ELSE MatchingAtRest
  /\ IF part = "reminders" THEN ReminderInit ELSE ReminderAtRest
  /\ LogInit
  /\ ClockInit /\ (part = "clock" \/ summer)
  /\ IF part = "lists" THEN ListInit ELSE ListAtRest
  /\ IF part = "access" THEN AccessInit ELSE AccessAtRest
  /\ EditorInit
  /\ IF part = "check24" THEN DeskInit ELSE DeskAtRest

OfficeNext ==
  /\ part' = part
  /\ \/ /\ part = "matching" /\ MatchingNext
        /\ UNCHANGED <<rvars, logVars, clockVars, listVars, accessVars, editorVars, deskVars>>
     \/ /\ part = "reminders" /\ ReminderNext
        /\ UNCHANGED <<mvars, logVars, clockVars, listVars, accessVars, editorVars, deskVars>>
     \/ /\ part = "retention" /\ LogNext
        /\ UNCHANGED <<mvars, rvars, clockVars, listVars, accessVars, editorVars, deskVars>>
     \/ /\ part = "clock" /\ ClockNext
        /\ UNCHANGED <<mvars, rvars, logVars, listVars, accessVars, editorVars, deskVars>>
     \/ /\ part = "lists" /\ ListNext
        /\ UNCHANGED <<mvars, rvars, logVars, clockVars, accessVars, editorVars, deskVars>>
     \/ /\ part = "access" /\ AccessNext
        /\ UNCHANGED <<mvars, rvars, logVars, clockVars, listVars, editorVars, deskVars>>
     \/ /\ part = "permissions" /\ EditorNext
        /\ UNCHANGED <<mvars, rvars, logVars, clockVars, listVars, accessVars, deskVars>>
     \/ /\ part = "check24" /\ DeskNext
        /\ UNCHANGED <<mvars, rvars, logVars, clockVars, listVars, accessVars, editorVars>>

OfficeSpec ==
  OfficeInit /\ [][OfficeNext]_<<part, mvars, rvars, logVars, clockVars, listVars, accessVars,
                                 editorVars, deskVars>>
=============================================================================
