--------------------------- MODULE MCOfficeLive ----------------------------
(***************************************************************************)
(* What must eventually happen in the office, side by side as in MCOffice: *)
(* the reminders of the daily job, a list that refreshes itself, the end   *)
(* of the CHECK24 spinner. The console's accounts stay at rest.            *)
(***************************************************************************)
EXTENDS MCConsole, MCPortalReminders

VARIABLE part   \* the part this behaviour is about

FewTurns == [b \in Boards |-> 2]

OneClick == {[saves |-> 1, clicks |-> 1]}

-----------------------------------------------------------------------------
ReminderAtRest ==
  /\ ReminderInit
  /\ DOMAIN rules = Keys /\ \A r \in Reservations : row[r].channel = "travanto"

LiveInit ==
  /\ part \in {"reminders", "lists", "check24"}
  /\ IF part = "reminders" THEN ReminderInit ELSE ReminderAtRest
  /\ IF part = "lists" THEN ListInit ELSE ListAtRest
  /\ AccessAtRest
  /\ IF part = "check24" THEN DeskInit ELSE DeskAtRest

LiveNext ==
  /\ part' = part
  /\ \/ part = "reminders" /\ ReminderNext /\ UNCHANGED <<listVars, accessVars, deskVars>>
     \/ part = "lists" /\ ListNext /\ UNCHANGED <<rvars, accessVars, deskVars>>
     \/ part = "check24" /\ DeskNext /\ UNCHANGED <<rvars, listVars, accessVars>>

\* Each part has the fairness of its own specification (ReminderSpec,
\* ListFairness, DeskFairness) when a behaviour is about it.
LiveFairness ==
  /\ WF_rvars(part = "reminders" /\ morningUnpaidReminder)
  /\ WF_rvars(part = "reminders" /\ JobStep)
  /\ WF_rvars(part = "reminders" /\ AdminSeeds)
  /\ WF_rvars(part = "reminders" /\ NextDay)
  /\ WF_listVars(part = "lists" /\ manageFonioActivityPoll)
  /\ WF_listVars(part = "lists" /\ \E i \in DOMAIN inFlight : serve(i))
  /\ WF_listVars(part = "lists" /\ \E i \in DOMAIN inFlight : showList(i))
  /\ WF_deskVars(part = "check24" /\ (pollTick \/ lateTick))
  /\ WF_deskVars(/\ part = "check24"
                 /\ \E c \in deskCalls : answerLoad(c) \/ answerSync(c) \/ answerWrite(c))
  /\ WF_deskVars(/\ part = "check24"
                 /\ \E c \in deskCalls : \/ pollAnswered(c) \/ loadCheck24(c)
                                         \/ syncAnswered(c) \/ settingsSaved(c))

LiveSpec ==
  /\ LiveInit /\ [][LiveNext]_<<part, rvars, listVars, accessVars, deskVars>>
  /\ LiveFairness
=============================================================================
