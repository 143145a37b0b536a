-------------------------- MODULE PortalReminders --------------------------
(***************************************************************************)
(* What a portal's payment rule says is still owed for a stay, and the     *)
(* daily job that asks for it.  Models portal-payment-rules.util.ts,       *)
(* portal-payment-rules.service.ts and notifyUnpaidBeforeArrival of        *)
(* payment-alert.service.ts with its scheduler.                            *)
(*                                                                         *)
(* Amounts are in cents, days are calendar days in Berlin.  A rule's       *)
(* matchers are the channels whose name, notes or booking code they find.  *)
(***************************************************************************)
EXTENDS Integers, Sequences, FiniteSets

CONSTANTS
    Reservations,
    Channels,       \* channels a stay can come from
    Arrival,        \* day each stay begins, one function
    Nights,         \* its length
    Total,          \* its price
    Receipts,        \* payments that can be booked on it
    Installed,      \* places of the rules an installation may have stored
    Paying,         \* stays that are paid or cancelled in the model
    Edited,         \* rules staff edits
    Edits,          \* what they save: [enabled, skip, hostPct]
    Take,           \* reservations the job loads at most
    JobDays,        \* days the server is up when the job is due
    MaxFaults,      \* failing calls in one behaviour
    None

Null == None

\* Null is the absence of a setting.
Rule(key, channels, assumed, untilArr, untilDep, hostPct, dueBy, dueByDep, grace, inbox, skip) ==
    [key |-> key, channels |-> channels, fallback |-> key = "direct", enabled |-> TRUE,
     assumed |-> assumed, untilArr |-> untilArr, untilDep |-> untilDep, hostPct |-> hostPct,
     dueBy |-> dueBy, dueByDep |-> dueByDep, grace |-> grace, inbox |-> inbox, skip |-> skip]

\* Stays the host collects for: CHECK24, and whatever no rule finds.
Check24Rule == Rule("check24", {"check24"}, 0, Null, Null, 100, 28, Null, Null, FALSE, FALSE)
DirectRule == Rule("direct", {}, 0, Null, Null, 70, 28, Null, Null, FALSE, FALSE)

\* In their sort order.
DEFAULT_PORTAL_PAYMENT_RULES ==
    <<Rule("airbnb",     {"airbnb"},   100, Null, Null,   0, Null, Null, Null, FALSE, TRUE),
      Rule("bookingcom", {"booking"},  100, Null, Null,   0, Null, Null, Null, FALSE, TRUE),
      Rule("vrbo",       {"vrbo"},     100, Null, Null,   0, Null, Null, Null, FALSE, TRUE),
      Rule("expedia",    {"expedia"},  100, Null, Null,   0, Null, Null, Null, FALSE, TRUE),
      Rule("agoda",      {"agoda"},    100, Null, Null,   0, Null, Null, Null, FALSE, TRUE),
      Rule("hometogo",   {"hometogo"}, 100, Null,    7, 100, Null,   14, Null, FALSE, FALSE),
      Rule("interhome",  {"interhome"},100,    7, Null, 100,    3, Null, Null, FALSE, FALSE),
      Rule("atraveo",    {"atraveo"},  100,    7, Null, 100,    3, Null, Null, FALSE, FALSE),
      Rule("travanto",   {"travanto"},  30, Null, Null,  70,   21, Null,    7, TRUE,  FALSE),
      Check24Rule, DirectRule>>

\* A stored rule is known by its place in the sort order.
Keys == DOMAIN DEFAULT_PORTAL_PAYMENT_RULES

\* The first enabled rule that finds the channel, else the enabled fallback.
matchPortalRule(channel, rules) ==
    LET found == {k \in DOMAIN rules : rules[k].enabled /\ channel \in rules[k].channels}
        fall  == {k \in DOMAIN rules : rules[k].enabled /\ rules[k].fallback}
        first(ks) == rules[CHOOSE k \in ks : \A l \in ks : k <= l]
    IN  IF found # {} THEN first(found) ELSE IF fall # {} THEN first(fall) ELSE None

----------------------------------------------------------------------------
(* What is owed.                                                           *)

NonNeg(n) == IF n < 0 THEN 0 ELSE n
Share(total, pct) == (total * pct) \div 100

Owed(outstanding, remind, inbox) ==
    [outstanding |-> outstanding, remind |-> remind, inbox |-> inbox]
Nothing == Owed(0, FALSE, FALSE)

\* The portal pays out after the stay.
AfterStay(paid, since, rule) ==
    LET open == NonNeg(Share(Total, IF rule.hostPct = 0 THEN 100 ELSE rule.hostPct) - paid)
    IN  IF \/ since <= rule.untilDep
           \/ paid + 100 >= Share(Total, 70) /\ paid <= Total + 100
           \/ open <= 100
        THEN Nothing
        ELSE Owed(open, ~rule.skip /\ (rule.dueByDep # None => since > rule.dueByDep), FALSE)

\* The host's share is due before arrival.
BeforeStay(paid, days, rule) ==
    LET open == NonNeg(Share(Total, rule.hostPct) - paid)
        due  == rule.dueBy # None /\ days <= rule.dueBy
    IN  IF (rule.untilArr # None /\ days > rule.untilArr) \/ open <= 100
        THEN Nothing
        ELSE IF rule.skip
        THEN Owed(open, FALSE, FALSE)
        ELSE Owed(open,
                  IF rule.dueBy = None THEN days <= 28
                  ELSE due /\ (rule.grace # None => days <= rule.dueBy - rule.grace),
                  due /\ rule.inbox)

evaluatePortalBalance(paid, isPaid, days, since, rule) ==
    IF isPaid \/ Total <= 0
    THEN Nothing
    ELSE IF rule.untilDep # None
    THEN AfterStay(paid, since, rule)
    ELSE BeforeStay(paid, days, rule)

\* Days are numbered, prices and charges are whole cents, and an installation
\* has stored some of the default rules.
ASSUME ReminderAssumption ==
    /\ IsFiniteSet(Reservations) /\ Paying \subseteq Reservations
    /\ Arrival \in [Reservations -> Int] /\ Nights \in Nat
    /\ Total \in Int /\ Receipts \subseteq Int
    /\ Installed \subseteq SUBSET Keys
    /\ Edits \subseteq [enabled : BOOLEAN, skip : BOOLEAN, hostPct : Int]
    /\ Take \in Nat /\ MaxFaults \in Nat /\ JobDays \subseteq Nat
    /\ None \notin Int

----------------------------------------------------------------------------
VARIABLES
    today,
    rules,    \* stored rules by key
    seeding,  \* callers of ensureDefaults and the keys each found missing
    row,      \* reservation rows
    remote,   \* Fully Paid in Hostaway
    cron,     \* the daily job: what it loaded and where it is
    ranToday, \* it has run today
    mails,    \* reminders the office really received, by stay
    posts,    \* payment requests that really reached the inbox
    asked,    \* for each stay, what the job saw when it reminded the office
    faults

rvars == <<today, rules, seeding, row, remote, cron, ranToday, mails, posts, asked, faults>>

IdleJob == [at |-> "idle", list |-> << >>, rules |-> << >>]
Callers == {"job", "admin"}

\* A stay is imported with nothing sent and nothing paid.
NewRow(channel) ==
    [channel |-> channel, live |-> TRUE, paid |-> 0, isPaid |-> FALSE,
     reminded |-> FALSE, requested |-> FALSE]

ReminderInit ==
    /\ today = 0 \* the stay is imported
    /\ \E keys \in Installed : rules = [k \in keys |-> DEFAULT_PORTAL_PAYMENT_RULES[k]]
    /\ seeding = [c \in Callers |-> None]
    /\ \E ch \in [Reservations -> Channels] : row = [r \in Reservations |-> NewRow(ch[r])]
    /\ remote = [r \in Reservations |-> FALSE]
    /\ cron = IdleJob
    /\ ranToday = FALSE
    /\ mails = [r \in Reservations |-> 0]
    /\ posts = [r \in Reservations |-> 0]
    /\ asked = [r \in Reservations |-> None]
    /\ faults = 0

berlinDaysUntil(r) == Arrival[r] - today
berlinDaysSinceDeparture(r) == today - (Arrival[r] + Nights)

----------------------------------------------------------------------------
(* Rules.                                                                  *)

\* ensureDefaults reads which keys are there ...
ensureDefaults(c) ==
    /\ seeding[c] = None
    /\ seeding' = [seeding EXCEPT ![c] = Keys \ DOMAIN rules]

Seeded(missing) ==
    [k \in DOMAIN rules \cup missing |->
        IF k \in DOMAIN rules THEN rules[k] ELSE DEFAULT_PORTAL_PAYMENT_RULES[k]]

\* ... and createMany inserts the missing ones, or fails as a whole when one
\* has been inserted meanwhile.
CanSeed(c) == seeding[c] \cap DOMAIN rules = {}

\* Staff opens the rules page (with nothing missing nothing happens).
AdminLists ==
    /\ Keys \ DOMAIN rules # {}
    /\ ensureDefaults("admin")
    /\ UNCHANGED <<today, rules, row, remote, cron, ranToday, mails, posts, asked, faults>>

AdminSeeds ==
    /\ seeding["admin"] # None
    /\ rules' = IF CanSeed("admin") THEN Seeded(seeding["admin"]) ELSE rules
    /\ seeding' = [seeding EXCEPT !["admin"] = None]
    /\ UNCHANGED <<today, row, remote, cron, ranToday, mails, posts, asked, faults>>

clampPercent(n) == IF n > 100 THEN 100 ELSE NonNeg(n)

\* PortalPaymentRulesService.update: staff switches a rule off or on, its
\* reminders off, or changes the host's share.
UpdateRule(k, e) ==
    /\ k \in DOMAIN rules
    /\ seeding["admin"] = None
    /\ rules' = [rules EXCEPT ![k].enabled = e.enabled, ![k].skip = e.skip,
                             ![k].hostPct = clampPercent(e.hostPct)]
    /\ UNCHANGED <<today, seeding, row, remote, cron, ranToday, mails, posts, asked, faults>>

----------------------------------------------------------------------------
(* The daily job.                                                          *)

PORTAL_PAYMENT_LOOKAHEAD_DAYS == 40
PORTAL_PAYOUT_LOOKBACK_DAYS == 90

\* Plausible slip: a stay whose guest was asked is not looked at any more.
CandidateMut(r) ==
    /\ row[r].live
    /\ \/ berlinDaysUntil(r) \in 0..PORTAL_PAYMENT_LOOKAHEAD_DAYS
       \/ /\ berlinDaysSinceDeparture(r) <= PORTAL_PAYOUT_LOOKBACK_DAYS
          /\ 0 - berlinDaysSinceDeparture(r) <= PORTAL_PAYMENT_LOOKAHEAD_DAYS
    /\ ~row[r].reminded /\ ~row[r].requested

Candidate(r) ==
    /\ row[r].live
    /\ \/ berlinDaysUntil(r) \in 0..PORTAL_PAYMENT_LOOKAHEAD_DAYS
       \/ /\ berlinDaysSinceDeparture(r) <= PORTAL_PAYOUT_LOOKBACK_DAYS
          /\ 0 - berlinDaysSinceDeparture(r) <= PORTAL_PAYMENT_LOOKAHEAD_DAYS
    /\ ~row[r].reminded \/ ~row[r].requested

\* The candidates by arrival; stays of one day come in any order.
Orders ==
    LET found == {r \in Reservations : Candidate(r)}
    IN  {q \in [1..Cardinality(found) -> found] :
            \A i, j \in DOMAIN q : i < j => q[i] # q[j] /\ Arrival[q[i]] <= Arrival[q[j]]}

\* The first Take of them, each with the row as loaded.
Loaded(q) ==
    [i \in 1..(IF Len(q) < Take THEN Len(q) ELSE Take) |-> [id |-> q[i], row |-> row[q[i]]]]

morningUnpaidReminder ==
    /\ cron.at = "idle" /\ ~ranToday
    /\ ensureDefaults("job")
    /\ \E q \in Orders : cron' = [at |-> "rules", list |-> Loaded(q), rules |-> << >>]
    /\ ranToday' = TRUE
    /\ UNCHANGED <<today, rules, row, remote, mails, posts, asked, faults>>

\* The rules are listed; an insert that fails ends the job for today.
JobRules ==
    /\ cron.at = "rules"
    /\ seeding' = [seeding EXCEPT !["job"] = None]
    /\ IF CanSeed("job")
       THEN /\ rules' = Seeded(seeding["job"])
            /\ cron' = [at |-> "row", list |-> cron.list, rules |-> Seeded(seeding["job"])]
       ELSE rules' = rules /\ cron' = IdleJob
    /\ UNCHANGED <<today, row, remote, ranToday, mails, posts, asked, faults>>

Cur == Head(cron.list)
JobRule == matchPortalRule(Cur.row.channel, cron.rules)
NextRow == [at |-> "row", list |-> Tail(cron.list), rules |-> cron.rules]

\* Stays the rule has nothing to say about today.
Skipped ==
    \/ JobRule = None
    \/ JobRule.untilDep = None /\ berlinDaysUntil(Cur.id) < 0
    \/ JobRule.untilDep # None /\ berlinDaysSinceDeparture(Cur.id) < 0

JobSkips ==
    /\ cron.at = "row" /\ cron.list # << >> /\ Skipped
    /\ cron' = NextRow
    /\ UNCHANGED <<today, rules, seeding, row, remote, ranToday, mails, posts, asked, faults>>

JobDone ==
    /\ cron.at = "row" /\ cron.list = << >>
    /\ cron' = IdleJob
    /\ UNCHANGED <<today, rules, seeding, row, remote, ranToday, mails, posts, asked, faults>>

\* Fully Paid is read again from Hostaway; if that fails the loaded value
\* counts.  The charges are the loaded ones.
JobRefreshes(ok) ==
    /\ cron.at = "row" /\ cron.list # << >> /\ ~Skipped
    /\ ok \/ faults < MaxFaults
    /\ faults' = IF ok THEN faults ELSE faults + 1
    /\ LET r == Cur.id
           isPaid == IF ok THEN remote[r] ELSE Cur.row.isPaid
           e == evaluatePortalBalance(Cur.row.paid, isPaid, berlinDaysUntil(r),
                                      berlinDaysSinceDeparture(r), JobRule)
       IN  /\ row' = IF ok THEN [row EXCEPT ![r].isPaid = isPaid] ELSE row
           /\ cron' = IF e.remind \/ e.inbox
                     THEN [at |-> "ask", list |-> cron.list, rules |-> cron.rules, owed |-> e]
                     ELSE NextRow
    /\ UNCHANGED <<today, rules, seeding, remote, ranToday, mails, posts, asked>>

\* The inbox request, marked as sent whether or not it was posted.
JobRequests(ok) ==
    /\ cron.at = "ask"
    /\ LET r == Cur.id
           due == cron.owed.inbox /\ ~Cur.row.requested /\ cron.owed.outstanding > 100
       IN  /\ due \/ ok
           /\ ok \/ faults < MaxFaults
           /\ faults' = IF ok THEN faults ELSE faults + 1
           /\ posts' = IF due /\ ok THEN [posts EXCEPT ![r] = @ + 1] ELSE posts
           /\ row' = IF due THEN [row EXCEPT ![r].requested = TRUE] ELSE row
    /\ cron' = [cron EXCEPT !.at = "mail"]
    /\ UNCHANGED <<today, rules, seeding, remote, ranToday, mails, asked>>

\* Looking up the conversation throws: the job stops here for today.
JobThrows ==
    /\ cron.at = "ask"
    /\ cron.owed.inbox /\ ~Cur.row.requested
    /\ faults < MaxFaults
    /\ faults' = faults + 1
    /\ cron' = IdleJob
    /\ UNCHANGED <<today, rules, seeding, row, remote, ranToday, mails, posts, asked>>

\* Plausible slip: a stay that was reminded before is reminded again.
MailDueMut == cron.owed.remind /\ cron.owed.outstanding > 100

MailDue == cron.owed.remind /\ ~Cur.row.reminded /\ cron.owed.outstanding > 100

\* The mail to the office, marked as sent whether or not it was delivered.
JobMails(ok) ==
    /\ cron.at = "mail"
    /\ MailDue \/ ok
    /\ ok \/ faults < MaxFaults
    /\ faults' = IF ok THEN faults ELSE faults + 1
    /\ LET r == Cur.id
       IN  IF MailDue
           THEN /\ mails' = IF ok THEN [mails EXCEPT ![r] = @ + 1] ELSE mails
                /\ row' = [row EXCEPT ![r].reminded = TRUE]
                /\ asked' = [asked EXCEPT ![r] = [day |-> today, paid |-> Cur.row.paid, rule |-> JobRule]]
           ELSE UNCHANGED <<mails, row, asked>>
    /\ cron' = NextRow
    /\ UNCHANGED <<today, rules, seeding, remote, ranToday, posts>>

----------------------------------------------------------------------------
(* What happens around it.                                                 *)

\* A payment is booked on the stay (NotifiedGuestCharge).
Pay(r, a) ==
    /\ row[r].paid = 0
    /\ row' = [row EXCEPT ![r].paid = a]
    /\ UNCHANGED <<today, rules, seeding, remote, cron, ranToday, mails, posts, asked, faults>>

\* Hostaway calls the stay Fully Paid.
RemotePaid(r) ==
    /\ ~remote[r]
    /\ remote' = [remote EXCEPT ![r] = TRUE]
    /\ UNCHANGED <<today, rules, seeding, row, cron, ranToday, mails, posts, asked, faults>>

Cancelled(r) ==
    /\ row[r].live
    /\ row' = [row EXCEPT ![r].live = FALSE]
    /\ UNCHANGED <<today, rules, seeding, remote, cron, ranToday, mails, posts, asked, faults>>

\* The days of the job that are still to come.
Ahead(until) == {d \in JobDays : today < d /\ d <= until}

\* A day ends after its job; at night the job takes no step.
NextDay ==
    /\ cron.at = "idle" /\ ranToday
    /\ \E d \in JobDays : /\ d > today
                          /\ \A e \in JobDays : e > today => d <= e
                          /\ today' = d
    /\ ranToday' = FALSE
    /\ UNCHANGED <<rules, seeding, row, remote, cron, mails, posts, asked, faults>>

JobStep ==
    \/ JobRules \/ JobSkips \/ JobDone
    \/ \E ok \in BOOLEAN : JobRefreshes(ok) \/ JobRequests(ok) \/ JobMails(ok)
    \/ JobThrows

ReminderNext ==
    \/ morningUnpaidReminder
    \/ JobStep
    \/ AdminLists
    \/ AdminSeeds
    \/ \E k \in Edited, e \in Edits : UpdateRule(k, e)
    \/ \E r \in Paying, a \in Receipts : Pay(r, a)
    \/ \E r \in Paying : RemotePaid(r)
    \/ \E r \in Paying : Cancelled(r)
    \/ NextDay

\* The cron runs every day and finishes; days pass.
ReminderSpec ==
    /\ ReminderInit /\ [][ReminderNext]_rvars
    /\ WF_rvars(morningUnpaidReminder) /\ WF_rvars(JobStep)
    /\ WF_rvars(AdminSeeds) /\ WF_rvars(NextDay)

----------------------------------------------------------------------------
(* Properties.                                                             *)

\* The stores hold what their columns can hold (PortalPaymentRule,
\* Reservation), and the job never holds more rows than it loads.
ReminderTypeOK ==
    /\ today \in JobDays \cup {0}
    /\ DOMAIN rules \subseteq Keys
    /\ \A k \in DOMAIN rules : rules[k].hostPct \in 0..100 /\ rules[k].assumed \in 0..100
    /\ \A r \in Reservations : row[r].paid \in Receipts \cup {0}
    /\ cron.at \in {"idle", "rules", "row", "ask", "mail"}
    /\ Len(cron.list) <= Take
    /\ faults \in 0..MaxFaults

\* The first day the office may be told that money is missing, in the words
\* of the rules page: after the portal's payout is late, when the deadline
\* plus grace has passed, else on the due day or 28 days ahead.
FirstReminder(r, rule) ==
    LET leaves == Arrival[r] + Nights
        later(a, b) == IF a > b THEN a ELSE b
    IN  IF rule.untilDep # None
        THEN leaves + 1 + (IF rule.dueByDep = None THEN rule.untilDep
                           ELSE later(rule.untilDep, rule.dueByDep))
        ELSE later(Arrival[r] - (IF rule.untilArr = None THEN 1000 ELSE rule.untilArr),
                   Arrival[r] - (IF rule.dueBy = None THEN 28
                                 ELSE rule.dueBy - (IF rule.grace = None THEN 0 ELSE rule.grace)))

\* The office is reminded only of a stay that was short of the host's share
\* when the job loaded it, not before its rule says so, and not after the
\* guest arrived unless the portal pays out later (evaluatePortalBalance
\* and the early exits of notifyUnpaidBeforeArrival).
RemindedIsOwed ==
    \A r \in Reservations : asked[r] # None =>
        LET a == asked[r]
            share == IF a.rule.untilDep # None /\ a.rule.hostPct = 0 THEN Total
                     ELSE Share(Total, a.rule.hostPct)
        IN  /\ a.paid + 100 < share
            /\ a.day >= FirstReminder(r, a.rule)
            /\ a.rule.untilDep = None => a.day <= Arrival[r]
            /\ ~a.rule.skip

\* However often the job runs, stops half way or meets a failing call, the
\* office gets one mail and the guest one request for a stay
\* (unpaidReminderSentAt and paymentRequestSentAt against stale rows).
AskedOnce == \A r \in Reservations : mails[r] <= 1 /\ posts[r] <= 1

\* The job never decides with rules missing, whatever an older installation
\* had stored and whoever else is filling the table (ensureDefaults).
RulesComplete == cron.at \in {"row", "ask", "mail"} => Keys \subseteq DOMAIN cron.rules

RuleOf(r) == matchPortalRule(row[r].channel, rules)

\* Owed today as far as anybody can tell.
Overdue(r) ==
    /\ row[r].live /\ ~remote[r] /\ RuleOf(r) # None
    /\ evaluatePortalBalance(row[r].paid, FALSE, berlinDaysUntil(r),
                             berlinDaysSinceDeparture(r), RuleOf(r)).remind

\* Paid, cancelled or exempted by staff since.
Excused(r) ==
    \/ ~row[r].live \/ remote[r] \/ row[r].paid > 0
    \/ RuleOf(r) = None \/ (RuleOf(r) # None /\ (RuleOf(r).skip \/ ~RuleOf(r).enabled))

\* A stay that is overdue with more jobs to come than calls may fail is
\* marked as reminded in the end unless it is settled or exempted: the
\* request to the guest, a job that stopped half way and rules filled in by
\* two callers at once do not hide it for good.
OverdueIsReminded ==
    \A r \in Paying :
        (/\ Overdue(r)
         /\ Cardinality(Ahead(IF RuleOf(r).untilDep = None THEN Arrival[r] ELSE 1000)) > MaxFaults + 1)
        ~> (row[r].reminded \/ Excused(r))

\* The office hears of missing money when it is missing, once, and by rules
\* that are all there.
ReminderInv ==
    /\ ReminderTypeOK
    /\ RulesComplete
    /\ RemindedIsOwed
    /\ AskedOnce
=============================================================================
