----------------------- MODULE PortalRemindersProofs -----------------------
(***************************************************************************)
(* ReminderInv for every set of stays, rules and portals: who is reminded  *)
(* of a stay and how often.  ReminderIInv is its inductive strengthening.  *)
(***************************************************************************)
EXTENDS PortalReminders, FiniteSetTheorems, WellFoundedInduction, TLAPS

----------------------------------------------------------------------------
(* The inductive invariant of the reminders.                               *)

Cents == Receipts \cup {0}
Percents == 0..100
Setting == (0..1000) \cup {None}
Names == {"airbnb", "bookingcom", "vrbo", "expedia", "agoda", "hometogo", "interhome", "atraveo",
          "travanto", "check24", "direct", "booking"}

Rules ==
    [key : Names, channels : SUBSET Names, fallback : BOOLEAN, enabled : BOOLEAN,
     assumed : Percents, untilArr : Setting, untilDep : Setting, hostPct : Percents,
     dueBy : Setting, dueByDep : Setting, grace : Setting, inbox : BOOLEAN, skip : BOOLEAN]

Rows == [channel : Channels, live : BOOLEAN, paid : Cents, isPaid : BOOLEAN,
         reminded : BOOLEAN, requested : BOOLEAN]

Items == [id : Reservations, row : Rows]

TablesOK ==
    /\ today \in JobDays \cup {0}
    /\ DOMAIN rules \subseteq Keys /\ rules \in [DOMAIN rules -> Rules]
    /\ DOMAIN seeding = Callers
    /\ \A c \in Callers : seeding[c] = None \/ seeding[c] \subseteq Keys
    /\ row \in [Reservations -> Rows]
    /\ remote \in [Reservations -> BOOLEAN]
    /\ mails \in [Reservations -> Nat] /\ posts \in [Reservations -> Nat]
    /\ DOMAIN asked = Reservations
    /\ faults \in 0..MaxFaults

Deciding == cron.at \in {"row", "ask", "mail"}

\* The job's list is finite, short, and holds a stay once; when it decides it
\* has all rules.
JobOK ==
    /\ {"at", "list", "rules"} \subseteq DOMAIN cron
    /\ cron.at \in {"idle", "rules", "row", "ask", "mail"}
    /\ cron.list \in Seq(Items) /\ Len(cron.list) <= Take
    /\ \A i, j \in 1..Len(cron.list) : i # j => cron.list[i].id # cron.list[j].id
    /\ cron.at = "rules" => seeding["job"] \subseteq Keys /\ Keys \subseteq seeding["job"] \cup DOMAIN rules
    /\ Deciding => cron.rules \in [Keys -> Rules]
    /\ cron.at \in {"ask", "mail"} => cron.list # << >>

\* The marks a loaded row carries are still those of the table, except the
\* one the job has just set.
MarksFresh ==
    \A i \in 1..Len(cron.list) :
        LET item == cron.list[i] IN
        /\ item.row.reminded = row[item.id].reminded
        /\ i > 1 \/ cron.at # "mail" => item.row.requested = row[item.id].requested

\* What was sent is marked.
SentIsMarked ==
    \A r \in Reservations :
        /\ mails[r] <= 1 /\ (~row[r].reminded => mails[r] = 0)
        /\ posts[r] <= 1 /\ (~row[r].requested => posts[r] = 0)

\* What the job is about to ask for was owed today.
AskIsOwed ==
    cron.at \in {"ask", "mail"} =>
        /\ ~Skipped
        /\ \E isPaid \in BOOLEAN :
             cron.owed = evaluatePortalBalance(Cur.row.paid, isPaid, berlinDaysUntil(Cur.id),
                                               berlinDaysSinceDeparture(Cur.id), JobRule)

ReminderIInv == TablesOK /\ JobOK /\ MarksFresh /\ SentIsMarked /\ AskIsOwed /\ RemindedIsOwed

----------------------------------------------------------------------------
(* Rules.                                                                  *)

LEMMA DefaultRules == DEFAULT_PORTAL_PAYMENT_RULES \in [Keys -> Rules]
<1>. DEFINE D == DEFAULT_PORTAL_PAYMENT_RULES
<1>1. Keys = 1..11
    BY DEF Keys, DEFAULT_PORTAL_PAYMENT_RULES, Check24Rule, DirectRule
<1>2. /\ D[1] = Rule("airbnb", {"airbnb"}, 100, Null, Null, 0, Null, Null, Null, FALSE, TRUE)
      /\ D[2] = Rule("bookingcom", {"booking"}, 100, Null, Null, 0, Null, Null, Null, FALSE, TRUE)
      /\ D[3] = Rule("vrbo", {"vrbo"}, 100, Null, Null, 0, Null, Null, Null, FALSE, TRUE)
      /\ D[4] = Rule("expedia", {"expedia"}, 100, Null, Null, 0, Null, Null, Null, FALSE, TRUE)
      /\ D[5] = Rule("agoda", {"agoda"}, 100, Null, Null, 0, Null, Null, Null, FALSE, TRUE)
      /\ D[6] = Rule("hometogo", {"hometogo"}, 100, Null, 7, 100, Null, 14, Null, FALSE, FALSE)
      /\ D[7] = Rule("interhome", {"interhome"},100, 7, Null, 100, 3, Null, Null, FALSE, FALSE)
      /\ D[8] = Rule("atraveo", {"atraveo"}, 100, 7, Null, 100, 3, Null, Null, FALSE, FALSE)
      /\ D[9] = Rule("travanto", {"travanto"}, 30, Null, Null, 70, 21, Null, 7, TRUE, FALSE)
      /\ D[10] = Rule("check24", {"check24"}, 0, Null, Null, 100, 28, Null, Null, FALSE, FALSE)
      /\ D[11] = Rule("direct", {}, 0, Null, Null, 70, 28, Null, Null, FALSE, FALSE)
    BY DEF DEFAULT_PORTAL_PAYMENT_RULES, Check24Rule, DirectRule
<1>. HIDE DEF D
<1>3. ASSUME NEW k \in 1..11
      PROVE  D[k] \in Rules
  <2>1. D[1] \in Rules
      BY <1>2 DEF Rule, Rules, Names, Percents, Setting, Null
  <2>2. D[2] \in Rules
      BY <1>2 DEF Rule, Rules, Names, Percents, Setting, Null
  <2>3. D[3] \in Rules
      BY <1>2 DEF Rule, Rules, Names, Percents, Setting, Null
  <2>4. D[4] \in Rules
      BY <1>2 DEF Rule, Rules, Names, Percents, Setting, Null
  <2>5. D[5] \in Rules
      BY <1>2 DEF Rule, Rules, Names, Percents, Setting, Null
  <2>6. D[6] \in Rules
      BY <1>2 DEF Rule, Rules, Names, Percents, Setting, Null
  <2>7. D[7] \in Rules
      BY <1>2 DEF Rule, Rules, Names, Percents, Setting, Null
  <2>8. D[8] \in Rules
      BY <1>2 DEF Rule, Rules, Names, Percents, Setting, Null
  <2>9. D[9] \in Rules
      BY <1>2 DEF Rule, Rules, Names, Percents, Setting, Null
  <2>10. D[10] \in Rules
      BY <1>2 DEF Rule, Rules, Names, Percents, Setting, Null
  <2>11. D[11] \in Rules
      BY <1>2 DEF Rule, Rules, Names, Percents, Setting, Null
  <2>. QED
      BY <2>1, <2>2, <2>3, <2>4, <2>5, <2>6, <2>7, <2>8, <2>9, <2>10, <2>11
<1>4. D = [k \in 1..11 |-> D[k]]
    BY <1>1 DEF D, DEFAULT_PORTAL_PAYMENT_RULES, Check24Rule, DirectRule
<1>. QED
    BY <1>1, <1>3, <1>4 DEF D

LEMMA SeededRules ==
    ASSUME TablesOK, NEW missing \in SUBSET Keys
    PROVE  /\ Seeded(missing) \in [DOMAIN rules \cup missing -> Rules]
           /\ DOMAIN rules \cup missing \subseteq Keys
    BY DefaultRules DEF TablesOK, Seeded

\* Every nonempty set of naturals has a least member.
LEMMA LeastNumber ==
    ASSUME NEW S \in SUBSET Nat, S # {}
    PROVE  \E x \in S : \A y \in S : x <= y
<1>1. IsWellFoundedOn(OpToRel(<, Nat), Nat)
    BY NatLessThanWellFounded
<1>2. PICK x \in S : \A y \in S : ~ (<<y, x>> \in OpToRel(<, Nat))
    BY <1>1, WFMin
<1>3. \A y \in S : ~(y < x)
    BY <1>2 DEF OpToRel
<1>. QED
    BY <1>3

\* The rule found for a channel is one of the rules.
LEMMA RuleFound ==
    ASSUME NEW K, K \subseteq Keys, NEW list \in [K -> Rules], NEW channel,
           matchPortalRule(channel, list) # None
    PROVE  matchPortalRule(channel, list) \in Rules
<1>1. ASSUME NEW ks \in SUBSET Keys, ks # {}
      PROVE  \E k \in ks : \A l \in ks : k <= l
  <2>1. Keys = 1..11
      BY DEF Keys, DEFAULT_PORTAL_PAYMENT_RULES, Check24Rule, DirectRule
  <2>. QED
      BY <1>1, <2>1, LeastNumber
<1>. DEFINE found == {k \in DOMAIN list : list[k].enabled /\ channel \in list[k].channels}
            fall  == {k \in DOMAIN list : list[k].enabled /\ list[k].fallback}
            first(ks) == list[CHOOSE k \in ks : \A l \in ks : k <= l]
<1>2. ASSUME NEW ks \in SUBSET K, ks # {}
      PROVE  first(ks) \in Rules
    BY <1>1, <1>2
<1>3. found \in SUBSET K /\ fall \in SUBSET K
    OBVIOUS
<1>4. matchPortalRule(channel, list) =
         IF found # {} THEN first(found) ELSE IF fall # {} THEN first(fall) ELSE None
    BY DEF matchPortalRule
<1>. HIDE DEF found, fall, first
<1>. QED
    BY <1>2, <1>3, <1>4

----------------------------------------------------------------------------
(* What is owed.                                                           *)

\* The rule the job decides by is one of the stored ones.
LEMMA JobRuleType ==
    ASSUME JobOK, Deciding, JobRule # None
    PROVE  JobRule \in Rules
    BY RuleFound DEF JobOK, JobRule

\* When a balance calls for a reminder: money is missing, the rule wants
\* reminders and its day has come.
\* Later than both of two integers is later than the later one.
LEMMA LaterThanBoth ==
    ASSUME NEW x \in Int, NEW a \in Int, NEW b \in Int, x >= a, x >= b
    PROVE  x >= (IF a > b THEN a ELSE b)
OBVIOUS

\* A day on which a rule asks for money is not before the rule's first day.
LEMMA NotBeforeTheFirst ==
    ASSUME NEW r \in Reservations, NEW rule \in Rules, NEW day \in Int,
           Arrival[r] \in Int, Nights \in Int,
           rule.untilDep # None => /\ day - (Arrival[r] + Nights) > rule.untilDep
                                   /\ rule.dueByDep # None => day - (Arrival[r] + Nights) > rule.dueByDep,
           rule.untilDep = None => /\ rule.untilArr # None => Arrival[r] - day <= rule.untilArr
                                   /\ rule.dueBy = None => Arrival[r] - day <= 28
                                   /\ rule.dueBy # None => Arrival[r] - day <= rule.dueBy
                                   /\ rule.dueBy # None /\ rule.grace # None
                                         => Arrival[r] - day <= rule.dueBy - rule.grace
    PROVE  day >= FirstReminder(r, rule)
<1>. DEFINE arrives == Arrival[r]
            leaves == Arrival[r] + Nights
            later(a, b) == IF a > b THEN a ELSE b
<1>1. /\ rule.untilDep \in Setting /\ rule.untilArr \in Setting /\ rule.dueBy \in Setting
      /\ rule.dueByDep \in Setting /\ rule.grace \in Setting
    BY DEF Rules
<1>2. \A x \in Setting : x # None => x \in Int /\ 0 <= x /\ x <= 1000
    BY DEF Setting
<1>3. arrives \in Int /\ leaves \in Int
    OBVIOUS
<1>4. CASE rule.untilDep # None
  <2>1. FirstReminder(r, rule) = leaves + 1 + (IF rule.dueByDep = None THEN rule.untilDep
                                               ELSE later(rule.untilDep, rule.dueByDep))
      BY <1>4 DEF FirstReminder
  <2>. DEFINE last == rule.untilDep
  <2>2. last \in Int
      BY <1>1, <1>2, <1>4
  <2>3. day - leaves > last
      BY <1>4
  <2>. HIDE DEF last, leaves
  <2>4. CASE rule.dueByDep = None
    <3>1. FirstReminder(r, rule) = leaves + 1 + last
        BY <2>1, <2>4 DEF last
    <3>. QED
        BY <1>3, <2>2, <2>3, <3>1
  <2>5. CASE rule.dueByDep # None
    <3>. DEFINE due == rule.dueByDep
    <3>1. FirstReminder(r, rule) = leaves + 1 + later(last, due)
        BY <2>1, <2>5 DEF last
    <3>2. due \in Int /\ day - leaves > due
        BY <1>1, <1>2, <1>4, <2>5 DEF leaves
    <3>. HIDE DEF due
    <3>. QED
        BY <1>3, <2>2, <2>3, <3>1, <3>2
  <2>. QED
      BY <2>4, <2>5
<1>5. CASE rule.untilDep = None
  <2>. DEFINE until == IF rule.untilArr = None THEN 1000 ELSE rule.untilArr
              grace == IF rule.grace = None THEN 0 ELSE rule.grace
              ahead == IF rule.dueBy = None THEN 28 ELSE rule.dueBy - grace
  <2>1. FirstReminder(r, rule) = later(arrives - until, arrives - ahead)
      BY <1>5 DEF FirstReminder
  <2>2. /\ rule.untilArr # None => arrives - day <= rule.untilArr
        /\ rule.dueBy = None => arrives - day <= 28
        /\ rule.dueBy # None => arrives - day <= rule.dueBy
        /\ rule.dueBy # None /\ rule.grace # None => arrives - day <= rule.dueBy - rule.grace
      BY <1>5
  <2>. HIDE DEF arrives
  <2>3. ahead \in Int /\ arrives - day <= ahead /\ arrives - day <= 1000
    <3>1. CASE rule.dueBy = None
      <4>1. ahead = 28 /\ arrives - day <= 28
          BY <2>2, <3>1
      <4>. HIDE DEF ahead
      <4>. QED
          BY <1>3, <4>1
    <3>2. CASE rule.dueBy # None
      <4>1. /\ rule.dueBy \in Int /\ rule.dueBy <= 1000
            /\ ahead = rule.dueBy - grace /\ arrives - day <= rule.dueBy
          BY <1>1, <1>2, <2>2, <3>2
      <4>2. grace \in Int /\ arrives - day <= rule.dueBy - grace
        <5>1. CASE rule.grace = None
          <6>1. grace = 0
              BY <5>1
          <6>. HIDE DEF grace
          <6>. QED
              BY <4>1, <6>1
        <5>2. CASE rule.grace # None
            BY <1>1, <1>2, <2>2, <3>2, <5>2
        <5>. QED
            BY <5>1, <5>2
      <4>. HIDE DEF ahead, grace
      <4>. QED
          BY <1>3, <4>1, <4>2
    <3>. QED
        BY <3>1, <3>2
  <2>4. until \in Int /\ arrives - day <= until
    <3>1. CASE rule.untilArr = None
        BY <2>3, <3>1
    <3>2. CASE rule.untilArr # None
        BY <1>1, <1>2, <2>2, <3>2
    <3>. QED
        BY <3>1, <3>2
  <2>. HIDE DEF until, ahead
  <2>5. arrives - until \in Int /\ arrives - ahead \in Int /\ day >= arrives - until /\ day >= arrives - ahead
      BY <1>3, <2>3, <2>4
  <2>. QED
      BY <2>1, <2>5, LaterThanBoth
<1>. QED
    BY <1>4, <1>5

LEMMA ReminderDue ==
    ASSUME NEW rule \in Rules, NEW paid \in Int, NEW isPaid \in BOOLEAN,
           NEW days \in Int, NEW since \in Int,
           evaluatePortalBalance(paid, isPaid, days, since, rule).remind,
           evaluatePortalBalance(paid, isPaid, days, since, rule).outstanding > 100
    PROVE  /\ ~rule.skip
           /\ paid + 100 < (IF rule.untilDep # None /\ rule.hostPct = 0 THEN Total
                            ELSE Share(Total, rule.hostPct))
           /\ rule.untilDep # None => /\ since > rule.untilDep
                                      /\ rule.dueByDep # None => since > rule.dueByDep
           /\ rule.untilDep = None => /\ rule.untilArr # None => days <= rule.untilArr
                                      /\ rule.dueBy = None => days <= 28
                                      /\ rule.dueBy # None => days <= rule.dueBy
                                      /\ rule.dueBy # None /\ rule.grace # None
                                            => days <= rule.dueBy - rule.grace
<1>. /\ rule.untilDep \in Setting /\ rule.untilArr \in Setting /\ rule.dueBy \in Setting
     /\ rule.dueByDep \in Setting /\ rule.grace \in Setting
     /\ rule.hostPct \in Percents /\ rule.skip \in BOOLEAN /\ rule.inbox \in BOOLEAN
    BY DEF Rules
<1>0. None \notin Int /\ Total \in Int
    BY ReminderAssumption
<1>1. Share(Total, 100) = Total /\ \A pct \in Percents : Share(Total, pct) \in Int
    BY <1>0 DEF Share, Percents
<1>2. ~(isPaid \/ Total <= 0)
    BY DEF evaluatePortalBalance, Nothing, Owed
<1>3. CASE rule.untilDep # None
  <2>. DEFINE share == Share(Total, IF rule.hostPct = 0 THEN 100 ELSE rule.hostPct)
              open == NonNeg(share - paid)
              late == ~rule.skip /\ (rule.dueByDep # None => since > rule.dueByDep)
              none == \/ since <= rule.untilDep
                      \/ paid + 100 >= Share(Total, 70) /\ paid <= Total + 100
                      \/ open <= 100
  <2>1. evaluatePortalBalance(paid, isPaid, days, since, rule)
           = IF none THEN Nothing ELSE Owed(open, late, FALSE)
      BY <1>2, <1>3 DEF evaluatePortalBalance, AfterStay
  <2>. HIDE DEF none, late
  <2>2. ~none /\ late
      BY <2>1 DEF Nothing, Owed
  <2>3. since > rule.untilDep
    <3>1. rule.untilDep \in 0..1000 /\ ~(since <= rule.untilDep)
        BY <1>3, <2>2 DEF none, Setting
    <3>. QED
        BY <3>1
  <2>4. share \in Int /\ share = (IF rule.hostPct = 0 THEN Total ELSE Share(Total, rule.hostPct))
      BY <1>0, <1>1
  <2>5. paid + 100 < share
      BY <2>2, <2>4 DEF none, NonNeg
  <2>. QED
      BY <1>3, <2>2, <2>3, <2>4, <2>5 DEF late
<1>4. CASE rule.untilDep = None
  <2>. DEFINE share == Share(Total, rule.hostPct)
              open == NonNeg(share - paid)
              due  == rule.dueBy # None /\ days <= rule.dueBy
              none == (rule.untilArr # None /\ days > rule.untilArr) \/ open <= 100
              now  == IF rule.dueBy = None THEN days <= 28
                      ELSE due /\ (rule.grace # None => days <= rule.dueBy - rule.grace)
  <2>1. evaluatePortalBalance(paid, isPaid, days, since, rule)
           = IF none THEN Nothing
             ELSE IF rule.skip THEN Owed(open, FALSE, FALSE)
             ELSE Owed(open, now, due /\ rule.inbox)
      BY <1>2, <1>4 DEF evaluatePortalBalance, BeforeStay
  <2>. HIDE DEF none, now, due
  <2>2. ~none /\ ~rule.skip /\ now
      BY <2>1 DEF Nothing, Owed
  <2>3. share \in Int
      BY <1>1
  <2>4. paid + 100 < share
      BY <2>2, <2>3 DEF none, NonNeg
  <2>5. rule.untilArr # None => days <= rule.untilArr
    <3>1. rule.untilArr # None => rule.untilArr \in 0..1000 /\ ~(days > rule.untilArr)
        BY <2>2 DEF none, Setting
    <3>. QED
        BY <3>1
  <2>. QED
      BY <1>4, <2>2, <2>4, <2>5 DEF now, due
<1>. QED
    BY <1>3, <1>4

----------------------------------------------------------------------------
(* The steps.                                                              *)

LEMMA ReminderStart == ReminderInit => ReminderIInv
<1>. SUFFICES ASSUME ReminderInit
              PROVE  ReminderIInv
    OBVIOUS
<1>1. TablesOK
  <2>1. PICK keys \in Installed : rules = [k \in keys |-> DEFAULT_PORTAL_PAYMENT_RULES[k]]
      BY DEF ReminderInit
  <2>2. keys \subseteq Keys
      BY <2>1, ReminderAssumption
  <2>3. DOMAIN rules \subseteq Keys /\ rules \in [DOMAIN rules -> Rules]
      BY <2>1, <2>2, DefaultRules
  <2>4. row \in [Reservations -> Rows]
      BY DEF ReminderInit, NewRow, Rows, Cents
  <2>. QED
      BY <2>3, <2>4, ReminderAssumption DEF ReminderInit, TablesOK
<1>2. JobOK /\ MarksFresh /\ AskIsOwed
    BY ReminderAssumption DEF ReminderInit, IdleJob, JobOK, Deciding, MarksFresh, AskIsOwed
<1>3. SentIsMarked /\ RemindedIsOwed
    BY DEF ReminderInit, SentIsMarked, RemindedIsOwed
<1>. QED
    BY <1>1, <1>2, <1>3 DEF ReminderIInv

\* The stay in hand, and what is left of the list after it.
LEMMA InHand ==
    ASSUME TablesOK, JobOK, cron.list # << >>
    PROVE  /\ Cur = cron.list[1] /\ Cur \in Items /\ 1 \in 1..Len(cron.list)
           /\ Cur.id \in Reservations /\ Cur.row \in Rows
           /\ Tail(cron.list) \in Seq(Items) /\ Len(Tail(cron.list)) = Len(cron.list) - 1
           /\ \A i \in 1..Len(Tail(cron.list)) :
                 /\ i + 1 \in 1..Len(cron.list) /\ Tail(cron.list)[i] = cron.list[i + 1]
                 /\ Tail(cron.list)[i].id # Cur.id
<1>1. cron.list \in Seq(Items) /\ Len(cron.list) \in Nat /\ Len(cron.list) # 0
    BY DEF JobOK
<1>2. Cur = cron.list[1] /\ Cur \in Items
    BY <1>1 DEF Cur
<1>3. /\ Tail(cron.list) \in Seq(Items) /\ Len(Tail(cron.list)) = Len(cron.list) - 1
      /\ \A i \in 1..Len(Tail(cron.list)) : Tail(cron.list)[i] = cron.list[i + 1]
    BY <1>1
<1>4. \A i \in 1..Len(Tail(cron.list)) : /\ i + 1 \in 1..Len(cron.list)
                                         /\ cron.list[i + 1].id # cron.list[1].id
    BY <1>1, <1>3 DEF JobOK
<1>. QED
    BY <1>1, <1>2, <1>3, <1>4 DEF Items

\* A row stays a row when a mark is set or a payment booked.
LEMMA RowMarked ==
    ASSUME TablesOK, NEW r \in Reservations,
           \/ UNCHANGED row
           \/ \E b \in BOOLEAN : \/ row' = [row EXCEPT ![r].isPaid = b]
                                 \/ row' = [row EXCEPT ![r].requested = b]
                                 \/ row' = [row EXCEPT ![r].reminded = b]
                                 \/ row' = [row EXCEPT ![r].live = b]
           \/ \E a \in Cents : row' = [row EXCEPT ![r].paid = a]
    PROVE  row' \in [Reservations -> Rows]
<1>1. row \in [Reservations -> Rows] /\ row[r] \in Rows
    BY DEF TablesOK
<1>2. \A b \in BOOLEAN : /\ [row[r] EXCEPT !.isPaid = b] \in Rows
                         /\ [row[r] EXCEPT !.requested = b] \in Rows
                         /\ [row[r] EXCEPT !.reminded = b] \in Rows
                         /\ [row[r] EXCEPT !.live = b] \in Rows
    BY <1>1 DEF Rows
<1>3. \A a \in Cents : [row[r] EXCEPT !.paid = a] \in Rows
    BY <1>1 DEF Rows
<1>4. \E x \in Rows : row' = [row EXCEPT ![r] = x]
    BY <1>1, <1>2, <1>3
<1>. QED
    BY <1>1, <1>4

LEMMA TablesStep == TablesOK /\ JobOK /\ [ReminderNext]_rvars => TablesOK'
<1>. SUFFICES ASSUME TablesOK, JobOK, [ReminderNext]_rvars
              PROVE  TablesOK'
    OBVIOUS
<1>. USE DEF TablesOK
<1>1. CASE morningUnpaidReminder
    BY <1>1 DEF morningUnpaidReminder, ensureDefaults, Callers
<1>2. CASE JobRules
  <2>1. CanSeed("job") => rules' = Seeded(seeding["job"])
      BY <1>2 DEF JobRules
  <2>2. seeding["job"] \subseteq Keys
      BY <1>2 DEF JobRules, JobOK
  <2>3. DOMAIN rules' \subseteq Keys /\ rules' \in [DOMAIN rules' -> Rules]
    <3>1. CASE CanSeed("job")
      <4>1. /\ rules' \in [DOMAIN rules \cup seeding["job"] -> Rules]
            /\ DOMAIN rules \cup seeding["job"] \subseteq Keys
          BY <2>1, <2>2, <3>1, SeededRules
      <4>. QED
          BY <4>1
    <3>2. CASE ~CanSeed("job")
      <4>1. rules' = rules
          BY <1>2, <3>2 DEF JobRules
      <4>. QED
          BY <4>1
    <3>. QED
        BY <3>1, <3>2
  <2>. QED
      BY <1>2, <2>3 DEF JobRules, Callers
<1>3. CASE JobSkips \/ JobDone \/ JobThrows
    BY <1>3, ReminderAssumption DEF JobSkips, JobDone, JobThrows
<1>4. CASE \E ok \in BOOLEAN : JobRefreshes(ok)
  <2>1. PICK ok \in BOOLEAN : JobRefreshes(ok)
      BY <1>4
  <2>2. Cur.id \in Reservations
      BY <2>1, InHand DEF JobRefreshes
  <2>3. row' = row \/ \E b \in BOOLEAN : row' = [row EXCEPT ![Cur.id].isPaid = b]
      BY <2>1, <2>2 DEF JobRefreshes
  <2>4. row' \in [Reservations -> Rows]
      BY <2>2, <2>3, RowMarked
  <2>. QED
      BY <2>1, <2>4, ReminderAssumption DEF JobRefreshes
<1>5. CASE \E ok \in BOOLEAN : JobRequests(ok)
  <2>1. PICK ok \in BOOLEAN : JobRequests(ok)
      BY <1>5
  <2>2. Cur.id \in Reservations
      BY <2>1, InHand DEF JobRequests, JobOK
  <2>3. row' = row \/ row' = [row EXCEPT ![Cur.id].requested = TRUE]
      BY <2>1 DEF JobRequests
  <2>4. row' \in [Reservations -> Rows]
      BY <2>2, <2>3, RowMarked
  <2>5. posts' \in [Reservations -> Nat]
      BY <2>1, <2>2 DEF JobRequests
  <2>. QED
      BY <2>1, <2>4, <2>5, ReminderAssumption DEF JobRequests
<1>6. CASE \E ok \in BOOLEAN : JobMails(ok)
  <2>1. PICK ok \in BOOLEAN : JobMails(ok)
      BY <1>6
  <2>2. Cur.id \in Reservations
      BY <2>1, InHand DEF JobMails, JobOK
  <2>3. row' = row \/ row' = [row EXCEPT ![Cur.id].reminded = TRUE]
      BY <2>1 DEF JobMails
  <2>4. row' \in [Reservations -> Rows]
      BY <2>2, <2>3, RowMarked
  <2>5. mails' \in [Reservations -> Nat] /\ DOMAIN asked' = Reservations
      BY <2>1, <2>2 DEF JobMails
  <2>. QED
      BY <2>1, <2>4, <2>5, ReminderAssumption DEF JobMails
<1>7. CASE AdminLists
    BY <1>7 DEF AdminLists, ensureDefaults, Callers
<1>8. CASE AdminSeeds
  <2>1. CanSeed("admin") => rules' = Seeded(seeding["admin"])
      BY <1>8 DEF AdminSeeds
  <2>2. seeding["admin"] \subseteq Keys
      BY <1>8 DEF AdminSeeds, Callers
  <2>3. DOMAIN rules' \subseteq Keys /\ rules' \in [DOMAIN rules' -> Rules]
    <3>1. CASE CanSeed("admin")
      <4>1. /\ rules' \in [DOMAIN rules \cup seeding["admin"] -> Rules]
            /\ DOMAIN rules \cup seeding["admin"] \subseteq Keys
          BY <2>1, <2>2, <3>1, SeededRules
      <4>. QED
          BY <4>1
    <3>2. CASE ~CanSeed("admin")
      <4>1. rules' = rules
          BY <1>8, <3>2 DEF AdminSeeds
      <4>. QED
          BY <4>1
    <3>. QED
        BY <3>1, <3>2
  <2>. QED
      BY <1>8, <2>3 DEF AdminSeeds, Callers
<1>9. CASE \E k \in Edited, e \in Edits : UpdateRule(k, e)
  <2>1. PICK k \in Edited, e \in Edits : UpdateRule(k, e)
      BY <1>9
  <2>2. k \in DOMAIN rules /\ rules[k] \in Rules
      BY <2>1 DEF UpdateRule
  <2>3. /\ e.enabled \in BOOLEAN /\ e.skip \in BOOLEAN
        /\ clampPercent(e.hostPct) \in Percents
      BY ReminderAssumption DEF clampPercent, NonNeg, Percents
  <2>. DEFINE new == [rules[k] EXCEPT !.enabled = e.enabled, !.skip = e.skip,
                                      !.hostPct = clampPercent(e.hostPct)]
  <2>4. new \in Rules
      BY <2>2, <2>3 DEF Rules
  <2>5. rules' = [rules EXCEPT ![k] = new]
      BY <2>1, <2>2 DEF UpdateRule
  <2>. HIDE DEF new
  <2>6. DOMAIN rules' = DOMAIN rules /\ rules' \in [DOMAIN rules -> Rules]
      BY <2>2, <2>4, <2>5
  <2>. QED
      BY <2>1, <2>6 DEF UpdateRule
<1>10. CASE \E r \in Paying, a \in Receipts : Pay(r, a)
    BY <1>10, RowMarked, ReminderAssumption DEF Pay, Cents
<1>11. CASE \E r \in Paying : RemotePaid(r) \/ Cancelled(r)
    BY <1>11, RowMarked, ReminderAssumption DEF RemotePaid, Cancelled
<1>12. CASE NextDay
    BY <1>12 DEF NextDay
<1>13. CASE UNCHANGED rvars
    BY <1>13 DEF rvars
<1>. QED
    BY <1>1, <1>2, <1>3, <1>4, <1>5, <1>6, <1>7, <1>8, <1>9, <1>10, <1>11, <1>12, <1>13
    DEF ReminderNext, JobStep

\* What the job loads: each candidate once.
LEMMA LoadedList ==
    ASSUME TablesOK, NEW q \in Orders
    PROVE  /\ Loaded(q) \in Seq(Items) /\ Len(Loaded(q)) <= Take
           /\ \A i \in 1..Len(Loaded(q)) : /\ Loaded(q)[i].id \in Reservations
                                           /\ Loaded(q)[i].row = row[Loaded(q)[i].id]
           /\ \A i, j \in 1..Len(Loaded(q)) : i # j => Loaded(q)[i].id # Loaded(q)[j].id
<1>. DEFINE found == {r \in Reservations : Candidate(r)}
            n == Cardinality(found)
            m == IF n < Take THEN n ELSE Take
<1>1. IsFiniteSet(found) /\ n \in Nat
    BY ReminderAssumption, FS_Subset, FS_CardinalityType
<1>2. /\ q \in [1..n -> found]
      /\ \A i, j \in DOMAIN q : i < j => q[i] # q[j]
    BY DEF Orders
<1>. HIDE DEF found, n
<1>3. Len(q) = n /\ found \subseteq Reservations
    BY <1>1, <1>2 DEF found
<1>4. m \in Nat /\ m <= n /\ m <= Take
    BY <1>1, ReminderAssumption
<1>5. Loaded(q) = [i \in 1..m |-> [id |-> q[i], row |-> row[q[i]]]]
    BY <1>3 DEF Loaded
<1>. HIDE DEF m
<1>6. ASSUME NEW i \in 1..m
      PROVE  /\ i \in 1..n /\ q[i] \in Reservations /\ row[q[i]] \in Rows
             /\ [id |-> q[i], row |-> row[q[i]]] \in Items
  <2>1. i \in 1..n /\ q[i] \in Reservations
      BY <1>1, <1>2, <1>3, <1>4
  <2>2. row[q[i]] \in Rows
      BY <2>1 DEF TablesOK
  <2>. QED
      BY <2>1, <2>2 DEF Items
<1>7. Loaded(q) \in [1..m -> Items]
    BY <1>5, <1>6
<1>8. Loaded(q) \in Seq(Items) /\ Len(Loaded(q)) = m
    BY <1>4, <1>7
<1>9. \A i, j \in 1..m : i # j => q[i] # q[j]
  <2>. SUFFICES ASSUME NEW i \in 1..m, NEW j \in 1..m, i # j
                PROVE  q[i] # q[j]
      OBVIOUS
  <2>1. i \in DOMAIN q /\ j \in DOMAIN q
      BY <1>2, <1>6
  <2>2. i < j \/ j < i
      BY <1>4
  <2>. QED
      BY <1>2, <2>1, <2>2
<1>. QED
    BY <1>4, <1>5, <1>6, <1>8, <1>9

\* Steps of the others leave the job alone and take no rule away.
LEMMA OthersStep ==
    ASSUME TablesOK,
           \/ AdminLists \/ AdminSeeds \/ NextDay
           \/ \E k \in Edited, e \in Edits : UpdateRule(k, e)
           \/ \E r \in Paying, a \in Receipts : Pay(r, a)
           \/ \E r \in Paying : RemotePaid(r) \/ Cancelled(r)
    PROVE  /\ UNCHANGED <<cron, mails, posts, asked>>
           /\ cron.at = "idle" \/ UNCHANGED today
           /\ seeding'["job"] = seeding["job"] /\ DOMAIN rules \subseteq DOMAIN rules'
           /\ \A r \in Reservations : /\ row'[r].reminded = row[r].reminded
                                      /\ row'[r].requested = row[r].requested
<1>1. CASE AdminLists
    BY <1>1 DEF AdminLists, ensureDefaults, TablesOK, Callers
<1>2. CASE AdminSeeds
    BY <1>2 DEF AdminSeeds, Seeded, TablesOK, Callers
<1>3. CASE NextDay
    BY <1>3 DEF NextDay
<1>4. CASE \E k \in Edited, e \in Edits : UpdateRule(k, e)
    BY <1>4 DEF UpdateRule, TablesOK
<1>5. CASE \E r \in Paying, a \in Receipts : Pay(r, a)
    BY <1>5 DEF Pay, TablesOK, Rows
<1>6. CASE \E r \in Paying : RemotePaid(r) \/ Cancelled(r)
    BY <1>6 DEF RemotePaid, Cancelled, TablesOK, Rows
<1>. QED
    BY <1>1, <1>2, <1>3, <1>4, <1>5, <1>6

LEMMA ListItems ==
    ASSUME JobOK
    PROVE  \A i \in 1..Len(cron.list) :
              /\ cron.list[i] \in Items
              /\ cron.list[i].id \in Reservations /\ cron.list[i].row \in Rows
<1>1. cron.list \in Seq(Items)
    BY DEF JobOK
<1>2. \A i \in 1..Len(cron.list) : cron.list[i] \in Items
    BY <1>1
<1>. QED
    BY <1>2 DEF Items

LEMMA JobInvStep == TablesOK /\ JobOK /\ [ReminderNext]_rvars => JobOK'
<1>. SUFFICES ASSUME TablesOK, JobOK, [ReminderNext]_rvars
              PROVE  JobOK'
    OBVIOUS
<1>1. CASE morningUnpaidReminder
  <2>1. PICK q \in Orders : cron' = [at |-> "rules", list |-> Loaded(q), rules |-> << >>]
      BY <1>1 DEF morningUnpaidReminder
  <2>2. seeding'["job"] = Keys \ DOMAIN rules /\ rules' = rules
      BY <1>1 DEF morningUnpaidReminder, ensureDefaults, TablesOK, Callers
  <2>. QED
      BY <2>1, <2>2, LoadedList DEF JobOK, Deciding
<1>2. CASE cron' = IdleJob
    BY <1>2, ReminderAssumption DEF JobOK, IdleJob, Deciding
<1>3. CASE JobRules /\ CanSeed("job")
  <2>1. cron' = [at |-> "row", list |-> cron.list, rules |-> Seeded(seeding["job"])]
      BY <1>3 DEF JobRules
  <2>2. seeding["job"] \subseteq Keys /\ Keys \subseteq seeding["job"] \cup DOMAIN rules
      BY <1>3 DEF JobRules, JobOK
  <2>3. DOMAIN rules \cup seeding["job"] = Keys
      BY <2>2 DEF TablesOK
  <2>4. Seeded(seeding["job"]) \in [Keys -> Rules]
      BY <2>2, <2>3, SeededRules
  <2>. QED
      BY <2>1, <2>4 DEF JobOK, Deciding
<1>4. CASE cron' = NextRow /\ cron.at \in {"row", "mail"} /\ cron.list # << >>
  <2>. DEFINE rest == Tail(cron.list)
  <2>1. /\ cron'.at = "row" /\ cron'.list = rest /\ cron'.rules = cron.rules
        /\ DOMAIN cron' = {"at", "list", "rules"}
      BY <1>4 DEF NextRow
  <2>2. /\ rest \in Seq(Items) /\ Len(rest) = Len(cron.list) - 1
        /\ \A i \in 1..Len(rest) : i + 1 \in 1..Len(cron.list) /\ rest[i] = cron.list[i + 1]
      BY <1>4, InHand
  <2>. HIDE DEF rest
  <2>3. \A i, j \in 1..Len(rest) : i # j => rest[i].id # rest[j].id
    <3>. SUFFICES ASSUME NEW i \in 1..Len(rest), NEW j \in 1..Len(rest), i # j
                  PROVE  rest[i].id # rest[j].id
        OBVIOUS
    <3>1. i + 1 # j + 1 /\ i + 1 \in 1..Len(cron.list) /\ j + 1 \in 1..Len(cron.list)
        BY <2>2
    <3>. QED
        BY <2>2, <3>1 DEF JobOK
  <2>4. Len(rest) <= Take /\ cron.rules \in [Keys -> Rules]
      BY <1>4, <2>2, ReminderAssumption DEF JobOK, Deciding
  <2>. QED
      BY <2>1, <2>2, <2>3, <2>4 DEF JobOK, Deciding
<1>5. CASE /\ cron.at \in {"row", "ask"} /\ cron.list # << >>
           /\ \/ cron' = [cron EXCEPT !.at = "mail"]
              \/ \E owed : cron' = [at |-> "ask", list |-> cron.list, rules |-> cron.rules,
                                    owed |-> owed]
    BY <1>5 DEF JobOK, Deciding
<1>6. CASE JobRules /\ ~CanSeed("job")
    BY <1>2, <1>6 DEF JobRules
<1>7. CASE JobSkips
    BY <1>4, <1>7 DEF JobSkips
<1>8. CASE JobDone \/ JobThrows
    BY <1>2, <1>8 DEF JobDone, JobThrows
<1>9. CASE \E ok \in BOOLEAN : JobRefreshes(ok)
    BY <1>4, <1>5, <1>9 DEF JobRefreshes
<1>10. CASE \E ok \in BOOLEAN : JobRequests(ok)
    BY <1>5, <1>10 DEF JobRequests, JobOK
<1>11. CASE \E ok \in BOOLEAN : JobMails(ok)
    BY <1>4, <1>11 DEF JobMails, JobOK
<1>12. CASE \/ AdminLists \/ AdminSeeds \/ NextDay
            \/ \E k \in Edited, e \in Edits : UpdateRule(k, e)
            \/ \E r \in Paying, a \in Receipts : Pay(r, a)
            \/ \E r \in Paying : RemotePaid(r) \/ Cancelled(r)
  <2>1. /\ cron' = cron /\ seeding'["job"] = seeding["job"]
        /\ DOMAIN rules \subseteq DOMAIN rules'
      BY <1>12, OthersStep
  <2>. QED
      BY <2>1 DEF JobOK, Deciding
<1>13. CASE UNCHANGED rvars
    BY <1>13 DEF rvars, JobOK, Deciding
<1>. QED
    BY <1>1, <1>3, <1>6, <1>7, <1>8, <1>9, <1>10, <1>11, <1>12, <1>13 DEF ReminderNext, JobStep

LEMMA MarksStep == TablesOK /\ JobOK /\ MarksFresh /\ [ReminderNext]_rvars => MarksFresh'
<1>. SUFFICES ASSUME TablesOK, JobOK, MarksFresh, [ReminderNext]_rvars
              PROVE  MarksFresh'
    OBVIOUS
<1>1. CASE morningUnpaidReminder
  <2>1. PICK q \in Orders : cron' = [at |-> "rules", list |-> Loaded(q), rules |-> << >>]
      BY <1>1 DEF morningUnpaidReminder
  <2>2. row' = row
      BY <1>1 DEF morningUnpaidReminder
  <2>. QED
      BY <2>1, <2>2, LoadedList DEF MarksFresh
<1>2. CASE cron' = IdleJob
    BY <1>2 DEF MarksFresh, IdleJob
<1>3. CASE JobRules /\ CanSeed("job")
    BY <1>3 DEF JobRules, MarksFresh
<1>4. CASE JobSkips
    BY <1>4, InHand DEF JobSkips, NextRow, MarksFresh
<1>5. CASE \E ok \in BOOLEAN : JobRefreshes(ok)
  <2>1. PICK ok \in BOOLEAN : JobRefreshes(ok)
      BY <1>5
  <2>2. cron.at = "row" /\ cron.list # << >> /\ Cur.id \in Reservations
      BY <2>1, InHand DEF JobRefreshes
  <2>3. \A r \in Reservations : row'[r].reminded = row[r].reminded /\ row'[r].requested = row[r].requested
      BY <2>1, <2>2 DEF JobRefreshes, TablesOK, Rows
  <2>4. \A i \in 1..Len(cron.list) : cron.list[i].id \in Reservations
      BY ListItems
  <2>5. CASE cron' = NextRow
      BY <2>2, <2>3, <2>4, <2>5, InHand DEF NextRow, MarksFresh
  <2>6. CASE cron'.at = "ask" /\ cron'.list = cron.list
      BY <2>2, <2>3, <2>4, <2>6 DEF MarksFresh
  <2>. QED
      BY <2>1, <2>5, <2>6 DEF JobRefreshes
<1>6. CASE \E ok \in BOOLEAN : JobRequests(ok)
  <2>1. PICK ok \in BOOLEAN : JobRequests(ok)
      BY <1>6
  <2>2. /\ cron.at = "ask" /\ cron.list # << >>
        /\ cron'.at = "mail" /\ cron'.list = cron.list
      BY <2>1 DEF JobRequests, JobOK
  <2>3. Cur.id \in Reservations /\ Cur = cron.list[1]
      BY <2>2, InHand
  <2>4. row' = row \/ row' = [row EXCEPT ![Cur.id].requested = TRUE]
      BY <2>1 DEF JobRequests
  <2>5. \A r \in Reservations : /\ row'[r].reminded = row[r].reminded
                                /\ r # Cur.id => row'[r].requested = row[r].requested
      BY <2>3, <2>4 DEF TablesOK, Rows
  <2>6. \A i \in 1..Len(cron.list) : /\ cron.list[i].id \in Reservations
                                     /\ i > 1 => cron.list[i].id # Cur.id
      BY <2>2, <2>3, ListItems DEF JobOK
  <2>7. ASSUME NEW i \in 1..Len(cron.list)
        PROVE  /\ cron.list[i].row.reminded = row'[cron.list[i].id].reminded
               /\ i > 1 => cron.list[i].row.requested = row'[cron.list[i].id].requested
    <3>1. /\ cron.list[i].row.reminded = row[cron.list[i].id].reminded
          /\ cron.list[i].row.requested = row[cron.list[i].id].requested
        BY <2>2 DEF MarksFresh
    <3>. DEFINE r == cron.list[i].id
    <3>2. r \in Reservations
        BY <2>6
    <3>3. i > 1 => r # Cur.id
        BY <2>6
    <3>. HIDE DEF r
    <3>4. /\ row'[r].reminded = row[r].reminded
          /\ i > 1 => row'[r].requested = row[r].requested
        BY <2>5, <3>2, <3>3
    <3>. QED
        BY <3>1, <3>4 DEF r
  <2>. QED
      BY <2>2, <2>7 DEF MarksFresh
<1>7. CASE \E ok \in BOOLEAN : JobMails(ok)
  <2>1. PICK ok \in BOOLEAN : JobMails(ok)
      BY <1>7
  <2>2. cron.at = "mail" /\ cron.list # << >> /\ cron' = NextRow
      BY <2>1 DEF JobMails, JobOK
  <2>3. Cur.id \in Reservations
      BY <2>2, InHand
  <2>4. row' = row \/ row' = [row EXCEPT ![Cur.id].reminded = TRUE]
      BY <2>1 DEF JobMails
  <2>5. \A r \in Reservations : /\ row'[r].requested = row[r].requested
                                /\ r # Cur.id => row'[r].reminded = row[r].reminded
      BY <2>3, <2>4 DEF TablesOK, Rows
  <2>6. /\ cron'.at = "row" /\ cron'.list = Tail(cron.list)
      BY <2>2 DEF NextRow
  <2>7. ASSUME NEW i \in 1..Len(cron'.list)
        PROVE  /\ cron'.list[i].row.reminded = row'[cron'.list[i].id].reminded
               /\ cron'.list[i].row.requested = row'[cron'.list[i].id].requested
    <3>1. /\ i + 1 \in 1..Len(cron.list) /\ i + 1 > 1
          /\ cron'.list[i] = cron.list[i + 1] /\ cron'.list[i].id # Cur.id
        BY <2>2, <2>6, InHand
    <3>2. cron.list[i + 1].id \in Reservations
        BY <3>1, ListItems
    <3>3. /\ cron.list[i + 1].row.reminded = row[cron.list[i + 1].id].reminded
          /\ cron.list[i + 1].row.requested = row[cron.list[i + 1].id].requested
        BY <3>1 DEF MarksFresh
    <3>. DEFINE r == cron.list[i + 1].id
    <3>4. r \in Reservations /\ r # Cur.id
        BY <3>1, <3>2
    <3>. HIDE DEF r
    <3>5. row'[r].requested = row[r].requested /\ row'[r].reminded = row[r].reminded
        BY <2>5, <3>4
    <3>. QED
        BY <3>1, <3>3, <3>5 DEF r
  <2>. QED
      BY <2>7 DEF MarksFresh
<1>8. CASE \/ AdminLists \/ AdminSeeds \/ NextDay
           \/ \E k \in Edited, e \in Edits : UpdateRule(k, e)
           \/ \E r \in Paying, a \in Receipts : Pay(r, a)
           \/ \E r \in Paying : RemotePaid(r) \/ Cancelled(r)
  <2>1. /\ cron' = cron
        /\ \A r \in Reservations : row'[r].reminded = row[r].reminded /\ row'[r].requested = row[r].requested
      BY <1>8, OthersStep
  <2>2. \A i \in 1..Len(cron.list) : cron.list[i].id \in Reservations
      BY ListItems
  <2>. QED
      BY <2>1, <2>2 DEF MarksFresh
<1>9. CASE UNCHANGED rvars
    BY <1>9 DEF rvars, MarksFresh
<1>. QED
    BY <1>1, <1>2, <1>3, <1>4, <1>5, <1>6, <1>7, <1>8, <1>9
    DEF ReminderNext, JobStep, JobRules, JobDone, JobThrows

LEMMA SentStep ==
    TablesOK /\ JobOK /\ MarksFresh /\ SentIsMarked /\ [ReminderNext]_rvars => SentIsMarked'
<1>. SUFFICES ASSUME TablesOK, JobOK, MarksFresh, SentIsMarked, [ReminderNext]_rvars
              PROVE  SentIsMarked'
    OBVIOUS
<1>1. CASE \E ok \in BOOLEAN : JobRefreshes(ok)
  <2>1. PICK ok \in BOOLEAN : JobRefreshes(ok)
      BY <1>1
  <2>2. UNCHANGED <<mails, posts>> /\ Cur.id \in Reservations
      BY <2>1, InHand DEF JobRefreshes
  <2>3. \A r \in Reservations : /\ row'[r].reminded = row[r].reminded
                                /\ row'[r].requested = row[r].requested
      BY <2>1, <2>2 DEF JobRefreshes, TablesOK, Rows
  <2>. QED
      BY <2>2, <2>3 DEF SentIsMarked
<1>2. CASE \E ok \in BOOLEAN : JobRequests(ok)
  <2>1. PICK ok \in BOOLEAN : JobRequests(ok)
      BY <1>2
  <2>. DEFINE c == Cur.id
              due == cron.owed.inbox /\ ~Cur.row.requested /\ cron.owed.outstanding > 100
  <2>2. c \in Reservations /\ Cur.row.requested = row[c].requested
      BY <2>1, InHand DEF JobRequests, JobOK, MarksFresh
  <2>3. CASE ~due
    <3>1. UNCHANGED <<mails, posts, row>>
        BY <2>1, <2>3 DEF JobRequests
    <3>. QED
        BY <3>1 DEF SentIsMarked
  <2>4. CASE due
    <3>1. /\ mails' = mails /\ (posts' = posts \/ posts' = [posts EXCEPT ![c] = @ + 1])
          /\ row' = [row EXCEPT ![c].requested = TRUE]
        BY <2>1, <2>4 DEF JobRequests
    <3>2. ~row[c].requested
        BY <2>2, <2>4
    <3>. HIDE DEF c, due
    <3>3. posts[c] = 0
        BY <2>2, <3>2 DEF SentIsMarked
    <3>4. \A r \in Reservations : /\ row'[r].reminded = row[r].reminded
                                  /\ r = c => row'[r].requested
                                  /\ r # c => row'[r].requested = row[r].requested
      <4>1. row \in [Reservations -> Rows]
          BY DEF TablesOK
      <4>2. \A r \in Reservations : r # c => row'[r] = row[r]
          BY <3>1, <4>1
      <4>3. row'[c] = [row[c] EXCEPT !.requested = TRUE] /\ row[c] \in Rows
          BY <2>2, <3>1, <4>1
      <4>4. row'[c].requested /\ row'[c].reminded = row[c].reminded
          BY <4>3 DEF Rows
      <4>. QED
          BY <4>2, <4>4
    <3>5. \A r \in Reservations : /\ r = c => posts'[r] <= 1
                                  /\ r # c => posts'[r] = posts[r]
      <4>1. posts \in [Reservations -> Nat]
          BY DEF TablesOK
      <4>2. CASE posts' = posts
          BY <2>2, <3>3, <4>2
      <4>3. CASE posts' = [posts EXCEPT ![c] = @ + 1]
        <5>1. posts'[c] = 0 + 1
            BY <2>2, <3>3, <4>1, <4>3
        <5>2. \A r \in Reservations : r # c => posts'[r] = posts[r]
            BY <4>1, <4>3
        <5>. QED
            BY <5>1, <5>2
      <4>. QED
          BY <3>1, <4>2, <4>3
    <3>. QED
        BY <3>1, <3>4, <3>5 DEF SentIsMarked
  <2>. QED
      BY <2>3, <2>4
<1>3. CASE \E ok \in BOOLEAN : JobMails(ok)
  <2>1. PICK ok \in BOOLEAN : JobMails(ok)
      BY <1>3
  <2>. DEFINE c == Cur.id
  <2>2. c \in Reservations /\ Cur.row.reminded = row[c].reminded
      BY <2>1, InHand DEF JobMails, JobOK, MarksFresh
  <2>3. CASE ~MailDue
    <3>1. UNCHANGED <<mails, posts, row>>
        BY <2>1, <2>3 DEF JobMails
    <3>. QED
        BY <3>1 DEF SentIsMarked
  <2>4. CASE MailDue
    <3>1. /\ posts' = posts /\ (mails' = mails \/ mails' = [mails EXCEPT ![c] = @ + 1])
          /\ row' = [row EXCEPT ![c].reminded = TRUE]
        BY <2>1, <2>4 DEF JobMails
    <3>2. ~row[c].reminded
        BY <2>2, <2>4 DEF MailDue
    <3>. HIDE DEF c
    <3>3. mails[c] = 0
        BY <2>2, <3>2 DEF SentIsMarked
    <3>4. \A r \in Reservations : /\ row'[r].requested = row[r].requested
                                  /\ r = c => row'[r].reminded
                                  /\ r # c => row'[r].reminded = row[r].reminded
      <4>1. row \in [Reservations -> Rows]
          BY DEF TablesOK
      <4>2. \A r \in Reservations : r # c => row'[r] = row[r]
          BY <3>1, <4>1
      <4>3. row'[c] = [row[c] EXCEPT !.reminded = TRUE] /\ row[c] \in Rows
          BY <2>2, <3>1, <4>1
      <4>4. row'[c].reminded /\ row'[c].requested = row[c].requested
          BY <4>3 DEF Rows
      <4>. QED
          BY <4>2, <4>4
    <3>5. \A r \in Reservations : /\ r = c => mails'[r] <= 1
                                  /\ r # c => mails'[r] = mails[r]
      <4>1. mails \in [Reservations -> Nat]
          BY DEF TablesOK
      <4>2. CASE mails' = mails
          BY <2>2, <3>3, <4>2
      <4>3. CASE mails' = [mails EXCEPT ![c] = @ + 1]
        <5>1. mails'[c] = 0 + 1
            BY <2>2, <3>3, <4>1, <4>3
        <5>2. \A r \in Reservations : r # c => mails'[r] = mails[r]
            BY <4>1, <4>3
        <5>. QED
            BY <5>1, <5>2
      <4>. QED
          BY <3>1, <4>2, <4>3
    <3>. QED
        BY <3>1, <3>4, <3>5 DEF SentIsMarked
  <2>. QED
      BY <2>3, <2>4
<1>4. CASE morningUnpaidReminder \/ JobRules \/ JobSkips \/ JobDone \/ JobThrows
    BY <1>4 DEF morningUnpaidReminder, JobRules, JobSkips, JobDone, JobThrows, SentIsMarked
<1>5. CASE \/ AdminLists \/ AdminSeeds \/ NextDay
           \/ \E k \in Edited, e \in Edits : UpdateRule(k, e)
           \/ \E r \in Paying, a \in Receipts : Pay(r, a)
           \/ \E r \in Paying : RemotePaid(r) \/ Cancelled(r)
  <2>1. /\ UNCHANGED <<mails, posts>>
        /\ \A r \in Reservations : /\ row'[r].reminded = row[r].reminded
                                   /\ row'[r].requested = row[r].requested
      BY <1>5, OthersStep
  <2>. QED
      BY <2>1 DEF SentIsMarked
<1>6. CASE UNCHANGED rvars
    BY <1>6 DEF rvars, SentIsMarked
<1>. QED
    BY <1>1, <1>2, <1>3, <1>4, <1>5, <1>6 DEF ReminderNext, JobStep

LEMMA AskStep == TablesOK /\ JobOK /\ AskIsOwed /\ [ReminderNext]_rvars => AskIsOwed'
<1>. SUFFICES ASSUME TablesOK, JobOK, AskIsOwed, [ReminderNext]_rvars
              PROVE  AskIsOwed'
    OBVIOUS
<1>1. CASE cron'.at \notin {"ask", "mail"}
    BY <1>1 DEF AskIsOwed
<1>2. CASE UNCHANGED <<cron, today>>
    BY <1>2 DEF AskIsOwed, Skipped, JobRule, Cur, berlinDaysUntil, berlinDaysSinceDeparture
<1>3. CASE \E ok \in BOOLEAN : JobRefreshes(ok)
  <2>1. PICK ok \in BOOLEAN : JobRefreshes(ok)
      BY <1>3
  <2>. DEFINE isPaid == IF ok THEN remote[Cur.id] ELSE Cur.row.isPaid
              e == evaluatePortalBalance(Cur.row.paid, isPaid, berlinDaysUntil(Cur.id),
                                         berlinDaysSinceDeparture(Cur.id), JobRule)
  <2>2. isPaid \in BOOLEAN
      BY <2>1, InHand DEF JobRefreshes, TablesOK, Rows
  <2>3. /\ ~Skipped /\ today' = today
        /\ \/ cron' = [at |-> "ask", list |-> cron.list, rules |-> cron.rules, owed |-> e]
           \/ cron' = NextRow
      BY <2>1 DEF JobRefreshes
  <2>. HIDE DEF isPaid
  <2>4. CASE cron' = [at |-> "ask", list |-> cron.list, rules |-> cron.rules, owed |-> e]
    <3>1. /\ cron'.list = cron.list /\ cron'.rules = cron.rules /\ cron'.owed = e
        BY <2>4
    <3>2. Cur' = Cur /\ JobRule' = JobRule /\ Skipped' = Skipped
        BY <2>3, <3>1 DEF Cur, JobRule, Skipped, berlinDaysUntil, berlinDaysSinceDeparture
    <3>. QED
        BY <2>2, <2>3, <3>1, <3>2 DEF AskIsOwed, berlinDaysUntil, berlinDaysSinceDeparture
  <2>5. CASE cron' = NextRow
      BY <1>1, <2>5 DEF NextRow
  <2>. QED
      BY <2>3, <2>4, <2>5
<1>4. CASE \E ok \in BOOLEAN : JobRequests(ok)
  <2>1. /\ cron.at = "ask" /\ cron' = [cron EXCEPT !.at = "mail"] /\ today' = today
      BY <1>4 DEF JobRequests
  <2>2. cron'.list = cron.list /\ cron'.rules = cron.rules /\ cron'.owed = cron.owed
      BY <2>1
  <2>3. Cur' = Cur /\ JobRule' = JobRule /\ Skipped' = Skipped
      BY <2>1, <2>2 DEF Cur, JobRule, Skipped, berlinDaysUntil, berlinDaysSinceDeparture
  <2>. QED
      BY <2>1, <2>2, <2>3 DEF AskIsOwed, berlinDaysUntil, berlinDaysSinceDeparture
<1>5. CASE \E ok \in BOOLEAN : JobMails(ok)
    BY <1>1, <1>5 DEF JobMails, NextRow
<1>6. CASE morningUnpaidReminder \/ JobRules \/ JobSkips \/ JobDone \/ JobThrows
    BY <1>1, <1>6 DEF morningUnpaidReminder, JobRules, JobSkips, JobDone, JobThrows, NextRow, IdleJob
<1>7. CASE \/ AdminLists \/ AdminSeeds \/ NextDay
           \/ \E k \in Edited, e \in Edits : UpdateRule(k, e)
           \/ \E r \in Paying, a \in Receipts : Pay(r, a)
           \/ \E r \in Paying : RemotePaid(r) \/ Cancelled(r)
  <2>1. cron' = cron /\ (cron.at = "idle" \/ today' = today)
      BY <1>7, OthersStep
  <2>. QED
      BY <1>1, <1>2, <2>1
<1>8. CASE UNCHANGED rvars
    BY <1>2, <1>8 DEF rvars
<1>. QED
    BY <1>3, <1>4, <1>5, <1>6, <1>7, <1>8 DEF ReminderNext, JobStep

LEMMA RemindedStep ==
    ReminderIInv /\ [ReminderNext]_rvars => RemindedIsOwed'
<1>. SUFFICES ASSUME ReminderIInv, [ReminderNext]_rvars
              PROVE  RemindedIsOwed'
    OBVIOUS
<1>. TablesOK /\ JobOK /\ AskIsOwed /\ RemindedIsOwed
    BY DEF ReminderIInv
<1>1. CASE UNCHANGED asked
    BY <1>1 DEF RemindedIsOwed, FirstReminder
<1>2. CASE \E ok \in BOOLEAN : JobMails(ok) /\ MailDue
  <2>1. PICK ok \in BOOLEAN : JobMails(ok) /\ MailDue
      BY <1>2
  <2>. DEFINE c == Cur.id
              now == [day |-> today, paid |-> Cur.row.paid, rule |-> JobRule]
  <2>2. c \in Reservations /\ Cur.row \in Rows /\ Deciding /\ cron.at = "mail"
      BY <2>1, InHand DEF JobMails, JobOK, Deciding
  <2>3. asked' = [asked EXCEPT ![c] = now]
      BY <2>1 DEF JobMails
  <2>4. ~Skipped /\ JobRule # None
      BY <2>2 DEF AskIsOwed, Skipped
  <2>5. JobRule \in Rules
      BY <2>2, <2>4, JobRuleType
  <2>6. PICK isPaid \in BOOLEAN :
           cron.owed = evaluatePortalBalance(Cur.row.paid, isPaid, berlinDaysUntil(c),
                                             berlinDaysSinceDeparture(c), JobRule)
      BY <2>2 DEF AskIsOwed
  <2>7. cron.owed.remind /\ cron.owed.outstanding > 100
      BY <2>1 DEF MailDue
  <2>8. /\ today \in Int /\ Arrival[c] \in Int /\ Nights \in Int /\ Cur.row.paid \in Int
      BY <2>2, ReminderAssumption DEF TablesOK, Rows, Cents
  <2>9. berlinDaysUntil(c) = Arrival[c] - today /\ berlinDaysSinceDeparture(c) = today - (Arrival[c] + Nights)
      BY DEF berlinDaysUntil, berlinDaysSinceDeparture
  <2>. DEFINE rule == JobRule
              days == berlinDaysUntil(c)
              since == berlinDaysSinceDeparture(c)
  <2>10. days \in Int /\ since \in Int
      BY <2>8, <2>9
  <2>11. /\ ~rule.skip
         /\ Cur.row.paid + 100 < (IF rule.untilDep # None /\ rule.hostPct = 0 THEN Total
                                  ELSE Share(Total, rule.hostPct))
         /\ rule.untilDep # None => /\ since > rule.untilDep
                                    /\ rule.dueByDep # None => since > rule.dueByDep
         /\ rule.untilDep = None => /\ rule.untilArr # None => days <= rule.untilArr
                                    /\ rule.dueBy = None => days <= 28
                                    /\ rule.dueBy # None => days <= rule.dueBy
                                    /\ rule.dueBy # None /\ rule.grace # None
                                          => days <= rule.dueBy - rule.grace
    <3>. HIDE DEF days, since
    <3>. QED
        BY <2>5, <2>6, <2>7, <2>8, <2>10, ReminderDue DEF days, since
  <2>12. rule.untilDep = None => today <= Arrival[c]
      BY <2>4, <2>8, <2>9 DEF Skipped
  <2>13. today >= FirstReminder(c, rule)
    <3>1. /\ rule.untilDep # None => /\ today - (Arrival[c] + Nights) > rule.untilDep
                                     /\ rule.dueByDep # None =>
                                           today - (Arrival[c] + Nights) > rule.dueByDep
          /\ rule.untilDep = None => /\ rule.untilArr # None => Arrival[c] - today <= rule.untilArr
                                     /\ rule.dueBy = None => Arrival[c] - today <= 28
                                     /\ rule.dueBy # None => Arrival[c] - today <= rule.dueBy
                                     /\ rule.dueBy # None /\ rule.grace # None
                                           => Arrival[c] - today <= rule.dueBy - rule.grace
        BY <2>9, <2>11, Zenon
    <3>2. c \in Reservations /\ rule \in Rules
        BY <2>2, <2>5
    <3>. HIDE DEF c, rule
    <3>. QED
        BY <2>8, <3>1, <3>2, NotBeforeTheFirst, Zenon
  <2>14. \A r \in Reservations : r # c => asked'[r] = asked[r]
      BY <2>3 DEF TablesOK
  <2>15. asked'[c] = now
      BY <2>2, <2>3 DEF TablesOK
  <2>. HIDE DEF c, now
  <2>16. ASSUME NEW r \in Reservations, asked'[r] # None
         PROVE  LET a == asked'[r]
                    share == IF a.rule.untilDep # None /\ a.rule.hostPct = 0 THEN Total
                             ELSE Share(Total, a.rule.hostPct)
                IN  /\ a.paid + 100 < share
                    /\ a.day >= FirstReminder(r, a.rule)
                    /\ a.rule.untilDep = None => a.day <= Arrival[r]
                    /\ ~a.rule.skip
    <3>1. CASE r # c
        BY <2>14, <2>16, <3>1 DEF RemindedIsOwed
    <3>2. CASE r = c
      <4>1. now.day = today /\ now.paid = Cur.row.paid /\ now.rule = JobRule
          BY DEF now
      <4>. QED
          BY <2>11, <2>12, <2>13, <2>15, <3>2, <4>1
    <3>. QED
        BY <3>1, <3>2
  <2>. QED
      BY <2>16 DEF RemindedIsOwed, FirstReminder
<1>3. CASE UNCHANGED rvars
    BY <1>1, <1>3 DEF rvars
<1>4. CASE ReminderNext
  <2>1. UNCHANGED asked \/ \E ok \in BOOLEAN : JobMails(ok) /\ MailDue
    <3>1. CASE \/ AdminLists \/ AdminSeeds \/ NextDay
               \/ \E k \in Edited, e \in Edits : UpdateRule(k, e)
               \/ \E r \in Paying, a \in Receipts : Pay(r, a)
               \/ \E r \in Paying : RemotePaid(r) \/ Cancelled(r)
        BY <3>1, OthersStep
    <3>2. CASE \E ok \in BOOLEAN : JobMails(ok)
        BY <3>2 DEF JobMails
    <3>3. CASE \E ok \in BOOLEAN : JobRefreshes(ok) \/ JobRequests(ok)
        BY <3>3 DEF JobRefreshes, JobRequests
    <3>4. CASE morningUnpaidReminder \/ JobRules \/ JobSkips \/ JobDone \/ JobThrows
        BY <3>4 DEF morningUnpaidReminder, JobRules, JobSkips, JobDone, JobThrows
    <3>. QED
        BY <1>4, <3>1, <3>2, <3>3, <3>4 DEF ReminderNext, JobStep
  <2>. QED
      BY <1>1, <1>2, <2>1
<1>. QED
    BY <1>3, <1>4

LEMMA ReminderStep == ReminderIInv /\ [ReminderNext]_rvars => ReminderIInv'
    BY TablesStep, JobInvStep, MarksStep, SentStep, AskStep, RemindedStep DEF ReminderIInv

LEMMA ReminderInvFollows == ReminderIInv => ReminderInv
<1>. SUFFICES ASSUME ReminderIInv
              PROVE  ReminderInv
    OBVIOUS
<1>1. ReminderTypeOK
    BY DEF ReminderIInv, TablesOK, JobOK, ReminderTypeOK, Rules, Rows, Cents, Percents
<1>2. RulesComplete
    BY DEF ReminderIInv, JobOK, Deciding, RulesComplete
<1>3. AskedOnce
    BY DEF ReminderIInv, SentIsMarked, AskedOnce
<1>. QED
    BY <1>1, <1>2, <1>3 DEF ReminderIInv, ReminderInv

\* Whatever rules are stored and edited, whoever fills them in at the same
\* time, whichever call fails and wherever the job stops: the office hears of
\* money that is missing, on a day its rule names, once, and the guest is
\* asked at most once (notifyUnpaidBeforeArrival, ensureDefaults).
THEOREM ReminderTheorem == ReminderSpec => []ReminderInv
<1>1. ReminderInit => ReminderIInv
    BY ReminderStart
<1>2. ReminderIInv /\ [ReminderNext]_rvars => ReminderIInv'
    BY ReminderStep
<1>3. ReminderIInv => ReminderInv
    BY ReminderInvFollows
<1>. QED
    BY <1>1, <1>2, <1>3, PTL DEF ReminderSpec
=============================================================================
