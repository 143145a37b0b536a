------------------------ MODULE GuestPaymentsProofs ------------------------
(***************************************************************************)
(* What a guest hears and gets follows the money, for every set of stays,  *)
(* rules, handlers and amounts: GuestPayments!GuestInv holds in every      *)
(* reachable state; and the job cancels only what is due.                  *)
(***************************************************************************)
EXTENDS GuestPayments, FiniteSetTheorems, TLAPS

----------------------------------------------------------------------------
(* Amounts and decisions.                                                  *)

\* A percentage of the price is an amount in cents.
LEMMA PercentType ==
    ASSUME NEW total \in Nat, NEW pct \in Nat
    PROVE  Percent(total, pct) \in Nat
<1>1. total * pct \in Nat
    OBVIOUS
<1>2. \A n \in Nat : (n + 50) \div 100 \in Nat
    OBVIOUS
<1>. QED
    BY <1>1, <1>2 DEF Percent

\* So is what the schedule makes of it.
LEMMA AmountTypes ==
    ASSUME NEW u \in RuleType
    PROVE  /\ depositAmount(Total, u) \in Nat
           /\ balanceAmount(Total, u) \in Nat
           /\ fullAmount(Total, u) \in Nat
           /\ \A phase : DueForPhase(phase, Total, u) \in Nat
           /\ \A phase : \A matched \in Nat : paidTowardPhase(matched, phase, Total, u) \in Nat
<1>. /\ u.depositPct \in Nat /\ u.hostPct \in Nat /\ Total \in Nat
    BY GuestBounds DEF RuleType
<1>1. depositAmount(Total, u) \in Nat /\ fullAmount(Total, u) \in Nat
    BY PercentType DEF depositAmount, fullAmount
<1>2. balanceAmount(Total, u) \in Nat
  <2>1. Percent(Total, u.hostPct) \in Nat
      BY PercentType
  <2>2. \A n \in Int : AtLeastZero(n) \in Nat
      BY DEF AtLeastZero
  <2>3. Total - depositAmount(Total, u) \in Int
      BY <1>1
  <2>. QED
      BY <2>1, <2>2, <2>3 DEF balanceAmount
<1>3. \A phase : DueForPhase(phase, Total, u) \in Nat
    BY <1>1, <1>2 DEF DueForPhase
<1>4. \A phase : \A matched \in Nat : paidTowardPhase(matched, phase, Total, u) \in Nat
    BY <1>1 DEF paidTowardPhase, LesserOf, AtLeastZero
<1>. QED
    BY <1>1, <1>2, <1>3, <1>4

\* What the schedule decides is of its type; it asks for a deposit or a
\* balance, and it reminds only of a request that has no reminder yet.
LEMMA DecisionFacts ==
    ASSUME NEW u \in RuleType, NEW s \in Row, NEW matched \in Nat,
           NEW isPaid \in BOOLEAN, NEW day \in Nat, NEW late \in BOOLEAN,
           NEW d, d = evaluateGuestPaymentSchedule(u, s, matched, isPaid, day, late)
    PROVE  /\ d.amt \in Nat /\ d.phase \in Phases
           /\ d.act = "request" => d.phase \in {"deposit", "balance"}
           /\ d.act = "remind" => s.req /\ ~s.rem
<1>. DEFINE phase0 == IF s.phase = None THEN "full" ELSE s.phase
            Out(phase) == AtLeastZero(DueForPhase(phase, Total, u)
                                      - paidTowardPhase(matched, phase, Total, u))
            depOut == AtLeastZero(depositAmount(Total, u)
                                  - paidTowardPhase(matched, "deposit", Total, u))
            balOut == AtLeastZero(balanceAmount(Total, u)
                                  - paidTowardPhase(matched, "balance", Total, u))
<1>1. phase0 \in Phases
    BY DEF Row, Phases
<1>2. Out(phase0) \in Nat /\ depOut \in Nat /\ balOut \in Nat
    BY AmountTypes DEF AtLeastZero
<1>3. CASE d = NoDecision
    BY <1>3 DEF NoDecision, Decision, Phases
<1>4. CASE d = AfterRequest(u, s, matched, late) /\ s.req
  <2>1. \/ d = NoDecision
        \/ d.act \in {"cancel", "await"} /\ d = Decision(d.act, phase0, Out(phase0))
        \/ d = Decision("remind", phase0, Out(phase0)) /\ ~s.rem
    BY <1>4 DEF AfterRequest, Decision
  <2>. HIDE DEF phase0, Out
  <2>. QED
    BY <2>1, <1>1, <1>2, <1>3, <1>4 DEF Decision
<1>5. CASE d = DepositSchedule(u, s, matched, day)
  <2>1. \/ d = NoDecision
        \/ d.act \in {"request", "none"} /\ d = Decision(d.act, "deposit", depOut)
        \/ d.act \in {"request", "none"} /\ d = Decision(d.act, "balance", balOut)
    BY <1>5 DEF DepositSchedule, Decision
  <2>. HIDE DEF depOut, balOut
  <2>. QED
    BY <2>1, <1>2, <1>3 DEF Decision, Phases
<1>. QED
    BY <1>3, <1>4, <1>5 DEF evaluateGuestPaymentSchedule

\* What is asked first is an amount, its deadline a number of days.
LEMMA FirstTypes ==
    ASSUME NEW r \in Reservations, rule[r] \in RuleType
    PROVE  FirstAmount(r) \in Nat /\ FirstDays(r) \in Nat \cup {None}
<1>1. FirstAmount(r) \in Nat
    BY AmountTypes, PercentType, GuestBounds DEF FirstAmount
<1>2. FirstDays(r) \in Nat \cup {None}
    BY DEF FirstDays, RuleType
<1>. QED
    BY <1>1, <1>2

----------------------------------------------------------------------------
(* Types.                                                                  *)

LEMMA IdleType == IdleTask \in Task /\ IdleTask.pc = "idle"
<1>1. EmptyRow \in Row
    BY DEF EmptyRow, Row, Phases, Days
<1>. QED
    BY <1>1 DEF IdleTask, Task, NoRows, NoCharges, Pcs, Phases, Days

LEMMA NextStayType ==
    ASSUME NEW t \in Task
    PROVE  /\ NextStay(t) \in Task /\ NextStay(t).pc = "next"
           /\ NextStay(t).todo = t.todo
           /\ \A r \in t.todo : NextStay(t).seen[r] = t.seen[r]
           /\ \A r \in Reservations : NextStay(t).matched[r] \in {t.matched[r], 0}
<1>1. EmptyRow \in Row
    BY DEF EmptyRow, Row, Phases, Days
<1>. QED
    BY <1>1, IdleType DEF NextStay, Task, Pcs, IdleTask

LEMMA AfterReturnType ==
    ASSUME NEW w \in Tasks, task \in [Tasks -> Task],
           task[w].pc \notin {"idle", "next"} => task[w].r \in Reservations
    PROVE  /\ AfterReturn(w) \in Task /\ AfterThrow(w) \in Task
           /\ AfterReturn(w).pc \in {"idle", "next", "welcome"}
           /\ AfterThrow(w).pc \in {"idle", "next", "welcome"}
           /\ AfterReturn(w).pc \notin {"idle", "next"} => AfterReturn(w).r = task[w].r
           /\ AfterThrow(w).pc \notin {"idle", "next"} => AfterThrow(w).r = task[w].r
<1>. task[w] \in Task
    OBVIOUS
<1>1. CASE w = "job"
    BY <1>1, IdleType, NextStayType DEF AfterReturn, AfterThrow
<1>2. CASE w # "job"
  <2>. DEFINE welcome == [IdleTask EXCEPT !.pc = "welcome", !.r = task[w].r]
  <2>1. welcome \in Task /\ welcome.pc = "welcome" /\ welcome.r = task[w].r
      BY IdleType DEF Task, Pcs, IdleTask
  <2>2. /\ AfterThrow(w) = AfterReturn(w)
        /\ AfterReturn(w) \in {IdleTask, welcome}
      BY <1>2 DEF AfterReturn, AfterThrow
  <2>. HIDE DEF welcome
  <2>. QED
      BY <2>1, <2>2, IdleType
<1>. QED
    BY <1>1, <1>2

\* A handler that is under way is about a stay, and the daily job is not to
\* come back to the one it is at.
Busy(w) == task[w].pc \notin {"idle", "next"}

OnAStay ==
    /\ \A w \in Tasks : Busy(w) => task[w].r \in Reservations
    /\ Busy("job") => task["job"].r \notin task["job"].todo

TypeInv == GuestTypeOK /\ OnAStay

LEMMA TypeInit == Init => TypeInv
<1>1. \A r : FirstStatus(r) \in {"inquiry", "new"}
    BY DEF FirstStatus
<1>2. Init => row \in [Reservations -> Row]
  <2>1. \A r : [EmptyRow EXCEPT !.st = FirstStatus(r)] \in Row
      BY <1>1 DEF Row, EmptyRow, Phases, Days
  <2>. QED
      BY <2>1 DEF Init
<1>3. Init => task \in [Tasks -> Task] /\ \A w \in Tasks : ~Busy(w)
    BY IdleType DEF Init, Busy
<1>4. "job" \in Tasks
    BY DEF Tasks
<1>5. Init => /\ ha \in [Reservations -> [st : {"inquiry", "new", "cancelled"},
                                          sum : Int, contact : BOOLEAN]]
             /\ sent \in [Reservations -> Messages] /\ log \in [Reservations -> History]
             /\ paid \in [Reservations -> Nat] /\ asked \in [Reservations -> Nat]
    BY <1>1 DEF Init, Messages, History, NoCharges
<1>6. Init => /\ today \in 0..MaxDay /\ ran \in BOOLEAN /\ opened \subseteq Reservations
             /\ nPays \in 0..MaxPays /\ faults \in 0..MaxFaults
             /\ rule \in [Reservations -> Rules] /\ kind \in [Reservations -> Kinds]
  <2>1. 0 \in 0..MaxDay /\ 0 \in 0..MaxPays /\ 0 \in 0..MaxFaults
      BY GuestBounds
  <2>. QED
      BY <2>1 DEF Init
<1>. QED
    BY <1>2, <1>3, <1>4, <1>5, <1>6 DEF TypeInv, GuestTypeOK, OnAStay

\* A handler goes on with a task of the right type.
LEMMA GoType ==
    ASSUME task \in [Tasks -> Task], OnAStay, NEW w \in Tasks, NEW t \in Task, Go(w, t),
           t.pc \notin {"idle", "next"} =>
               t.r \in Reservations /\ (w = "job" => t.r \notin t.todo)
    PROVE  task' \in [Tasks -> Task] /\ OnAStay'
BY DEF Go, OnAStay, Busy

LEMMA ToType ==
    ASSUME task \in [Tasks -> Task], OnAStay, NEW w \in Tasks, NEW pc \in Pcs, Busy(w), To(w, pc)
    PROVE  task' \in [Tasks -> Task] /\ OnAStay'
<1>. DEFINE t == [task[w] EXCEPT !.pc = pc]
<1>1. t \in Task /\ t.r = task[w].r /\ t.todo = task[w].todo
    BY DEF Task
<1>. QED
    BY <1>1, GoType DEF To, OnAStay, Busy

\* What GuestTypeOK says of each table.
LEMMA TypeParts ==
    ASSUME TypeInv
    PROVE  /\ row \in [Reservations -> Row] /\ task \in [Tasks -> Task] /\ OnAStay
           /\ rule \in [Reservations -> RuleType] /\ today \in Nat
           /\ paid \in [Reservations -> Nat] /\ asked \in [Reservations -> Nat]
           /\ ha \in [Reservations -> [st : {"inquiry", "new", "cancelled"},
                                       sum : Int, contact : BOOLEAN]]
           /\ sent \in [Reservations -> Messages] /\ log \in [Reservations -> History]
BY GuestBounds DEF TypeInv, GuestTypeOK

\* A failure is counted within its bound.
LEMMA FaultType ==
    ASSUME TypeInv, (\E what : Fault(what)) \/ UNCHANGED faults
    PROVE  faults' \in 0..MaxFaults
BY GuestBounds DEF TypeInv, GuestTypeOK, Fault

\* Columns that are set keep a row a row.
LEMMA RowType ==
    ASSUME NEW s \in Row
    PROVE  /\ \A st \in {"inquiry", "new", "cancelled"} :
                 /\ [s EXCEPT !.st = st] \in Row
                 /\ [s EXCEPT !.auto = TRUE, !.st = st] \in Row
           /\ \A b \in BOOLEAN : /\ [s EXCEPT !.isPaid = b] \in Row /\ [s EXCEPT !.rem = b] \in Row
                                 /\ [s EXCEPT !.info = b] \in Row /\ [s EXCEPT !.welcome = b] \in Row
           /\ ClearMarks(s) \in Row
           /\ [s EXCEPT !.dl = OneDayLess(@)] \in Row
<1>1. s.dl \in Days /\ OneDayLess(s.dl) \in Days
    BY NullRule DEF Row, Days, OneDayLess
<1>. QED
    BY <1>1 DEF Row, ClearMarks, Phases, Days

\* The row as the decision takes it, with or without the marks of a deposit.
LEMMA CleanRow ==
    ASSUME NEW x \in Row, NEW clear
    PROVE  /\ (IF clear THEN ClearMarks(x) ELSE x) \in Row
           /\ clear => ~(IF clear THEN ClearMarks(x) ELSE x).req
<1>1. ClearMarks(x) \in Row
    BY RowType
<1>2. ~ClearMarks(x).req
    BY DEF ClearMarks, Row
<1>. QED
    BY <1>1, <1>2

\* A task that moves on, with a deadline or without one.
LEMMA TaskMoves ==
    ASSUME NEW x \in Task, NEW pc \in Pcs
    PROVE  /\ [x EXCEPT !.pc = pc] \in Task
           /\ [x EXCEPT !.pc = pc].r = x.r /\ [x EXCEPT !.pc = pc].todo = x.todo
BY DEF Task

LEMMA TaskAsks ==
    ASSUME NEW x \in Task, NEW pc \in Pcs, NEW dl \in Days
    PROVE  /\ [x EXCEPT !.pc = pc, !.dl = dl] \in Task
           /\ [x EXCEPT !.pc = pc, !.dl = dl].r = x.r
           /\ [x EXCEPT !.pc = pc, !.dl = dl].todo = x.todo
BY DEF Task

\* So are a stay in Hostaway, its history and the messages it got.
LEMMA RecordTypes ==
    /\ \A h \in [st : {"inquiry", "new", "cancelled"}, sum : Int, contact : BOOLEAN] :
          /\ \A st \in {"inquiry", "new", "cancelled"} :
                [h EXCEPT !.st = st] \in [st : {"inquiry", "new", "cancelled"}, sum : Int, contact : BOOLEAN]
          /\ \A n \in Int :
                [h EXCEPT !.sum = n] \in [st : {"inquiry", "new", "cancelled"}, sum : Int, contact : BOOLEAN]
          /\ \A b \in BOOLEAN :
                [h EXCEPT !.contact = b] \in [st : {"inquiry", "new", "cancelled"}, sum : Int, contact : BOOLEAN]
    /\ \A l \in History :
          /\ \A n \in Nat : [l EXCEPT !.max = n] \in History /\ [l EXCEPT !.marks = n] \in History
          /\ \A b \in BOOLEAN : [l EXCEPT !.full = b] \in History /\ [l EXCEPT !.kept = b] \in History
    /\ \A m \in Messages : \A n \in Nat :
          [m EXCEPT !.reminder = n] \in Messages /\ [m EXCEPT !.arrival = n] \in Messages
BY DEF History, Messages

\* Every action keeps the types: the job's first.
LEMMA TypeJob == TypeInv /\ Job => TypeInv'
<1>. SUFFICES ASSUME TypeInv, Job PROVE TypeInv'
    OBVIOUS
<1>0. /\ row \in [Reservations -> Row] /\ task \in [Tasks -> Task] /\ OnAStay
      /\ rule \in [Reservations -> RuleType] /\ today \in Nat
      /\ paid \in [Reservations -> Nat] /\ sent \in [Reservations -> Messages]
      /\ ha \in [Reservations -> [st : {"inquiry", "new", "cancelled"},
                                  sum : Int, contact : BOOLEAN]]
    BY TypeParts
<1>. "job" \in Tasks /\ task["job"] \in Task
    BY <1>0 DEF Tasks
<1>a. NextStay(task["job"]) \in Task /\ NextStay(task["job"]).pc = "next"
    BY <1>0, NextStayType
<1>b. AfterThrow("job") \in Task /\ AfterThrow("job").pc = "idle"
    BY IdleType DEF AfterThrow
<1>1. CASE dailyGuestPaymentJob
  <2>. DEFINE t == [IdleTask EXCEPT !.todo = {r \in Reservations : Candidate(r)},
                                    !.seen = row, !.matched = paid]
  <2>1. t \in Task
      BY <1>0, IdleType DEF Task
  <2>2. NextStay(t) \in Task /\ NextStay(t).pc = "next"
      BY <2>1, NextStayType
  <2>3. Go("job", NextStay(t))
      BY <1>1 DEF dailyGuestPaymentJob
  <2>4. task' \in [Tasks -> Task] /\ OnAStay'
      BY <1>0, <2>2, <2>3, GoType
  <2>. QED
      BY <1>1, <2>4 DEF dailyGuestPaymentJob, TypeInv, GuestTypeOK
<1>2. CASE JobNext
  <2>1. task' \in [Tasks -> Task] /\ OnAStay'
    <3>1. CASE Go("job", IdleTask)
        BY <1>0, <3>1, IdleType, GoType
    <3>2. ASSUME NEW r \in task["job"].todo,
                 Go("job", IF rule[r].enabled
                           THEN [task["job"] EXCEPT !.todo = @ \ {r}, !.r = r, !.pc = "refresh"]
                           ELSE NextStay([task["job"] EXCEPT !.todo = @ \ {r}, !.r = r, !.pc = "refresh"]))
          PROVE  task' \in [Tasks -> Task] /\ OnAStay'
      <4>. DEFINE t == [task["job"] EXCEPT !.todo = @ \ {r}, !.r = r, !.pc = "refresh"]
      <4>1. r \in Reservations
          BY DEF Task
      <4>2. t \in Task /\ t.r = r /\ t.todo = task["job"].todo \ {r}
          BY <1>0, <4>1 DEF Task, Pcs
      <4>3. NextStay(t) \in Task /\ NextStay(t).pc = "next"
          BY <4>2, NextStayType
      <4>. QED
          BY <1>0, <3>2, <4>1, <4>2, <4>3, GoType
    <3>. QED
        BY <1>2, <3>1, <3>2 DEF JobNext
  <2>. QED
      BY <1>2, <2>1 DEF JobNext, TypeInv, GuestTypeOK
<1>3. ASSUME NEW late \in BOOLEAN, Decide(late) PROVE TypeInv'
  <2>. DEFINE t == task["job"]
              r == t.r
              u == rule[r]
              clear == DepositArrived(u, t.seen[r], t.matched[r])
              s == IF clear THEN ClearMarks(t.seen[r]) ELSE t.seen[r]
              d == evaluateGuestPaymentSchedule(u, s, t.matched[r], FALSE, today, late)
              days == IF d.phase = "deposit" THEN u.depositDays ELSE u.deadlineDays
              t2 == [t EXCEPT !.seen[r] = s, !.amt = d.amt, !.phase = d.phase]
  <2>1. r \in Reservations /\ u \in RuleType /\ today \in Nat /\ r \notin t.todo
      BY <1>0, <1>3 DEF Decide, At, OnAStay, Busy
  <2>2. /\ \A x \in Row : ClearMarks(x) \in Row
        /\ t.seen[r] \in Row /\ t.matched[r] \in Nat
      BY <2>1, RowType DEF Task
  <2>3. s \in Row
      BY <2>2
  <2>4. d.amt \in Nat /\ d.phase \in Phases
    <3>. HIDE DEF s, u
    <3>. QED
        BY <2>1, <2>2, <2>3, DecisionFacts
  <2>5. DeadlineOf(days) \in Days
      BY <2>1 DEF DeadlineOf, RuleType, Days
  <2>6. row' \in [Reservations -> Row]
    <3>1. row' = [row EXCEPT ![r] = IF clear THEN ClearMarks(row[r]) ELSE row[r]]
        BY <1>3 DEF Decide
    <3>. QED
        BY <1>0, <2>2, <3>1
  <2>. DEFINE cancels == [t2 EXCEPT !.pc = "haCancel"]
              reminds == [t2 EXCEPT !.pc = "remind"]
              asks == [t2 EXCEPT !.pc = "charge", !.dl = DeadlineOf(days)]
  <2>7. \A x \in {cancels, reminds, asks} : x \in Task /\ x.r = r /\ x.todo = t.todo
    <3>. HIDE DEF s, d, days
    <3>1. t2 \in Task /\ t2.r = r /\ t2.todo = t.todo
        BY <2>1, <2>3, <2>4 DEF Task
    <3>. HIDE DEF t2
    <3>2. {"haCancel", "remind", "charge"} \subseteq Pcs
        BY DEF Pcs
    <3>3. /\ cancels \in Task /\ cancels.r = t2.r /\ cancels.todo = t2.todo
          /\ reminds \in Task /\ reminds.r = t2.r /\ reminds.todo = t2.todo
        BY <3>1, <3>2, TaskMoves
    <3>4. asks \in Task /\ asks.r = t2.r /\ asks.todo = t2.todo
        BY <2>5, <3>1, <3>2, TaskAsks
    <3>. HIDE DEF cancels, reminds, asks
    <3>. QED
        BY <3>1, <3>3, <3>4
  <2>8. \E x \in {cancels, reminds, asks, NextStay(t)} : Go("job", x)
      BY <1>3 DEF Decide
  <2>9. task' \in [Tasks -> Task] /\ OnAStay'
    <3>. HIDE DEF cancels, reminds, asks, r
    <3>. QED
        BY <1>0, <2>1, <2>7, <2>8, <1>a, GoType
  <2>. QED
      BY <1>3, <2>6, <2>9 DEF Decide, TypeInv, GuestTypeOK
<1>4. CASE cancelUnpaidReservation
  <2>1. Busy("job") /\ task["job"].r \in Reservations
      BY <1>0, <1>4 DEF cancelUnpaidReservation, At, OnAStay, Busy
  <2>2. task' \in [Tasks -> Task] /\ OnAStay'
      BY <1>0, <1>4, <1>a, <2>1, GoType, ToType DEF cancelUnpaidReservation, Pcs
  <2>3. ha' \in [Reservations -> [st : {"inquiry", "new", "cancelled"}, sum : Int, contact : BOOLEAN]]
      BY <1>0, <1>4, <2>1 DEF cancelUnpaidReservation
  <2>4. faults' \in 0..MaxFaults
      BY <1>4, FaultType DEF cancelUnpaidReservation
  <2>. QED
      BY <1>4, <2>2, <2>3, <2>4 DEF cancelUnpaidReservation, TypeInv, GuestTypeOK
<1>5. CASE MarkCancelled
  <2>1. Busy("job") /\ task["job"].r \in Reservations
      BY <1>0, <1>5 DEF MarkCancelled, At, OnAStay, Busy
  <2>2. task' \in [Tasks -> Task] /\ OnAStay'
      BY <1>0, <1>5, <1>a, GoType DEF MarkCancelled
  <2>3. row' \in [Reservations -> Row]
      BY <1>0, <1>5, <2>1, RowType DEF MarkCancelled
  <2>. QED
      BY <1>5, <2>2, <2>3 DEF MarkCancelled, TypeInv, GuestTypeOK
<1>6. CASE sendGuestPaymentReminder
  <2>1. Busy("job") /\ task["job"].r \in Reservations
      BY <1>0, <1>6 DEF sendGuestPaymentReminder, At, OnAStay, Busy
  <2>2. task' \in [Tasks -> Task] /\ OnAStay'
      BY <1>0, <1>6, <1>a, <1>b, <2>1, GoType, ToType DEF sendGuestPaymentReminder, Pcs
  <2>3. sent' \in [Reservations -> Messages]
      BY <1>0, <1>6, <2>1 DEF sendGuestPaymentReminder, Sent, Messages
  <2>4. faults' \in 0..MaxFaults
      BY <1>6, FaultType DEF sendGuestPaymentReminder
  <2>. QED
      BY <1>6, <2>2, <2>3, <2>4 DEF sendGuestPaymentReminder, TypeInv, GuestTypeOK
<1>7. CASE ReminderSent
  <2>1. Busy("job") /\ task["job"].r \in Reservations
      BY <1>0, <1>7 DEF ReminderSent, At, OnAStay, Busy
  <2>2. task' \in [Tasks -> Task] /\ OnAStay'
      BY <1>0, <1>7, <1>a, GoType DEF ReminderSent
  <2>3. row' \in [Reservations -> Row]
      BY <1>0, <1>7, <2>1, RowType DEF ReminderSent
  <2>. QED
      BY <1>7, <2>2, <2>3 DEF ReminderSent, TypeInv, GuestTypeOK
<1>. QED
    BY <1>1, <1>2, <1>3, <1>4, <1>5, <1>6, <1>7 DEF Job

\* The request that the job and a new stay share.
LEMMA TypeRequest == TypeInv /\ Request => TypeInv'
<1>. SUFFICES ASSUME TypeInv, NEW w \in {"job", "origin"},
                     refreshIsPaid(w) \/ CreateDueCharge(w) \/ PostRequest(w) \/ RequestSent(w)
              PROVE  TypeInv'
    BY DEF Request
<1>0. /\ row \in [Reservations -> Row] /\ task \in [Tasks -> Task] /\ OnAStay
      /\ rule \in [Reservations -> RuleType] /\ today \in Nat
      /\ paid \in [Reservations -> Nat] /\ asked \in [Reservations -> Nat]
      /\ ha \in [Reservations -> [st : {"inquiry", "new", "cancelled"},
                                  sum : Int, contact : BOOLEAN]]
      /\ sent \in [Reservations -> Messages] /\ log \in [Reservations -> History]
    BY TypeParts
<1>. w \in Tasks /\ task[w] \in Task
    BY <1>0 DEF Tasks
<1>1. Busy(w) /\ task[w].r \in Reservations
    BY <1>0 DEF refreshIsPaid, CreateDueCharge, PostRequest, RequestSent, At, Busy, OnAStay
<1>2. \A t \in {AfterReturn(w), AfterThrow(w)} :
         Go(w, t) => task' \in [Tasks -> Task] /\ OnAStay'
  <2>1. w = "job" => AfterReturn(w).pc \in {"idle", "next"} /\ AfterThrow(w).pc \in {"idle", "next"}
      BY <1>0, IdleType, NextStayType DEF AfterReturn, AfterThrow
  <2>. QED
      BY <1>0, <1>1, <2>1, AfterReturnType, GoType
<1>3. CASE refreshIsPaid(w)
  <2>. DEFINE r == task[w].r
              decide == [task[w] EXCEPT !.pc = "decide"]
  <2>1. decide \in Task /\ decide.r = r /\ decide.todo = task[w].todo
      BY DEF Task, Pcs
  <2>2. \E t \in {AfterReturn(w), AfterThrow(w), decide} : Go(w, t)
      BY <1>3 DEF refreshIsPaid
  <2>3. task' \in [Tasks -> Task] /\ OnAStay'
    <3>. HIDE DEF decide
    <3>1. Go(w, decide) => task' \in [Tasks -> Task] /\ OnAStay'
        BY <1>0, <1>1, <2>1, GoType DEF OnAStay
    <3>. QED
        BY <1>2, <2>2, <3>1
  <2>4. row' \in [Reservations -> Row]
    <3>1. \/ UNCHANGED row
          \/ row' = [row EXCEPT ![r] = [row[r] EXCEPT !.isPaid = row[r].isPaid \/ HostawayPaid(r)]]
        BY <1>3 DEF refreshIsPaid
    <3>2. (row[r].isPaid \/ HostawayPaid(r)) \in BOOLEAN
        OBVIOUS
    <3>3. [row[r] EXCEPT !.isPaid = row[r].isPaid \/ HostawayPaid(r)] \in Row
        BY <1>0, <1>1, <3>2, RowType
    <3>. QED
        BY <1>0, <3>1, <3>3
  <2>5. faults' \in 0..MaxFaults
      BY <1>3, FaultType DEF refreshIsPaid
  <2>. QED
      BY <1>3, <2>3, <2>4, <2>5 DEF refreshIsPaid, TypeInv, GuestTypeOK
<1>4. CASE CreateDueCharge(w)
  <2>1. task' \in [Tasks -> Task] /\ OnAStay'
    <3>1. To(w, "post") \/ Go(w, AfterReturn(w))
        BY <1>4 DEF CreateDueCharge
    <3>. QED
        BY <1>0, <1>1, <1>2, <3>1, ToType DEF Pcs
  <2>2. asked' \in [Reservations -> Nat]
    <3>1. \A m \in Nat, n \in Nat : GreaterOf(m, n) \in Nat
        BY DEF GreaterOf
    <3>2. task[w].matched[task[w].r] + task[w].amt \in Nat
        BY <1>1 DEF Task
    <3>3. asked[task[w].r] \in Nat
        BY <1>0, <1>1
    <3>4. GreaterOf(asked[task[w].r], task[w].matched[task[w].r] + task[w].amt) \in Nat
        BY <3>1, <3>2, <3>3
    <3>5. \/ UNCHANGED asked
          \/ asked' = [asked EXCEPT ![task[w].r] =
                          GreaterOf(asked[task[w].r], task[w].matched[task[w].r] + task[w].amt)]
        BY <1>4 DEF CreateDueCharge
    <3>. QED
        BY <1>0, <3>4, <3>5
  <2>3. faults' \in 0..MaxFaults
      BY <1>4, FaultType DEF CreateDueCharge
  <2>. QED
      BY <1>4, <2>1, <2>2, <2>3 DEF CreateDueCharge, TypeInv, GuestTypeOK
<1>5. CASE PostRequest(w)
  <2>1. task' \in [Tasks -> Task] /\ OnAStay'
    <3>1. To(w, "requestMark") \/ Go(w, AfterThrow(w))
        BY <1>5 DEF PostRequest
    <3>. QED
        BY <1>0, <1>1, <1>2, <3>1, ToType DEF Pcs
  <2>2. faults' \in 0..MaxFaults
      BY <1>5, FaultType DEF PostRequest
  <2>. QED
      BY <1>5, <2>1, <2>2 DEF PostRequest, TypeInv, GuestTypeOK
<1>6. CASE RequestSent(w)
  <2>1. task' \in [Tasks -> Task] /\ OnAStay'
      BY <1>2, <1>6 DEF RequestSent
  <2>2. row' \in [Reservations -> Row]
    <3>1. Requested(row[task[w].r], task[w]) \in Row
      <4>. DEFINE x == row[task[w].r]
                  rem == IF task[w].phase = "balance" THEN FALSE ELSE x.rem
      <4>1. x \in Row /\ task[w].dl \in Days /\ task[w].phase \in Phases
          BY <1>0, <1>1 DEF Task
      <4>2. rem \in BOOLEAN
          BY <4>1 DEF Row
      <4>3. Requested(x, task[w]) =
                [x EXCEPT !.req = TRUE, !.dl = task[w].dl, !.phase = task[w].phase, !.rem = rem]
          BY DEF Requested
      <4>. HIDE DEF x, rem
      <4>4. Requested(x, task[w]) \in Row
          BY <4>1, <4>2, <4>3 DEF Row
      <4>. QED
          BY <4>4 DEF x
    <3>. QED
        BY <1>0, <1>6, <3>1 DEF RequestSent
  <2>3. log' \in [Reservations -> History]
    <3>1. log' = [log EXCEPT ![task[w].r] = [log[task[w].r] EXCEPT !.marks = log[task[w].r].marks + 1]]
        BY <1>6 DEF RequestSent
    <3>2. log[task[w].r] \in History /\ log[task[w].r].marks + 1 \in Nat
        BY <1>0, <1>1 DEF History
    <3>. QED
        BY <1>0, <3>1, <3>2, RecordTypes
  <2>. QED
      BY <1>6, <2>1, <2>2, <2>3 DEF RequestSent, TypeInv, GuestTypeOK
<1>. QED
    BY <1>3, <1>4, <1>5, <1>6

\* A new stay.
LEMMA TypeOrigin == TypeInv /\ Origin => TypeInv'
<1>. SUFFICES ASSUME TypeInv, Origin PROVE TypeInv'
    OBVIOUS
<1>0. /\ row \in [Reservations -> Row] /\ task \in [Tasks -> Task] /\ OnAStay
      /\ rule \in [Reservations -> RuleType] /\ today \in Nat
      /\ paid \in [Reservations -> Nat] /\ asked \in [Reservations -> Nat]
      /\ ha \in [Reservations -> [st : {"inquiry", "new", "cancelled"},
                                  sum : Int, contact : BOOLEAN]]
      /\ sent \in [Reservations -> Messages] /\ log \in [Reservations -> History]
    BY TypeParts
<1>. "origin" \in Tasks /\ task["origin"] \in Task /\ "origin" # "job"
    BY <1>0 DEF Tasks
<1>a. Go("origin", IdleTask) => task' \in [Tasks -> Task] /\ OnAStay'
    BY <1>0, IdleType, GoType
<1>1. ASSUME NEW r \in Reservations, NewStay(r) PROVE TypeInv'
  <2>. DEFINE asks == [IdleTask EXCEPT !.pc = "refresh", !.r = r, !.seen[r] = row[r]]
              rests == [IdleTask EXCEPT !.pc = IF isFonioOffer(r) THEN "idle" ELSE "welcome",
                                        !.r = IF isFonioOffer(r) THEN None ELSE r]
  <2>1. asks \in Task /\ asks.r = r
      BY <1>0, IdleType DEF Task, Pcs, IdleTask
  <2>2. rests \in Task /\ (rests.pc # "idle" => rests.r = r)
      BY <1>0, IdleType DEF Task, Pcs, IdleTask
  <2>3. Go("origin", asks) \/ Go("origin", rests)
      BY <1>1 DEF NewStay
  <2>4. task' \in [Tasks -> Task] /\ OnAStay'
    <3>. HIDE DEF asks, rests
    <3>. QED
        BY <1>0, <2>1, <2>2, <2>3, GoType
  <2>5. opened' \subseteq Reservations
      BY <1>1 DEF NewStay, TypeInv, GuestTypeOK
  <2>. QED
      BY <1>1, <2>4, <2>5 DEF NewStay, TypeInv, GuestTypeOK
<1>2. CASE FirstRequest
  <2>. DEFINE t == task["origin"]
              charge == [t EXCEPT !.pc = "charge", !.amt = FirstAmount(t.r),
                                  !.phase = IF isFonioOffer(t.r) THEN "deposit" ELSE "full",
                                  !.dl = DeadlineOf(FirstDays(t.r))]
  <2>1. Busy("origin") /\ t.r \in Reservations
      BY <1>0, <1>2 DEF FirstRequest, At, Busy, OnAStay
  <2>2. FirstAmount(t.r) \in Nat /\ DeadlineOf(FirstDays(t.r)) \in Days
      BY <1>0, <2>1, FirstTypes DEF DeadlineOf, Days
  <2>3. charge \in Task /\ charge.r = t.r
      BY <2>1, <2>2 DEF Task, Pcs, Phases
  <2>4. Go("origin", charge) \/ Go("origin", AfterReturn("origin"))
      BY <1>2 DEF FirstRequest
  <2>5. task' \in [Tasks -> Task] /\ OnAStay'
    <3>. HIDE DEF charge
    <3>. QED
        BY <1>0, <2>1, <2>3, <2>4, GoType, AfterReturnType DEF Busy
  <2>. QED
      BY <1>2, <2>5 DEF FirstRequest, TypeInv, GuestTypeOK
<1>3. CASE sendImportWelcome
  <2>1. Busy("origin") /\ (To("origin", "attach") \/ Go("origin", IdleTask))
      BY <1>3 DEF sendImportWelcome, At, Busy
  <2>2. task' \in [Tasks -> Task] /\ OnAStay'
      BY <1>0, <1>a, <2>1, ToType DEF Pcs
  <2>3. faults' \in 0..MaxFaults
      BY <1>3, FaultType DEF sendImportWelcome
  <2>. QED
      BY <1>3, <2>2, <2>3 DEF sendImportWelcome, TypeInv, GuestTypeOK
<1>4. CASE attachStoredGuestContact("origin", "attach", "welcomeSend")
  <2>1. Busy("origin") /\ task["origin"].r \in Reservations
      BY <1>0, <1>4 DEF attachStoredGuestContact, At, Busy, OnAStay
  <2>2. task' \in [Tasks -> Task] /\ OnAStay'
      BY <1>0, <1>4, <2>1, ToType DEF attachStoredGuestContact, Pcs
  <2>3. ha' \in [Reservations -> [st : {"inquiry", "new", "cancelled"}, sum : Int, contact : BOOLEAN]]
    <3>1. \/ UNCHANGED ha
          \/ ha' = [ha EXCEPT ![task["origin"].r] = [ha[task["origin"].r] EXCEPT !.contact = TRUE]]
        BY <1>4 DEF attachStoredGuestContact
    <3>2. ha[task["origin"].r] \in [st : {"inquiry", "new", "cancelled"}, sum : Int, contact : BOOLEAN]
        BY <1>0, <2>1
    <3>3. [ha[task["origin"].r] EXCEPT !.contact = TRUE]
              \in [st : {"inquiry", "new", "cancelled"}, sum : Int, contact : BOOLEAN]
        BY <3>2, RecordTypes, Zenon
    <3>. QED
        BY <1>0, <2>1, <3>1, <3>3
  <2>4. faults' \in 0..MaxFaults
      BY <1>4, FaultType DEF attachStoredGuestContact
  <2>. QED
      BY <1>4, <2>2, <2>3, <2>4 DEF attachStoredGuestContact, TypeInv, GuestTypeOK
<1>5. CASE SendWelcome
  <2>. DEFINE t == task["origin"]
              told == [t EXCEPT !.pc = "strip", !.ok = TRUE]
              not == [t EXCEPT !.pc = "strip"]
  <2>1. Busy("origin") /\ t.r \in Reservations
      BY <1>0, <1>5 DEF SendWelcome, At, Busy, OnAStay
  <2>2. told \in Task /\ told.r = t.r /\ not \in Task /\ not.r = t.r
      BY DEF Task, Pcs
  <2>3. Go("origin", told) \/ Go("origin", not)
      BY <1>5 DEF SendWelcome
  <2>4. task' \in [Tasks -> Task] /\ OnAStay'
    <3>. HIDE DEF told, not
    <3>. QED
        BY <1>0, <2>1, <2>2, <2>3, GoType
  <2>5. faults' \in 0..MaxFaults
      BY <1>5, FaultType DEF SendWelcome
  <2>. QED
      BY <1>5, <2>4, <2>5 DEF SendWelcome, TypeInv, GuestTypeOK
<1>6. CASE stripHostawayGuestContact
  <2>. DEFINE t == task["origin"]
              mark == [t EXCEPT !.pc = "welcomeMark"]
  <2>1. Busy("origin") /\ t.r \in Reservations
      BY <1>0, <1>6 DEF stripHostawayGuestContact, At, Busy, OnAStay
  <2>2. mark \in Task /\ mark.r = t.r
      BY DEF Task, Pcs
  <2>3. Go("origin", mark) \/ Go("origin", IdleTask)
      BY <1>6 DEF stripHostawayGuestContact
  <2>4. task' \in [Tasks -> Task] /\ OnAStay'
    <3>. HIDE DEF mark
    <3>. QED
        BY <1>0, <1>a, <2>1, <2>2, <2>3, GoType
  <2>5. ha' \in [Reservations -> [st : {"inquiry", "new", "cancelled"}, sum : Int, contact : BOOLEAN]]
    <3>1. \/ UNCHANGED ha
          \/ ha' = [ha EXCEPT ![t.r] = [ha[t.r] EXCEPT !.contact = FALSE]]
        BY <1>6 DEF stripHostawayGuestContact
    <3>2. ha[t.r] \in [st : {"inquiry", "new", "cancelled"}, sum : Int, contact : BOOLEAN]
        BY <1>0, <2>1
    <3>3. [ha[t.r] EXCEPT !.contact = FALSE]
              \in [st : {"inquiry", "new", "cancelled"}, sum : Int, contact : BOOLEAN]
        BY <3>2, RecordTypes, Zenon
    <3>. QED
        BY <1>0, <2>1, <3>1, <3>3
  <2>6. log' \in [Reservations -> History]
    <3>1. \/ UNCHANGED log
          \/ log' = [log EXCEPT ![t.r] = [log[t.r] EXCEPT !.kept = TRUE]]
        BY <1>6 DEF stripHostawayGuestContact
    <3>2. log[t.r] \in History
        BY <1>0, <2>1
    <3>3. [log[t.r] EXCEPT !.kept = TRUE]
              \in History
        BY <3>2, RecordTypes, Zenon
    <3>. QED
        BY <1>0, <2>1, <3>1, <3>3
  <2>7. faults' \in 0..MaxFaults
      BY <1>6, FaultType DEF stripHostawayGuestContact
  <2>. QED
      BY <1>6, <2>4, <2>5, <2>6, <2>7 DEF stripHostawayGuestContact, TypeInv, GuestTypeOK
<1>7. CASE WelcomeSent
  <2>1. task["origin"].r \in Reservations
      BY <1>0, <1>7 DEF WelcomeSent, At, Busy, OnAStay
  <2>2. row' \in [Reservations -> Row]
      BY <1>0, <1>7, <2>1, RowType DEF WelcomeSent
  <2>3. task' \in [Tasks -> Task] /\ OnAStay'
      BY <1>a, <1>7 DEF WelcomeSent
  <2>. QED
      BY <1>7, <2>2, <2>3 DEF WelcomeSent, TypeInv, GuestTypeOK
<1>. QED
    BY <1>1, <1>2, <1>3, <1>4, <1>5, <1>6, <1>7 DEF Origin

\* A payment is booked or undone.
LEMMA TypePayment == TypeInv /\ Payment => TypeInv'
<1>. SUFFICES ASSUME TypeInv, Payment PROVE TypeInv'
    OBVIOUS
<1>0. /\ row \in [Reservations -> Row] /\ task \in [Tasks -> Task] /\ OnAStay
      /\ paid \in [Reservations -> Nat]
      /\ ha \in [Reservations -> [st : {"inquiry", "new", "cancelled"},
                                  sum : Int, contact : BOOLEAN]]
      /\ sent \in [Reservations -> Messages] /\ log \in [Reservations -> History]
    BY TypeParts
<1>n. nPays < MaxPays => nPays + 1 \in 0..MaxPays
    BY GuestBounds DEF TypeInv, GuestTypeOK
<1>c. \A r \in Reservations : ha[r] \in [st : {"inquiry", "new", "cancelled"}, sum : Int, contact : BOOLEAN]
    BY <1>0
<1>s. \A r \in Reservations, n \in Int :
         ha' = [ha EXCEPT ![r] = [ha[r] EXCEPT !.sum = n]] =>
            ha' \in [Reservations -> [st : {"inquiry", "new", "cancelled"}, sum : Int, contact : BOOLEAN]]
  <2>. TAKE r \in Reservations, n \in Int
  <2>1. [ha[r] EXCEPT !.sum = n] \in [st : {"inquiry", "new", "cancelled"}, sum : Int, contact : BOOLEAN]
      BY <1>c, RecordTypes, Zenon
  <2>. QED
      BY <1>0, <2>1
<1>f. \A r \in Reservations, b \in BOOLEAN :
         log' = [log EXCEPT ![r] = [log[r] EXCEPT !.full = b]] => log' \in [Reservations -> History]
  <2>. TAKE r \in Reservations, b \in BOOLEAN
  <2>0. log[r] \in History
      BY <1>0
  <2>1. [log[r] EXCEPT !.full = b] \in History
      BY <2>0, RecordTypes, Zenon
  <2>. QED
      BY <1>0, <2>1
<1>1. ASSUME NEW p \in Payers, NEW r \in Reservations, NEW amt \in Amounts, BookPayment(p, r, amt)
      PROVE  TypeInv'
  <2>. DEFINE info == [IdleTask EXCEPT !.pc = "info", !.r = r]
              record == [IdleTask EXCEPT !.pc = "record", !.r = r, !.amt = amt]
  <2>0. p \in Tasks /\ p # "job" /\ amt \in Nat
      BY GuestBounds DEF Tasks
  <2>1. info \in Task /\ info.r = r /\ record \in Task /\ record.r = r
      BY <2>0, IdleType DEF Task, Pcs, IdleTask
  <2>2. Go(p, info) \/ Go(p, record)
      BY <1>1 DEF BookPayment
  <2>3. task' \in [Tasks -> Task] /\ OnAStay'
    <3>. HIDE DEF info, record
    <3>. QED
        BY <1>0, <2>0, <2>1, <2>2, GoType
  <2>4. ha' \in [Reservations -> [st : {"inquiry", "new", "cancelled"}, sum : Int, contact : BOOLEAN]]
    <3>1. \/ UNCHANGED ha
          \/ ha' = [ha EXCEPT ![r] = [ha[r] EXCEPT !.sum = ha[r].sum + amt]]
        BY <1>1 DEF BookPayment
    <3>2. ha[r].sum + amt \in Int
        BY <1>c, <2>0
    <3>. QED
        BY <1>0, <1>s, <3>1, <3>2
  <2>5. log' \in [Reservations -> History]
    <3>. DEFINE full == log[r].full \/ ha[r].sum + amt >= Total
    <3>1. \/ UNCHANGED log
          \/ log' = [log EXCEPT ![r] = [log[r] EXCEPT !.full = full]]
        BY <1>1 DEF BookPayment
    <3>2. full \in BOOLEAN
        OBVIOUS
    <3>. HIDE DEF full
    <3>. QED
        BY <1>0, <1>f, <3>1, <3>2
  <2>. QED
      BY <1>1, <1>n, <2>3, <2>4, <2>5 DEF BookPayment, TypeInv, GuestTypeOK
<1>2. ASSUME NEW r \in Reservations, PortalPayment(r) PROVE TypeInv'
  <2>1. /\ ha' = [ha EXCEPT ![r] = [ha[r] EXCEPT !.sum = Total]]
        /\ log' = [log EXCEPT ![r] = [log[r] EXCEPT !.full = TRUE]]
        /\ Total \in Int
      BY <1>2, GuestBounds DEF PortalPayment
  <2>2. ha' \in [Reservations -> [st : {"inquiry", "new", "cancelled"}, sum : Int, contact : BOOLEAN]]
      BY <1>s, <2>1
  <2>3. log' \in [Reservations -> History]
      BY <1>f, <2>1
  <2>. QED
      BY <1>2, <1>n, <2>2, <2>3 DEF PortalPayment, TypeInv, GuestTypeOK, OnAStay, Busy
<1>3. ASSUME NEW r \in Reservations, NEW amt \in Amounts, UndoPayment(r, amt) PROVE TypeInv'
  <2>0. amt \in Nat /\ paid[r] \in Nat /\ amt <= paid[r]
      BY <1>0, <1>3, GuestBounds DEF UndoPayment
  <2>1. paid' \in [Reservations -> Nat]
      BY <1>0, <1>3, <2>0 DEF UndoPayment
  <2>2. ha' \in [Reservations -> [st : {"inquiry", "new", "cancelled"}, sum : Int, contact : BOOLEAN]]
    <3>1. \/ UNCHANGED ha
          \/ ha' = [ha EXCEPT ![r] = [ha[r] EXCEPT !.sum = ha[r].sum - amt]]
        BY <1>3 DEF UndoPayment
    <3>2. ha[r].sum - amt \in Int
        BY <1>c, <2>0
    <3>. QED
        BY <1>0, <1>s, <3>1, <3>2
  <2>3. faults' \in 0..MaxFaults
      BY <1>3, FaultType DEF UndoPayment
  <2>. QED
      BY <1>3, <1>n, <2>1, <2>2, <2>3 DEF UndoPayment, TypeInv, GuestTypeOK, OnAStay, Busy
<1>4. ASSUME NEW p \in Payers,
             \/ RecordCharge(p) \/ releaseAfterPayment(p) \/ hasQualifyingPayment(p)
             \/ attachStoredGuestContact(p, "release", "arrival")
             \/ SendArrivalInfo(p) \/ ArrivalInfoSent(p)
             \/ confirmFonioInquiryAfterDeposit(p)
             \/ ConfirmInHostaway(p) \/ ConfirmLocally(p)
      PROVE  TypeInv'
  <2>. DEFINE r == task[p].r
  <2>. p \in Tasks /\ p # "job" /\ task[p] \in Task
      BY <1>0, GuestBounds DEF Tasks
  <2>0. Busy(p) /\ r \in Reservations
      BY <1>0, <1>4 DEF RecordCharge, releaseAfterPayment, hasQualifyingPayment,
            attachStoredGuestContact, SendArrivalInfo, ArrivalInfoSent,
            confirmFonioInquiryAfterDeposit, ConfirmInHostaway, ConfirmLocally, At, Busy, OnAStay
  <2>a. Go(p, IdleTask) => task' \in [Tasks -> Task] /\ OnAStay'
      BY <1>0, IdleType, GoType
  <2>b. \A pc \in Pcs : To(p, pc) => task' \in [Tasks -> Task] /\ OnAStay'
      BY <1>0, <2>0, ToType
  <2>c. \A b \in BOOLEAN : ha' = [ha EXCEPT ![r] = [ha[r] EXCEPT !.contact = b]] =>
            ha' \in [Reservations -> [st : {"inquiry", "new", "cancelled"}, sum : Int, contact : BOOLEAN]]
    <3>. TAKE b \in BOOLEAN
    <3>0. ha[r] \in [st : {"inquiry", "new", "cancelled"}, sum : Int, contact : BOOLEAN]
        BY <1>c, <2>0
    <3>. HIDE DEF r
    <3>1. [ha[r] EXCEPT !.contact = b] \in [st : {"inquiry", "new", "cancelled"}, sum : Int, contact : BOOLEAN]
        BY <3>0, RecordTypes, Zenon
    <3>. QED
        BY <1>0, <2>0, <3>1
  <2>1. CASE RecordCharge(p)
    <3>. DEFINE info == [task[p] EXCEPT !.pc = "info", !.amt = 0]
                sum == paid[r] + task[p].amt
    <3>1. info \in Task /\ info.r = r
        BY DEF Task, Pcs
    <3>2. Go(p, info) \/ Go(p, IdleTask)
        BY <2>1 DEF RecordCharge
    <3>3. task' \in [Tasks -> Task] /\ OnAStay'
      <4>. HIDE DEF info
      <4>. QED
          BY <1>0, <2>0, <2>a, <3>1, <3>2, GoType
    <3>4. sum \in Nat /\ log[r] \in History
        BY <1>0, <2>0 DEF Task
    <3>5. paid' \in [Reservations -> Nat]
        BY <1>0, <2>1, <3>4 DEF RecordCharge
    <3>6. log' \in [Reservations -> History]
      <4>1. \/ UNCHANGED log
            \/ log' = [log EXCEPT ![r] = [log[r] EXCEPT !.max = GreaterOf(log[r].max, sum)]]
          BY <2>1 DEF RecordCharge
      <4>2. GreaterOf(log[r].max, sum) \in Nat
          BY <3>4 DEF GreaterOf, History
      <4>3. [log[r] EXCEPT !.max = GreaterOf(log[r].max, sum)] \in History
          BY <3>4, <4>2, RecordTypes, Zenon
      <4>. QED
          BY <1>0, <4>1, <4>3
    <3>7. faults' \in 0..MaxFaults
        BY <2>1, FaultType DEF RecordCharge
    <3>. QED
        BY <2>1, <3>3, <3>5, <3>6, <3>7 DEF RecordCharge, TypeInv, GuestTypeOK
  <2>2. CASE releaseAfterPayment(p) \/ hasQualifyingPayment(p) \/ confirmFonioInquiryAfterDeposit(p)
    <3>1. Go(p, IdleTask) \/ \E pc \in Pcs : To(p, pc)
        BY <2>2 DEF releaseAfterPayment, hasQualifyingPayment, confirmFonioInquiryAfterDeposit, Pcs
    <3>. QED
        BY <2>2, <2>a, <2>b, <3>1 DEF releaseAfterPayment, hasQualifyingPayment,
           confirmFonioInquiryAfterDeposit, TypeInv, GuestTypeOK
  <2>3. CASE attachStoredGuestContact(p, "release", "arrival")
    <3>1. task' \in [Tasks -> Task] /\ OnAStay'
        BY <2>3, <2>b DEF attachStoredGuestContact, Pcs
    <3>2. ha' \in [Reservations -> [st : {"inquiry", "new", "cancelled"}, sum : Int, contact : BOOLEAN]]
      <4>1. UNCHANGED ha \/ ha' = [ha EXCEPT ![r] = [ha[r] EXCEPT !.contact = TRUE]]
          BY <2>3 DEF attachStoredGuestContact
      <4>. QED
          BY <1>0, <2>c, <4>1
    <3>3. faults' \in 0..MaxFaults
        BY <2>3, FaultType DEF attachStoredGuestContact
    <3>. QED
        BY <2>3, <3>1, <3>2, <3>3 DEF attachStoredGuestContact, TypeInv, GuestTypeOK
  <2>4. CASE SendArrivalInfo(p)
    <3>1. task' \in [Tasks -> Task] /\ OnAStay'
        BY <2>4, <2>b DEF SendArrivalInfo, Pcs
    <3>2. sent' \in [Reservations -> Messages]
      <4>0. sent[r] \in Messages /\ sent[r].arrival + 1 \in Nat
          BY <1>0, <2>0 DEF Messages
      <4>1. UNCHANGED sent \/ sent' = [sent EXCEPT ![r] = [sent[r] EXCEPT !.arrival = sent[r].arrival + 1]]
          BY <2>4 DEF SendArrivalInfo, Sent
      <4>2. [sent[r] EXCEPT !.arrival = sent[r].arrival + 1] \in Messages
          BY <4>0, RecordTypes, Zenon
      <4>. QED
          BY <1>0, <4>1, <4>2
    <3>3. faults' \in 0..MaxFaults
        BY <2>4, FaultType DEF SendArrivalInfo
    <3>. QED
        BY <2>4, <3>1, <3>2, <3>3 DEF SendArrivalInfo, TypeInv, GuestTypeOK
  <2>5. CASE ArrivalInfoSent(p)
    <3>1. task' \in [Tasks -> Task] /\ OnAStay'
        BY <2>5, <2>b DEF ArrivalInfoSent, Pcs
    <3>2. [row[r] EXCEPT !.info = TRUE] \in Row
        BY <1>0, <2>0, RowType
    <3>3. row' \in [Reservations -> Row]
        BY <1>0, <2>5, <3>2 DEF ArrivalInfoSent
    <3>. QED
        BY <2>5, <3>1, <3>3 DEF ArrivalInfoSent, TypeInv, GuestTypeOK
  <2>6. CASE ConfirmInHostaway(p)
    <3>1. task' \in [Tasks -> Task] /\ OnAStay'
        BY <2>6, <2>a, <2>b DEF ConfirmInHostaway, Pcs
    <3>2. ha' \in [Reservations -> [st : {"inquiry", "new", "cancelled"}, sum : Int, contact : BOOLEAN]]
      <4>1. UNCHANGED ha \/ ha' = [ha EXCEPT ![r] = [ha[r] EXCEPT !.st = "new"]]
          BY <2>6 DEF ConfirmInHostaway
      <4>2. [ha[r] EXCEPT !.st = "new"] \in [st : {"inquiry", "new", "cancelled"}, sum : Int, contact : BOOLEAN]
          BY <1>c, <2>0, RecordTypes, Zenon
      <4>. QED
          BY <1>0, <4>1, <4>2
    <3>3. faults' \in 0..MaxFaults
        BY <2>6, FaultType DEF ConfirmInHostaway
    <3>. QED
        BY <2>6, <3>1, <3>2, <3>3 DEF ConfirmInHostaway, TypeInv, GuestTypeOK
  <2>7. CASE ConfirmLocally(p)
    <3>1. task' \in [Tasks -> Task] /\ OnAStay'
        BY <2>7, <2>a DEF ConfirmLocally
    <3>2. [row[r] EXCEPT !.st = "new"] \in Row
        BY <1>0, <2>0, RowType
    <3>3. row' \in [Reservations -> Row]
        BY <1>0, <2>7, <3>2 DEF ConfirmLocally
    <3>. QED
        BY <2>7, <3>1, <3>3 DEF ConfirmLocally, TypeInv, GuestTypeOK
  <2>. QED
      BY <1>4, <2>1, <2>2, <2>3, <2>4, <2>5, <2>6, <2>7
<1>. QED
    BY <1>1, <1>2, <1>3, <1>4 DEF Payment

\* A day passes.
LEMMA TypeTick == TypeInv /\ Tick => TypeInv'
<1>. SUFFICES ASSUME TypeInv, Tick PROVE TypeInv'
    OBVIOUS
<1>0. row \in [Reservations -> Row]
    BY TypeParts
<1>1. row' \in [Reservations -> Row]
  <2>1. \A r \in Reservations : [row[r] EXCEPT !.dl = OneDayLess(row[r].dl)] \in Row
      BY <1>0, RowType
  <2>. QED
      BY <2>1 DEF Tick
<1>2. today' \in 0..MaxDay /\ ran' \in BOOLEAN
  <2>1. today \in 0..MaxDay /\ MaxDay \in Nat
      BY GuestBounds DEF TypeInv, GuestTypeOK
  <2>2. LesserOf(today + 1, MaxDay) \in 0..MaxDay
      BY <2>1 DEF LesserOf
  <2>. QED
      BY <2>2 DEF Tick
<1>. QED
    BY <1>1, <1>2 DEF Tick, TypeInv, GuestTypeOK, OnAStay, Busy

\* Every step keeps the types.
LEMMA TypeStep == TypeInv /\ [Next]_vars => TypeInv'
<1>1. TypeInv /\ UNCHANGED vars => TypeInv'
    BY DEF TypeInv, GuestTypeOK, OnAStay, Busy, vars
<1>. QED
    BY <1>1, TypeTick, TypeJob, TypeRequest, TypeOrigin, TypePayment DEF Next

----------------------------------------------------------------------------
(* The inductive invariant.                                                *)

\* The charges came close enough to the deposit to confirm an offer.
Enough(r) ==
    \/ log[r].full
    \/ log[r].max + 50 >= NeededDeposit(rule[r])
    \/ 10 * (log[r].max + 1) >= 9 * NeededDeposit(rule[r])

\* The history bounds what the tables say has been paid ...
MoneyInv ==
    \A r \in Reservations :
        /\ paid[r] <= log[r].max
        /\ ha[r].sum >= Total => log[r].full
        /\ row[r].isPaid => log[r].full
        /\ row[r].phase = "deposit_paid" =>
              rule[r].depositPct > 0 /\ log[r].max + 50 >= depositAmount(Total, rule[r])

\* ... and what a handler has read; a request is never for a deposit that
\* has arrived.
SeenInv ==
    \A w \in Tasks :
        /\ \A r \in Reservations : task[w].matched[r] <= log[r].max
        /\ task[w].pc \in {"charge", "post", "requestMark"} => task[w].phase # "deposit_paid"

\* A handler that releases something saw the money for it, and who waits for
\* the mark of the arrival information has sent it.
ReleaseInv ==
    \A p \in Payers :
        /\ task[p].pc \in {"release", "arrival", "infoMark"} => Money(task[p].r)
        /\ task[p].pc \in {"confirmHa", "confirmLocal"} => Enough(task[p].r)

\* The handlers that may yet send the arrival information of a stay, and
\* those that have sent but not noted it.
Sending(r) == {p \in Payers : task[p].r = r /\ task[p].pc \in {"qualify", "release", "arrival"}}
Noting(r) == {p \in Payers : task[p].r = r /\ task[p].pc = "infoMark"}

ArrivalInv ==
    \A r \in Reservations :
        /\ ~row[r].info => sent[r].arrival = Cardinality(Noting(r))
        /\ sent[r].arrival + Cardinality(Sending(r)) <= Cardinality(Payers)

\* Where a reminder may still follow, in the table or in what the job has
\* read, there is a request without one.
Fresh(r) == sent[r].reminder < log[r].marks
OnList(r) == r \in task["job"].todo
             \/ (task["job"].r = r /\ task["job"].pc \in {"refresh", "decide"})

RemindInv ==
    \A r \in Reservations :
        /\ sent[r].reminder <= log[r].marks
        /\ row[r].req /\ ~row[r].rem /\ ~(task["job"].r = r /\ task["job"].pc = "remindMark") => Fresh(r)
        /\ OnList(r) /\ task["job"].seen[r].req /\ ~task["job"].seen[r].rem => Fresh(r)
        /\ task["job"].r = r /\ task["job"].pc = "remind" => Fresh(r)

----------------------------------------------------------------------------
(* What an update of one column leaves alone.                              *)

LEMMA SetStatus ==
    ASSUME row \in [Reservations -> Row], NEW r \in Reservations, NEW q \in Reservations, NEW v,
           row' = [row EXCEPT ![r].st = v]
    PROVE  /\ row'[q].isPaid = row[q].isPaid /\ row'[q].phase = row[q].phase
           /\ row'[q].req = row[q].req /\ row'[q].rem = row[q].rem /\ row'[q].info = row[q].info
           /\ row'[q].st \in {v, row[q].st}
           /\ q # r => row'[q].st = row[q].st
BY DEF Row

LEMMA SetCancelled ==
    ASSUME row \in [Reservations -> Row], NEW r \in Reservations, NEW q \in Reservations,
           row' = [row EXCEPT ![r].auto = TRUE, ![r].st = "cancelled"]
    PROVE  /\ row'[q].isPaid = row[q].isPaid /\ row'[q].phase = row[q].phase
           /\ row'[q].req = row[q].req /\ row'[q].rem = row[q].rem /\ row'[q].info = row[q].info
           /\ row'[q].st \in {"cancelled", row[q].st}
BY DEF Row

LEMMA SetPaid ==
    ASSUME row \in [Reservations -> Row], NEW r \in Reservations, NEW q \in Reservations, NEW v,
           row' = [row EXCEPT ![r].isPaid = v]
    PROVE   /\ row'[q].isPaid = IF q = r THEN v ELSE row[q].isPaid
           /\ row'[q].phase = row[q].phase
           /\ row'[q].req = row[q].req
           /\ row'[q].rem = row[q].rem
           /\ row'[q].info = row[q].info
           /\ row'[q].st = row[q].st
BY DEF Row

LEMMA SetReminder ==
    ASSUME row \in [Reservations -> Row], NEW r \in Reservations, NEW q \in Reservations, NEW v,
           row' = [row EXCEPT ![r].rem = v]
    PROVE   /\ row'[q].isPaid = row[q].isPaid
           /\ row'[q].phase = row[q].phase
           /\ row'[q].req = row[q].req
           /\ row'[q].rem = IF q = r THEN v ELSE row[q].rem
           /\ row'[q].info = row[q].info
           /\ row'[q].st = row[q].st
BY DEF Row

LEMMA SetInfo ==
    ASSUME row \in [Reservations -> Row], NEW r \in Reservations, NEW q \in Reservations, NEW v,
           row' = [row EXCEPT ![r].info = v]
    PROVE   /\ row'[q].isPaid = row[q].isPaid
           /\ row'[q].phase = row[q].phase
           /\ row'[q].req = row[q].req
           /\ row'[q].rem = row[q].rem
           /\ row'[q].info = IF q = r THEN v ELSE row[q].info
           /\ row'[q].st = row[q].st
BY DEF Row

LEMMA SetWelcome ==
    ASSUME row \in [Reservations -> Row], NEW r \in Reservations, NEW q \in Reservations, NEW v,
           row' = [row EXCEPT ![r].welcome = v]
    PROVE   /\ row'[q].isPaid = row[q].isPaid
           /\ row'[q].phase = row[q].phase
           /\ row'[q].req = row[q].req
           /\ row'[q].rem = row[q].rem
           /\ row'[q].info = row[q].info
           /\ row'[q].st = row[q].st
BY DEF Row

LEMMA LogUpdate ==
    ASSUME log \in [Reservations -> History], NEW r \in Reservations, NEW q \in Reservations, NEW v
    PROVE  /\ log' = [log EXCEPT ![r].max = v] =>
                /\ log'[q].max = IF q = r THEN v ELSE log[q].max
                /\ log'[q].full = log[q].full /\ log'[q].marks = log[q].marks /\ log'[q].kept = log[q].kept
           /\ log' = [log EXCEPT ![r].full = v] =>
                /\ log'[q].full = IF q = r THEN v ELSE log[q].full
                /\ log'[q].max = log[q].max /\ log'[q].marks = log[q].marks /\ log'[q].kept = log[q].kept
           /\ log' = [log EXCEPT ![r].marks = v] =>
                /\ log'[q].marks = IF q = r THEN v ELSE log[q].marks
                /\ log'[q].max = log[q].max /\ log'[q].full = log[q].full /\ log'[q].kept = log[q].kept
           /\ log' = [log EXCEPT ![r].kept = v] =>
                /\ log'[q].kept = IF q = r THEN v ELSE log[q].kept
                /\ log'[q].max = log[q].max /\ log'[q].full = log[q].full /\ log'[q].marks = log[q].marks
BY DEF History

LEMMA MarksUpdate ==
    ASSUME log \in [Reservations -> History], NEW r \in Reservations, NEW q \in Reservations, NEW v,
           log' = [log EXCEPT ![r].marks = v]
    PROVE  /\ log'[q].marks = IF q = r THEN v ELSE log[q].marks
           /\ log'[q].max = log[q].max /\ log'[q].full = log[q].full /\ log'[q].kept = log[q].kept
BY LogUpdate, Zenon

LEMMA MaxUpdate ==
    ASSUME log \in [Reservations -> History], NEW r \in Reservations, NEW q \in Reservations, NEW v,
           log' = [log EXCEPT ![r].max = v]
    PROVE  /\ log'[q].max = IF q = r THEN v ELSE log[q].max
           /\ log'[q].full = log[q].full /\ log'[q].marks = log[q].marks /\ log'[q].kept = log[q].kept
BY LogUpdate, Zenon

LEMMA HaUpdate ==
    ASSUME ha \in [Reservations -> [st : {"inquiry", "new", "cancelled"}, sum : Int, contact : BOOLEAN]],
           NEW r \in Reservations, NEW q \in Reservations, NEW v
    PROVE  /\ ha' = [ha EXCEPT ![r].st = v] =>
                /\ ha'[q].st = IF q = r THEN v ELSE ha[q].st
                /\ ha'[q].sum = ha[q].sum /\ ha'[q].contact = ha[q].contact
           /\ ha' = [ha EXCEPT ![r].sum = v] =>
                /\ ha'[q].sum = IF q = r THEN v ELSE ha[q].sum
                /\ ha'[q].st = ha[q].st /\ ha'[q].contact = ha[q].contact
           /\ ha' = [ha EXCEPT ![r].contact = v] =>
                /\ ha'[q].contact = IF q = r THEN v ELSE ha[q].contact
                /\ ha'[q].st = ha[q].st /\ ha'[q].sum = ha[q].sum
OBVIOUS

LEMMA SentUpdate ==
    ASSUME sent \in [Reservations -> Messages], NEW r \in Reservations, NEW q \in Reservations
    PROVE  /\ Sent(r, "reminder") =>
                /\ sent'[q].reminder = IF q = r THEN sent[q].reminder + 1 ELSE sent[q].reminder
                /\ sent'[q].arrival = sent[q].arrival
           /\ Sent(r, "arrival") =>
                /\ sent'[q].arrival = IF q = r THEN sent[q].arrival + 1 ELSE sent[q].arrival
                /\ sent'[q].reminder = sent[q].reminder
BY DEF Sent, Messages

\* A handler that goes on leaves the others where they are.
LEMMA TaskUpdate ==
    ASSUME task \in [Tasks -> Task], NEW w \in Tasks, NEW v \in Tasks, NEW t, NEW pc
    PROVE  /\ Go(w, t) => task'[v] = IF v = w THEN t ELSE task[v]
           /\ To(w, pc) => /\ task'[v].r = task[v].r /\ task'[v].matched = task[v].matched
                           /\ task'[v].phase = task[v].phase /\ task'[v].seen = task[v].seen
                           /\ task'[v].todo = task[v].todo
                           /\ task'[v].pc = IF v = w THEN pc ELSE task[v].pc
BY DEF Go, To, Task

----------------------------------------------------------------------------
(* Each step keeps the invariant.                                          *)

\* A rule and the way a stay came about never change.
LEMMA FixedStep == [Next]_vars => rule' = rule /\ kind' = kind
BY DEF Next, vars, Tick, Job, dailyGuestPaymentJob, JobNext, Decide, cancelUnpaidReservation,
       MarkCancelled, sendGuestPaymentReminder, ReminderSent, Request, refreshIsPaid,
       CreateDueCharge, PostRequest, RequestSent, Origin, NewStay, FirstRequest,
       sendImportWelcome, attachStoredGuestContact, SendWelcome, stripHostawayGuestContact,
       WelcomeSent, Payment, BookPayment, PortalPayment, RecordCharge, UndoPayment,
       releaseAfterPayment, hasQualifyingPayment, SendArrivalInfo, ArrivalInfoSent,
       confirmFonioInquiryAfterDeposit, ConfirmInHostaway, ConfirmLocally

\* Only these steps write the history ...
LEMMA LogSteps ==
    ASSUME [Next]_vars
    PROVE  \/ UNCHANGED log
           \/ \E w \in {"job", "origin"} : RequestSent(w)
           \/ stripHostawayGuestContact
           \/ \E p \in Payers, r \in Reservations, amt \in Amounts : BookPayment(p, r, amt)
           \/ \E p \in Payers : RecordCharge(p)
           \/ \E r \in Reservations : PortalPayment(r)
BY DEF Next, vars, Tick, Job, dailyGuestPaymentJob, JobNext, Decide, cancelUnpaidReservation,
       MarkCancelled, sendGuestPaymentReminder, ReminderSent, Request, refreshIsPaid,
       CreateDueCharge, PostRequest, Origin, NewStay, FirstRequest,
       sendImportWelcome, attachStoredGuestContact, SendWelcome,
       WelcomeSent, Payment, UndoPayment,
       releaseAfterPayment, hasQualifyingPayment, SendArrivalInfo, ArrivalInfoSent,
       confirmFonioInquiryAfterDeposit, ConfirmInHostaway, ConfirmLocally

\* ... these what has been paid in Hostaway ...
LEMMA HaSteps ==
    ASSUME [Next]_vars
    PROVE  \/ UNCHANGED ha
           \/ cancelUnpaidReservation
           \/ attachStoredGuestContact("origin", "attach", "welcomeSend")
           \/ stripHostawayGuestContact
           \/ \E p \in Payers : attachStoredGuestContact(p, "release", "arrival") \/ ConfirmInHostaway(p)
           \/ \E p \in Payers, r \in Reservations, amt \in Amounts : BookPayment(p, r, amt)
           \/ \E r \in Reservations : PortalPayment(r)
           \/ \E r \in Reservations, amt \in Amounts : UndoPayment(r, amt)
BY DEF Next, vars, Tick, Job, dailyGuestPaymentJob, JobNext, Decide,
       MarkCancelled, sendGuestPaymentReminder, ReminderSent, Request, refreshIsPaid,
       CreateDueCharge, PostRequest, RequestSent, Origin, NewStay, FirstRequest,
       sendImportWelcome, SendWelcome,
       WelcomeSent, Payment, RecordCharge,
       releaseAfterPayment, hasQualifyingPayment, SendArrivalInfo, ArrivalInfoSent,
       confirmFonioInquiryAfterDeposit, ConfirmLocally

\* ... and these the row.
LEMMA RowSteps ==
    ASSUME [Next]_vars
    PROVE  \/ UNCHANGED row
           \/ Tick
           \/ \E late \in BOOLEAN : Decide(late)
           \/ MarkCancelled \/ ReminderSent
           \/ \E w \in {"job", "origin"} : refreshIsPaid(w) \/ RequestSent(w)
           \/ WelcomeSent
           \/ \E p \in Payers : ArrivalInfoSent(p) \/ ConfirmLocally(p)
BY DEF Next, vars, Job, dailyGuestPaymentJob, JobNext, cancelUnpaidReservation,
       sendGuestPaymentReminder, Request,
       CreateDueCharge, PostRequest, Origin, NewStay, FirstRequest,
       sendImportWelcome, attachStoredGuestContact, SendWelcome, stripHostawayGuestContact,
       Payment, BookPayment, PortalPayment, RecordCharge, UndoPayment,
       releaseAfterPayment, hasQualifyingPayment, SendArrivalInfo,
       confirmFonioInquiryAfterDeposit, ConfirmInHostaway

\* The stay a handler is at.
LEMMA AtStay ==
    ASSUME TypeInv, NEW w \in Tasks, ~At(w, "idle"), ~At(w, "next")
    PROVE  task[w].r \in Reservations /\ task[w] \in Task
BY TypeParts DEF At, OnAStay, Busy

\* What has once been booked stays in the history.
LEMMA LogGrows ==
    ASSUME TypeInv, [Next]_vars, NEW q \in Reservations
    PROVE  /\ log[q].max \in Nat /\ log'[q].max \in Nat /\ log'[q].max >= log[q].max
           /\ log[q].full => log'[q].full
           /\ log[q].kept => log'[q].kept
           /\ log[q].marks \in Nat /\ log'[q].marks \in Nat /\ log'[q].marks >= log[q].marks
<1>0. log \in [Reservations -> History] /\ log' \in [Reservations -> History]
    BY TypeParts, TypeStep DEF TypeInv, GuestTypeOK
<1>t. log[q].max \in Nat /\ log[q].marks \in Nat /\ log'[q].max \in Nat /\ log'[q].marks \in Nat
    BY <1>0 DEF History
<1>1. CASE UNCHANGED log
    BY <1>t, <1>1
<1>2. ASSUME NEW w \in {"job", "origin"}, RequestSent(w)
      PROVE  /\ log'[q].max = log[q].max /\ log'[q].full = log[q].full /\ log'[q].kept = log[q].kept
             /\ log'[q].marks \in {log[q].marks, log[q].marks + 1}
  <2>. DEFINE r == task[w].r
              more == log[r].marks + 1
  <2>1. r \in Reservations
      BY <1>2, AtStay DEF RequestSent, At, Tasks
  <2>2. log' = [log EXCEPT ![r].marks = more]
      BY <1>2 DEF RequestSent
  <2>. HIDE DEF r, more
  <2>3. /\ log'[q].marks = IF q = r THEN more ELSE log[q].marks
        /\ log'[q].max = log[q].max /\ log'[q].full = log[q].full /\ log'[q].kept = log[q].kept
      BY <1>0, <2>1, <2>2, MarksUpdate
  <2>. QED
      BY <2>3 DEF more
<1>3. ASSUME stripHostawayGuestContact
      PROVE  /\ log'[q].max = log[q].max /\ log'[q].full = log[q].full
             /\ log'[q].marks = log[q].marks /\ (log[q].kept => log'[q].kept)
  <2>1. task["origin"].r \in Reservations
      BY <1>3, AtStay DEF stripHostawayGuestContact, At, Tasks
  <2>2. UNCHANGED log \/ log' = [log EXCEPT ![task["origin"].r].kept = TRUE]
      BY <1>3 DEF stripHostawayGuestContact
  <2>. QED
      BY <1>0, <2>1, <2>2, LogUpdate
<1>4. ASSUME NEW r \in Reservations, NEW b,
             log' = [log EXCEPT ![r].full = log[r].full \/ b]
      PROVE  /\ log'[q].max = log[q].max /\ log'[q].marks = log[q].marks
             /\ log'[q].kept = log[q].kept /\ (log[q].full => log'[q].full)
  <2>1. /\ log'[q].full = IF q = r THEN log[r].full \/ b ELSE log[q].full
        /\ log'[q].max = log[q].max /\ log'[q].marks = log[q].marks /\ log'[q].kept = log[q].kept
      BY <1>0, <1>4, LogUpdate
  <2>. QED
      BY <2>1
<1>5. ASSUME NEW p \in Payers, RecordCharge(p)
      PROVE  /\ log'[q].full = log[q].full /\ log'[q].marks = log[q].marks /\ log'[q].kept = log[q].kept
             /\ log'[q].max >= log[q].max
  <2>1. task[p].r \in Reservations
      BY <1>5, AtStay DEF RecordCharge, At, Tasks
  <2>2. CASE UNCHANGED log
      BY <1>t, <2>2
  <2>3. CASE log' = [log EXCEPT ![task[p].r].max =
                       GreaterOf(log[task[p].r].max, paid[task[p].r] + task[p].amt)]
    <3>1. log[task[p].r].max \in Nat /\ paid[task[p].r] + task[p].amt \in Nat
        BY <1>0, <2>1, <1>5, TypeParts, AtStay DEF History, Task, RecordCharge, At, Tasks
    <3>. DEFINE r == task[p].r
                top == GreaterOf(log[r].max, paid[r] + task[p].amt)
    <3>2. top \in Nat /\ top >= log[r].max
        BY <3>1 DEF GreaterOf
    <3>3. r \in Reservations /\ log' = [log EXCEPT ![r].max = top]
        BY <2>1, <2>3
    <3>. HIDE DEF r, top
    <3>4. /\ log'[q].max = IF q = r THEN top ELSE log[q].max
          /\ log'[q].full = log[q].full /\ log'[q].marks = log[q].marks /\ log'[q].kept = log[q].kept
        BY <1>0, <3>3, MaxUpdate
    <3>. QED
        BY <1>t, <3>2, <3>4
  <2>. QED
      BY <1>5, <2>2, <2>3 DEF RecordCharge
<1>6. ASSUME NEW p \in Payers, NEW r \in Reservations, NEW amt \in Amounts, BookPayment(p, r, amt)
      PROVE  UNCHANGED log \/ log' = [log EXCEPT ![r].full = log[r].full \/ ha[r].sum + amt >= Total]
    BY <1>6 DEF BookPayment
<1>7. ASSUME NEW r \in Reservations, PortalPayment(r)
      PROVE  log' = [log EXCEPT ![r].full = log[r].full \/ TRUE]
    BY <1>7 DEF PortalPayment
<1>. QED
    BY <1>t, <1>1, <1>2, <1>3, <1>4, <1>5, <1>6, <1>7, LogSteps

\* The charges of a stay are written by these two only.
LEMMA PaidSteps ==
    ASSUME [Next]_vars
    PROVE  \/ UNCHANGED paid
           \/ \E p \in Payers : RecordCharge(p)
           \/ \E r \in Reservations, amt \in Amounts : UndoPayment(r, amt)
BY DEF Next, vars, Tick, Job, dailyGuestPaymentJob, JobNext, Decide, cancelUnpaidReservation,
       MarkCancelled, sendGuestPaymentReminder, ReminderSent, Request, refreshIsPaid,
       CreateDueCharge, PostRequest, RequestSent, Origin, NewStay, FirstRequest,
       sendImportWelcome, attachStoredGuestContact, SendWelcome, stripHostawayGuestContact,
       WelcomeSent, Payment, BookPayment, PortalPayment,
       releaseAfterPayment, hasQualifyingPayment, SendArrivalInfo, ArrivalInfoSent,
       confirmFonioInquiryAfterDeposit, ConfirmInHostaway, ConfirmLocally

\* The charges never exceed their recorded maximum.
LEMMA PaidStep ==
    ASSUME TypeInv, MoneyInv, [Next]_vars, NEW q \in Reservations
    PROVE  paid'[q] <= log'[q].max
<1>0. /\ paid \in [Reservations -> Nat] /\ log \in [Reservations -> History]
      /\ log' \in [Reservations -> History] /\ paid'[q] \in Nat
      /\ paid[q] <= log[q].max
    BY TypeParts, TypeStep DEF TypeInv, GuestTypeOK, MoneyInv
<1>1. CASE UNCHANGED paid
    BY <1>0, <1>1, LogGrows
<1>2. ASSUME NEW p \in Payers, RecordCharge(p) PROVE paid'[q] <= log'[q].max
  <2>. DEFINE r == task[p].r
              sum == paid[r] + task[p].amt
  <2>1. r \in Reservations /\ task[p] \in Task
      BY <1>2, AtStay DEF RecordCharge, At, Tasks
  <2>2. CASE UNCHANGED paid
      BY <1>1, <2>2
  <2>3. CASE paid' = [paid EXCEPT ![r] = sum] /\ log' = [log EXCEPT ![r].max = GreaterOf(log[r].max, sum)]
    <3>1. sum \in Nat /\ log[r].max \in Nat
        BY <1>0, <2>1 DEF Task, History
    <3>2. GreaterOf(log[r].max, sum) >= sum
        BY <3>1 DEF GreaterOf
    <3>3. log'[q].max = IF q = r THEN GreaterOf(log[r].max, sum) ELSE log[q].max
      <4>. DEFINE top == GreaterOf(log[r].max, sum)
      <4>1. log' = [log EXCEPT ![r].max = top]
          BY <2>3
      <4>. HIDE DEF r, top
      <4>2. log'[q].max = IF q = r THEN top ELSE log[q].max
          BY <1>0, <2>1, <4>1, MaxUpdate
      <4>. QED
          BY <4>2 DEF top
    <3>4. paid'[q] = IF q = r THEN sum ELSE paid[q]
        BY <1>0, <2>1, <2>3
    <3>. QED
        BY <1>0, <3>2, <3>3, <3>4
  <2>. QED
      BY <1>2, <2>2, <2>3 DEF RecordCharge
<1>3. ASSUME NEW r \in Reservations, NEW amt \in Amounts, UndoPayment(r, amt)
      PROVE  paid'[q] <= log'[q].max
  <2>1. amt \in Nat /\ paid[q] \in Nat
      BY <1>0, GuestBounds
  <2>2. paid' = [paid EXCEPT ![r] = paid[r] - amt]
      BY <1>3 DEF UndoPayment
  <2>3. paid'[q] <= paid[q]
      BY <1>0, <2>1, <2>2
  <2>. QED
      BY <1>0, <2>1, <2>3, LogGrows
<1>. QED
    BY <1>1, <1>2, <1>3, PaidSteps

\* A total covered in Hostaway is on record.
LEMMA FullStep ==
    ASSUME TypeInv, MoneyInv, [Next]_vars, NEW q \in Reservations, ha'[q].sum >= Total
    PROVE  log'[q].full
<1>0. /\ ha \in [Reservations -> [st : {"inquiry", "new", "cancelled"}, sum : Int, contact : BOOLEAN]]
      /\ log \in [Reservations -> History] /\ Total \in Nat /\ Amounts \subseteq Nat
      /\ ha[q].sum >= Total => log[q].full
    BY TypeParts, GuestBounds DEF MoneyInv
<1>1. ASSUME ha'[q].sum = ha[q].sum PROVE log'[q].full
    BY <1>0, <1>1, LogGrows
<1>2. ASSUME NEW r \in Reservations, NEW v, \/ ha' = [ha EXCEPT ![r].contact = v]
                                            \/ ha' = [ha EXCEPT ![r].st = v]
      PROVE  log'[q].full
    BY <1>0, <1>1, <1>2, HaUpdate
<1>3. CASE cancelUnpaidReservation
  <2>1. task["job"].r \in Reservations
      BY <1>3, AtStay DEF cancelUnpaidReservation, At, Tasks
  <2>2. UNCHANGED ha \/ ha' = [ha EXCEPT ![task["job"].r].st = "cancelled"]
      BY <1>3 DEF cancelUnpaidReservation
  <2>. QED
      BY <1>1, <1>2, <2>1, <2>2
<1>4. ASSUME NEW w \in Tasks, NEW from, NEW to, from \notin {"idle", "next"},
             attachStoredGuestContact(w, from, to)
      PROVE  log'[q].full
  <2>1. task[w].r \in Reservations
      BY <1>4, AtStay DEF attachStoredGuestContact, At
  <2>2. UNCHANGED ha \/ ha' = [ha EXCEPT ![task[w].r].contact = TRUE]
      BY <1>4 DEF attachStoredGuestContact
  <2>. QED
      BY <1>1, <1>2, <2>1, <2>2
<1>5. CASE stripHostawayGuestContact
  <2>1. task["origin"].r \in Reservations
      BY <1>5, AtStay DEF stripHostawayGuestContact, At, Tasks
  <2>2. UNCHANGED ha \/ ha' = [ha EXCEPT ![task["origin"].r].contact = FALSE]
      BY <1>5 DEF stripHostawayGuestContact
  <2>. QED
      BY <1>1, <1>2, <2>1, <2>2
<1>6. ASSUME NEW p \in Payers, ConfirmInHostaway(p) PROVE log'[q].full
  <2>1. task[p].r \in Reservations
      BY <1>6, AtStay DEF ConfirmInHostaway, At, Tasks
  <2>2. UNCHANGED ha \/ ha' = [ha EXCEPT ![task[p].r].st = "new"]
      BY <1>6 DEF ConfirmInHostaway
  <2>. QED
      BY <1>1, <1>2, <2>1, <2>2
<1>7. ASSUME NEW r \in Reservations, NEW s \in Int, ha' = [ha EXCEPT ![r].sum = s],
             log' = [log EXCEPT ![r].full = log[r].full \/ s >= Total]
      PROVE  log'[q].full
  <2>1. log'[q].full = IF q = r THEN log[r].full \/ s >= Total ELSE log[q].full
      BY <1>0, <1>7, LogUpdate
  <2>2. ha'[q].sum = IF q = r THEN s ELSE ha[q].sum
      BY <1>0, <1>7, HaUpdate
  <2>. QED
      BY <1>0, <2>1, <2>2
<1>8. ASSUME NEW p \in Payers, NEW r \in Reservations, NEW amt \in Amounts, BookPayment(p, r, amt)
      PROVE  log'[q].full
  <2>1. ha[r].sum + amt \in Int
      BY <1>0
  <2>2. \/ UNCHANGED ha
        \/ /\ ha' = [ha EXCEPT ![r].sum = ha[r].sum + amt]
           /\ log' = [log EXCEPT ![r].full = log[r].full \/ ha[r].sum + amt >= Total]
      BY <1>8 DEF BookPayment
  <2>. QED
      BY <1>1, <1>7, <2>1, <2>2
<1>9. ASSUME NEW r \in Reservations, PortalPayment(r) PROVE log'[q].full
  <2>1. ha' = [ha EXCEPT ![r].sum = Total] /\ log' = [log EXCEPT ![r].full = TRUE]
      BY <1>9 DEF PortalPayment
  <2>2. log'[q].full = IF q = r THEN TRUE ELSE log[q].full
      BY <1>0, <2>1, LogUpdate
  <2>3. ha'[q].sum = IF q = r THEN Total ELSE ha[q].sum
      BY <1>0, <2>1, HaUpdate
  <2>. QED
      BY <1>0, <2>2, <2>3
<1>10. ASSUME NEW r \in Reservations, NEW amt \in Amounts, UndoPayment(r, amt) PROVE log'[q].full
  <2>1. UNCHANGED ha \/ ha' = [ha EXCEPT ![r].sum = ha[r].sum - amt]
      BY <1>10 DEF UndoPayment
  <2>2. ha'[q].sum <= ha[q].sum
      BY <1>0, <2>1, HaUpdate
  <2>. QED
      BY <1>0, <2>2, TypeStep, LogGrows DEF TypeInv, GuestTypeOK
<1>. QED
    BY <1>1, <1>3, <1>4, <1>5, <1>6, <1>8, <1>9, <1>10, HaSteps DEF Tasks

\* A row that counts as paid, or as having its deposit, has the money on
\* record.
LEMMA MoneyStep ==
    ASSUME TypeInv, MoneyInv, SeenInv, [Next]_vars
    PROVE  MoneyInv'
<1>. SUFFICES ASSUME NEW q \in Reservations
              PROVE  /\ paid'[q] <= log'[q].max
                     /\ ha'[q].sum >= Total => log'[q].full
                     /\ row'[q].isPaid => log'[q].full
                     /\ row'[q].phase = "deposit_paid" =>
                           /\ rule'[q].depositPct > 0
                           /\ log'[q].max + 50 >= depositAmount(Total, rule'[q])
    BY DEF MoneyInv, depositAmount, Percent
<1>0. /\ row \in [Reservations -> Row] /\ log[q].max \in Nat /\ log'[q].max \in Nat
      /\ row[q].isPaid => log[q].full
      /\ row[q].phase = "deposit_paid" =>
            rule[q].depositPct > 0 /\ log[q].max + 50 >= depositAmount(Total, rule[q])
      /\ depositAmount(Total, rule[q]) \in Nat
    BY TypeParts, LogGrows, AmountTypes DEF MoneyInv
<1>1. rule' = rule
    BY FixedStep
<1>2. paid'[q] <= log'[q].max /\ (ha'[q].sum >= Total => log'[q].full)
    BY PaidStep, FullStep
<1>3. /\ row'[q].isPaid => row[q].isPaid \/ log[q].full
      /\ row'[q].phase = "deposit_paid" =>
            \/ row[q].phase = "deposit_paid"
            \/ rule[q].depositPct > 0 /\ log[q].max + 50 >= depositAmount(Total, rule[q])
  <2>1. ASSUME row'[q].isPaid = row[q].isPaid, row'[q].phase = row[q].phase PROVE <1>3!1 /\ <1>3!2
      BY <2>1
  <2>2. CASE Tick
    <3>1. row'[q] = [row[q] EXCEPT !.dl = OneDayLess(row[q].dl)]
        BY <2>2 DEF Tick
    <3>2. row[q] \in Row
        BY <1>0
    <3>. QED
        BY <2>1, <3>1, <3>2 DEF Row
  <2>3. ASSUME NEW late \in BOOLEAN, Decide(late) PROVE <1>3!1 /\ <1>3!2
    <3>. DEFINE t == task["job"]
                r == t.r
                clear == DepositArrived(rule[r], t.seen[r], t.matched[r])
    <3>1. r \in Reservations /\ t \in Task /\ "job" \in Tasks
        BY <2>3, AtStay DEF Decide, At, Tasks
    <3>2. row' = [row EXCEPT ![r] = IF clear THEN ClearMarks(row[r]) ELSE row[r]]
        BY <2>3 DEF Decide
    <3>3. CASE q # r \/ ~clear
        BY <1>0, <2>1, <3>1, <3>2, <3>3
    <3>4. CASE q = r /\ clear
      <4>1. row'[q] = ClearMarks(row[q])
          BY <1>0, <3>2, <3>4
      <4>2. row'[q].isPaid = row[q].isPaid
          BY <1>0, <4>1 DEF ClearMarks, Row
      <4>3. rule[q].depositPct > 0 /\ t.matched[q] + 50 >= depositAmount(Total, rule[q])
          BY <3>4 DEF DepositArrived
      <4>4. t.matched[q] <= log[q].max /\ t.matched[q] \in Nat
          BY <3>1 DEF SeenInv, Task
      <4>. QED
          BY <1>0, <4>2, <4>3, <4>4
    <3>. QED
        BY <3>3, <3>4
  <2>4. CASE MarkCancelled \/ ReminderSent
    <3>1. task["job"].r \in Reservations
        BY <2>4, AtStay DEF MarkCancelled, ReminderSent, At, Tasks
    <3>2. \/ row' = [row EXCEPT ![task["job"].r].auto = TRUE, ![task["job"].r].st = "cancelled"]
          \/ row' = [row EXCEPT ![task["job"].r].rem = TRUE]
        BY <2>4 DEF MarkCancelled, ReminderSent
    <3>3. CASE row' = [row EXCEPT ![task["job"].r].auto = TRUE, ![task["job"].r].st = "cancelled"]
      <4>1. row'[q].isPaid = row[q].isPaid /\ row'[q].phase = row[q].phase
          BY <1>0, <3>1, <3>3, SetCancelled, Zenon
      <4>. QED
          BY <2>1, <4>1
    <3>4. CASE row' = [row EXCEPT ![task["job"].r].rem = TRUE]
      <4>1. row'[q].isPaid = row[q].isPaid /\ row'[q].phase = row[q].phase
          BY <1>0, <3>1, <3>4, SetReminder, Zenon
      <4>. QED
          BY <2>1, <4>1
    <3>. QED
        BY <3>2, <3>3, <3>4
  <2>5. ASSUME NEW w \in {"job", "origin"}, refreshIsPaid(w) PROVE <1>3!1 /\ <1>3!2
    <3>. DEFINE r == task[w].r
    <3>1. r \in Reservations
        BY <2>5, AtStay DEF refreshIsPaid, At, Tasks
    <3>2. \/ UNCHANGED row
          \/ row' = [row EXCEPT ![r].isPaid = row[r].isPaid \/ HostawayPaid(r)]
        BY <2>5 DEF refreshIsPaid
    <3>3. CASE row' = [row EXCEPT ![r].isPaid = row[r].isPaid \/ HostawayPaid(r)]
      <4>. DEFINE b == row[r].isPaid \/ HostawayPaid(r)
      <4>0. row' = [row EXCEPT ![r].isPaid = b]
          BY <3>3
      <4>1. /\ row'[q].isPaid = IF q = r THEN b ELSE row[q].isPaid
            /\ row'[q].phase = row[q].phase
        <5>. HIDE DEF b, r
        <5>. QED
            BY <1>0, <3>1, <4>0, SetPaid
      <4>2. HostawayPaid(q) => log[q].full
          BY DEF HostawayPaid, MoneyInv
      <4>. QED
          BY <4>1, <4>2
    <3>. QED
        BY <2>1, <3>2, <3>3
  <2>6. ASSUME NEW w \in {"job", "origin"}, RequestSent(w) PROVE <1>3!1 /\ <1>3!2
    <3>. DEFINE r == task[w].r
    <3>1. r \in Reservations /\ w \in Tasks
        BY <2>6, AtStay DEF RequestSent, At, Tasks
    <3>2. row' = [row EXCEPT ![r] = Requested(row[r], task[w])]
        BY <2>6 DEF RequestSent
    <3>3. CASE q = r
      <4>1. row'[q] = Requested(row[q], task[w]) /\ row[q] \in Row
          BY <1>0, <3>1, <3>2, <3>3
      <4>2. row'[q].isPaid = row[q].isPaid /\ row'[q].phase = task[w].phase
          BY <4>1 DEF Requested, Row
      <4>3. task[w].phase # "deposit_paid"
          BY <2>6, <3>1 DEF SeenInv, RequestSent, At
      <4>. QED
          BY <4>2, <4>3
    <3>. QED
        BY <1>0, <2>1, <3>1, <3>2, <3>3
  <2>7. CASE WelcomeSent
    <3>1. task["origin"].r \in Reservations
        BY <2>7, AtStay DEF WelcomeSent, At, Tasks
    <3>. QED
        BY <1>0, <2>1, <2>7, <3>1, SetWelcome DEF WelcomeSent
  <2>8. ASSUME NEW p \in Payers, ArrivalInfoSent(p) \/ ConfirmLocally(p) PROVE <1>3!1 /\ <1>3!2
    <3>1. task[p].r \in Reservations
        BY <2>8, AtStay DEF ArrivalInfoSent, ConfirmLocally, At, Tasks
    <3>2. \/ row' = [row EXCEPT ![task[p].r].info = TRUE]
          \/ row' = [row EXCEPT ![task[p].r].st = "new"]
        BY <2>8 DEF ArrivalInfoSent, ConfirmLocally
    <3>3. CASE row' = [row EXCEPT ![task[p].r].info = TRUE]
      <4>1. row'[q].isPaid = row[q].isPaid /\ row'[q].phase = row[q].phase
          BY <1>0, <3>1, <3>3, SetInfo, Zenon
      <4>. QED
          BY <2>1, <4>1
    <3>4. CASE row' = [row EXCEPT ![task[p].r].st = "new"]
      <4>1. row'[q].isPaid = row[q].isPaid /\ row'[q].phase = row[q].phase
          BY <1>0, <3>1, <3>4, SetStatus, Zenon
      <4>. QED
          BY <2>1, <4>1
    <3>. QED
        BY <3>2, <3>3, <3>4
  <2>. QED
      BY <2>1, <2>2, <2>3, <2>4, <2>5, <2>6, <2>7, <2>8, RowSteps
<1>4. log[q].full => log'[q].full
    BY LogGrows
<1>5. log'[q].max >= log[q].max
    BY LogGrows
<1>. QED
    BY <1>0, <1>1, <1>2, <1>3, <1>4, <1>5

\* What a handler has read is bounded by the history; what it asks for is
\* not a deposit that has arrived.
Bounded(t) ==
    /\ \A r \in Reservations : t.matched[r] <= log[r].max
    /\ t.pc \in {"charge", "post", "requestMark"} => t.phase # "deposit_paid"

\* The tasks that handlers end in or go on with are so bounded.
LEMMA BoundedTasks ==
    ASSUME TypeInv, SeenInv, NEW w \in Tasks
    PROVE  /\ Bounded(IdleTask) /\ Bounded(NextStay(task[w]))
           /\ Bounded(AfterReturn(w)) /\ Bounded(AfterThrow(w))
           /\ \A pc : (pc \in {"charge", "post", "requestMark"} =>
                            task[w].pc \in {"charge", "post", "requestMark"}) =>
                 Bounded([task[w] EXCEPT !.pc = pc])
<1>0. log \in [Reservations -> History] /\ task[w] \in Task
    BY TypeParts
<1>1. \A r \in Reservations : /\ task[w].matched[r] <= log[r].max /\ log[r].max >= 0
                              /\ log[r].max \in Nat /\ task[w].matched[r] \in Nat
    BY <1>0 DEF SeenInv, History, Task
<1>2. Bounded(IdleTask)
    BY <1>1 DEF Bounded, IdleTask, NoCharges
<1>3. Bounded(NextStay(task[w]))
  <2>1. /\ NextStay(task[w]).pc = "next"
        /\ \A r \in Reservations : NextStay(task[w]).matched[r] \in {task[w].matched[r], 0}
      BY <1>0, NextStayType
  <2>. QED
      BY <1>1, <2>1 DEF Bounded
<1>4. Bounded([IdleTask EXCEPT !.pc = "welcome", !.r = task[w].r])
    BY <1>1 DEF Bounded, IdleTask, NoCharges
<1>5. Bounded(AfterReturn(w)) /\ Bounded(AfterThrow(w))
    BY <1>2, <1>3, <1>4 DEF AfterReturn, AfterThrow
<1>6. ASSUME NEW pc, \/ pc \notin {"charge", "post", "requestMark"}
                     \/ task[w].pc \in {"charge", "post", "requestMark"}
      PROVE  Bounded([task[w] EXCEPT !.pc = pc])
  <2>. DEFINE t == [task[w] EXCEPT !.pc = pc]
  <2>1. t.matched = task[w].matched /\ t.phase = task[w].phase /\ t.pc = pc
      BY <1>0 DEF Task
  <2>2. task[w].pc \in {"charge", "post", "requestMark"} => task[w].phase # "deposit_paid"
      BY DEF SeenInv
  <2>. HIDE DEF t
  <2>3. Bounded(t)
      BY <1>1, <1>6, <2>1, <2>2 DEF Bounded
  <2>. QED
      BY <2>3 DEF t
<1>. QED
    BY <1>2, <1>3, <1>5, <1>6

LEMMA SeenStep ==
    ASSUME TypeInv, MoneyInv, SeenInv, [Next]_vars
    PROVE  SeenInv'
<1>0. /\ log \in [Reservations -> History] /\ task \in [Tasks -> Task] /\ task' \in [Tasks -> Task]
      /\ paid \in [Reservations -> Nat]
    BY TypeParts, TypeStep DEF TypeInv, GuestTypeOK
<1>1. SeenInv' <=> \A w \in Tasks : Bounded(task[w])'
    BY DEF SeenInv, Bounded
<1>2. \A w \in Tasks : Bounded(task[w])
    BY DEF SeenInv, Bounded
<1>3. \A w \in Tasks : task'[w] = task[w] => Bounded(task[w])'
  <2>1. \A r \in Reservations, w \in Tasks :
           task[w].matched[r] \in Nat /\ task[w].matched[r] <= log[r].max
      BY <1>0, <1>2 DEF Bounded, Task
  <2>2. \A r \in Reservations : log[r].max \in Nat /\ log'[r].max \in Nat /\ log'[r].max >= log[r].max
      BY LogGrows
  <2>3. \A r \in Reservations, w \in Tasks : task[w].matched[r] <= log'[r].max
      BY <2>1, <2>2
  <2>. QED
      BY <1>2, <2>3 DEF Bounded
<1>4. ASSUME UNCHANGED task PROVE SeenInv'
    BY <1>1, <1>3, <1>4
<1>5. ASSUME NEW w \in Tasks, NEW t, Go(w, t), Bounded(t) PROVE SeenInv'
  <2>1. \A v \in Tasks : v # w => task'[v] = task[v]
      BY <1>0, <1>5, TaskUpdate
  <2>2. task'[w] = t /\ t \in Task
      BY <1>0, <1>5 DEF Go
  <2>3. \A r \in Reservations : t.matched[r] \in Nat /\ t.matched[r] <= log[r].max
      BY <1>5, <2>2 DEF Bounded, Task
  <2>4. \A r \in Reservations : log[r].max \in Nat /\ log'[r].max \in Nat /\ log'[r].max >= log[r].max
      BY LogGrows
  <2>5. \A r \in Reservations : t.matched[r] <= log'[r].max
      BY <2>3, <2>4
  <2>6. Bounded(task[w])'
      BY <1>5, <2>2, <2>5 DEF Bounded
  <2>. QED
      BY <1>1, <1>3, <2>1, <2>6
<1>a. ASSUME NEW w \in Tasks,
             \/ Go(w, IdleTask) \/ Go(w, NextStay(task[w]))
             \/ Go(w, AfterReturn(w)) \/ Go(w, AfterThrow(w))
             \/ \E pc : /\ To(w, pc)
                        /\ \/ pc \notin {"charge", "post", "requestMark"}
                           \/ task[w].pc \in {"charge", "post", "requestMark"}
      PROVE  SeenInv'
    BY <1>5, <1>a, BoundedTasks DEF To
<1>. "job" \in Tasks /\ "origin" \in Tasks /\ Payers \subseteq Tasks
    BY DEF Tasks
<1>6. CASE UNCHANGED vars \/ Tick \/ (\E r \in Reservations : PortalPayment(r))
           \/ (\E r \in Reservations, amt \in Amounts : UndoPayment(r, amt))
    BY <1>4, <1>6 DEF vars, Tick, PortalPayment, UndoPayment
<1>7. CASE Job
  <2>1. CASE dailyGuestPaymentJob
    <3>. DEFINE t == [IdleTask EXCEPT !.todo = {r \in Reservations : Candidate(r)},
                                      !.seen = row, !.matched = paid]
    <3>1. t \in Task /\ t.matched = paid
        BY <1>0, IdleType, TypeParts DEF Task, IdleTask
    <3>. HIDE DEF t
    <3>2. /\ NextStay(t).pc = "next"
          /\ \A r \in Reservations : NextStay(t).matched[r] \in {paid[r], 0}
        BY <3>1, NextStayType
    <3>3. \A r \in Reservations : /\ paid[r] \in Nat /\ log[r].max \in Nat
                                  /\ paid[r] <= log[r].max /\ 0 <= log[r].max
        BY <1>0 DEF History, MoneyInv
    <3>4. Bounded(NextStay(t))
        BY <3>2, <3>3 DEF Bounded
    <3>. QED
        BY <1>5, <2>1, <3>4 DEF dailyGuestPaymentJob, t
  <2>2. CASE JobNext
    <3>1. CASE Go("job", IdleTask)
        BY <1>a, <3>1
    <3>2. ASSUME NEW r \in task["job"].todo,
                 Go("job", IF rule[r].enabled
                           THEN [task["job"] EXCEPT !.todo = @ \ {r}, !.r = r, !.pc = "refresh"]
                           ELSE NextStay([task["job"] EXCEPT !.todo = @ \ {r}, !.r = r, !.pc = "refresh"]))
          PROVE  SeenInv'
      <4>. DEFINE t == [task["job"] EXCEPT !.todo = @ \ {r}, !.r = r, !.pc = "refresh"]
      <4>0. task["job"] \in Task /\ r \in Reservations
          BY <1>0 DEF Task
      <4>1. t \in Task /\ t.matched = task["job"].matched /\ t.pc = "refresh"
          BY <4>0 DEF Task, Pcs
      <4>2. Go("job", t) \/ Go("job", NextStay(t))
          BY <3>2
      <4>. HIDE DEF t
      <4>3. Bounded(t)
          BY <1>2, <4>1 DEF Bounded
      <4>4. /\ NextStay(t).pc = "next"
            /\ \A q \in Reservations : NextStay(t).matched[q] \in {t.matched[q], 0}
          BY <4>1, NextStayType
      <4>5. \A q \in Reservations : 0 <= log[q].max
          BY <1>0 DEF History
      <4>6. Bounded(NextStay(t))
          BY <4>3, <4>4, <4>5 DEF Bounded
      <4>. QED
          BY <1>5, <4>2, <4>3, <4>6
    <3>. QED
        BY <2>2, <3>1, <3>2 DEF JobNext
  <2>3. ASSUME NEW late \in BOOLEAN, Decide(late) PROVE SeenInv'
    <3>. DEFINE t == task["job"]
                r == t.r
                u == rule[r]
                clear == DepositArrived(u, t.seen[r], t.matched[r])
                s == IF clear THEN ClearMarks(t.seen[r]) ELSE t.seen[r]
                d == evaluateGuestPaymentSchedule(u, s, t.matched[r], FALSE, today, late)
                days == IF d.phase = "deposit" THEN u.depositDays ELSE u.deadlineDays
                t2 == [t EXCEPT !.seen[r] = s, !.amt = d.amt, !.phase = d.phase]
                cancels == [t2 EXCEPT !.pc = "haCancel"]
                reminds == [t2 EXCEPT !.pc = "remind"]
                asks == [t2 EXCEPT !.pc = "charge", !.dl = DeadlineOf(days)]
    <3>1. r \in Reservations /\ t \in Task /\ u \in RuleType /\ today \in Nat
        BY <2>3, AtStay, TypeParts DEF Decide, At
    <3>2. t.seen[r] \in Row /\ t.matched[r] \in Nat
        BY <3>1 DEF Task
    <3>3. s \in Row
        BY <3>2, RowType
    <3>4. d.act = "request" => d.phase \in {"deposit", "balance"}
      <4>. HIDE DEF s, u
      <4>. QED
          BY <3>1, <3>2, <3>3, DecisionFacts
    <3>5. \/ Go("job", cancels) \/ Go("job", reminds)
          \/ d.act = "request" /\ Go("job", asks)
          \/ Go("job", NextStay(t))
        BY <2>3 DEF Decide
    <3>6. /\ cancels.matched = t.matched /\ cancels.pc = "haCancel"
          /\ reminds.matched = t.matched /\ reminds.pc = "remind"
          /\ asks.matched = t.matched /\ asks.pc = "charge" /\ asks.phase = d.phase
      <4>. HIDE DEF s, d, days, r
      <4>1. t2.matched = t.matched /\ t2.phase = d.phase
          BY <3>1 DEF Task
      <4>. QED
          BY <3>1, <4>1 DEF Task
    <3>. HIDE DEF d, cancels, reminds, asks
    <3>7. /\ Bounded(cancels) /\ Bounded(reminds)
          /\ d.act = "request" => Bounded(asks)
        BY <1>2, <3>4, <3>6 DEF Bounded
    <3>. QED
        BY <1>5, <1>a, <3>5, <3>7
  <2>4. CASE cancelUnpaidReservation
      BY <1>a, <2>4 DEF cancelUnpaidReservation
  <2>5. CASE MarkCancelled
      BY <1>a, <2>5 DEF MarkCancelled
  <2>6. CASE sendGuestPaymentReminder
      BY <1>a, <2>6 DEF sendGuestPaymentReminder
  <2>7. CASE ReminderSent
      BY <1>a, <2>7 DEF ReminderSent
  <2>. QED
      BY <1>7, <2>1, <2>2, <2>3, <2>4, <2>5, <2>6, <2>7 DEF Job
<1>8. ASSUME NEW w \in {"job", "origin"},
             refreshIsPaid(w) \/ CreateDueCharge(w) \/ PostRequest(w) \/ RequestSent(w)
      PROVE  SeenInv'
  <2>1. CASE refreshIsPaid(w)
    <3>1. Go(w, AfterReturn(w)) \/ To(w, "decide")
        BY <2>1 DEF refreshIsPaid, To
    <3>. QED
        BY <1>a, <3>1
  <2>2. CASE CreateDueCharge(w)
      BY <1>a, <2>2 DEF CreateDueCharge, At
  <2>3. CASE PostRequest(w)
      BY <1>a, <2>3 DEF PostRequest, At
  <2>4. CASE RequestSent(w)
      BY <1>a, <2>4 DEF RequestSent
  <2>. QED
      BY <1>8, <2>1, <2>2, <2>3, <2>4
<1>9. CASE Origin
  <2>1. ASSUME NEW r \in Reservations, NewStay(r) PROVE SeenInv'
    <3>. DEFINE asks == [IdleTask EXCEPT !.pc = "refresh", !.r = r, !.seen[r] = row[r]]
                rests == [IdleTask EXCEPT !.pc = IF isFonioOffer(r) THEN "idle" ELSE "welcome",
                                          !.r = IF isFonioOffer(r) THEN None ELSE r]
    <3>1. Go("origin", asks) \/ Go("origin", rests)
        BY <2>1 DEF NewStay
    <3>2. /\ asks.matched = NoCharges /\ asks.pc = "refresh"
          /\ rests.matched = NoCharges /\ rests.pc \in {"idle", "welcome"}
        BY DEF IdleTask
    <3>. HIDE DEF asks, rests
    <3>3. Bounded(asks) /\ Bounded(rests)
        BY <3>2, BoundedTasks DEF Bounded, IdleTask
    <3>. QED
        BY <1>5, <3>1, <3>3
  <2>2. CASE FirstRequest
    <3>. DEFINE t == task["origin"]
                phase == IF isFonioOffer(t.r) THEN "deposit" ELSE "full"
                charge == [t EXCEPT !.pc = "charge", !.amt = FirstAmount(t.r), !.phase = phase,
                                    !.dl = DeadlineOf(FirstDays(t.r))]
    <3>1. Go("origin", charge) \/ Go("origin", AfterReturn("origin"))
        BY <2>2 DEF FirstRequest
    <3>2. charge.matched = t.matched /\ charge.phase = phase /\ t \in Task
      <4>1. t \in Task
          BY <1>0
      <4>. HIDE DEF phase, t
      <4>. QED
          BY <4>1 DEF Task
    <3>3. phase # "deposit_paid"
        OBVIOUS
    <3>. HIDE DEF charge, phase
    <3>4. Bounded(charge)
        BY <1>2, <3>2, <3>3 DEF Bounded
    <3>. QED
        BY <1>5, <1>a, <3>1, <3>4
  <2>3. CASE sendImportWelcome
      BY <1>a, <2>3 DEF sendImportWelcome
  <2>4. CASE attachStoredGuestContact("origin", "attach", "welcomeSend")
      BY <1>a, <2>4 DEF attachStoredGuestContact
  <2>5. CASE SendWelcome
    <3>. DEFINE t == task["origin"]
                told == [t EXCEPT !.pc = "strip", !.ok = TRUE]
    <3>1. Go("origin", told) \/ To("origin", "strip")
        BY <2>5 DEF SendWelcome, To
    <3>2. told.matched = t.matched /\ told.pc = "strip"
        BY <1>0 DEF Task
    <3>. HIDE DEF told
    <3>3. Bounded(told)
        BY <1>2, <3>2 DEF Bounded
    <3>. QED
        BY <1>5, <1>a, <3>1, <3>3
  <2>6. CASE stripHostawayGuestContact
    <3>1. To("origin", "welcomeMark") \/ Go("origin", IdleTask)
        BY <2>6 DEF stripHostawayGuestContact, To
    <3>. QED
        BY <1>a, <3>1
  <2>7. CASE WelcomeSent
      BY <1>a, <2>7 DEF WelcomeSent
  <2>. QED
      BY <1>9, <2>1, <2>2, <2>3, <2>4, <2>5, <2>6, <2>7 DEF Origin
<1>10. ASSUME NEW p \in Payers, NEW r \in Reservations, NEW amt \in Amounts, BookPayment(p, r, amt)
       PROVE  SeenInv'
  <2>. DEFINE info == [IdleTask EXCEPT !.pc = "info", !.r = r]
              record == [IdleTask EXCEPT !.pc = "record", !.r = r, !.amt = amt]
  <2>1. Go(p, info) \/ Go(p, record)
      BY <1>10 DEF BookPayment
  <2>2. /\ info.matched = NoCharges /\ info.pc = "info"
        /\ record.matched = NoCharges /\ record.pc = "record"
      BY DEF IdleTask
  <2>. HIDE DEF info, record
  <2>3. Bounded(info) /\ Bounded(record)
      BY <2>2, BoundedTasks DEF Bounded, IdleTask
  <2>. QED
      BY <1>5, <2>1, <2>3
<1>11. ASSUME NEW p \in Payers,
              \/ RecordCharge(p) \/ releaseAfterPayment(p) \/ hasQualifyingPayment(p)
              \/ attachStoredGuestContact(p, "release", "arrival")
              \/ SendArrivalInfo(p) \/ ArrivalInfoSent(p)
              \/ confirmFonioInquiryAfterDeposit(p)
              \/ ConfirmInHostaway(p) \/ ConfirmLocally(p)
       PROVE  SeenInv'
  <2>1. CASE RecordCharge(p)
    <3>. DEFINE info == [task[p] EXCEPT !.pc = "info", !.amt = 0]
    <3>1. Go(p, info) \/ Go(p, IdleTask)
        BY <2>1 DEF RecordCharge
    <3>2. info.matched = task[p].matched /\ info.pc = "info"
        BY <1>0 DEF Task
    <3>. HIDE DEF info
    <3>3. Bounded(info)
        BY <1>2, <3>2 DEF Bounded
    <3>. QED
        BY <1>5, <1>a, <3>1, <3>3
  <2>2. CASE releaseAfterPayment(p)
    <3>1. To(p, "confirm") \/ To(p, "qualify")
        BY <2>2 DEF releaseAfterPayment
    <3>. QED
        BY <1>a, <3>1
  <2>3. CASE hasQualifyingPayment(p)
    <3>1. To(p, "release") \/ To(p, "confirm")
        BY <2>3 DEF hasQualifyingPayment
    <3>. QED
        BY <1>a, <3>1
  <2>4. CASE attachStoredGuestContact(p, "release", "arrival")
      BY <1>a, <2>4 DEF attachStoredGuestContact
  <2>5. CASE SendArrivalInfo(p) \/ ArrivalInfoSent(p)
    <3>1. To(p, "infoMark") \/ To(p, "confirm")
        BY <2>5 DEF SendArrivalInfo, ArrivalInfoSent
    <3>. QED
        BY <1>a, <3>1
  <2>6. CASE confirmFonioInquiryAfterDeposit(p) \/ ConfirmInHostaway(p) \/ ConfirmLocally(p)
    <3>1. To(p, "confirmHa") \/ To(p, "confirmLocal") \/ Go(p, IdleTask)
        BY <2>6 DEF confirmFonioInquiryAfterDeposit, ConfirmInHostaway, ConfirmLocally
    <3>. QED
        BY <1>a, <3>1
  <2>. QED
      BY <1>11, <2>1, <2>2, <2>3, <2>4, <2>5, <2>6
<1>. QED
    BY <1>6, <1>7, <1>8, <1>9, <1>10, <1>11 DEF Next, Request, Payment

\* What a handler of each kind does next.
RequestStep(w) == refreshIsPaid(w) \/ CreateDueCharge(w) \/ PostRequest(w) \/ RequestSent(w)

PaymentStep(p) ==
    \/ \E r \in Reservations, amt \in Amounts : BookPayment(p, r, amt)
    \/ RecordCharge(p) \/ releaseAfterPayment(p) \/ hasQualifyingPayment(p)
    \/ attachStoredGuestContact(p, "release", "arrival")
    \/ SendArrivalInfo(p) \/ ArrivalInfoSent(p)
    \/ confirmFonioInquiryAfterDeposit(p)
    \/ ConfirmInHostaway(p) \/ ConfirmLocally(p)

\* Only its own steps move a handler on.
LEMMA OwnSteps ==
    ASSUME TypeInv, [Next]_vars
    PROVE  /\ task'["job"] = task["job"] \/ Job \/ RequestStep("job")
           /\ task'["origin"] = task["origin"] \/ Origin \/ RequestStep("origin")
           /\ \A p \in Payers : task'[p] = task[p] \/ PaymentStep(p)
<1>0. /\ task \in [Tasks -> Task] /\ "job" \in Tasks /\ "origin" \in Tasks /\ Payers \subseteq Tasks
      /\ "job" # "origin" /\ "job" \notin Payers /\ "origin" \notin Payers
    BY TypeParts, GuestBounds DEF Tasks
<1>1. ASSUME NEW w \in Tasks, NEW v \in Tasks, v # w, \E t : Go(w, t)
      PROVE  task'[v] = task[v]
    BY <1>0, <1>1, TaskUpdate
<1>2. ASSUME UNCHANGED task PROVE \A v \in Tasks : task'[v] = task[v]
    BY <1>2
<1>3. CASE UNCHANGED vars \/ Tick \/ (\E r \in Reservations : PortalPayment(r))
           \/ (\E r \in Reservations, amt \in Amounts : UndoPayment(r, amt))
    BY <1>0, <1>3, <1>2 DEF vars, Tick, PortalPayment, UndoPayment
<1>4. CASE Job
  <2>1. \E t : Go("job", t)
    <3>1. CASE dailyGuestPaymentJob \/ JobNext
        BY <3>1 DEF dailyGuestPaymentJob, JobNext
    <3>2. CASE \E late \in BOOLEAN : Decide(late)
        BY <3>2 DEF Decide
    <3>3. CASE cancelUnpaidReservation \/ MarkCancelled
        BY <3>3 DEF cancelUnpaidReservation, MarkCancelled, To
    <3>4. CASE sendGuestPaymentReminder \/ ReminderSent
        BY <3>4 DEF sendGuestPaymentReminder, ReminderSent, To
    <3>. QED
        BY <1>4, <3>1, <3>2, <3>3, <3>4 DEF Job
  <2>. QED
      BY <1>0, <1>1, <1>4, <2>1
<1>5. ASSUME NEW w \in {"job", "origin"}, RequestStep(w)
      PROVE  \A v \in Tasks : v # w => task'[v] = task[v]
  <2>1. \E t : Go(w, t)
    <3>1. CASE refreshIsPaid(w)
        BY <3>1 DEF refreshIsPaid
    <3>2. CASE CreateDueCharge(w)
        BY <3>2 DEF CreateDueCharge, To
    <3>3. CASE PostRequest(w) \/ RequestSent(w)
        BY <3>3 DEF PostRequest, RequestSent, To
    <3>. QED
        BY <1>5, <3>1, <3>2, <3>3 DEF RequestStep
  <2>. QED
      BY <1>0, <1>1, <2>1
<1>6. CASE Origin
  <2>1. \E t : Go("origin", t)
    <3>1. CASE \E r \in Reservations : NewStay(r)
        BY <3>1 DEF NewStay
    <3>2. CASE FirstRequest \/ WelcomeSent
        BY <3>2 DEF FirstRequest, WelcomeSent
    <3>3. CASE sendImportWelcome \/ attachStoredGuestContact("origin", "attach", "welcomeSend")
        BY <3>3 DEF sendImportWelcome, attachStoredGuestContact, To
    <3>4. CASE SendWelcome
        BY <3>4 DEF SendWelcome
    <3>5. CASE stripHostawayGuestContact
        BY <3>5 DEF stripHostawayGuestContact
    <3>. QED
        BY <1>6, <3>1, <3>2, <3>3, <3>4, <3>5 DEF Origin
  <2>. QED
      BY <1>0, <1>1, <1>6, <2>1
<1>7. ASSUME NEW p \in Payers, PaymentStep(p)
      PROVE  \A v \in Tasks : v # p => task'[v] = task[v]
  <2>1. \E t : Go(p, t)
    <3>1. CASE \E r \in Reservations, amt \in Amounts : BookPayment(p, r, amt)
        BY <3>1 DEF BookPayment
    <3>2. CASE RecordCharge(p)
        BY <3>2 DEF RecordCharge
    <3>3. CASE releaseAfterPayment(p) \/ hasQualifyingPayment(p)
        BY <3>3 DEF releaseAfterPayment, hasQualifyingPayment, To
    <3>4. CASE attachStoredGuestContact(p, "release", "arrival") \/ SendArrivalInfo(p) \/ ArrivalInfoSent(p)
        BY <3>4 DEF attachStoredGuestContact, SendArrivalInfo, ArrivalInfoSent, To
    <3>5. CASE confirmFonioInquiryAfterDeposit(p) \/ ConfirmInHostaway(p) \/ ConfirmLocally(p)
        BY <3>5 DEF confirmFonioInquiryAfterDeposit, ConfirmInHostaway, ConfirmLocally, To
    <3>. QED
        BY <1>7, <3>1, <3>2, <3>3, <3>4, <3>5 DEF PaymentStep
  <2>. QED
      BY <1>0, <1>1, <2>1
<1>8. CASE Request
    BY <1>0, <1>5, <1>8 DEF Request, RequestStep
<1>9. CASE \E p \in Payers : PaymentStep(p)
    BY <1>0, <1>7, <1>9
<1>10. Payment => \/ \E p \in Payers : PaymentStep(p)
                  \/ \E r \in Reservations : PortalPayment(r)
                  \/ \E r \in Reservations, amt \in Amounts : UndoPayment(r, amt)
    BY DEF Payment, PaymentStep
<1>. QED
    BY <1>0, <1>3, <1>4, <1>6, <1>8, <1>9, <1>10 DEF Next

\* Money that has been booked stays booked, whatever is undone.
LEMMA MoneyKept ==
    ASSUME TypeInv, [Next]_vars, NEW r \in Reservations
    PROVE  /\ Money(r) => Money(r)'
           /\ Enough(r) => Enough(r)'
<1>1. /\ log[r].max \in Nat /\ log'[r].max \in Nat /\ log'[r].max >= log[r].max
      /\ log[r].full => log'[r].full
    BY LogGrows
<1>2. rule' = rule /\ NeededDeposit(rule[r]) \in Nat
    BY FixedStep, TypeParts, AmountTypes, PercentType, GuestBounds DEF NeededDeposit
<1>3. NeededDeposit(rule'[r]) = NeededDeposit(rule[r])
    BY <1>2
<1>. HIDE DEF NeededDeposit
<1>4. Money(r) => Money(r)'
    BY <1>1 DEF Money
<1>5. Enough(r) => Enough(r)'
  <2>1. Enough(r)' <=> \/ log'[r].full
                       \/ log'[r].max + 50 >= NeededDeposit(rule[r])
                       \/ 10 * (log'[r].max + 1) >= 9 * NeededDeposit(rule[r])
      BY <1>2 DEF Enough, NeededDeposit, depositAmount, Percent
  <2>. QED
      BY <1>1, <1>2, <2>1 DEF Enough
<1>. QED
    BY <1>4, <1>5

\* Money lets the contact data and the arrival information go.
LEMMA QualifyingMoney ==
    ASSUME TypeInv, MoneyInv, NEW r \in Reservations, Qualifies(r)
    PROVE  Money(r)
<1>1. /\ paid[r] \in Nat /\ log[r].max \in Nat /\ rule[r] \in Rules
      /\ depositAmount(Total, rule[r]) \in Nat
    BY TypeParts, AmountTypes DEF TypeInv, GuestTypeOK, History
<1>2. rule[r].depositPct > 0 => depositAmount(Total, rule[r]) > 100
    BY <1>1, GuestPrices
<1>. QED
    BY <1>1, <1>2 DEF Qualifies, Money, MoneyInv

\* Enough money lets an offer be confirmed.
LEMMA EnoughMoney ==
    ASSUME TypeInv, MoneyInv, NEW r \in Reservations,
           hasFonioDepositPaid(row[r], rule[r], paid[r])
    PROVE  Enough(r)
<1>1. /\ paid[r] \in Nat /\ log[r].max \in Nat /\ rule[r] \in Rules
      /\ depositAmount(Total, rule[r]) \in Nat /\ NeededDeposit(rule[r]) \in Nat
    BY TypeParts, AmountTypes, PercentType, GuestBounds DEF TypeInv, GuestTypeOK, History, NeededDeposit
<1>2. rule[r].depositPct > 0 => depositAmount(Total, rule[r]) > 100
    BY <1>1, GuestPrices
<1>3. CASE row[r].isPaid
    BY <1>3 DEF MoneyInv, Enough
<1>4. CASE row[r].phase = "deposit_paid"
  <2>1. log[r].max + 50 >= depositAmount(Total, rule[r]) /\ rule[r].depositPct > 0
      BY <1>4 DEF MoneyInv
  <2>2. NeededDeposit(rule[r]) = depositAmount(Total, rule[r])
      BY <1>2, <2>1 DEF NeededDeposit
  <2>. QED
      BY <2>1, <2>2 DEF Enough
<1>5. CASE /\ paid[r] > 50
           /\ NeededDeposit(rule[r]) > 100 => 10 * (paid[r] + 1) >= 9 * NeededDeposit(rule[r])
  <2>1. paid[r] <= log[r].max
      BY DEF MoneyInv
  <2>. HIDE DEF NeededDeposit
  <2>. QED
      BY <1>1, <1>5, <2>1 DEF Enough
<1>. QED
    BY <1>3, <1>4, <1>5 DEF hasFonioDepositPaid

\* A handler that releases something saw the money for it.
LEMMA ReleaseStep ==
    ASSUME TypeInv, MoneyInv, ReleaseInv, [Next]_vars
    PROVE  ReleaseInv'
<1>. DEFINE MoneyNext(r) == log'[r].max > 50 \/ log'[r].full
            EnoughNext(r) == \/ log'[r].full
                             \/ log'[r].max + 50 >= NeededDeposit(rule'[r])
                             \/ 10 * (log'[r].max + 1) >= 9 * NeededDeposit(rule'[r])
<1>. SUFFICES ASSUME NEW p \in Payers
              PROVE  /\ task'[p].pc \in {"release", "arrival", "infoMark"} => MoneyNext(task'[p].r)
                     /\ task'[p].pc \in {"confirmHa", "confirmLocal"} => EnoughNext(task'[p].r)
    BY DEF ReleaseInv, Money, Enough, NeededDeposit, depositAmount, Percent
<1>0. /\ task \in [Tasks -> Task] /\ p \in Tasks /\ task[p] \in Task
      /\ task' \in [Tasks -> Task] /\ OnAStay /\ OnAStay'
    BY TypeParts, TypeStep DEF Tasks, TypeInv, GuestTypeOK
<1>1. \A r \in Reservations : (Money(r) => MoneyNext(r)) /\ (Enough(r) => EnoughNext(r))
    BY MoneyKept DEF Money, Enough, NeededDeposit, depositAmount, Percent
<1>. HIDE DEF MoneyNext, EnoughNext
<1>2. ASSUME task'[p].r = task[p].r,
             \/ task'[p].pc = task[p].pc
             \/ task'[p].pc \in {"arrival", "infoMark"} /\ task[p].pc \in {"release", "arrival"}
             \/ task'[p].pc = "confirmLocal" /\ task[p].pc = "confirmHa"
      PROVE  /\ task'[p].pc \in {"release", "arrival", "infoMark"} => MoneyNext(task'[p].r)
             /\ task'[p].pc \in {"confirmHa", "confirmLocal"} => EnoughNext(task'[p].r)
  <2>1. Busy(p) => task[p].r \in Reservations
      BY <1>0 DEF OnAStay
  <2>. QED
      BY <1>1, <1>2, <2>1 DEF ReleaseInv, Busy
<1>3. ASSUME task'[p].pc \notin {"release", "arrival", "infoMark", "confirmHa", "confirmLocal"}
      PROVE  /\ task'[p].pc \in {"release", "arrival", "infoMark"} => MoneyNext(task'[p].r)
             /\ task'[p].pc \in {"confirmHa", "confirmLocal"} => EnoughNext(task'[p].r)
    BY <1>3
<1>4. Go(p, IdleTask) => task'[p].pc = "idle"
    BY <1>0, IdleType DEF Go
<1>5. \A pc : To(p, pc) => task'[p].pc = pc /\ task'[p].r = task[p].r
    BY <1>0, TaskUpdate
<1>6. CASE task'[p] = task[p]
    BY <1>2, <1>6
<1>7. CASE \E r \in Reservations, amt \in Amounts : BookPayment(p, r, amt)
  <2>1. PICK r \in Reservations, amt \in Amounts : BookPayment(p, r, amt)
      BY <1>7
  <2>2. \/ task'[p] = [IdleTask EXCEPT !.pc = "info", !.r = r]
        \/ task'[p] = [IdleTask EXCEPT !.pc = "record", !.r = r, !.amt = amt]
      BY <1>0, <2>1 DEF BookPayment, Go
  <2>. QED
      BY <1>3, <2>2 DEF IdleTask
<1>8. CASE RecordCharge(p)
  <2>1. task'[p] = [task[p] EXCEPT !.pc = "info", !.amt = 0] \/ task'[p].pc = "idle"
      BY <1>0, <1>4, <1>8 DEF RecordCharge, Go
  <2>2. task'[p].pc \in {"info", "idle"}
      BY <1>0, <2>1 DEF Task
  <2>. QED
      BY <1>3, <2>2
<1>9. CASE releaseAfterPayment(p)
    BY <1>3, <1>5, <1>9 DEF releaseAfterPayment
<1>10. CASE hasQualifyingPayment(p)
  <2>1. task[p].r \in Reservations
      BY <1>10, <1>0, AtStay DEF hasQualifyingPayment, At
  <2>2. CASE Qualifies(task[p].r)
    <3>1. task'[p].pc = "release" /\ task'[p].r = task[p].r
        BY <1>5, <1>10, <2>2 DEF hasQualifyingPayment
    <3>2. Money(task[p].r)
        BY <2>1, <2>2, QualifyingMoney
    <3>. QED
        BY <1>1, <2>1, <3>1, <3>2
  <2>3. CASE ~Qualifies(task[p].r)
      BY <1>3, <1>5, <1>10, <2>3 DEF hasQualifyingPayment
  <2>. QED
      BY <2>2, <2>3
<1>11. CASE attachStoredGuestContact(p, "release", "arrival")
    BY <1>2, <1>5, <1>11 DEF attachStoredGuestContact, At
<1>12. CASE SendArrivalInfo(p) \/ ArrivalInfoSent(p)
    BY <1>2, <1>3, <1>5, <1>12 DEF SendArrivalInfo, ArrivalInfoSent, At
<1>13. CASE confirmFonioInquiryAfterDeposit(p)
  <2>1. task[p].r \in Reservations
      BY <1>13, <1>0, AtStay DEF confirmFonioInquiryAfterDeposit, At
  <2>2. CASE hasFonioDepositPaid(row[task[p].r], rule[task[p].r], paid[task[p].r]) /\ To(p, "confirmHa")
    <3>1. Enough(task[p].r)
        BY <2>1, <2>2, EnoughMoney
    <3>. QED
        BY <1>1, <1>5, <2>1, <2>2, <3>1
  <2>3. CASE Go(p, IdleTask)
      BY <1>3, <1>4, <2>3
  <2>. QED
      BY <1>13, <2>2, <2>3 DEF confirmFonioInquiryAfterDeposit
<1>14. CASE ConfirmInHostaway(p) \/ ConfirmLocally(p)
    BY <1>2, <1>3, <1>4, <1>5, <1>14 DEF ConfirmInHostaway, ConfirmLocally, At
<1>. QED
    BY <1>6, <1>7, <1>8, <1>9, <1>10, <1>11, <1>12, <1>13, <1>14, OwnSteps DEF PaymentStep

\* Who writes the messages a guest got.
LEMMA SentSteps ==
    ASSUME [Next]_vars
    PROVE  \/ UNCHANGED sent
           \/ sendGuestPaymentReminder
           \/ \E p \in Payers : SendArrivalInfo(p)
BY DEF Next, vars, Tick, Job, dailyGuestPaymentJob, JobNext, Decide, cancelUnpaidReservation,
       MarkCancelled, ReminderSent, Request, refreshIsPaid,
       CreateDueCharge, PostRequest, RequestSent, Origin, NewStay, FirstRequest,
       sendImportWelcome, attachStoredGuestContact, SendWelcome, stripHostawayGuestContact,
       WelcomeSent, Payment, BookPayment, PortalPayment, RecordCharge, UndoPayment,
       releaseAfterPayment, hasQualifyingPayment, ArrivalInfoSent,
       confirmFonioInquiryAfterDeposit, ConfirmInHostaway, ConfirmLocally

\* Arrival information follows the money.
LEMMA ArrivalMoneyStep ==
    ASSUME TypeInv, ReleaseInv, ArrivalAfterMoney, [Next]_vars
    PROVE  ArrivalAfterMoney'
<1>. SUFFICES ASSUME NEW q \in Reservations, sent'[q].arrival > 0 PROVE Money(q)'
    BY DEF ArrivalAfterMoney
<1>0. sent \in [Reservations -> Messages]
    BY TypeParts
<1>1. sent[q].arrival > 0 => Money(q)'
    BY MoneyKept DEF ArrivalAfterMoney
<1>2. CASE UNCHANGED sent
    BY <1>1, <1>2
<1>3. CASE sendGuestPaymentReminder
  <2>1. UNCHANGED sent \/ Sent(task["job"].r, "reminder")
      BY <1>3 DEF sendGuestPaymentReminder
  <2>2. task["job"].r \in Reservations
      BY <1>3, AtStay DEF sendGuestPaymentReminder, At, Tasks
  <2>. QED
      BY <1>0, <1>1, <2>1, <2>2, SentUpdate
<1>4. ASSUME NEW p \in Payers, SendArrivalInfo(p) PROVE Money(q)'
  <2>1. UNCHANGED sent \/ Sent(task[p].r, "arrival")
      BY <1>4 DEF SendArrivalInfo
  <2>2. task[p].r \in Reservations
      BY <1>4, AtStay DEF SendArrivalInfo, At, Tasks
  <2>3. Money(task[p].r)
      BY <1>4 DEF ReleaseInv, SendArrivalInfo, At
  <2>4. CASE q = task[p].r
      BY <2>3, <2>4, MoneyKept
  <2>5. CASE q # task[p].r
      BY <1>0, <1>1, <2>1, <2>2, <2>5, SentUpdate
  <2>. QED
      BY <2>4, <2>5
<1>. QED
    BY <1>2, <1>3, <1>4, SentSteps

\* A new stay that is being welcomed stays so until the contact data is
\* taken out again.
LEMMA WelcomeStays ==
    ASSUME TypeInv, [Next]_vars, task["origin"].pc \in {"welcomeSend", "strip"},
           ~stripHostawayGuestContact
    PROVE  /\ task'["origin"].r = task["origin"].r
           /\ task'["origin"].pc \in {"welcomeSend", "strip"}
<1>0. "origin" \in Tasks /\ task \in [Tasks -> Task] /\ task["origin"] \in Task
    BY TypeParts DEF Tasks
<1>1. CASE task'["origin"] = task["origin"]
    BY <1>1
<1>2. CASE RequestStep("origin")
    BY <1>2 DEF RequestStep, refreshIsPaid, CreateDueCharge, PostRequest, RequestSent, At
<1>3. CASE Origin
  <2>1. SendWelcome
      BY <1>3 DEF Origin, NewStay, FirstRequest, sendImportWelcome, attachStoredGuestContact,
                  WelcomeSent, At
  <2>2. \/ task'["origin"] = [task["origin"] EXCEPT !.pc = "strip", !.ok = TRUE]
        \/ task'["origin"] = [task["origin"] EXCEPT !.pc = "strip"]
      BY <1>0, <2>1 DEF SendWelcome, Go
  <2>. QED
      BY <1>0, <2>2 DEF Task
<1>. QED
    BY <1>1, <1>2, <1>3, OwnSteps

\* Contact data follows the money, but for the welcome of an import.
LEMMA ContactStep ==
    ASSUME TypeInv, ReleaseInv, ContactAfterMoney, [Next]_vars
    PROVE  ContactAfterMoney'
<1>. DEFINE Goal(q) == \/ Money(q)' \/ log'[q].kept
                       \/ task'["origin"].r = q /\ task'["origin"].pc \in {"welcomeSend", "strip"}
<1>. SUFFICES ASSUME NEW q \in Reservations, ha'[q].contact PROVE Goal(q)
    BY DEF ContactAfterMoney
<1>0. /\ ha \in [Reservations -> [st : {"inquiry", "new", "cancelled"}, sum : Int, contact : BOOLEAN]]
      /\ log \in [Reservations -> History] /\ task \in [Tasks -> Task] /\ "origin" \in Tasks
    BY TypeParts DEF Tasks
<1>1. (Money(q) => Money(q)') /\ (log[q].kept => log'[q].kept)
    BY MoneyKept, LogGrows
<1>2. ha[q].contact => \/ Money(q) \/ log[q].kept
                       \/ task["origin"].r = q /\ task["origin"].pc \in {"welcomeSend", "strip"}
    BY DEF ContactAfterMoney
<1>3. CASE stripHostawayGuestContact
  <2>. DEFINE r == task["origin"].r
  <2>1. r \in Reservations
      BY <1>3, AtStay DEF stripHostawayGuestContact, At, Tasks
  <2>2. CASE ha' = [ha EXCEPT ![r].contact = FALSE]
    <3>1. ha'[q].contact = IF q = r THEN FALSE ELSE ha[q].contact
        BY <1>0, <2>1, <2>2, HaUpdate
    <3>. QED
        BY <1>1, <1>2, <3>1
  <2>3. CASE UNCHANGED ha /\ log' = [log EXCEPT ![r].kept = TRUE]
    <3>1. log'[q].kept = IF q = r THEN TRUE ELSE log[q].kept
        BY <1>0, <2>1, <2>3, LogUpdate
    <3>. QED
        BY <1>1, <1>2, <2>3, <3>1
  <2>. QED
      BY <1>3, <2>2, <2>3 DEF stripHostawayGuestContact
<1>4. CASE ~stripHostawayGuestContact
  <2>1. ha[q].contact => Goal(q)
      BY <1>1, <1>2, <1>4, WelcomeStays
  <2>. HIDE DEF Goal
  <2>2. ASSUME ha'[q].contact = ha[q].contact PROVE Goal(q)
      BY <2>1, <2>2
  <2>3. ASSUME NEW r \in Reservations, NEW v, ha' = [ha EXCEPT ![r].st = v] \/ ha' = [ha EXCEPT ![r].sum = v]
        PROVE  Goal(q)
    <3>1. ha'[q].contact = ha[q].contact
      <4>1. CASE ha' = [ha EXCEPT ![r].st = v]
          BY <1>0, <4>1, HaUpdate
      <4>2. CASE ha' = [ha EXCEPT ![r].sum = v]
          BY <1>0, <4>2, HaUpdate
      <4>. QED
          BY <2>3, <4>1, <4>2
    <3>. QED
        BY <2>2, <3>1
  <2>4. CASE cancelUnpaidReservation
    <3>1. task["job"].r \in Reservations
        BY <2>4, AtStay DEF cancelUnpaidReservation, At, Tasks
    <3>2. UNCHANGED ha \/ ha' = [ha EXCEPT ![task["job"].r].st = "cancelled"]
        BY <2>4 DEF cancelUnpaidReservation
    <3>. QED
        BY <2>2, <2>3, <3>1, <3>2
  <2>5. CASE attachStoredGuestContact("origin", "attach", "welcomeSend")
    <3>. DEFINE r == task["origin"].r
    <3>1. r \in Reservations
        BY <2>5, AtStay DEF attachStoredGuestContact, At, Tasks
    <3>2. task'["origin"].pc = "welcomeSend" /\ task'["origin"].r = r
        BY <1>0, <2>5, TaskUpdate DEF attachStoredGuestContact
    <3>3. UNCHANGED ha \/ ha' = [ha EXCEPT ![r].contact = TRUE]
        BY <2>5 DEF attachStoredGuestContact
    <3>4. q # r => ha'[q].contact = ha[q].contact
        BY <1>0, <3>1, <3>3, HaUpdate
    <3>5. q = r => Goal(q)
        BY <3>2 DEF Goal
    <3>. QED
        BY <2>2, <3>4, <3>5
  <2>6. ASSUME NEW p \in Payers, attachStoredGuestContact(p, "release", "arrival") PROVE Goal(q)
    <3>. DEFINE r == task[p].r
    <3>1. r \in Reservations
        BY <2>6, AtStay DEF attachStoredGuestContact, At, Tasks
    <3>2. Money(r)
        BY <2>6 DEF ReleaseInv, attachStoredGuestContact, At
    <3>3. UNCHANGED ha \/ ha' = [ha EXCEPT ![r].contact = TRUE]
        BY <2>6 DEF attachStoredGuestContact
    <3>4. q # r => ha'[q].contact = ha[q].contact
        BY <1>0, <3>1, <3>3, HaUpdate
    <3>5. q = r => Goal(q)
        BY <1>1, <3>2 DEF Goal
    <3>. QED
        BY <2>2, <3>4, <3>5
  <2>7. ASSUME NEW p \in Payers, ConfirmInHostaway(p) PROVE Goal(q)
    <3>1. task[p].r \in Reservations
        BY <2>7, AtStay DEF ConfirmInHostaway, At, Tasks
    <3>2. UNCHANGED ha \/ ha' = [ha EXCEPT ![task[p].r].st = "new"]
        BY <2>7 DEF ConfirmInHostaway
    <3>. QED
        BY <2>2, <2>3, <3>1, <3>2
  <2>8. ASSUME NEW p \in Payers, NEW r \in Reservations, NEW amt \in Amounts, BookPayment(p, r, amt) PROVE Goal(q)
    <3>1. UNCHANGED ha \/ ha' = [ha EXCEPT ![r].sum = ha[r].sum + amt]
        BY <2>8 DEF BookPayment
    <3>. QED
        BY <2>2, <2>3, <3>1
  <2>9. ASSUME NEW r \in Reservations, PortalPayment(r) PROVE Goal(q)
    <3>1. ha' = [ha EXCEPT ![r].sum = Total]
        BY <2>9 DEF PortalPayment
    <3>. QED
        BY <2>3, <3>1
  <2>10. ASSUME NEW r \in Reservations, NEW amt \in Amounts, UndoPayment(r, amt) PROVE Goal(q)
    <3>1. UNCHANGED ha \/ ha' = [ha EXCEPT ![r].sum = ha[r].sum - amt]
        BY <2>10 DEF UndoPayment
    <3>. QED
        BY <2>2, <2>3, <3>1
  <2>11. UNCHANGED ha => Goal(q)
      BY <2>2
  <2>. QED
      BY <1>4, <2>4, <2>5, <2>6, <2>7, <2>8, <2>9, <2>10, <2>11, HaSteps
<1>. QED
    BY <1>3, <1>4

\* An offer is confirmed after its deposit.
LEMMA InquiryStep ==
    ASSUME TypeInv, ReleaseInv, InquiryNeedsDeposit, [Next]_vars
    PROVE  InquiryNeedsDeposit'
<1>0. /\ ha \in [Reservations -> [st : {"inquiry", "new", "cancelled"}, sum : Int, contact : BOOLEAN]]
      /\ row \in [Reservations -> Row] /\ task \in [Tasks -> Task]
    BY TypeParts
<1>1. InquiryNeedsDeposit <=>
         \A r \in Reservations : kind[r] = "offer" /\ "new" \in {ha[r].st, row[r].st} => Enough(r)
    BY DEF InquiryNeedsDeposit, isFonioOffer, Enough
<1>. DEFINE EnoughNext(r) == \/ log'[r].full
                             \/ log'[r].max + 50 >= NeededDeposit(rule'[r])
                             \/ 10 * (log'[r].max + 1) >= 9 * NeededDeposit(rule'[r])
<1>. SUFFICES ASSUME NEW q \in Reservations, kind'[q] = "offer", "new" \in {ha'[q].st, row'[q].st}
              PROVE  EnoughNext(q)
    BY DEF InquiryNeedsDeposit, isFonioOffer, NeededDeposit, depositAmount, Percent
<1>2. \A r \in Reservations : Enough(r) => EnoughNext(r)
    BY MoneyKept DEF Enough, NeededDeposit, depositAmount, Percent
<1>. HIDE DEF EnoughNext
<1>3. kind[q] = "offer"
    BY FixedStep
<1>4. ha'[q].st = "new" => ha[q].st = "new" \/ EnoughNext(q)
  <2>1. ASSUME ha'[q].st = ha[q].st PROVE <1>4
      BY <2>1
  <2>2. ASSUME NEW r \in Reservations, NEW v, ha' = [ha EXCEPT ![r].sum = v] \/ ha' = [ha EXCEPT ![r].contact = v]
        PROVE  <1>4
      BY <1>0, <2>1, <2>2, HaUpdate
  <2>3. CASE cancelUnpaidReservation
    <3>1. task["job"].r \in Reservations
        BY <2>3, AtStay DEF cancelUnpaidReservation, At, Tasks
    <3>2. CASE UNCHANGED ha
        BY <2>1, <3>2
    <3>3. CASE ha' = [ha EXCEPT ![task["job"].r].st = "cancelled"]
        BY <1>0, <3>1, <3>3, HaUpdate
    <3>. QED
        BY <2>3, <3>2, <3>3 DEF cancelUnpaidReservation
  <2>4. ASSUME NEW w \in Tasks, NEW from, NEW to, from \notin {"idle", "next"},
               attachStoredGuestContact(w, from, to) PROVE <1>4
    <3>1. task[w].r \in Reservations
        BY <2>4, AtStay DEF attachStoredGuestContact, At
    <3>2. UNCHANGED ha \/ ha' = [ha EXCEPT ![task[w].r].contact = TRUE]
        BY <2>4 DEF attachStoredGuestContact
    <3>. QED
        BY <2>1, <2>2, <3>1, <3>2
  <2>5. CASE stripHostawayGuestContact
    <3>1. task["origin"].r \in Reservations
        BY <2>5, AtStay DEF stripHostawayGuestContact, At, Tasks
    <3>2. UNCHANGED ha \/ ha' = [ha EXCEPT ![task["origin"].r].contact = FALSE]
        BY <2>5 DEF stripHostawayGuestContact
    <3>. QED
        BY <2>1, <2>2, <3>1, <3>2
  <2>6. ASSUME NEW p \in Payers, ConfirmInHostaway(p) PROVE <1>4
    <3>1. task[p].r \in Reservations /\ Enough(task[p].r)
        BY <2>6, AtStay DEF ConfirmInHostaway, At, Tasks, ReleaseInv
    <3>2. CASE UNCHANGED ha
        BY <2>1, <3>2
    <3>3. CASE ha' = [ha EXCEPT ![task[p].r].st = "new"]
      <4>1. ha'[q].st = IF q = task[p].r THEN "new" ELSE ha[q].st
          BY <1>0, <3>1, <3>3, HaUpdate
      <4>. QED
          BY <1>2, <3>1, <4>1
    <3>. QED
        BY <2>6, <3>2, <3>3 DEF ConfirmInHostaway
  <2>7. ASSUME NEW p \in Payers, NEW r \in Reservations, NEW amt \in Amounts, BookPayment(p, r, amt) PROVE <1>4
    <3>1. UNCHANGED ha \/ ha' = [ha EXCEPT ![r].sum = ha[r].sum + amt]
        BY <2>7 DEF BookPayment
    <3>. QED
        BY <2>1, <2>2, <3>1
  <2>8. ASSUME NEW r \in Reservations, PortalPayment(r) PROVE <1>4
    <3>1. ha' = [ha EXCEPT ![r].sum = Total]
        BY <2>8 DEF PortalPayment
    <3>. QED
        BY <2>2, <3>1
  <2>9. ASSUME NEW r \in Reservations, NEW amt \in Amounts, UndoPayment(r, amt) PROVE <1>4
    <3>1. UNCHANGED ha \/ ha' = [ha EXCEPT ![r].sum = ha[r].sum - amt]
        BY <2>9 DEF UndoPayment
    <3>. QED
        BY <2>1, <2>2, <3>1
  <2>10. UNCHANGED ha => <1>4
      BY <2>1
  <2>. QED
      BY <2>3, <2>4, <2>5, <2>6, <2>7, <2>8, <2>9, <2>10, HaSteps DEF Tasks
<1>5. row'[q].st = "new" => row[q].st = "new" \/ EnoughNext(q)
  <2>1. ASSUME row'[q].st = row[q].st PROVE <1>5
      BY <2>1
  <2>2. CASE Tick
    <3>1. row'[q] = [row[q] EXCEPT !.dl = OneDayLess(row[q].dl)] /\ row[q] \in Row
        BY <1>0, <2>2 DEF Tick
    <3>2. row'[q].st = row[q].st
        BY <3>1 DEF Row
    <3>. QED
        BY <2>1, <3>2
  <2>3. ASSUME NEW late \in BOOLEAN, Decide(late) PROVE <1>5
    <3>. DEFINE t == task["job"]
                r == t.r
                clear == DepositArrived(rule[r], t.seen[r], t.matched[r])
    <3>1. row' = [row EXCEPT ![r] = IF clear THEN ClearMarks(row[r]) ELSE row[r]] /\ r \in Reservations
        BY <2>3, AtStay DEF Decide, At, Tasks
    <3>2. \A x \in Row : ClearMarks(x).st = x.st
        BY DEF ClearMarks, Row
    <3>3. row[q] \in Row /\ row[r] \in Row
        BY <1>0, <3>1
    <3>. HIDE DEF clear, r
    <3>4. row'[q].st = row[q].st
        BY <1>0, <3>1, <3>2, <3>3
    <3>. QED
        BY <2>1, <3>4
  <2>4. CASE MarkCancelled
    <3>1. task["job"].r \in Reservations
        BY <2>4, AtStay DEF MarkCancelled, At, Tasks
    <3>2. row'[q].st \in {"cancelled", row[q].st}
      <4>1. row' = [row EXCEPT ![task["job"].r].auto = TRUE, ![task["job"].r].st = "cancelled"]
          BY <2>4 DEF MarkCancelled
      <4>. QED
          BY <1>0, <3>1, <4>1, SetCancelled, Zenon
    <3>. QED
        BY <3>2
  <2>5. CASE ReminderSent
    <3>1. task["job"].r \in Reservations
        BY <2>5, AtStay DEF ReminderSent, At, Tasks
    <3>2. row'[q].st = row[q].st
        BY <1>0, <2>5, <3>1, SetReminder DEF ReminderSent
    <3>. QED
        BY <2>1, <3>2
  <2>6. ASSUME NEW w \in {"job", "origin"}, refreshIsPaid(w) PROVE <1>5
    <3>. DEFINE b == row[task[w].r].isPaid \/ HostawayPaid(task[w].r)
    <3>1. task[w].r \in Reservations
        BY <2>6, AtStay DEF refreshIsPaid, At, Tasks
    <3>2. UNCHANGED row \/ row' = [row EXCEPT ![task[w].r].isPaid = b]
        BY <2>6 DEF refreshIsPaid
    <3>. HIDE DEF b
    <3>3. CASE row' = [row EXCEPT ![task[w].r].isPaid = b]
      <4>1. row'[q].st = row[q].st
          BY <1>0, <3>1, <3>3, SetPaid, Zenon
      <4>. QED
          BY <2>1, <4>1
    <3>. QED
        BY <2>1, <3>2, <3>3
  <2>7. ASSUME NEW w \in {"job", "origin"}, RequestSent(w) PROVE <1>5
    <3>1. task[w].r \in Reservations
        BY <2>7, AtStay DEF RequestSent, At, Tasks
    <3>2. row' = [row EXCEPT ![task[w].r] = Requested(row[task[w].r], task[w])]
        BY <2>7 DEF RequestSent
    <3>3. \A x \in Row : Requested(x, task[w]).st = x.st
        BY DEF Requested, Row
    <3>4. row'[q].st = row[q].st
        BY <1>0, <3>1, <3>2, <3>3
    <3>. QED
        BY <2>1, <3>4
  <2>8. CASE WelcomeSent
    <3>1. task["origin"].r \in Reservations
        BY <2>8, AtStay DEF WelcomeSent, At, Tasks
    <3>2. row'[q].st = row[q].st
        BY <1>0, <2>8, <3>1, SetWelcome DEF WelcomeSent
    <3>. QED
        BY <2>1, <3>2
  <2>9. ASSUME NEW p \in Payers, ArrivalInfoSent(p) PROVE <1>5
    <3>1. task[p].r \in Reservations
        BY <2>9, AtStay DEF ArrivalInfoSent, At, Tasks
    <3>2. row'[q].st = row[q].st
        BY <1>0, <2>9, <3>1, SetInfo DEF ArrivalInfoSent
    <3>. QED
        BY <2>1, <3>2
  <2>10. ASSUME NEW p \in Payers, ConfirmLocally(p) PROVE <1>5
    <3>1. task[p].r \in Reservations /\ Enough(task[p].r)
        BY <2>10, AtStay DEF ConfirmLocally, At, Tasks, ReleaseInv
    <3>2. q # task[p].r => row'[q].st = row[q].st
      <4>1. row' = [row EXCEPT ![task[p].r].st = "new"]
          BY <2>10 DEF ConfirmLocally
      <4>. QED
          BY <1>0, <3>1, <4>1, SetStatus, Zenon
    <3>. QED
        BY <1>2, <3>1, <3>2
  <2>11. UNCHANGED row => <1>5
      BY <2>1
  <2>. QED
      BY <2>2, <2>3, <2>4, <2>5, <2>6, <2>7, <2>8, <2>9, <2>10, <2>11, RowSteps
<1>. QED
    BY <1>1, <1>2, <1>3, <1>4, <1>5

\* Only the handler that acts moves.
LEMMA PaymentAlone ==
    ASSUME TypeInv, NEW p \in Payers, PaymentStep(p), NEW v \in Tasks, v # p
    PROVE  task'[v] = task[v]
<1>0. task \in [Tasks -> Task] /\ p \in Tasks
    BY TypeParts DEF Tasks
<1>1. \E t : Go(p, t)
  <2>1. CASE \E r \in Reservations, amt \in Amounts : BookPayment(p, r, amt)
      BY <2>1 DEF BookPayment
  <2>2. CASE RecordCharge(p)
      BY <2>2 DEF RecordCharge
  <2>3. CASE releaseAfterPayment(p) \/ hasQualifyingPayment(p)
      BY <2>3 DEF releaseAfterPayment, hasQualifyingPayment, To
  <2>4. CASE attachStoredGuestContact(p, "release", "arrival") \/ SendArrivalInfo(p) \/ ArrivalInfoSent(p)
      BY <2>4 DEF attachStoredGuestContact, SendArrivalInfo, ArrivalInfoSent, To
  <2>5. CASE confirmFonioInquiryAfterDeposit(p) \/ ConfirmInHostaway(p) \/ ConfirmLocally(p)
      BY <2>5 DEF confirmFonioInquiryAfterDeposit, ConfirmInHostaway, ConfirmLocally, To
  <2>. QED
      BY <2>1, <2>2, <2>3, <2>4, <2>5 DEF PaymentStep
<1>. QED
    BY <1>0, <1>1, TaskUpdate

\* The mark of the arrival information is set by the handler that sent it ...
LEMMA InfoStep ==
    ASSUME TypeInv, [Next]_vars, NEW q \in Reservations
    PROVE  \/ row'[q].info = row[q].info
           \/ \E p \in Payers : ArrivalInfoSent(p) /\ row'[q].info
<1>0. row \in [Reservations -> Row] /\ row[q] \in Row
    BY TypeParts
<1>1. CASE UNCHANGED row
    BY <1>1
<1>2. CASE Tick
  <2>1. row'[q] = [row[q] EXCEPT !.dl = OneDayLess(row[q].dl)]
      BY <1>2 DEF Tick
  <2>. QED
      BY <1>0, <2>1 DEF Row
<1>3. ASSUME NEW late \in BOOLEAN, Decide(late) PROVE row'[q].info = row[q].info
  <2>. DEFINE t == task["job"]
              r == t.r
              clear == DepositArrived(rule[r], t.seen[r], t.matched[r])
  <2>1. row' = [row EXCEPT ![r] = IF clear THEN ClearMarks(row[r]) ELSE row[r]] /\ r \in Reservations
      BY <1>3, AtStay DEF Decide, At, Tasks
  <2>2. \A x \in Row : ClearMarks(x).info = x.info
      BY DEF ClearMarks, Row
  <2>. HIDE DEF clear, r
  <2>. QED
      BY <1>0, <2>1, <2>2
<1>4. CASE MarkCancelled
  <2>1. task["job"].r \in Reservations
      BY <1>4, AtStay DEF MarkCancelled, At, Tasks
  <2>2. row' = [row EXCEPT ![task["job"].r].auto = TRUE, ![task["job"].r].st = "cancelled"]
      BY <1>4 DEF MarkCancelled
  <2>3. row'[q].info = row[q].info
      BY <1>0, <2>1, <2>2, SetCancelled, Zenon
  <2>. QED
      BY <2>3
<1>5. CASE ReminderSent
  <2>1. task["job"].r \in Reservations
      BY <1>5, AtStay DEF ReminderSent, At, Tasks
  <2>2. row' = [row EXCEPT ![task["job"].r].rem = TRUE]
      BY <1>5 DEF ReminderSent
  <2>3. row'[q].info = row[q].info
      BY <1>0, <2>1, <2>2 DEF Row
  <2>. QED
      BY <2>3
<1>6. ASSUME NEW w \in {"job", "origin"}, refreshIsPaid(w) PROVE row'[q].info = row[q].info
  <2>. DEFINE b == row[task[w].r].isPaid \/ HostawayPaid(task[w].r)
  <2>1. task[w].r \in Reservations
      BY <1>6, AtStay DEF refreshIsPaid, At, Tasks
  <2>2. UNCHANGED row \/ row' = [row EXCEPT ![task[w].r].isPaid = b]
      BY <1>6 DEF refreshIsPaid
  <2>. HIDE DEF b
  <2>3. CASE row' = [row EXCEPT ![task[w].r].isPaid = b]
      BY <1>0, <2>1, <2>3, SetPaid, Zenon
  <2>. QED
      BY <2>2, <2>3
<1>7. ASSUME NEW w \in {"job", "origin"}, RequestSent(w) PROVE row'[q].info = row[q].info
  <2>1. task[w].r \in Reservations
      BY <1>7, AtStay DEF RequestSent, At, Tasks
  <2>2. row' = [row EXCEPT ![task[w].r] = Requested(row[task[w].r], task[w])]
      BY <1>7 DEF RequestSent
  <2>3. \A x \in Row : Requested(x, task[w]).info = x.info
      BY DEF Requested, Row
  <2>. QED
      BY <1>0, <2>1, <2>2, <2>3
<1>8. CASE WelcomeSent
  <2>1. task["origin"].r \in Reservations /\ row' = [row EXCEPT ![task["origin"].r].welcome = TRUE]
      BY <1>8, AtStay DEF WelcomeSent, At, Tasks
  <2>2. row'[q].info = row[q].info
      BY <1>0, <2>1, SetWelcome, Zenon
  <2>. QED
      BY <2>2
<1>9. ASSUME NEW p \in Payers, ArrivalInfoSent(p)
      PROVE  row'[q].info = row[q].info \/ row'[q].info
  <2>1. task[p].r \in Reservations /\ row' = [row EXCEPT ![task[p].r].info = TRUE]
      BY <1>9, AtStay DEF ArrivalInfoSent, At, Tasks
  <2>2. row'[q].info = IF q = task[p].r THEN TRUE ELSE row[q].info
      BY <1>0, <2>1, SetInfo
  <2>. QED
      BY <2>2
<1>10. ASSUME NEW p \in Payers, ConfirmLocally(p) PROVE row'[q].info = row[q].info
  <2>1. task[p].r \in Reservations /\ row' = [row EXCEPT ![task[p].r].st = "new"]
      BY <1>10, AtStay DEF ConfirmLocally, At, Tasks
  <2>2. row'[q].info = row[q].info
      BY <1>0, <2>1, SetStatus, Zenon
  <2>. QED
      BY <2>2
<1>. QED
    BY <1>1, <1>2, <1>3, <1>4, <1>5, <1>6, <1>7, <1>8, <1>9, <1>10, RowSteps

\* ... and the sending is counted by it.
LEMMA ArrivalCount ==
    ASSUME TypeInv, [Next]_vars, NEW q \in Reservations
    PROVE  \/ sent'[q].arrival = sent[q].arrival
           \/ \E p \in Payers : /\ At(p, "arrival") /\ task[p].r = q /\ To(p, "infoMark")
                                /\ UNCHANGED row
                                /\ sent'[q].arrival = sent[q].arrival + 1
<1>0. sent \in [Reservations -> Messages]
    BY TypeParts
<1>1. CASE UNCHANGED sent
    BY <1>1
<1>2. CASE sendGuestPaymentReminder
  <2>1. UNCHANGED sent \/ Sent(task["job"].r, "reminder")
      BY <1>2 DEF sendGuestPaymentReminder
  <2>2. task["job"].r \in Reservations
      BY <1>2, AtStay DEF sendGuestPaymentReminder, At, Tasks
  <2>. QED
      BY <1>0, <2>1, <2>2, SentUpdate
<1>3. ASSUME NEW p \in Payers, SendArrivalInfo(p)
      PROVE  \/ sent'[q].arrival = sent[q].arrival
             \/ /\ At(p, "arrival") /\ task[p].r = q /\ To(p, "infoMark")
                /\ UNCHANGED row
                /\ sent'[q].arrival = sent[q].arrival + 1
  <2>1. UNCHANGED sent \/ (Sent(task[p].r, "arrival") /\ To(p, "infoMark"))
      BY <1>3 DEF SendArrivalInfo
  <2>2. task[p].r \in Reservations /\ At(p, "arrival") /\ UNCHANGED row
      BY <1>3, AtStay DEF SendArrivalInfo, At, Tasks
  <2>. QED
      BY <1>0, <2>1, <2>2, SentUpdate
<1>. QED
    BY <1>1, <1>2, <1>3, SentSteps

\* While nobody has noted the arrival information, those who sent it are all
\* about to; afterwards nobody new starts.
LEMMA ArrivalStep ==
    ASSUME TypeInv, ArrivalInv, [Next]_vars
    PROVE  ArrivalInv'
<1>. SUFFICES ASSUME NEW q \in Reservations
              PROVE  /\ ~row'[q].info => sent'[q].arrival = Cardinality(Noting(q)')
                     /\ sent'[q].arrival + Cardinality(Sending(q)') <= Cardinality(Payers)
    BY DEF ArrivalInv, Noting, Sending
<1>. DEFINE S == Sending(q)
            N == Noting(q)
            S1 == {p \in Payers : task'[p].r = q /\ task'[p].pc \in {"qualify", "release", "arrival"}}
            N1 == {p \in Payers : task'[p].r = q /\ task'[p].pc = "infoMark"}
<1>0. /\ task \in [Tasks -> Task] /\ task' \in [Tasks -> Task] /\ Payers \subseteq Tasks
      /\ sent[q].arrival \in Nat /\ sent'[q].arrival \in Nat
      /\ IsFiniteSet(Payers)
    BY TypeParts, TypeStep, GuestBounds DEF TypeInv, GuestTypeOK, Tasks, Messages
<1>1. S1 = Sending(q)' /\ N1 = Noting(q)'
    BY DEF Sending, Noting
<1>2. /\ ~row[q].info => sent[q].arrival = Cardinality(N)
      /\ sent[q].arrival + Cardinality(S) <= Cardinality(Payers)
    BY DEF ArrivalInv
<1>3. /\ S \subseteq Payers /\ N \subseteq Payers /\ S1 \subseteq Payers /\ N1 \subseteq Payers
      /\ S \cap N = {} /\ S1 \cap N1 = {}
    BY DEF Sending, Noting
<1>4. /\ IsFiniteSet(S) /\ IsFiniteSet(N) /\ IsFiniteSet(S1) /\ IsFiniteSet(N1)
      /\ Cardinality(S) \in Nat /\ Cardinality(N) \in Nat /\ Cardinality(Payers) \in Nat
      /\ Cardinality(S1) \in Nat /\ Cardinality(N1) \in Nat
    BY <1>0, <1>3, FS_Subset, FS_CardinalityType
<1>. DEFINE Goal == /\ ~row'[q].info => sent'[q].arrival = Cardinality(N1)
                    /\ sent'[q].arrival + Cardinality(S1) <= Cardinality(Payers)
<1>. SUFFICES Goal
    BY <1>1
<1>a. ASSUME N1 = N, S1 \subseteq S, sent'[q].arrival = sent[q].arrival, row'[q].info = row[q].info
      PROVE  Goal
  <2>1. Cardinality(S1) <= Cardinality(S)
      BY <1>4, <1>a, FS_Subset
  <2>2. Cardinality(N1) = Cardinality(N)
      BY <1>a
  <2>. HIDE DEF S, N, S1, N1
  <2>. QED
      BY <1>0, <1>2, <1>4, <1>a, <2>1, <2>2
<1>b. ASSUME N1 = N, sent'[q].arrival = sent[q].arrival, ~row[q].info, row'[q].info = row[q].info
      PROVE  Goal
  <2>1. Cardinality(S1 \cup N1) = Cardinality(S1) + Cardinality(N1) - Cardinality(S1 \cap N1)
      BY <1>4, FS_Union
  <2>2. Cardinality(S1 \cap N1) = 0
      BY <1>3, FS_EmptySet
  <2>3. Cardinality(S1 \cup N1) <= Cardinality(Payers)
      BY <1>0, <1>3, FS_Subset
  <2>4. Cardinality(N1) = Cardinality(N)
      BY <1>b
  <2>5. Cardinality(S1) + Cardinality(N1) <= Cardinality(Payers)
    <3>. HIDE DEF S1, N1
    <3>. QED
        BY <1>4, <2>1, <2>2, <2>3
  <2>. HIDE DEF S, N, S1, N1
  <2>. QED
      BY <1>0, <1>2, <1>4, <1>b, <2>4, <2>5
<1>c. ASSUME NEW p \in S, S1 \subseteq S \ {p}, N1 = N \cup {p}, sent'[q].arrival = sent[q].arrival + 1,
             row'[q].info = row[q].info
      PROVE  Goal
  <2>1. p \notin N
      BY <1>3
  <2>2. Cardinality(N1) = Cardinality(N) + 1
      BY <1>4, <1>c, <2>1, FS_AddElement
  <2>3. IsFiniteSet(S \ {p}) /\ Cardinality(S \ {p}) = Cardinality(S) - 1
      BY <1>4, <1>c, FS_RemoveElement
  <2>4. Cardinality(S1) <= Cardinality(S \ {p})
      BY <1>c, <2>3, FS_Subset
  <2>. HIDE DEF S, N, S1, N1
  <2>. QED
      BY <1>0, <1>2, <1>4, <1>c, <2>2, <2>3, <2>4
<1>d. ASSUME S1 \subseteq S, sent'[q].arrival = sent[q].arrival, row'[q].info
      PROVE  Goal
  <2>1. Cardinality(S1) <= Cardinality(S)
      BY <1>4, <1>d, FS_Subset
  <2>. HIDE DEF S, N, S1, N1
  <2>. QED
      BY <1>0, <1>2, <1>4, <1>d, <2>1
<1>. HIDE DEF Goal
<1>5. CASE \A p \in Payers : ~PaymentStep(p)
  <2>1. \A p \in Payers : task'[p] = task[p]
      BY <1>5, OwnSteps
  <2>2. S1 = S /\ N1 = N
      BY <2>1 DEF Sending, Noting
  <2>3. row'[q].info = row[q].info
      BY <1>5, InfoStep DEF PaymentStep
  <2>4. sent'[q].arrival = sent[q].arrival
    <3>1. \A p \in Payers : At(p, "arrival") /\ To(p, "infoMark") => FALSE
      <4>. SUFFICES ASSUME NEW p \in Payers, At(p, "arrival"), To(p, "infoMark") PROVE FALSE
          OBVIOUS
      <4>1. task'[p].pc = "infoMark"
          BY <1>0, TaskUpdate
      <4>. QED
          BY <2>1, <4>1 DEF At
    <3>. QED
        BY <3>1, ArrivalCount
  <2>. QED
      BY <1>a, <2>2, <2>3, <2>4
<1>6. ASSUME NEW p \in Payers, PaymentStep(p) PROVE Goal
  <2>0. p \in Tasks /\ task[p] \in Task
      BY <1>0
  <2>1. \A v \in Payers : v # p => task'[v] = task[v]
      BY <1>0, <1>6, PaymentAlone
  <2>2. \A v \in Payers : v # p => (v \in S1 <=> v \in S) /\ (v \in N1 <=> v \in N)
      BY <2>1 DEF Sending, Noting
  <2>3. /\ p \in S <=> task[p].r = q /\ task[p].pc \in {"qualify", "release", "arrival"}
        /\ p \in S1 <=> task'[p].r = q /\ task'[p].pc \in {"qualify", "release", "arrival"}
        /\ p \in N <=> task[p].r = q /\ task[p].pc = "infoMark"
        /\ p \in N1 <=> task'[p].r = q /\ task'[p].pc = "infoMark"
      BY DEF Sending, Noting
  <2>. HIDE DEF S, N, S1, N1
  <2>4. (p \in N1 <=> p \in N) => N1 = N
      BY <1>3, <2>2
  <2>5. (p \in S1 => p \in S) => S1 \subseteq S
      BY <1>3, <2>2
  <2>6. Go(p, IdleTask) => task'[p].pc = "idle"
      BY <1>0, IdleType DEF Go
  <2>7. \A pc : To(p, pc) => task'[p].pc = pc /\ task'[p].r = task[p].r
      BY <1>0, TaskUpdate
  <2>8. CASE /\ ~ArrivalInfoSent(p)
             /\ ~(At(p, "arrival") /\ To(p, "infoMark"))
    <3>1. sent'[q].arrival = sent[q].arrival
      <4>1. CASE \E v \in Payers : At(v, "arrival") /\ To(v, "infoMark")
        <5>1. PICK v \in Payers : At(v, "arrival") /\ To(v, "infoMark")
            BY <4>1
        <5>2. task'[v].pc = "infoMark" /\ task[v].pc = "arrival"
            BY <1>0, <5>1, TaskUpdate DEF At
        <5>. QED
            BY <2>1, <2>8, <5>1, <5>2
      <4>. QED
          BY <4>1, ArrivalCount
    <3>2. row'[q].info = row[q].info
      <4>1. ASSUME NEW v \in Payers, ArrivalInfoSent(v) PROVE FALSE
        <5>1. task'[v].pc = "confirm" /\ task[v].pc = "infoMark"
            BY <1>0, <4>1, TaskUpdate DEF ArrivalInfoSent, At
        <5>. QED
            BY <2>1, <2>8, <4>1, <5>1
      <4>. QED
          BY <4>1, InfoStep
    <3>3. CASE \E r \in Reservations, amt \in Amounts : BookPayment(p, r, amt)
      <4>1. PICK r \in Reservations, amt \in Amounts : BookPayment(p, r, amt)
          BY <3>3
      <4>2. \/ task'[p] = [IdleTask EXCEPT !.pc = "info", !.r = r]
            \/ task'[p] = [IdleTask EXCEPT !.pc = "record", !.r = r, !.amt = amt]
          BY <1>0, <4>1 DEF BookPayment, Go
      <4>3. task'[p].pc \in {"info", "record"} /\ task[p].pc = "idle"
          BY <4>1, <4>2 DEF IdleTask, BookPayment, At
      <4>4. N1 = N /\ S1 \subseteq S
          BY <2>3, <2>4, <2>5, <4>3
      <4>. QED
          BY <1>a, <3>1, <3>2, <4>4
    <3>4. CASE RecordCharge(p)
      <4>1. task'[p] = [task[p] EXCEPT !.pc = "info", !.amt = 0] \/ task'[p].pc = "idle"
          BY <1>0, <2>6, <3>4 DEF RecordCharge, Go
      <4>2. task'[p].pc \in {"info", "idle"} /\ task[p].pc = "record"
          BY <2>0, <3>4, <4>1 DEF Task, RecordCharge, At
      <4>3. N1 = N /\ S1 \subseteq S
          BY <2>3, <2>4, <2>5, <4>2
      <4>. QED
          BY <1>a, <3>1, <3>2, <4>3
    <3>5. CASE releaseAfterPayment(p)
      <4>1. /\ task[p].pc = "info" /\ task'[p].r = task[p].r
            /\ \/ task'[p].pc = "confirm"
               \/ task'[p].pc = "qualify" /\ ~row[task[p].r].info
          BY <2>7, <3>5 DEF releaseAfterPayment, At
      <4>2. N1 = N
          BY <2>3, <2>4, <4>1
      <4>3. CASE task[p].r = q /\ ~row[q].info
          BY <1>b, <3>1, <3>2, <4>2, <4>3
      <4>4. CASE ~(task[p].r = q /\ ~row[q].info)
        <5>1. S1 \subseteq S
            BY <2>3, <2>5, <4>1, <4>4
        <5>. QED
            BY <1>a, <3>1, <3>2, <4>2, <5>1
      <4>. QED
          BY <4>3, <4>4
    <3>6. CASE hasQualifyingPayment(p)
      <4>1. /\ task[p].pc = "qualify" /\ task'[p].r = task[p].r /\ task'[p].pc \in {"release", "confirm"}
          BY <2>7, <3>6 DEF hasQualifyingPayment, At
      <4>2. N1 = N /\ S1 \subseteq S
          BY <2>3, <2>4, <2>5, <4>1
      <4>. QED
          BY <1>a, <3>1, <3>2, <4>2
    <3>7. CASE attachStoredGuestContact(p, "release", "arrival")
      <4>1. task[p].pc = "release" /\ task'[p].r = task[p].r /\ task'[p].pc = "arrival"
          BY <2>7, <3>7 DEF attachStoredGuestContact, At
      <4>2. N1 = N /\ S1 \subseteq S
          BY <2>3, <2>4, <2>5, <4>1
      <4>. QED
          BY <1>a, <3>1, <3>2, <4>2
    <3>8. CASE SendArrivalInfo(p)
      <4>1. task[p].pc = "arrival" /\ task'[p].r = task[p].r /\ task'[p].pc = "confirm"
          BY <2>7, <2>8, <3>8 DEF SendArrivalInfo, At
      <4>2. N1 = N /\ S1 \subseteq S
          BY <2>3, <2>4, <2>5, <4>1
      <4>. QED
          BY <1>a, <3>1, <3>2, <4>2
    <3>9. CASE confirmFonioInquiryAfterDeposit(p) \/ ConfirmInHostaway(p) \/ ConfirmLocally(p)
      <4>1. /\ task[p].pc \in {"confirm", "confirmHa", "confirmLocal"}
            /\ task'[p].pc \in {"confirmHa", "confirmLocal", "idle"}
          BY <2>6, <2>7, <3>9 DEF confirmFonioInquiryAfterDeposit, ConfirmInHostaway, ConfirmLocally, At
      <4>2. N1 = N /\ S1 \subseteq S
          BY <2>3, <2>4, <2>5, <4>1
      <4>. QED
          BY <1>a, <3>1, <3>2, <4>2
    <3>. QED
        BY <1>6, <2>8, <3>3, <3>4, <3>5, <3>6, <3>7, <3>8, <3>9 DEF PaymentStep
  <2>9. CASE ArrivalInfoSent(p)
    <3>1. task[p].pc = "infoMark" /\ task'[p].pc = "confirm" /\ task'[p].r = task[p].r
        BY <2>7, <2>9 DEF ArrivalInfoSent, At
    <3>2. S1 \subseteq S
        BY <2>3, <2>5, <3>1
    <3>3. sent'[q].arrival = sent[q].arrival
        BY <2>9 DEF ArrivalInfoSent
    <3>4. task[p].r \in Reservations /\ row \in [Reservations -> Row]
        BY <2>0, <2>9, AtStay, TypeParts DEF ArrivalInfoSent, At
    <3>5. row'[q].info = IF q = task[p].r THEN TRUE ELSE row[q].info
      <4>1. row' = [row EXCEPT ![task[p].r].info = TRUE]
          BY <2>9 DEF ArrivalInfoSent
      <4>. QED
          BY <3>4, <4>1, SetInfo
    <3>6. CASE task[p].r = q
        BY <1>d, <3>2, <3>3, <3>5, <3>6
    <3>7. CASE task[p].r # q
      <4>1. N1 = N
          BY <2>3, <2>4, <3>1, <3>7
      <4>. QED
          BY <1>a, <3>2, <3>3, <3>5, <3>7, <4>1
    <3>. QED
        BY <3>6, <3>7
  <2>10. CASE At(p, "arrival") /\ To(p, "infoMark")
    <3>1. task[p].pc = "arrival" /\ task'[p].pc = "infoMark" /\ task'[p].r = task[p].r
        BY <2>7, <2>10 DEF At
    <3>2. SendArrivalInfo(p) /\ Sent(task[p].r, "arrival")
        BY <1>6, <3>1, <2>6, <2>7 DEF PaymentStep, BookPayment, RecordCharge, releaseAfterPayment,
           hasQualifyingPayment, attachStoredGuestContact, ArrivalInfoSent, SendArrivalInfo,
           confirmFonioInquiryAfterDeposit, ConfirmInHostaway, ConfirmLocally, At
    <3>3. UNCHANGED row
        BY <3>2 DEF SendArrivalInfo
    <3>4. task[p].r \in Reservations /\ sent \in [Reservations -> Messages]
        BY <2>0, <3>1, AtStay, TypeParts DEF At
    <3>5. sent'[q].arrival = IF q = task[p].r THEN sent[q].arrival + 1 ELSE sent[q].arrival
        BY <3>2, <3>4, SentUpdate
    <3>6. CASE task[p].r = q
      <4>1. p \in S /\ p \notin S1 /\ p \in N1
          BY <2>3, <3>1, <3>6
      <4>2. S1 \subseteq S \ {p} /\ N1 = N \cup {p}
          BY <1>3, <2>2, <4>1
      <4>. QED
          BY <1>c, <3>3, <3>5, <3>6, <4>1, <4>2
    <3>7. CASE task[p].r # q
      <4>1. N1 = N /\ S1 \subseteq S
          BY <2>3, <2>4, <2>5, <3>1, <3>7
      <4>. QED
          BY <1>a, <3>3, <3>5, <3>7, <4>1
    <3>. QED
        BY <3>6, <3>7
  <2>. QED
      BY <2>8, <2>9, <2>10
<1>. QED
    BY <1>5, <1>6

\* A reminder is sent by the job, of the stay it is at.
LEMMA ReminderCount ==
    ASSUME TypeInv, [Next]_vars, NEW q \in Reservations
    PROVE  \/ sent'[q].reminder = sent[q].reminder
           \/ /\ At("job", "remind") /\ task["job"].r = q /\ To("job", "remindMark")
              /\ UNCHANGED <<row, log>>
              /\ sent'[q].reminder = sent[q].reminder + 1
<1>0. sent \in [Reservations -> Messages]
    BY TypeParts
<1>1. CASE UNCHANGED sent
    BY <1>1
<1>2. CASE sendGuestPaymentReminder
  <2>1. UNCHANGED sent \/ (Sent(task["job"].r, "reminder") /\ To("job", "remindMark"))
      BY <1>2 DEF sendGuestPaymentReminder
  <2>2. task["job"].r \in Reservations /\ At("job", "remind") /\ UNCHANGED <<row, log>>
      BY <1>2, AtStay DEF sendGuestPaymentReminder, At, Tasks
  <2>. QED
      BY <1>0, <2>1, <2>2, SentUpdate
<1>3. ASSUME NEW p \in Payers, SendArrivalInfo(p) PROVE sent'[q].reminder = sent[q].reminder
  <2>1. UNCHANGED sent \/ Sent(task[p].r, "arrival")
      BY <1>3 DEF SendArrivalInfo
  <2>2. task[p].r \in Reservations
      BY <1>3, AtStay DEF SendArrivalInfo, At, Tasks
  <2>. QED
      BY <1>0, <2>1, <2>2, SentUpdate
<1>. QED
    BY <1>1, <1>2, <1>3, SentSteps

\* A request without a reminder was there before, or has just been noted.
LEMMA ReqStep ==
    ASSUME TypeInv, [Next]_vars, NEW q \in Reservations, row'[q].req, ~row'[q].rem
    PROVE  \/ row[q].req /\ ~row[q].rem /\ ~(ReminderSent /\ task["job"].r = q)
           \/ log'[q].marks = log[q].marks + 1
<1>0. row \in [Reservations -> Row] /\ row[q] \in Row /\ log \in [Reservations -> History]
    BY TypeParts
<1>1. ASSUME row'[q].req = row[q].req, row'[q].rem = row[q].rem, ~ReminderSent
      PROVE  row[q].req /\ ~row[q].rem /\ ~(ReminderSent /\ task["job"].r = q)
    BY <1>1
<1>2. CASE ReminderSent
  <2>1. task["job"].r \in Reservations
      BY <1>2, AtStay DEF ReminderSent, At, Tasks
  <2>2. row' = [row EXCEPT ![task["job"].r].rem = TRUE]
      BY <1>2 DEF ReminderSent
  <2>. DEFINE r == task["job"].r
  <2>. HIDE DEF r
  <2>3. row'[q].req = row[q].req /\ (q # r => row'[q].rem = row[q].rem) /\ (q = r => row'[q].rem = TRUE)
      BY <1>0, <2>1, <2>2 DEF Row, r
  <2>. QED
      BY <2>3 DEF r
<1>3. CASE ~ReminderSent
  <2>1. CASE UNCHANGED row
      BY <1>1, <1>3, <2>1
  <2>2. CASE Tick
    <3>1. row'[q] = [row[q] EXCEPT !.dl = OneDayLess(row[q].dl)]
        BY <2>2 DEF Tick
    <3>2. row'[q].req = row[q].req /\ row'[q].rem = row[q].rem
        BY <1>0, <3>1 DEF Row
    <3>. QED
        BY <1>1, <1>3, <3>2
  <2>3. ASSUME NEW late \in BOOLEAN, Decide(late)
        PROVE  row'[q].req = row[q].req /\ row'[q].rem = row[q].rem
    <3>. DEFINE t == task["job"]
                r == t.r
                clear == DepositArrived(rule[r], t.seen[r], t.matched[r])
    <3>1. row' = [row EXCEPT ![r] = IF clear THEN ClearMarks(row[r]) ELSE row[r]] /\ r \in Reservations
        BY <2>3, AtStay DEF Decide, At, Tasks
    <3>2. \A x \in Row : ClearMarks(x).req = FALSE
        BY DEF ClearMarks, Row
    <3>. HIDE DEF clear, r
    <3>. QED
        BY <1>0, <3>1, <3>2
  <2>4. CASE MarkCancelled
    <3>1. task["job"].r \in Reservations
        BY <2>4, AtStay DEF MarkCancelled, At, Tasks
    <3>2. row' = [row EXCEPT ![task["job"].r].auto = TRUE, ![task["job"].r].st = "cancelled"]
        BY <2>4 DEF MarkCancelled
    <3>3. row'[q].req = row[q].req /\ row'[q].rem = row[q].rem
        BY <1>0, <3>1, <3>2, SetCancelled, Zenon
    <3>. QED
        BY <1>1, <1>3, <3>3
  <2>5. ASSUME NEW w \in {"job", "origin"}, refreshIsPaid(w)
        PROVE  row'[q].req = row[q].req /\ row'[q].rem = row[q].rem
    <3>. DEFINE b == row[task[w].r].isPaid \/ HostawayPaid(task[w].r)
    <3>1. task[w].r \in Reservations
        BY <2>5, AtStay DEF refreshIsPaid, At, Tasks
    <3>2. UNCHANGED row \/ row' = [row EXCEPT ![task[w].r].isPaid = b]
        BY <2>5 DEF refreshIsPaid
    <3>. HIDE DEF b
    <3>3. CASE row' = [row EXCEPT ![task[w].r].isPaid = b]
        BY <1>0, <3>1, <3>3, SetPaid, Zenon
    <3>. QED
        BY <3>2, <3>3
  <2>6. ASSUME NEW w \in {"job", "origin"}, RequestSent(w)
        PROVE  \/ log'[q].marks = log[q].marks + 1
               \/ row'[q].req = row[q].req /\ row'[q].rem = row[q].rem
    <3>1. task[w].r \in Reservations
        BY <2>6, AtStay DEF RequestSent, At, Tasks
    <3>2. /\ row' = [row EXCEPT ![task[w].r] = Requested(row[task[w].r], task[w])]
          /\ log' = [log EXCEPT ![task[w].r].marks = log[task[w].r].marks + 1]
        BY <2>6 DEF RequestSent
    <3>3. CASE q = task[w].r
      <4>1. log'[q].marks = log[q].marks + 1
        <5>. DEFINE more == log[task[w].r].marks + 1
        <5>1. log' = [log EXCEPT ![q].marks = more]
            BY <3>2, <3>3
        <5>. HIDE DEF more
        <5>2. log'[q].marks = more
            BY <1>0, <5>1, MarksUpdate
        <5>. QED
            BY <3>3, <5>2 DEF more
      <4>. QED
          BY <4>1
    <3>4. CASE q # task[w].r
        BY <1>0, <3>1, <3>2, <3>4
    <3>. QED
        BY <3>3, <3>4
  <2>7. CASE WelcomeSent
    <3>1. task["origin"].r \in Reservations
        BY <2>7, AtStay DEF WelcomeSent, At, Tasks
    <3>2. row' = [row EXCEPT ![task["origin"].r].welcome = TRUE]
        BY <2>7 DEF WelcomeSent
    <3>3. row'[q].req = row[q].req /\ row'[q].rem = row[q].rem
        BY <1>0, <3>1, <3>2, SetWelcome, Zenon
    <3>. QED
        BY <1>1, <1>3, <3>3
  <2>8. ASSUME NEW p \in Payers, ArrivalInfoSent(p)
        PROVE  row'[q].req = row[q].req /\ row'[q].rem = row[q].rem
    <3>1. task[p].r \in Reservations
        BY <2>8, AtStay DEF ArrivalInfoSent, At, Tasks
    <3>2. row' = [row EXCEPT ![task[p].r].info = TRUE]
        BY <2>8 DEF ArrivalInfoSent
    <3>. QED
        BY <1>0, <3>1, <3>2, SetInfo, Zenon
  <2>9. ASSUME NEW p \in Payers, ConfirmLocally(p)
        PROVE  row'[q].req = row[q].req /\ row'[q].rem = row[q].rem
    <3>1. task[p].r \in Reservations
        BY <2>9, AtStay DEF ConfirmLocally, At, Tasks
    <3>2. row' = [row EXCEPT ![task[p].r].st = "new"]
        BY <2>9 DEF ConfirmLocally
    <3>. QED
        BY <1>0, <3>1, <3>2, SetStatus, Zenon
  <2>. QED
      BY <1>1, <1>3, <2>1, <2>2, <2>3, <2>4, <2>5, <2>6, <2>7, <2>8, <2>9, RowSteps
<1>. QED
    BY <1>2, <1>3

\* What the job has read of a stay still on its list.
JobRead(q) == OnList(q) /\ task["job"].seen[q].req /\ ~task["job"].seen[q].rem

\* The job reads at its start only; what it reminds of, it has read.
LEMMA ListStep ==
    ASSUME TypeInv, [Next]_vars, NEW q \in Reservations
    PROVE  /\ JobRead(q)' => \/ JobRead(q)
                             \/ At("job", "idle") /\ row[q].req /\ ~row[q].rem
           /\ task'["job"].r = q /\ task'["job"].pc = "remind" =>
                 JobRead(q) \/ (task["job"].r = q /\ task["job"].pc = "remind")
           /\ task["job"].r = q /\ task["job"].pc = "remindMark" =>
                 \/ task'["job"].r = q /\ task'["job"].pc = "remindMark"
                 \/ ReminderSent
<1>. DEFINE t == task["job"]
            n == task'["job"]
            Read(x) == (q \in x.todo \/ (x.r = q /\ x.pc \in {"refresh", "decide"}))
                       /\ x.seen[q].req /\ ~x.seen[q].rem
            A == Read(n) => Read(t) \/ (At("job", "idle") /\ row[q].req /\ ~row[q].rem)
            B == n.r = q /\ n.pc = "remind" => Read(t) \/ (t.r = q /\ t.pc = "remind")
            C == t.r = q /\ t.pc = "remindMark" => (n.r = q /\ n.pc = "remindMark") \/ ReminderSent
<1>. SUFFICES A /\ B /\ C
    BY DEF JobRead, OnList
<1>0. /\ task \in [Tasks -> Task] /\ "job" \in Tasks /\ t \in Task /\ n \in Task
      /\ row \in [Reservations -> Row] /\ paid \in [Reservations -> Nat] /\ OnAStay
    BY TypeParts, TypeStep DEF Tasks, TypeInv, GuestTypeOK
<1>1. ASSUME Go("job", NextStay(t)), ~(t.pc = "remindMark") \/ ReminderSent PROVE A /\ B /\ C
  <2>1. n = NextStay(t)
      BY <1>0, <1>1 DEF Go
  <2>2. n.pc = "next" /\ n.todo = t.todo /\ \A r \in t.todo : n.seen[r] = t.seen[r]
      BY <1>0, <2>1, NextStayType
  <2>. HIDE DEF t, n
  <2>. QED
      BY <1>1, <2>2
<1>2. ASSUME NEW pc, To("job", pc), pc \notin {"refresh", "decide"} \/ t.pc \in {"refresh", "decide"},
             pc # "remind", t.pc # "remindMark"
      PROVE  A /\ B /\ C
  <2>1. n.r = t.r /\ n.todo = t.todo /\ n.seen = t.seen /\ n.pc = pc
    <3>1. /\ n.r = t.r /\ n.todo = t.todo /\ n.seen = t.seen
          /\ n.pc = IF "job" = "job" THEN pc ELSE t.pc
        BY <1>0, <1>2, TaskUpdate, Zenon
    <3>. QED
        BY <3>1
  <2>. HIDE DEF t, n
  <2>. QED
      BY <1>2, <2>1
<1>3. ASSUME Go("job", IdleTask), t.pc # "remindMark" PROVE A /\ B /\ C
  <2>1. n.pc = "idle" /\ n.todo = {}
      BY <1>0, <1>3 DEF Go, IdleTask
  <2>. HIDE DEF t, n
  <2>. QED
      BY <1>3, <2>1
<1>4. CASE n = t
    BY <1>4
<1>5. CASE RequestStep("job")
  <2>1. t.pc \in {"refresh", "charge", "post", "requestMark"}
      BY <1>5 DEF RequestStep, refreshIsPaid, CreateDueCharge, PostRequest, RequestSent, At
  <2>2. AfterReturn("job") = NextStay(t) /\ AfterThrow("job") = IdleTask
      BY DEF AfterReturn, AfterThrow
  <2>3. \/ Go("job", NextStay(t)) \/ Go("job", IdleTask)
        \/ To("job", "decide") /\ t.pc = "refresh"
        \/ To("job", "post") \/ To("job", "requestMark")
    <3>1. CASE refreshIsPaid("job")
        BY <2>2, <3>1 DEF refreshIsPaid, To, At
    <3>2. CASE CreateDueCharge("job")
        BY <2>2, <3>2 DEF CreateDueCharge
    <3>3. CASE PostRequest("job") \/ RequestSent("job")
        BY <2>2, <3>3 DEF PostRequest, RequestSent
    <3>. QED
        BY <1>5, <3>1, <3>2, <3>3 DEF RequestStep
  <2>. HIDE DEF t, n, A, B, C
  <2>. QED
      BY <1>1, <1>2, <1>3, <2>1, <2>3
<1>6. CASE dailyGuestPaymentJob
  <2>. DEFINE x == [IdleTask EXCEPT !.todo = {r \in Reservations : Candidate(r)},
                                    !.seen = row, !.matched = paid]
  <2>1. x \in Task /\ x.seen = row
      BY <1>0, IdleType DEF Task, IdleTask
  <2>2. n = NextStay(x) /\ t.pc = "idle"
      BY <1>0, <1>6 DEF dailyGuestPaymentJob, Go, At
  <2>. HIDE DEF x
  <2>3. n.pc = "next" /\ n.todo = x.todo /\ \A r \in x.todo : n.seen[r] = row[r]
      BY <2>1, <2>2, NextStayType
  <2>4. At("job", "idle")
      BY <2>2 DEF At
  <2>. HIDE DEF t, n
  <2>. QED
      BY <2>2, <2>3, <2>4
<1>7. CASE JobNext
  <2>1. t.pc = "next"
      BY <1>7 DEF JobNext, At
  <2>2. CASE Go("job", IdleTask)
      BY <1>3, <2>1, <2>2
  <2>3. ASSUME NEW r \in t.todo,
               Go("job", IF rule[r].enabled
                         THEN [task["job"] EXCEPT !.todo = @ \ {r}, !.r = r, !.pc = "refresh"]
                         ELSE NextStay([task["job"] EXCEPT !.todo = @ \ {r}, !.r = r, !.pc = "refresh"]))
        PROVE  A /\ B /\ C
    <3>. DEFINE x == [task["job"] EXCEPT !.todo = @ \ {r}, !.r = r, !.pc = "refresh"]
    <3>0. r \in Reservations
        BY <1>0 DEF Task
    <3>1. x \in Task /\ x.todo = t.todo \ {r} /\ x.r = r /\ x.pc = "refresh" /\ x.seen = t.seen
        BY <1>0, <3>0 DEF Task, Pcs
    <3>2. n = x \/ n = NextStay(x)
        BY <1>0, <2>3 DEF Go
    <3>. HIDE DEF x
    <3>3. /\ NextStay(x).pc = "next" /\ NextStay(x).todo = x.todo
          /\ \A v \in x.todo : NextStay(x).seen[v] = x.seen[v]
        BY <3>1, NextStayType
    <3>. HIDE DEF t, n
    <3>. QED
        BY <2>1, <2>3, <3>1, <3>2, <3>3
  <2>. QED
      BY <1>7, <2>2, <2>3 DEF JobNext
<1>8. ASSUME NEW late \in BOOLEAN, Decide(late) PROVE A /\ B /\ C
  <2>. DEFINE r == t.r
              u == rule[r]
              clear == DepositArrived(u, t.seen[r], t.matched[r])
              s == IF clear THEN ClearMarks(t.seen[r]) ELSE t.seen[r]
              d == evaluateGuestPaymentSchedule(u, s, t.matched[r], FALSE, today, late)
              days == IF d.phase = "deposit" THEN u.depositDays ELSE u.deadlineDays
              t2 == [t EXCEPT !.seen[r] = s, !.amt = d.amt, !.phase = d.phase]
              cancels == [t2 EXCEPT !.pc = "haCancel"]
              reminds == [t2 EXCEPT !.pc = "remind"]
              asks == [t2 EXCEPT !.pc = "charge", !.dl = DeadlineOf(days)]
  <2>1. /\ r \in Reservations /\ u \in RuleType /\ today \in Nat /\ t.pc = "decide"
        /\ r \notin t.todo
      BY <1>0, <1>8, AtStay, TypeParts DEF Decide, At, OnAStay, Busy
  <2>2. t.seen[r] \in Row /\ t.matched[r] \in Nat
      BY <1>0, <2>1 DEF Task
  <2>3. s \in Row /\ (clear => ~s.req)
    <3>. HIDE DEF clear
    <3>. QED
        BY <2>2, CleanRow
  <2>4. d.act = "remind" => t.seen[r].req /\ ~t.seen[r].rem
    <3>1. d.act = "remind" => s.req /\ ~s.rem
      <4>. HIDE DEF s, u
      <4>. QED
          BY <2>1, <2>2, <2>3, DecisionFacts
    <3>. QED
        BY <2>3, <3>1
  <2>5. \/ n = cancels \/ n = asks \/ (n = reminds /\ d.act = "remind")
        \/ Go("job", NextStay(t))
    <3>1. \/ Go("job", cancels) \/ Go("job", asks)
          \/ (Go("job", reminds) /\ d.act = "remind")
          \/ Go("job", NextStay(t))
        BY <1>8 DEF Decide
    <3>. HIDE DEF cancels, asks, reminds, d
    <3>. QED
        BY <1>0, <3>1 DEF Go
  <2>6. \A x \in {cancels, asks, reminds} :
           x.todo = t.todo /\ x.r = r /\ \A v \in Reservations \ {r} : x.seen[v] = t.seen[v]
    <3>. HIDE DEF s, d, days
    <3>1. /\ t2.todo = t.todo /\ t2.r = t.r
          /\ \A v \in Reservations \ {r} : t2.seen[v] = t.seen[v]
        BY <1>0, <2>1 DEF Task
    <3>2. DOMAIN t2 = {"pc", "r", "todo", "seen", "matched", "amt", "phase", "dl", "ok"}
        BY <1>0 DEF Task
    <3>. HIDE DEF t2
    <3>3. cancels.todo = t2.todo /\ cancels.r = t2.r /\ cancels.seen = t2.seen
        BY <3>2
    <3>4. asks.todo = t2.todo /\ asks.r = t2.r /\ asks.seen = t2.seen
        BY <3>2
    <3>5. reminds.todo = t2.todo /\ reminds.r = t2.r /\ reminds.seen = t2.seen
        BY <3>2
    <3>. HIDE DEF cancels, asks, reminds
    <3>. QED
        BY <3>1, <3>3, <3>4, <3>5
  <2>7. cancels.pc = "haCancel" /\ asks.pc = "charge" /\ reminds.pc = "remind"
    <3>. HIDE DEF s, d, days, r
    <3>. QED
        BY <1>0 DEF Task
  <2>. HIDE DEF cancels, asks, reminds, d, s, u, t, n, r
  <2>8. CASE n \in {cancels, asks} \/ (n = reminds /\ d.act = "remind")
      BY <2>1, <2>4, <2>6, <2>7, <2>8 DEF r
  <2>9. CASE Go("job", NextStay(t))
      BY <1>1, <2>1, <2>9
  <2>. QED
      BY <2>5, <2>8, <2>9
<1>9. CASE cancelUnpaidReservation \/ MarkCancelled
  <2>1. t.pc \in {"haCancel", "localCancel"}
      BY <1>9 DEF cancelUnpaidReservation, MarkCancelled, At
  <2>2. To("job", "localCancel") \/ Go("job", NextStay(t))
      BY <1>9 DEF cancelUnpaidReservation, MarkCancelled
  <2>. HIDE DEF t, n, A, B, C
  <2>. QED
      BY <1>1, <1>2, <2>1, <2>2
<1>10. CASE sendGuestPaymentReminder
  <2>1. t.pc = "remind"
      BY <1>10 DEF sendGuestPaymentReminder, At
  <2>2. To("job", "remindMark") \/ Go("job", NextStay(t)) \/ Go("job", IdleTask)
      BY <1>10 DEF sendGuestPaymentReminder, AfterThrow
  <2>. HIDE DEF t, n, A, B, C
  <2>. QED
      BY <1>1, <1>2, <1>3, <2>1, <2>2
<1>11. CASE ReminderSent
    BY <1>1, <1>11 DEF ReminderSent
<1>. QED
    BY <1>4, <1>5, <1>6, <1>7, <1>8, <1>9, <1>10, <1>11, OwnSteps DEF Job

\* Where a reminder may still follow, there is a request without one.
LEMMA RemindStep ==
    ASSUME TypeInv, RemindInv, [Next]_vars
    PROVE  RemindInv'
<1>. SUFFICES ASSUME NEW q \in Reservations
              PROVE  /\ sent'[q].reminder <= log'[q].marks
                     /\ row'[q].req /\ ~row'[q].rem
                        /\ ~(task'["job"].r = q /\ task'["job"].pc = "remindMark") => Fresh(q)'
                     /\ JobRead(q)' => Fresh(q)'
                     /\ task'["job"].r = q /\ task'["job"].pc = "remind" => Fresh(q)'
    BY DEF RemindInv, JobRead
<1>0. /\ task \in [Tasks -> Task] /\ "job" \in Tasks /\ OnAStay
      /\ sent[q].reminder \in Nat /\ sent'[q].reminder \in Nat
      /\ log[q].marks \in Nat /\ log'[q].marks \in Nat /\ log'[q].marks >= log[q].marks
    BY TypeParts, TypeStep, LogGrows DEF TypeInv, GuestTypeOK, Tasks, Messages
<1>1. /\ sent[q].reminder <= log[q].marks
      /\ row[q].req /\ ~row[q].rem /\ ~(task["job"].r = q /\ task["job"].pc = "remindMark") => Fresh(q)
      /\ JobRead(q) => Fresh(q)
      /\ task["job"].r = q /\ task["job"].pc = "remind" => Fresh(q)
    BY DEF RemindInv, JobRead
<1>2. CASE sent'[q].reminder = sent[q].reminder
  <2>1. Fresh(q) => Fresh(q)'
      BY <1>0, <1>2 DEF Fresh
  <2>2. log'[q].marks = log[q].marks + 1 => Fresh(q)'
      BY <1>0, <1>1, <1>2 DEF Fresh
  <2>3. sent'[q].reminder <= log'[q].marks
      BY <1>0, <1>1, <1>2
  <2>4. JobRead(q)' => Fresh(q)'
      BY <1>1, <2>1, ListStep DEF At
  <2>5. task'["job"].r = q /\ task'["job"].pc = "remind" => Fresh(q)'
      BY <1>1, <2>1, ListStep
  <2>6. ASSUME row'[q].req, ~row'[q].rem, ~(task'["job"].r = q /\ task'["job"].pc = "remindMark")
        PROVE  Fresh(q)'
      BY <1>1, <2>1, <2>2, <2>6, ReqStep, ListStep
  <2>. QED
      BY <2>3, <2>4, <2>5, <2>6
<1>3. CASE /\ At("job", "remind") /\ task["job"].r = q /\ To("job", "remindMark")
           /\ UNCHANGED <<row, log>>
           /\ sent'[q].reminder = sent[q].reminder + 1
  <2>1. Fresh(q)
      BY <1>1, <1>3 DEF At
  <2>2. sent'[q].reminder <= log'[q].marks
      BY <1>0, <1>3, <2>1 DEF Fresh
  <2>3. /\ task'["job"].pc = "remindMark" /\ task'["job"].r = q
        /\ task'["job"].todo = task["job"].todo
      BY <1>0, <1>3, TaskUpdate
  <2>4. q \notin task["job"].todo
      BY <1>3 DEF At, OnAStay, Busy, TypeInv
  <2>5. ~JobRead(q)'
      BY <2>3, <2>4 DEF JobRead, OnList
  <2>. QED
      BY <2>2, <2>3, <2>5
<1>. QED
    BY <1>2, <1>3, ReminderCount

----------------------------------------------------------------------------
(* A stay is cancelled only when it is due: what the guest was asked for   *)
(* is kept with the request, in the row and on the job's list.             *)

\* What the charges come to once the phase is paid.
GoalOf(u, phase) ==
    CASE phase = "deposit" -> depositAmount(Total, u)
      [] phase = "balance" -> depositAmount(Total, u) + balanceAmount(Total, u)
      [] OTHER -> fullAmount(Total, u)

Goal(r, phase) == GoalOf(rule[r], phase)

\* The guest was asked for it, but for the half euro a deposit may lack.
AskedFor(r, phase) == asked[r] + 50 >= Goal(r, phase)

\* The job has a request of the stay in hand.
InHand(r) ==
    /\ OnList(r) \/ (task["job"].r = r /\ task["job"].pc = "haCancel")
    /\ task["job"].seen[r].req

\* A new stay's request is on its way.
Asking(r) ==
    /\ task["origin"].r = r
    /\ task["origin"].pc \in {"refresh", "decide", "charge", "post", "requestMark"}

SameMarks(s, t) == s.req = t.req /\ s.dl = t.dl /\ s.phase = t.phase

\* What a request under way asks for.
AskInv(w) ==
    LET t == task[w]
    IN  /\ t.pc = "charge" => t.matched[t.r] + t.amt + 50 >= Goal(t.r, t.phase)
        /\ t.pc \in {"post", "requestMark"} => AskedFor(t.r, t.phase)

\* What the job knows when it cancels.
CancelKnown ==
    LET t == task["job"]
    IN  t.pc = "haCancel" =>
            /\ t.seen[t.r].req /\ t.seen[t.r].dl # None /\ t.seen[t.r].dl <= 0
            /\ t.matched[t.r] + 50 < asked[t.r]

DueInv ==
    /\ task["job"].pc = "idle" => task["job"].todo = {}
    /\ task["job"].pc # "idle" => ran
    /\ \A r \in Reservations :
          /\ row[r].req => AskedFor(r, row[r].phase)
          /\ InHand(r) => SameMarks(row[r], task["job"].seen[r])
          /\ Asking(r) => ~InHand(r) /\ (ran \/ ~row[r].req)
    /\ \A w \in {"job", "origin"} : AskInv(w)
    /\ CancelKnown

LEMMA GoalType ==
    ASSUME TypeInv, NEW r \in Reservations, NEW phase
    PROVE  Goal(r, phase) \in Nat
BY TypeParts, AmountTypes DEF Goal, GoalOf

\* The job cancels when the deadline has come and more than a euro is
\* missing; with what it requests, the charges come to the phase's goal.
LEMMA DueDecision ==
    ASSUME NEW u \in RuleType, NEW s \in Row, NEW matched \in Nat,
           NEW isPaid \in BOOLEAN, NEW day \in Nat, NEW late \in BOOLEAN,
           NEW d, d = evaluateGuestPaymentSchedule(u, s, matched, isPaid, day, late)
    PROVE  /\ d.act = "cancel" =>
                 /\ s.req /\ s.dl # None /\ s.dl <= 0
                 /\ matched + 100 < GoalOf(u, s.phase)
           /\ d.act = "request" => matched + d.amt + 50 >= GoalOf(u, d.phase)
<1>. DEFINE phase0 == IF s.phase = None THEN "full" ELSE s.phase
            Out(phase) == AtLeastZero(DueForPhase(phase, Total, u)
                                      - paidTowardPhase(matched, phase, Total, u))
            dep == depositAmount(Total, u)
            bal == balanceAmount(Total, u)
            depOut == AtLeastZero(dep - paidTowardPhase(matched, "deposit", Total, u))
            balOut == AtLeastZero(bal - paidTowardPhase(matched, "balance", Total, u))
<1>0. dep \in Nat /\ bal \in Nat /\ fullAmount(Total, u) \in Nat
    BY AmountTypes
<1>1. CASE d = NoDecision
  <2>1. d.act = "none"
      BY <1>1 DEF NoDecision, Decision
  <2>. QED
      BY <2>1
<1>2. CASE d = AfterRequest(u, s, matched, late) /\ s.req /\ s.dl # None
  <2>1. \/ d.act \in {"none", "remind", "await"}
        \/ d.act = "cancel" /\ Out(phase0) > 100 /\ (s.dl < 0 \/ s.dl = 0)
    <3>1. \/ d = NoDecision
          \/ d = Decision("cancel", phase0, Out(phase0)) /\ ~(Out(phase0) <= 100)
             /\ (s.dl < 0 \/ s.dl = 0)
          \/ d = Decision("remind", phase0, Out(phase0))
          \/ d = Decision("await", phase0, Out(phase0))
        BY <1>2, Zenon DEF AfterRequest
    <3>2. Out(phase0) \in Nat
        BY AmountTypes DEF AtLeastZero
    <3>. HIDE DEF phase0, Out
    <3>. QED
        BY <3>1, <3>2 DEF Decision, NoDecision
  <2>2. ASSUME d.act = "cancel" PROVE s.dl <= 0 /\ matched + 100 < GoalOf(u, s.phase)
    <3>1. Out(phase0) > 100 /\ (s.dl < 0 \/ s.dl = 0)
        BY <2>1, <2>2
    <3>2. s.dl \in Int
        BY <1>2 DEF Row, Days
    <3>3. CASE s.phase = "deposit"
      <4>1. phase0 = "deposit"
          BY <3>3, NullRule
      <4>2. Out("deposit") = AtLeastZero(dep - LesserOf(matched, dep)) /\ GoalOf(u, "deposit") = dep
          BY DEF DueForPhase, paidTowardPhase, GoalOf
      <4>. HIDE DEF Out, dep, phase0
      <4>. QED
          BY <1>0, <3>1, <3>2, <3>3, <4>1, <4>2 DEF AtLeastZero, LesserOf
    <3>4. CASE s.phase = "balance"
      <4>1. phase0 = "balance"
          BY <3>4, NullRule
      <4>2. Out("balance") = AtLeastZero(bal - AtLeastZero(matched - dep)) /\ GoalOf(u, "balance") = dep + bal
          BY DEF DueForPhase, paidTowardPhase, GoalOf
      <4>. HIDE DEF Out, dep, bal, phase0
      <4>. QED
          BY <1>0, <3>1, <3>2, <3>4, <4>1, <4>2 DEF AtLeastZero
    <3>5. CASE s.phase \notin {"deposit", "balance"}
      <4>1. phase0 \notin {"deposit", "balance"}
          BY <3>5
      <4>2. Out(phase0) = AtLeastZero(fullAmount(Total, u) - matched) /\ GoalOf(u, s.phase) = fullAmount(Total, u)
          BY <3>5, <4>1 DEF DueForPhase, paidTowardPhase, GoalOf
      <4>. HIDE DEF Out, phase0
      <4>. QED
          BY <1>0, <3>1, <3>2, <4>2 DEF AtLeastZero
    <3>. QED
        BY <3>3, <3>4, <3>5
  <2>. HIDE DEF phase0, Out
  <2>. QED
      BY <1>2, <2>1, <2>2
<1>3. CASE d = DepositSchedule(u, s, matched, day)
  <2>1. \/ d = NoDecision
        \/ d.act \in {"request", "none"} /\ d = Decision(d.act, "deposit", depOut)
        \/ d.act \in {"request", "none"} /\ d = Decision(d.act, "balance", balOut) /\ matched + 50 >= dep
      BY <1>3 DEF DepositSchedule, Decision
  <2>2. ASSUME d = Decision(d.act, "deposit", depOut)
        PROVE  matched + d.amt + 50 >= GoalOf(u, d.phase)
    <3>1. d.phase = "deposit" /\ d.amt = AtLeastZero(dep - LesserOf(matched, dep))
        BY <2>2 DEF Decision, paidTowardPhase
    <3>2. GoalOf(u, "deposit") = dep
        BY DEF GoalOf
    <3>. HIDE DEF dep
    <3>. QED
        BY <1>0, <3>1, <3>2 DEF AtLeastZero, LesserOf
  <2>3. ASSUME d = Decision(d.act, "balance", balOut), matched + 50 >= dep
        PROVE  matched + d.amt + 50 >= GoalOf(u, d.phase)
    <3>1. d.phase = "balance" /\ d.amt = AtLeastZero(bal - AtLeastZero(matched - dep))
        BY <2>3 DEF Decision, paidTowardPhase
    <3>2. GoalOf(u, "balance") = dep + bal
        BY DEF GoalOf
    <3>. HIDE DEF dep, bal
    <3>. QED
        BY <1>0, <2>3, <3>1, <3>2 DEF AtLeastZero
  <2>. HIDE DEF dep, bal, depOut, balOut
  <2>4. (matched + d.amt + 50 >= GoalOf(u, d.phase) /\ d.act \in {"request", "none"}) \/ d = NoDecision
      BY <2>1, <2>2, <2>3
  <2>. QED
      BY <1>1, <2>4
<1>. QED
    BY <1>1, <1>2, <1>3 DEF evaluateGuestPaymentSchedule

\* What a guest was once asked for is not taken back.
LEMMA AskedGrows ==
    ASSUME TypeInv, [Next]_vars, NEW q \in Reservations
    PROVE  /\ asked'[q] >= asked[q] /\ asked[q] \in Nat /\ asked'[q] \in Nat
           /\ \A phase : Goal(q, phase)' = Goal(q, phase)
           /\ \A phase : AskedFor(q, phase) => AskedFor(q, phase)'
<1>0. asked \in [Reservations -> Nat] /\ asked'[q] \in Nat
    BY TypeParts, TypeStep DEF TypeInv, GuestTypeOK
<1>1. UNCHANGED asked \/ \E w \in {"job", "origin"} : CreateDueCharge(w)
    BY DEF Next, vars, Tick, Job, dailyGuestPaymentJob, JobNext, Decide, cancelUnpaidReservation,
       MarkCancelled, sendGuestPaymentReminder, ReminderSent, Request, refreshIsPaid,
       PostRequest, RequestSent, Origin, NewStay, FirstRequest,
       sendImportWelcome, attachStoredGuestContact, SendWelcome, stripHostawayGuestContact,
       WelcomeSent, Payment, BookPayment, PortalPayment, RecordCharge, UndoPayment,
       releaseAfterPayment, hasQualifyingPayment, SendArrivalInfo, ArrivalInfoSent,
       confirmFonioInquiryAfterDeposit, ConfirmInHostaway, ConfirmLocally
<1>2. asked'[q] >= asked[q]
  <2>1. ASSUME NEW w \in {"job", "origin"}, CreateDueCharge(w) PROVE asked'[q] >= asked[q]
    <3>. DEFINE v == task[w].matched[task[w].r] + task[w].amt
    <3>1. task[w].r \in Reservations /\ task[w] \in Task
        BY <2>1, AtStay DEF CreateDueCharge, At, Tasks
    <3>2. v \in Nat
        BY <3>1 DEF Task
    <3>3. UNCHANGED asked \/ asked' = [asked EXCEPT ![task[w].r] = GreaterOf(asked[task[w].r], v)]
        BY <2>1 DEF CreateDueCharge
    <3>. HIDE DEF v
    <3>. QED
        BY <1>0, <3>1, <3>2, <3>3 DEF GreaterOf
  <2>. QED
      BY <1>0, <1>1, <2>1
<1>3. \A phase : Goal(q, phase)' = Goal(q, phase)
    BY FixedStep DEF Goal
<1>4. ASSUME NEW phase, AskedFor(q, phase) PROVE AskedFor(q, phase)'
    BY <1>0, <1>2, <1>3, <1>4, GoalType DEF AskedFor
<1>. QED
    BY <1>0, <1>2, <1>3, <1>4

\* Most columns are no marks of a request.
LEMMA OtherColumns ==
    ASSUME row \in [Reservations -> Row], NEW r \in Reservations, NEW q \in Reservations, NEW v,
           \/ row' = [row EXCEPT ![r].st = v]
           \/ row' = [row EXCEPT ![r].auto = TRUE, ![r].st = v]
           \/ row' = [row EXCEPT ![r].isPaid = v]
           \/ row' = [row EXCEPT ![r].rem = v]
           \/ row' = [row EXCEPT ![r].info = v]
           \/ row' = [row EXCEPT ![r].welcome = v]
    PROVE  SameMarks(row'[q], row[q])
BY DEF Row, SameMarks

\* Only these steps write the marks of a request.
LEMMA MarkSteps ==
    ASSUME TypeInv, [Next]_vars, NEW q \in Reservations
    PROVE  \/ SameMarks(row'[q], row[q])
           \/ Tick /\ row'[q].req = row[q].req /\ row'[q].phase = row[q].phase
           \/ /\ \E late \in BOOLEAN : Decide(late)
              /\ task["job"].r = q /\ ~row'[q].req
              /\ DepositArrived(rule[q], task["job"].seen[q], task["job"].matched[q])
           \/ \E w \in {"job", "origin"} :
                 RequestSent(w) /\ task[w].r = q /\ row'[q].phase = task[w].phase
<1>0. row \in [Reservations -> Row] /\ row[q] \in Row /\ task \in [Tasks -> Task]
    BY TypeParts
<1>1. CASE UNCHANGED row
    BY <1>1 DEF SameMarks
<1>2. CASE Tick
  <2>1. row'[q] = [row[q] EXCEPT !.dl = OneDayLess(row[q].dl)]
      BY <1>2 DEF Tick
  <2>. QED
      BY <1>0, <1>2, <2>1 DEF Row
<1>3. ASSUME NEW late \in BOOLEAN, Decide(late)
      PROVE  \/ SameMarks(row'[q], row[q])
             \/ /\ task["job"].r = q /\ ~row'[q].req
                /\ DepositArrived(rule[q], task["job"].seen[q], task["job"].matched[q])
  <2>. DEFINE t == task["job"]
              r == t.r
              clear == DepositArrived(rule[r], t.seen[r], t.matched[r])
  <2>1. row' = [row EXCEPT ![r] = IF clear THEN ClearMarks(row[r]) ELSE row[r]] /\ r \in Reservations
      BY <1>3, AtStay DEF Decide, At, Tasks
  <2>2. \A x \in Row : ClearMarks(x).req = FALSE
      BY DEF ClearMarks, Row
  <2>3. CASE r = q /\ clear
    <3>1. row'[q] = ClearMarks(row[q])
        BY <1>0, <2>1, <2>3, Zenon
    <3>. QED
        BY <1>0, <2>2, <2>3, <3>1
  <2>4. CASE ~(r = q /\ clear)
    <3>. HIDE DEF clear, r
    <3>1. row'[q] = row[q]
        BY <1>0, <2>1, <2>4
    <3>. QED
        BY <3>1 DEF SameMarks
  <2>. QED
      BY <2>3, <2>4
<1>4. CASE MarkCancelled \/ ReminderSent
  <2>1. task["job"].r \in Reservations
      BY <1>4, AtStay DEF MarkCancelled, ReminderSent, At, Tasks
  <2>2. \/ row' = [row EXCEPT ![task["job"].r].auto = TRUE, ![task["job"].r].st = "cancelled"]
        \/ row' = [row EXCEPT ![task["job"].r].rem = TRUE]
      BY <1>4 DEF MarkCancelled, ReminderSent
  <2>. QED
      BY <1>0, <2>1, <2>2, OtherColumns, Zenon
<1>5. ASSUME NEW w \in {"job", "origin"}, refreshIsPaid(w) PROVE SameMarks(row'[q], row[q])
  <2>. DEFINE b == row[task[w].r].isPaid \/ HostawayPaid(task[w].r)
  <2>1. task[w].r \in Reservations
      BY <1>5, AtStay DEF refreshIsPaid, At, Tasks
  <2>2. UNCHANGED row \/ row' = [row EXCEPT ![task[w].r].isPaid = b]
      BY <1>5 DEF refreshIsPaid
  <2>. HIDE DEF b
  <2>3. CASE row' = [row EXCEPT ![task[w].r].isPaid = b]
      BY <1>0, <2>1, <2>3, OtherColumns, Zenon
  <2>. QED
      BY <1>1, <2>2, <2>3 DEF SameMarks
<1>6. ASSUME NEW w \in {"job", "origin"}, RequestSent(w)
      PROVE  SameMarks(row'[q], row[q]) \/ (task[w].r = q /\ row'[q].phase = task[w].phase)
  <2>1. task[w].r \in Reservations
      BY <1>6, AtStay DEF RequestSent, At, Tasks
  <2>2. row' = [row EXCEPT ![task[w].r] = Requested(row[task[w].r], task[w])]
      BY <1>6 DEF RequestSent
  <2>3. \A s \in Row : \A t : Requested(s, t).phase = t.phase
      BY DEF Requested, Row
  <2>. QED
      BY <1>0, <2>1, <2>2, <2>3 DEF SameMarks
<1>7. CASE WelcomeSent
  <2>1. task["origin"].r \in Reservations /\ row' = [row EXCEPT ![task["origin"].r].welcome = TRUE]
      BY <1>7, AtStay DEF WelcomeSent, At, Tasks
  <2>. QED
      BY <1>0, <2>1, OtherColumns, Zenon
<1>8. ASSUME NEW p \in Payers, ArrivalInfoSent(p) \/ ConfirmLocally(p)
      PROVE  SameMarks(row'[q], row[q])
  <2>1. /\ task[p].r \in Reservations
        /\ row' = [row EXCEPT ![task[p].r].info = TRUE] \/ row' = [row EXCEPT ![task[p].r].st = "new"]
      BY <1>8, AtStay DEF ArrivalInfoSent, ConfirmLocally, At, Tasks
  <2>. QED
      BY <1>0, <2>1, OtherColumns, Zenon
<1>. QED
    BY <1>1, <1>2, <1>3, <1>4, <1>5, <1>6, <1>7, <1>8, RowSteps

\* The schedule has decided of the stay the job is at.
DecidedNow(late, d) ==
    LET t == task["job"]
        s == IF DepositArrived(rule[t.r], t.seen[t.r], t.matched[t.r])
             THEN ClearMarks(t.seen[t.r]) ELSE t.seen[t.r]
    IN  /\ Decide(late)
        /\ d = evaluateGuestPaymentSchedule(rule[t.r], s, t.matched[t.r], FALSE, today, late)
        /\ task'["job"].r = t.r /\ task'["job"].matched = t.matched
        /\ task'["job"].amt = d.amt /\ task'["job"].phase = d.phase
        /\ task'["job"].seen[t.r] = s

\* What the job has in hand it had before, or reads now; when it cancels, it
\* has just decided to; when it makes a request, too.
LEMMA JobStep ==
    ASSUME TypeInv, [Next]_vars,
           task["job"].pc = "idle" => task["job"].todo = {}
    PROVE  LET t == task["job"]
               n == task'["job"]
           IN  /\ n.pc = "idle" => n.todo = {}
               /\ t.pc = "idle" /\ n.pc # "idle" => dailyGuestPaymentJob
               /\ \A q \in Reservations : InHand(q)' =>
                     \/ InHand(q) /\ n.seen[q] = t.seen[q] /\ ~dailyGuestPaymentJob
                        /\ ~(/\ \E late \in BOOLEAN : Decide(late)
                             /\ t.r = q /\ DepositArrived(rule[q], t.seen[q], t.matched[q]))
                     \/ dailyGuestPaymentJob /\ n.seen[q] = row[q]
               /\ n.pc = "haCancel" => 
                     \/ n = t
                     \/ \E late \in BOOLEAN : \E d : DecidedNow(late, d) /\ d.act = "cancel"
               /\ n.pc = "charge" =>
                     \/ n = t
                     \/ \E late \in BOOLEAN : \E d : DecidedNow(late, d) /\ d.act = "request"
               /\ n.pc \in {"post", "requestMark"} =>
                     \/ n = t
                     \/ /\ n.r = t.r /\ n.phase = t.phase
                        /\ \/ n.pc = "post" /\ t.pc = "charge" /\ CreateDueCharge("job")
                           \/ n.pc = "requestMark" /\ t.pc = "post" /\ PostRequest("job")
<1>. DEFINE t == task["job"]
            n == task'["job"]
            Has(x, q) == /\ q \in x.todo \/ (x.r = q /\ x.pc \in {"refresh", "decide"})
                            \/ (x.r = q /\ x.pc = "haCancel")
                         /\ x.seen[q].req
            Clears(q) == /\ \E late \in BOOLEAN : Decide(late)
                         /\ t.r = q /\ DepositArrived(rule[q], t.seen[q], t.matched[q])
            A == n.pc = "idle" => n.todo = {}
            B == t.pc = "idle" /\ n.pc # "idle" => dailyGuestPaymentJob
            C == \A q \in Reservations : Has(n, q) =>
                    \/ Has(t, q) /\ n.seen[q] = t.seen[q] /\ ~dailyGuestPaymentJob /\ ~Clears(q)
                    \/ dailyGuestPaymentJob /\ n.seen[q] = row[q]
            D == n.pc = "haCancel" =>
                    \/ n = t
                    \/ \E late \in BOOLEAN : \E d : DecidedNow(late, d) /\ d.act = "cancel"
            E == n.pc = "charge" =>
                    \/ n = t
                    \/ \E late \in BOOLEAN : \E d : DecidedNow(late, d) /\ d.act = "request"
            F == n.pc \in {"post", "requestMark"} =>
                    \/ n = t
                    \/ /\ n.r = t.r /\ n.phase = t.phase
                       /\ \/ n.pc = "post" /\ t.pc = "charge" /\ CreateDueCharge("job")
                          \/ n.pc = "requestMark" /\ t.pc = "post" /\ PostRequest("job")
            All == A /\ B /\ C /\ D /\ E /\ F
<1>. SUFFICES All
    BY DEF InHand, OnList
<1>0. /\ task \in [Tasks -> Task] /\ "job" \in Tasks /\ t \in Task /\ n \in Task
      /\ row \in [Reservations -> Row] /\ paid \in [Reservations -> Nat] /\ OnAStay
    BY TypeParts, TypeStep DEF Tasks, TypeInv, GuestTypeOK
<1>1. ASSUME Go("job", NextStay(t)), t.pc # "idle",
             ~(\E late \in BOOLEAN : Decide(late)) \/ t.r \notin t.todo
      PROVE  All
  <2>1. n = NextStay(t)
      BY <1>0, <1>1 DEF Go
  <2>2. n.pc = "next" /\ n.todo = t.todo /\ \A r \in t.todo : n.seen[r] = t.seen[r]
      BY <1>0, <2>1, NextStayType
  <2>3. ~dailyGuestPaymentJob
      BY <1>1 DEF dailyGuestPaymentJob, At
  <2>4. \A q \in t.todo : ~Clears(q)
      BY <1>1
  <2>. HIDE DEF t, n, Clears
  <2>. QED
      BY <1>1, <2>2, <2>3, <2>4
<1>2. ASSUME Go("job", IdleTask), t.pc # "idle" PROVE All
  <2>1. n.pc = "idle" /\ n.todo = {}
      BY <1>0, <1>2 DEF Go, IdleTask
  <2>. HIDE DEF t, n, Clears
  <2>. QED
      BY <1>2, <2>1
<1>3. ASSUME NEW pc, To("job", pc), t.pc \notin {"idle", "decide"},
             \/ pc \in {"localCancel", "remindMark"}
             \/ pc = "decide" /\ t.pc = "refresh"
             \/ pc = "post" /\ t.pc = "charge" /\ CreateDueCharge("job")
             \/ pc = "requestMark" /\ t.pc = "post" /\ PostRequest("job")
      PROVE  All
  <2>1. n.r = t.r /\ n.todo = t.todo /\ n.seen = t.seen /\ n.pc = pc /\ n.phase = t.phase
      BY <1>0, <1>3, TaskUpdate
  <2>2. ~dailyGuestPaymentJob /\ \A q : ~Clears(q)
      BY <1>3 DEF dailyGuestPaymentJob, Decide, At
  <2>. HIDE DEF t, n, Clears
  <2>. QED
      BY <1>3, <2>1, <2>2
<1>4. ASSUME n = t, ~dailyGuestPaymentJob, ~\E late \in BOOLEAN : Decide(late) PROVE All
  <2>1. A
      BY <1>4
  <2>. HIDE DEF t, n, A
  <2>. QED
      BY <1>4, <2>1
<1>5. CASE RequestStep("job")
  <2>1. t.pc \in {"refresh", "charge", "post", "requestMark"}
      BY <1>5 DEF RequestStep, refreshIsPaid, CreateDueCharge, PostRequest, RequestSent, At
  <2>2. AfterReturn("job") = NextStay(t) /\ AfterThrow("job") = IdleTask
      BY DEF AfterReturn, AfterThrow
  <2>3. \/ Go("job", NextStay(t)) \/ Go("job", IdleTask)
        \/ To("job", "decide") /\ t.pc = "refresh"
        \/ To("job", "post") /\ t.pc = "charge" /\ CreateDueCharge("job")
        \/ To("job", "requestMark") /\ t.pc = "post" /\ PostRequest("job")
    <3>1. CASE refreshIsPaid("job")
        BY <2>2, <3>1 DEF refreshIsPaid, To, At
    <3>2. CASE CreateDueCharge("job")
        BY <2>2, <3>2 DEF CreateDueCharge, At
    <3>3. CASE PostRequest("job") \/ RequestSent("job")
        BY <2>2, <3>3 DEF PostRequest, RequestSent, At
    <3>. QED
        BY <1>5, <3>1, <3>2, <3>3 DEF RequestStep
  <2>4. ~\E late \in BOOLEAN : Decide(late)
      BY <2>1 DEF Decide, At
  <2>. HIDE DEF t, n, All
  <2>. QED
      BY <1>1, <1>2, <1>3, <2>1, <2>3, <2>4
<1>6. CASE dailyGuestPaymentJob
  <2>. DEFINE x == [IdleTask EXCEPT !.todo = {r \in Reservations : Candidate(r)},
                                    !.seen = row, !.matched = paid]
  <2>1. x \in Task /\ x.seen = row
      BY <1>0, IdleType DEF Task, IdleTask
  <2>2. n = NextStay(x) /\ t.pc = "idle"
      BY <1>0, <1>6 DEF dailyGuestPaymentJob, Go, At
  <2>. HIDE DEF x
  <2>3. n.pc = "next" /\ n.todo = x.todo /\ \A r \in x.todo : n.seen[r] = row[r]
      BY <2>1, <2>2, NextStayType
  <2>. HIDE DEF t, n
  <2>. QED
      BY <1>6, <2>2, <2>3
<1>7. CASE JobNext
  <2>1. t.pc = "next"
      BY <1>7 DEF JobNext, At
  <2>2. ~dailyGuestPaymentJob /\ \A q : ~Clears(q)
      BY <2>1 DEF dailyGuestPaymentJob, Decide, At
  <2>3. CASE Go("job", IdleTask)
      BY <1>2, <2>1, <2>3
  <2>4. ASSUME NEW r \in t.todo,
               Go("job", IF rule[r].enabled
                         THEN [task["job"] EXCEPT !.todo = @ \ {r}, !.r = r, !.pc = "refresh"]
                         ELSE NextStay([task["job"] EXCEPT !.todo = @ \ {r}, !.r = r, !.pc = "refresh"]))
        PROVE  All
    <3>. DEFINE x == [task["job"] EXCEPT !.todo = @ \ {r}, !.r = r, !.pc = "refresh"]
    <3>0. r \in Reservations
        BY <1>0 DEF Task
    <3>1. x \in Task /\ x.todo = t.todo \ {r} /\ x.r = r /\ x.pc = "refresh" /\ x.seen = t.seen
        BY <1>0, <3>0 DEF Task, Pcs
    <3>2. n = x \/ n = NextStay(x)
        BY <1>0, <2>4 DEF Go
    <3>. HIDE DEF x
    <3>3. /\ NextStay(x).pc = "next" /\ NextStay(x).todo = x.todo
          /\ \A v \in x.todo : NextStay(x).seen[v] = x.seen[v]
        BY <3>1, NextStayType
    <3>. HIDE DEF t, n, Clears
    <3>. QED
        BY <2>1, <2>2, <2>4, <3>1, <3>2, <3>3
  <2>. QED
      BY <1>7, <2>3, <2>4 DEF JobNext
<1>8. ASSUME NEW late \in BOOLEAN, Decide(late) PROVE All
  <2>. DEFINE r == t.r
              u == rule[r]
              clear == DepositArrived(u, t.seen[r], t.matched[r])
              s == IF clear THEN ClearMarks(t.seen[r]) ELSE t.seen[r]
              d == evaluateGuestPaymentSchedule(u, s, t.matched[r], FALSE, today, late)
              days == IF d.phase = "deposit" THEN u.depositDays ELSE u.deadlineDays
              t2 == [t EXCEPT !.seen[r] = s, !.amt = d.amt, !.phase = d.phase]
              cancels == [t2 EXCEPT !.pc = "haCancel"]
              reminds == [t2 EXCEPT !.pc = "remind"]
              asks == [t2 EXCEPT !.pc = "charge", !.dl = DeadlineOf(days)]
  <2>1. /\ r \in Reservations /\ u \in RuleType /\ today \in Nat /\ t.pc = "decide"
        /\ r \notin t.todo
      BY <1>0, <1>8, AtStay, TypeParts DEF Decide, At, OnAStay, Busy
  <2>2. ~dailyGuestPaymentJob
      BY <2>1 DEF dailyGuestPaymentJob, At
  <2>3. t.seen[r] \in Row /\ (clear => ~s.req)
      BY <1>0, <2>1 DEF Task, ClearMarks, Row
  <2>4. (n = cancels /\ d.act = "cancel") \/ (n = asks /\ d.act = "request") \/ n = reminds
        \/ Go("job", NextStay(t))
    <3>1. Go("job", CASE d.act = "cancel" -> cancels
                      [] d.act = "remind" -> reminds
                      [] d.act = "request" -> asks
                      [] OTHER -> NextStay(t))
        BY <1>8, Zenon DEF Decide
    <3>. HIDE DEF cancels, asks, reminds, d
    <3>. QED
        BY <1>0, <3>1 DEF Go
  <2>5. \A x \in {cancels, asks, reminds} :
           /\ x.todo = t.todo /\ x.r = r /\ x.matched = t.matched
           /\ x.amt = d.amt /\ x.phase = d.phase /\ x.seen[r] = s
           /\ \A v \in Reservations \ {r} : x.seen[v] = t.seen[v]
    <3>1. s \in Row /\ t.matched[r] \in Nat
        BY <1>0, <2>1, <2>3, RowType DEF Task
    <3>2. d.amt \in Nat /\ d.phase \in Phases
      <4>. HIDE DEF s, u
      <4>. QED
          BY <2>1, <3>1, DecisionFacts
    <3>. HIDE DEF s, d, days
    <3>3. /\ t2 \in Task /\ t2.todo = t.todo /\ t2.r = t.r /\ t2.matched = t.matched
          /\ t2.amt = d.amt /\ t2.phase = d.phase /\ t2.seen[r] = s
          /\ \A v \in Reservations \ {r} : t2.seen[v] = t.seen[v]
        BY <1>0, <2>1, <3>1, <3>2 DEF Task
    <3>. HIDE DEF t2
    <3>. QED
        BY <3>3 DEF Task
  <2>6. cancels.pc = "haCancel" /\ asks.pc = "charge" /\ reminds.pc = "remind"
    <3>. HIDE DEF s, d, days, r
    <3>. QED
        BY <1>0 DEF Task
  <2>7. \A q : Clears(q) => q = r /\ clear
      OBVIOUS
  <2>8. n \in {cancels, asks} => DecidedNow(late, d)
    <3>1. \A x \in {cancels, asks} :
             x.r = t.r /\ x.matched = t.matched /\ x.amt = d.amt /\ x.phase = d.phase /\ x.seen[t.r] = s
        BY <2>5
    <3>. HIDE DEF cancels, asks
    <3>2. n \in {cancels, asks} =>
             /\ task'["job"].r = t.r /\ task'["job"].matched = t.matched /\ task'["job"].amt = d.amt
             /\ task'["job"].phase = d.phase /\ task'["job"].seen[t.r] = s
        BY <3>1
    <3>. QED
        BY <1>8, <3>2, Zenon DEF DecidedNow
  <2>. HIDE DEF cancels, asks, reminds, d, s, u, t, n, r, clear, Clears
  <2>9. CASE (n = cancels /\ d.act = "cancel") \/ (n = asks /\ d.act = "request") \/ n = reminds
    <3>1. A /\ B /\ F
        BY <2>1, <2>6, <2>9
    <3>2. C
      <4>. SUFFICES ASSUME NEW q \in Reservations, Has(n, q)
                    PROVE  Has(t, q) /\ n.seen[q] = t.seen[q] /\ ~dailyGuestPaymentJob /\ ~Clears(q)
          OBVIOUS
      <4>1. CASE q = r
        <5>1. n.seen[q] = s /\ s.req
            BY <2>5, <2>9, <4>1
        <5>2. s = t.seen[r] /\ ~clear
            BY <2>3, <5>1 DEF s
        <5>. QED
            BY <2>1, <2>2, <2>7, <4>1, <5>1, <5>2 DEF r
      <4>2. CASE q # r
          BY <2>2, <2>5, <2>7, <2>9, <4>2
      <4>. QED
          BY <4>1, <4>2
    <3>3. D /\ E
        BY <2>6, <2>8, <2>9
    <3>. QED
        BY <3>1, <3>2, <3>3
  <2>10. CASE Go("job", NextStay(t))
      BY <1>1, <2>1, <2>10 DEF r
  <2>. QED
      BY <2>4, <2>9, <2>10
<1>9. CASE cancelUnpaidReservation \/ MarkCancelled
  <2>1. t.pc \in {"haCancel", "localCancel"}
      BY <1>9 DEF cancelUnpaidReservation, MarkCancelled, At
  <2>2. To("job", "localCancel") \/ Go("job", NextStay(t))
      BY <1>9 DEF cancelUnpaidReservation, MarkCancelled
  <2>3. ~\E late \in BOOLEAN : Decide(late)
      BY <2>1 DEF Decide, At
  <2>. HIDE DEF t, n, All
  <2>. QED
      BY <1>1, <1>3, <2>1, <2>2, <2>3
<1>10. CASE sendGuestPaymentReminder \/ ReminderSent
  <2>1. t.pc \in {"remind", "remindMark"}
      BY <1>10 DEF sendGuestPaymentReminder, ReminderSent, At
  <2>2. To("job", "remindMark") \/ Go("job", NextStay(t)) \/ Go("job", IdleTask)
      BY <1>10 DEF sendGuestPaymentReminder, ReminderSent, AfterThrow
  <2>3. ~\E late \in BOOLEAN : Decide(late)
      BY <2>1 DEF Decide, At
  <2>. HIDE DEF t, n, All
  <2>. QED
      BY <1>1, <1>2, <1>3, <2>1, <2>2, <2>3
<1>11. (\E late \in BOOLEAN : Decide(late)) \/ dailyGuestPaymentJob \/ n = t \/ Job \/ RequestStep("job")
    BY OwnSteps
<1>. QED
    BY <1>4, <1>5, <1>6, <1>7, <1>8, <1>9, <1>10, <1>11 DEF Job

\* The request of a new stay begins when none has been sent.
LEMMA OriginStep ==
    ASSUME TypeInv, [Next]_vars
    PROVE  LET t == task["origin"]
               n == task'["origin"]
           IN  /\ \A q \in Reservations : Asking(q)' =>
                     \/ Asking(q) /\ ~RequestSent("origin")
                     \/ NewStay(q) /\ ~row[q].req
               /\ n.pc = "charge" =>
                     \/ n = t
                     \/ /\ n.r = t.r /\ n.r \in Reservations /\ n.matched = t.matched
                        /\ n.amt = FirstAmount(n.r)
                        /\ n.phase = IF isFonioOffer(n.r) THEN "deposit" ELSE "full"
                        /\ n.amt > 100
               /\ n.pc \in {"post", "requestMark"} =>
                     \/ n = t
                     \/ /\ n.r = t.r /\ n.phase = t.phase
                        /\ \/ n.pc = "post" /\ t.pc = "charge" /\ CreateDueCharge("origin")
                           \/ n.pc = "requestMark" /\ t.pc = "post" /\ PostRequest("origin")
<1>. DEFINE t == task["origin"]
            n == task'["origin"]
            Asks(x, q) == x.r = q /\ x.pc \in {"refresh", "decide", "charge", "post", "requestMark"}
            A == \A q \in Reservations : Asks(n, q) =>
                    \/ Asks(t, q) /\ ~RequestSent("origin")
                    \/ NewStay(q) /\ ~row[q].req
            B == n.pc = "charge" =>
                    \/ n = t
                    \/ /\ n.r = t.r /\ n.r \in Reservations /\ n.matched = t.matched
                       /\ n.amt = FirstAmount(n.r)
                       /\ n.phase = IF isFonioOffer(n.r) THEN "deposit" ELSE "full"
                       /\ n.amt > 100
            C == n.pc \in {"post", "requestMark"} =>
                    \/ n = t
                    \/ /\ n.r = t.r /\ n.phase = t.phase
                       /\ \/ n.pc = "post" /\ t.pc = "charge" /\ CreateDueCharge("origin")
                          \/ n.pc = "requestMark" /\ t.pc = "post" /\ PostRequest("origin")
            All == A /\ B /\ C
<1>. SUFFICES All
    BY DEF Asking
<1>0. /\ task \in [Tasks -> Task] /\ "origin" \in Tasks /\ t \in Task /\ n \in Task /\ OnAStay
      /\ "origin" # "job"
    BY TypeParts, TypeStep DEF Tasks, TypeInv, GuestTypeOK
<1>1. ASSUME n.pc \notin {"refresh", "decide", "charge", "post", "requestMark"} PROVE All
  <2>. HIDE DEF n, t
  <2>. QED
      BY <1>1
<1>2. ASSUME NEW pc, To("origin", pc), ~RequestSent("origin"),
             \/ pc = "decide" /\ t.pc = "refresh"
             \/ pc = "post" /\ t.pc = "charge" /\ CreateDueCharge("origin")
             \/ pc = "requestMark" /\ t.pc = "post" /\ PostRequest("origin")
      PROVE  All
  <2>1. n.r = t.r /\ n.pc = pc /\ n.phase = t.phase
      BY <1>0, <1>2, TaskUpdate
  <2>. HIDE DEF n, t
  <2>. QED
      BY <1>2, <2>1
<1>3. ASSUME n = t, ~RequestSent("origin") PROVE All
  <2>. HIDE DEF n, t
  <2>. QED
      BY <1>3
<1>4. CASE RequestStep("origin")
  <2>1. t.pc \in {"refresh", "charge", "post", "requestMark"}
      BY <1>4 DEF RequestStep, refreshIsPaid, CreateDueCharge, PostRequest, RequestSent, At
  <2>2. /\ AfterThrow("origin") = AfterReturn("origin")
        /\ AfterReturn("origin").pc \in {"idle", "next", "welcome"}
      BY <1>0, AfterReturnType DEF AfterThrow, OnAStay, Busy
  <2>3. \/ Go("origin", AfterReturn("origin"))
        \/ To("origin", "decide") /\ t.pc = "refresh"
        \/ To("origin", "post") /\ t.pc = "charge" /\ CreateDueCharge("origin")
        \/ To("origin", "requestMark") /\ t.pc = "post" /\ PostRequest("origin")
    <3>1. CASE refreshIsPaid("origin")
        BY <2>2, <3>1 DEF refreshIsPaid, To, At
    <3>2. CASE CreateDueCharge("origin")
        BY <2>2, <3>2 DEF CreateDueCharge, At
    <3>3. CASE PostRequest("origin") \/ RequestSent("origin")
        BY <2>2, <3>3 DEF PostRequest, RequestSent, At
    <3>. QED
        BY <1>4, <3>1, <3>2, <3>3 DEF RequestStep
  <2>4. CASE Go("origin", AfterReturn("origin"))
    <3>1. n = AfterReturn("origin")
        BY <1>0, <2>4 DEF Go
    <3>. QED
        BY <1>1, <2>2, <3>1
  <2>5. CASE ~Go("origin", AfterReturn("origin"))
    <3>1. ~RequestSent("origin")
        BY <2>5 DEF RequestSent
    <3>. QED
        BY <1>2, <2>3, <2>5, <3>1, Zenon
  <2>. QED
      BY <2>4, <2>5
<1>5. ASSUME NEW r \in Reservations, NewStay(r) PROVE All
  <2>. DEFINE x == [IdleTask EXCEPT !.pc = "refresh", !.r = r, !.seen[r] = row[r]]
              y == [IdleTask EXCEPT !.pc = IF isFonioOffer(r) THEN "idle" ELSE "welcome",
                                    !.r = IF isFonioOffer(r) THEN None ELSE r]
  <2>1. (n = x /\ ~row[r].req) \/ n = y
    <3>1. Go("origin", IF rule[r].enabled /\ (isFonioOffer(r) \/ rule[r].onImport) /\ ~row[r].req
                       THEN x ELSE y)
        BY <1>5, Zenon DEF NewStay
    <3>. HIDE DEF x, y
    <3>. QED
        BY <1>0, <3>1 DEF Go
  <2>2. x.pc = "refresh" /\ x.r = r /\ y.pc \in {"idle", "welcome"}
      BY DEF IdleTask
  <2>. HIDE DEF x, y
  <2>3. CASE n = y
      BY <1>1, <2>2, <2>3
  <2>4. CASE n = x /\ ~row[r].req
    <3>. HIDE DEF n, t
    <3>. QED
        BY <1>5, <2>2, <2>4
  <2>. QED
      BY <2>1, <2>3, <2>4
<1>6. CASE FirstRequest
  <2>. DEFINE r == t.r
              phase == IF isFonioOffer(r) THEN "deposit" ELSE "full"
              x == [t EXCEPT !.pc = "charge", !.amt = FirstAmount(r), !.phase = phase,
                             !.dl = DeadlineOf(FirstDays(r))]
  <2>1. t.pc = "decide" /\ r \in Reservations
      BY <1>6, AtStay DEF FirstRequest, At, Tasks
  <2>2. AfterReturn("origin").pc \in {"idle", "next", "welcome"}
      BY <1>0, AfterReturnType DEF OnAStay, Busy
  <2>3. (n = x /\ FirstAmount(r) > 100) \/ n = AfterReturn("origin")
    <3>1. Go("origin", IF FirstAmount(r) > 100 /\ (isFonioOffer(r) \/ rule[r].autoSend)
                       THEN x ELSE AfterReturn("origin"))
        BY <1>6, Zenon DEF FirstRequest
    <3>. HIDE DEF x, r
    <3>. QED
        BY <1>0, <3>1 DEF Go
  <2>4. /\ x.pc = "charge" /\ x.r = t.r /\ x.matched = t.matched
        /\ x.amt = FirstAmount(r) /\ x.phase = phase
    <3>. HIDE DEF phase, r
    <3>. QED
        BY <1>0 DEF Task
  <2>5. ~RequestSent("origin")
      BY <2>1 DEF RequestSent, At
  <2>6. CASE n = AfterReturn("origin")
      BY <1>1, <2>2, <2>6
  <2>7. CASE n = x /\ FirstAmount(r) > 100
    <3>1. n.r = r /\ n.pc = "charge" /\ n.matched = t.matched /\ n.amt = FirstAmount(n.r)
          /\ n.phase = (IF isFonioOffer(n.r) THEN "deposit" ELSE "full") /\ n.amt > 100
        BY <2>4, <2>7
    <3>. HIDE DEF x, n, t
    <3>. QED
        BY <2>1, <2>5, <3>1 DEF r
  <2>. QED
      BY <2>3, <2>6, <2>7
<1>7. CASE sendImportWelcome \/ attachStoredGuestContact("origin", "attach", "welcomeSend")
           \/ SendWelcome \/ stripHostawayGuestContact \/ WelcomeSent
  <2>. DEFINE strips == [t EXCEPT !.pc = "strip"]
              told == [t EXCEPT !.pc = "strip", !.ok = TRUE]
              marks == [t EXCEPT !.pc = "welcomeMark"]
  <2>1. \/ To("origin", "attach") \/ To("origin", "welcomeSend")
        \/ Go("origin", strips) \/ Go("origin", told) \/ Go("origin", marks) \/ Go("origin", IdleTask)
    <3>1. CASE sendImportWelcome \/ attachStoredGuestContact("origin", "attach", "welcomeSend")
        BY <3>1 DEF sendImportWelcome, attachStoredGuestContact
    <3>2. CASE SendWelcome \/ WelcomeSent
        BY <3>2, Zenon DEF SendWelcome, WelcomeSent
    <3>3. CASE stripHostawayGuestContact
        BY <3>3 DEF stripHostawayGuestContact
    <3>. QED
        BY <1>7, <3>1, <3>2, <3>3
  <2>2. /\ strips.pc = "strip" /\ told.pc = "strip" /\ marks.pc = "welcomeMark" /\ IdleTask.pc = "idle"
      BY <1>0, IdleType DEF Task
  <2>. HIDE DEF strips, told, marks
  <2>3. n.pc \in {"attach", "welcomeSend", "strip", "welcomeMark", "idle"}
    <3>1. CASE To("origin", "attach") \/ To("origin", "welcomeSend")
        BY <1>0, <3>1, TaskUpdate
    <3>2. CASE Go("origin", strips) \/ Go("origin", told) \/ Go("origin", marks) \/ Go("origin", IdleTask)
        BY <1>0, <2>2, <3>2 DEF Go
    <3>. QED
        BY <2>1, <3>1, <3>2
  <2>. QED
      BY <1>1, <2>3
<1>8. n = t \/ Origin \/ RequestStep("origin")
    BY OwnSteps
<1>. QED
    BY <1>3, <1>4, <1>5, <1>6, <1>7, <1>8 DEF Origin, RequestStep

\* The day's run is marked before its job starts, and is over when it ends.
LEMMA RanStep ==
    ASSUME TypeInv, [Next]_vars
    PROVE  (Tick /\ \A w \in Tasks : task[w].pc = "idle" /\ task'[w] = task[w]) \/ (ran => ran')
<1>1. CASE Tick
    BY <1>1 DEF Tick, At
<1>2. CASE ~Tick
    BY <1>2 DEF Next, vars, Job, dailyGuestPaymentJob, JobNext, Decide, cancelUnpaidReservation,
       MarkCancelled, sendGuestPaymentReminder, ReminderSent, Request, refreshIsPaid,
       CreateDueCharge, PostRequest, RequestSent, Origin, NewStay, FirstRequest,
       sendImportWelcome, attachStoredGuestContact, SendWelcome, stripHostawayGuestContact,
       WelcomeSent, Payment, BookPayment, PortalPayment, RecordCharge, UndoPayment,
       releaseAfterPayment, hasQualifyingPayment, SendArrivalInfo, ArrivalInfoSent,
       confirmFonioInquiryAfterDeposit, ConfirmInHostaway, ConfirmLocally
<1>. QED
    BY <1>1, <1>2

\* What the schedule decides of a stay, with what the guest was asked for.
LEMMA DecidedDue ==
    ASSUME TypeInv, [Next]_vars, DueInv, NEW late \in BOOLEAN, NEW d, DecidedNow(late, d)
    PROVE  LET t == task["job"]
               n == task'["job"]
           IN  /\ d.act = "cancel" =>
                     /\ n.seen[n.r].req /\ n.seen[n.r].dl # None /\ n.seen[n.r].dl <= 0
                     /\ n.matched[n.r] + 50 < asked[n.r]
               /\ d.act = "request" => n.matched[n.r] + n.amt + 50 >= Goal(n.r, n.phase)
<1>. DEFINE t == task["job"]
            n == task'["job"]
            r == t.r
            clear == DepositArrived(rule[r], t.seen[r], t.matched[r])
            s == IF clear THEN ClearMarks(t.seen[r]) ELSE t.seen[r]
<1>1. /\ t.pc = "decide" /\ r \in Reservations /\ t \in Task /\ rule[r] \in RuleType
      /\ today \in Nat
    BY AtStay, TypeParts DEF DecidedNow, Decide, At, Tasks
<1>2. /\ t.seen[r] \in Row /\ t.matched[r] \in Nat
    BY <1>1 DEF Task
<1>3. s \in Row /\ (clear => ~s.req)
  <2>. HIDE DEF clear
  <2>. QED
      BY <1>2, CleanRow
<1>4. /\ n.r = r /\ n.matched = t.matched /\ n.amt = d.amt /\ n.phase = d.phase /\ n.seen[r] = s
      /\ d = evaluateGuestPaymentSchedule(rule[r], s, t.matched[r], FALSE, today, late)
    BY Zenon DEF DecidedNow
<1>. HIDE DEF n
<1>5. /\ d.act = "cancel" => /\ s.req /\ s.dl # None /\ s.dl <= 0
                             /\ t.matched[r] + 100 < Goal(r, s.phase)
      /\ d.act = "request" => t.matched[r] + d.amt + 50 >= Goal(r, d.phase)
  <2>. DEFINE e == evaluateGuestPaymentSchedule(rule[r], s, t.matched[r], FALSE, today, late)
  <2>1. /\ e.act = "cancel" => /\ s.req /\ s.dl # None /\ s.dl <= 0
                               /\ t.matched[r] + 100 < Goal(r, s.phase)
        /\ e.act = "request" => t.matched[r] + e.amt + 50 >= Goal(r, e.phase)
    <3>. HIDE DEF s, r, t
    <3>1. /\ rule[r] \in RuleType /\ s \in Row /\ t.matched[r] \in Nat /\ today \in Nat
          /\ e = evaluateGuestPaymentSchedule(rule[r], s, t.matched[r], FALSE, today, late)
        BY <1>1, <1>2, <1>3
    <3>. DEFINE u == rule[r]
                matched == t.matched[r]
    <3>2. /\ u \in RuleType /\ s \in Row /\ matched \in Nat /\ today \in Nat
          /\ e = evaluateGuestPaymentSchedule(u, s, matched, FALSE, today, late)
        BY <3>1
    <3>. HIDE DEF e, u, matched
    <3>3. /\ e.act = "cancel" => /\ s.req /\ s.dl # None /\ s.dl <= 0
                                 /\ matched + 100 < GoalOf(u, s.phase)
          /\ e.act = "request" => matched + e.amt + 50 >= GoalOf(u, e.phase)
        BY <3>2, DueDecision, Zenon
    <3>. QED
        BY <3>3 DEF Goal, u, matched
  <2>2. d = e
      BY <1>4
  <2>. HIDE DEF e, s, r, t
  <2>. QED
      BY <2>1, <2>2
<1>6. ASSUME d.act = "cancel" PROVE t.matched[r] + 50 < asked[r]
  <2>1. s.req /\ s = t.seen[r]
      BY <1>3, <1>5, <1>6
  <2>2. InHand(r)
      BY <1>1, <2>1 DEF InHand, OnList
  <2>3. SameMarks(row[r], t.seen[r]) /\ (row[r].req => AskedFor(r, row[r].phase))
      BY <1>1, <2>2 DEF DueInv
  <2>4. asked[r] + 50 >= Goal(r, s.phase)
      BY <2>1, <2>3 DEF SameMarks, AskedFor
  <2>5. asked[r] \in Nat /\ Goal(r, s.phase) \in Nat
      BY <1>1, TypeParts, GoalType
  <2>. HIDE DEF s, r, t
  <2>. QED
      BY <1>2, <1>5, <1>6, <2>4, <2>5
<1>. QED
  <2>1. /\ d.act = "cancel" => /\ n.seen[n.r].req /\ n.seen[n.r].dl # None /\ n.seen[n.r].dl <= 0
                              /\ n.matched[n.r] + 50 < asked[n.r]
        /\ d.act = "request" => n.matched[n.r] + n.amt + 50 >= Goal(n.r, n.phase)
    <3>. HIDE DEF s, r, t
    <3>. QED
        BY <1>4, <1>5, <1>6
  <2>. QED
      BY <2>1 DEF n

\* A charge made, the guest has been asked for it.
LEMMA ChargeDue ==
    ASSUME TypeInv, [Next]_vars, NEW w \in {"job", "origin"}, AskInv(w),
           CreateDueCharge(w), task[w].pc = "charge", task'[w].pc = "post"
    PROVE  asked'[task[w].r] + 50 >= Goal(task[w].r, task[w].phase)
<1>. DEFINE r == task[w].r
            v == task[w].matched[r] + task[w].amt
<1>1. /\ r \in Reservations /\ task[w] \in Task /\ w \in Tasks /\ asked \in [Reservations -> Nat]
      /\ task \in [Tasks -> Task] /\ OnAStay
    BY AtStay, TypeParts DEF At, Tasks
<1>2. ~Go(w, AfterReturn(w))
  <2>1. AfterReturn(w).pc # "post"
      BY <1>1, AfterReturnType DEF OnAStay, Busy
  <2>. QED
      BY <1>1, <2>1 DEF Go
<1>3. asked' = [asked EXCEPT ![r] = GreaterOf(asked[r], v)]
    BY <1>2 DEF CreateDueCharge
<1>4. v \in Nat /\ v + 50 >= Goal(r, task[w].phase) /\ Goal(r, task[w].phase) \in Nat
  <2>1. v \in Nat
      BY <1>1 DEF Task
  <2>. QED
      BY <1>1, <2>1, GoalType DEF AskInv
<1>. HIDE DEF v, r
<1>5. asked'[r] = GreaterOf(asked[r], v) /\ asked[r] \in Nat
    BY <1>1, <1>3
<1>6. asked'[r] + 50 >= Goal(r, task[w].phase)
    BY <1>4, <1>5 DEF GreaterOf
<1>. QED
    BY <1>6 DEF r

\* The first request asks for the whole phase, too.
LEMMA FirstGoal ==
    ASSUME TypeInv, NEW r \in Reservations, FirstAmount(r) > 100
    PROVE  FirstAmount(r) >= GoalOf(rule[r], IF isFonioOffer(r) THEN "deposit" ELSE "full")
<1>. DEFINE dep == depositAmount(Total, rule[r])
            full == fullAmount(Total, rule[r])
<1>1. dep \in Nat /\ full \in Nat /\ FirstAmount(r) \in Nat
    BY TypeParts, AmountTypes, FirstTypes
<1>2. GoalOf(rule[r], "deposit") = dep /\ GoalOf(rule[r], "full") = full
    BY DEF GoalOf
<1>3. FirstAmount(r) = IF ~isFonioOffer(r) THEN full ELSE IF dep > 100 THEN dep ELSE Percent(Total, 30)
    BY DEF FirstAmount
<1>. HIDE DEF dep, full
<1>. QED
    BY <1>1, <1>2, <1>3

\* What a request asks for does not change on its way.
LEMMA AskStep ==
    ASSUME TypeInv, [Next]_vars, DueInv, NEW w \in {"job", "origin"}
    PROVE  AskInv(w)'
<1>. DEFINE t == task[w]
            n == task'[w]
<1>. SUFFICES /\ n.pc = "charge" => n.matched[n.r] + n.amt + 50 >= GoalOf(rule[n.r], n.phase)
              /\ n.pc \in {"post", "requestMark"} => asked'[n.r] + 50 >= GoalOf(rule[n.r], n.phase)
    BY FixedStep DEF AskInv, AskedFor, Goal
<1>0. /\ w \in Tasks /\ task \in [Tasks -> Task] /\ OnAStay /\ n \in Task /\ AskInv(w)
      /\ t.pc \in {"charge", "post", "requestMark"} => t.r \in Reservations
    BY TypeParts, TypeStep, AtStay DEF Tasks, TypeInv, GuestTypeOK, DueInv, At
<1>1. /\ t.pc = "charge" => t.matched[t.r] + t.amt + 50 >= GoalOf(rule[t.r], t.phase)
      /\ t.pc \in {"post", "requestMark"} => asked[t.r] + 50 >= GoalOf(rule[t.r], t.phase)
    BY <1>0 DEF AskInv, AskedFor, Goal
<1>2. ASSUME t.r \in Reservations, asked[t.r] + 50 >= GoalOf(rule[t.r], t.phase)
      PROVE  asked'[t.r] + 50 >= GoalOf(rule[t.r], t.phase)
  <2>1. asked'[t.r] >= asked[t.r] /\ asked[t.r] \in Nat /\ asked'[t.r] \in Nat
      BY <1>2, AskedGrows
  <2>2. GoalOf(rule[t.r], t.phase) \in Nat
      BY <1>2, GoalType DEF Goal
  <2>. HIDE DEF t
  <2>. QED
      BY <1>2, <2>1, <2>2
<1>3. CASE n = t
  <2>. HIDE DEF t, n
  <2>. QED
      BY <1>0, <1>1, <1>2, <1>3
<1>4. ASSUME n.r = t.r, n.phase = t.phase,
             \/ n.pc = "post" /\ t.pc = "charge" /\ CreateDueCharge(w)
             \/ n.pc = "requestMark" /\ t.pc = "post" /\ PostRequest(w)
      PROVE  asked'[n.r] + 50 >= GoalOf(rule[n.r], n.phase)
  <2>1. CASE n.pc = "post" /\ t.pc = "charge" /\ CreateDueCharge(w)
      BY <1>0, <1>4, <2>1, ChargeDue DEF Goal
  <2>2. CASE t.pc = "post"
    <3>. HIDE DEF t, n
    <3>. QED
        BY <1>0, <1>1, <1>2, <1>4, <2>2
  <2>. QED
      BY <1>4, <2>1, <2>2
<1>5. ASSUME n.pc \in {"post", "requestMark"} PROVE asked'[n.r] + 50 >= GoalOf(rule[n.r], n.phase)
  <2>1. n = t \/ /\ n.r = t.r /\ n.phase = t.phase
                 /\ \/ n.pc = "post" /\ t.pc = "charge" /\ CreateDueCharge(w)
                    \/ n.pc = "requestMark" /\ t.pc = "post" /\ PostRequest(w)
    <3>1. CASE w = "job"
        BY <1>5, <3>1, JobStep DEF DueInv
    <3>2. CASE w = "origin"
        BY <1>5, <3>2, OriginStep
    <3>. QED
        BY <3>1, <3>2
  <2>. HIDE DEF t, n
  <2>. QED
      BY <1>3, <1>4, <1>5, <2>1
<1>6. ASSUME n.pc = "charge" PROVE n.matched[n.r] + n.amt + 50 >= GoalOf(rule[n.r], n.phase)
  <2>1. CASE w = "job"
    <3>1. n = t \/ \E late \in BOOLEAN : \E d : DecidedNow(late, d) /\ d.act = "request"
        BY <1>6, <2>1, JobStep DEF DueInv
    <3>2. ASSUME NEW late \in BOOLEAN, NEW d, DecidedNow(late, d), d.act = "request"
          PROVE  n.matched[n.r] + n.amt + 50 >= GoalOf(rule[n.r], n.phase)
        BY <2>1, <3>2, DecidedDue DEF Goal
    <3>. HIDE DEF n, t
    <3>. QED
        BY <1>3, <1>6, <3>1, <3>2
  <2>2. CASE w = "origin"
    <3>1. \/ n = t
          \/ /\ n.r = t.r /\ n.r \in Reservations /\ n.matched = t.matched
             /\ n.amt = FirstAmount(n.r)
             /\ n.phase = IF isFonioOffer(n.r) THEN "deposit" ELSE "full"
             /\ n.amt > 100
        BY <1>6, <2>2, OriginStep
    <3>2. ASSUME n.r \in Reservations, n.amt = FirstAmount(n.r), n.amt > 100,
                 n.phase = IF isFonioOffer(n.r) THEN "deposit" ELSE "full"
          PROVE  n.matched[n.r] + n.amt + 50 >= GoalOf(rule[n.r], n.phase)
      <4>1. n.amt >= GoalOf(rule[n.r], n.phase)
          BY <3>2, FirstGoal
      <4>2. n.matched[n.r] \in Nat /\ n.amt \in Nat /\ GoalOf(rule[n.r], n.phase) \in Nat
          BY <1>0, <3>2, GoalType DEF Task, Goal
      <4>. HIDE DEF n
      <4>. QED
          BY <4>1, <4>2
    <3>. HIDE DEF n, t
    <3>. QED
        BY <1>3, <1>6, <3>1, <3>2
  <2>. QED
      BY <2>1, <2>2
<1>. QED
    BY <1>5, <1>6

\* A request the job has in hand is still as the job has read it: neither
\* the job nor the request of a new stay writes it meanwhile.
LEMMA HandStep ==
    ASSUME TypeInv, [Next]_vars, DueInv, NEW q \in Reservations
    PROVE  /\ InHand(q)' => SameMarks(row'[q], task'["job"].seen[q])
           /\ Asking(q)' => ~InHand(q)' /\ (ran' \/ ~row'[q].req)
<1>. DEFINE t == task["job"]
            n == task'["job"]
            Clears == /\ \E late \in BOOLEAN : Decide(late)
                      /\ t.r = q /\ DepositArrived(rule[q], t.seen[q], t.matched[q])
<1>0. /\ InHand(q) => SameMarks(row[q], t.seen[q])
      /\ Asking(q) => ~InHand(q) /\ (ran \/ ~row[q].req)
      /\ t.pc = "idle" => t.todo = {}
      /\ t.pc # "idle" => ran
    BY DEF DueInv
<1>1. InHand(q)' => \/ InHand(q) /\ n.seen[q] = t.seen[q] /\ ~dailyGuestPaymentJob /\ ~Clears
                    \/ dailyGuestPaymentJob /\ n.seen[q] = row[q]
  <2>. HIDE DEF Clears
  <2>. QED
      BY <1>0, JobStep DEF Clears
<1>2. \/ SameMarks(row'[q], row[q])
      \/ Tick /\ row'[q].req = row[q].req
      \/ Clears /\ ~row'[q].req
      \/ \E w \in {"job", "origin"} : RequestSent(w) /\ task[w].r = q
    BY MarkSteps
<1>3. dailyGuestPaymentJob => /\ UNCHANGED row /\ ~ran
                              /\ n.seen[q] = row[q] => SameMarks(row'[q], n.seen[q])
    BY DEF dailyGuestPaymentJob, SameMarks
<1>4. ASSUME InHand(q) PROVE ~Tick /\ ~(RequestSent("job") /\ t.r = q)
  <2>1. t.pc # "idle"
      BY <1>0, <1>4 DEF InHand, OnList
  <2>2. RequestSent("job") => t.r \notin t.todo /\ t.pc = "requestMark"
      BY TypeParts DEF RequestSent, At, OnAStay, Busy
  <2>. QED
      BY <1>4, <2>1, <2>2 DEF Tick, At, InHand, OnList, Tasks
<1>5. RequestSent("origin") /\ task["origin"].r = q => Asking(q)
    BY DEF RequestSent, At, Asking
<1>6. ASSUME InHand(q)' PROVE SameMarks(row'[q], n.seen[q])
  <2>1. CASE dailyGuestPaymentJob /\ n.seen[q] = row[q]
      BY <1>3, <2>1
  <2>2. CASE InHand(q) /\ n.seen[q] = t.seen[q] /\ ~Clears
    <3>1. SameMarks(row'[q], row[q])
      <4>. HIDE DEF Clears
      <4>. QED
          BY <1>0, <1>2, <1>4, <1>5, <2>2
    <3>2. SameMarks(row[q], t.seen[q])
        BY <1>0, <2>2
    <3>. QED
        BY <2>2, <3>1, <3>2 DEF SameMarks
  <2>. QED
      BY <1>1, <1>6, <2>1, <2>2
<1>7. ASSUME Asking(q)' PROVE ~InHand(q)' /\ (ran' \/ ~row'[q].req)
  <2>1. CASE NewStay(q) /\ ~row[q].req
    <3>1. UNCHANGED <<row, ran>> /\ task'["job"] = task["job"] /\ ~dailyGuestPaymentJob
        BY <2>1, TypeParts DEF NewStay, Go, dailyGuestPaymentJob, Tasks, At
    <3>2. InHand(q) => row[q].req
        BY <1>0 DEF InHand, SameMarks
    <3>3. ~InHand(q)'
      <4>. HIDE DEF Clears
      <4>. QED
          BY <1>1, <2>1, <3>1, <3>2
    <3>4. ~row'[q].req
        BY <2>1, <3>1
    <3>. QED
        BY <3>3, <3>4
  <2>2. CASE Asking(q) /\ ~RequestSent("origin")
    <3>1. ~Tick
        BY <2>2 DEF Tick, At, Asking, Tasks
    <3>2. ran => ran'
        BY <3>1, RanStep
    <3>3. ~InHand(q)'
      <4>. SUFFICES ASSUME InHand(q)' PROVE FALSE
          OBVIOUS
      <4>1. dailyGuestPaymentJob /\ n.seen[q] = row[q] /\ n.seen[q].req
          BY <1>0, <1>1, <2>2 DEF InHand
      <4>. QED
          BY <1>0, <1>3, <2>2, <4>1
    <3>4. ASSUME ~ran PROVE ran' \/ ~row'[q].req
      <4>1. ~RequestSent("job")
          BY <1>0, <3>4 DEF RequestSent, At
      <4>2. ~row[q].req
          BY <1>0, <2>2, <3>4
      <4>. HIDE DEF Clears
      <4>. QED
          BY <1>2, <2>2, <3>1, <4>1, <4>2 DEF SameMarks
    <3>. QED
        BY <3>2, <3>3, <3>4
  <2>. QED
      BY <1>7, <2>1, <2>2, OriginStep
<1>. QED
    BY <1>6, <1>7

LEMMA DueInit == Init => DueInv
<1>. SUFFICES ASSUME Init PROVE DueInv
    OBVIOUS
<1>1. \A w \in {"job", "origin"} : task[w] = IdleTask
    BY DEF Init, Tasks
<1>2. IdleTask.pc = "idle" /\ IdleTask.todo = {}
    BY DEF IdleTask
<1>3. \A r \in Reservations : ~row[r].req
    BY DEF Init, EmptyRow
<1>. QED
    BY <1>1, <1>2, <1>3 DEF DueInv, InHand, OnList, Asking, AskInv, CancelKnown

LEMMA DueStep == TypeInv /\ DueInv /\ [Next]_vars => DueInv'
<1>. SUFFICES ASSUME TypeInv, DueInv, [Next]_vars PROVE DueInv'
    OBVIOUS
<1>. DEFINE t == task["job"]
            n == task'["job"]
<1>0. /\ t.pc = "idle" => t.todo = {}
      /\ t.pc # "idle" => ran
      /\ \A r \in Reservations : row[r].req => AskedFor(r, row[r].phase)
      /\ CancelKnown
    BY DEF DueInv
<1>1. n.pc = "idle" => n.todo = {}
    BY <1>0, JobStep
<1>2. n.pc # "idle" => ran'
  <2>1. CASE t.pc = "idle" /\ n.pc # "idle"
    <3>1. dailyGuestPaymentJob
        BY <1>0, <2>1, JobStep
    <3>. QED
        BY <3>1 DEF dailyGuestPaymentJob
  <2>2. CASE t.pc # "idle"
      BY <1>0, <2>2, RanStep DEF Tasks
  <2>. QED
      BY <2>1, <2>2
<1>3. ASSUME NEW q \in Reservations, row'[q].req PROVE AskedFor(q, row[q].phase)'
  <2>1. ASSUME NEW phase, AskedFor(q, phase), row'[q].phase = phase PROVE AskedFor(q, row[q].phase)'
      BY <2>1, AskedGrows DEF AskedFor
  <2>2. CASE SameMarks(row'[q], row[q]) \/ (row'[q].req = row[q].req /\ row'[q].phase = row[q].phase)
      BY <1>0, <1>3, <2>1, <2>2 DEF SameMarks
  <2>3. ASSUME NEW w \in {"job", "origin"}, RequestSent(w), task[w].r = q, row'[q].phase = task[w].phase
        PROVE  AskedFor(q, row[q].phase)'
    <3>1. AskedFor(q, task[w].phase)
        BY <2>3 DEF RequestSent, At, DueInv, AskInv
    <3>. QED
        BY <2>1, <2>3, <3>1
  <2>. QED
      BY <1>3, <2>2, <2>3, MarkSteps
<1>4. CancelKnown'
  <2>. SUFFICES ASSUME n.pc = "haCancel"
                PROVE  /\ n.seen[n.r].req /\ n.seen[n.r].dl # None /\ n.seen[n.r].dl <= 0
                       /\ n.matched[n.r] + 50 < asked'[n.r]
      BY DEF CancelKnown
  <2>1. /\ n \in Task /\ n.r \in Reservations
      BY TypeStep DEF TypeInv, GuestTypeOK, OnAStay, Busy, Tasks
  <2>2. n.matched[n.r] \in Nat /\ asked'[n.r] >= asked[n.r] /\ asked[n.r] \in Nat /\ asked'[n.r] \in Nat
    <3>1. n.matched[n.r] \in Nat
        BY <2>1 DEF Task
    <3>2. asked \in [Reservations -> Nat] /\ \A q \in Reservations : asked'[q] >= asked[q] /\ asked'[q] \in Nat
        BY TypeParts, AskedGrows
    <3>. QED
        BY <2>1, <3>1, <3>2
  <2>3. /\ n.seen[n.r].req /\ n.seen[n.r].dl # None /\ n.seen[n.r].dl <= 0
        /\ n.matched[n.r] + 50 < asked[n.r]
    <3>1. CASE n = t
      <4>1. n.pc = "haCancel" => /\ t.seen[t.r].req /\ t.seen[t.r].dl # None /\ t.seen[t.r].dl <= 0
                                 /\ t.matched[t.r] + 50 < asked[t.r]
          BY <1>0, <3>1 DEF CancelKnown
      <4>. HIDE DEF n, t
      <4>. QED
          BY <3>1, <4>1
    <3>2. ASSUME NEW late \in BOOLEAN, NEW d, DecidedNow(late, d), d.act = "cancel"
          PROVE  /\ n.seen[n.r].req /\ n.seen[n.r].dl # None /\ n.seen[n.r].dl <= 0
                 /\ n.matched[n.r] + 50 < asked[n.r]
        BY <3>2, DecidedDue
    <3>3. n = t \/ \E late \in BOOLEAN : \E d : DecidedNow(late, d) /\ d.act = "cancel"
        BY <1>0, JobStep
    <3>. HIDE DEF n, t
    <3>. QED
        BY <3>1, <3>2, <3>3
  <2>. HIDE DEF n
  <2>. QED
      BY <2>2, <2>3
<1>. QED
    BY <1>1, <1>2, <1>3, <1>4, AskStep, HandStep DEF DueInv

\* Only the job cancels, with what it knows.
LEMMA CancelStep ==
    ASSUME TypeInv, DueInv, [Next]_vars, NEW r \in Reservations,
           ha[r].st # "cancelled", ha'[r].st = "cancelled"
    PROVE  /\ row[r].dl # None /\ row[r].dl <= 0
           /\ task["job"].matched[r] + 50 < asked[r]
<1>0. ha \in [Reservations -> [st : {"inquiry", "new", "cancelled"}, sum : Int, contact : BOOLEAN]]
    BY TypeParts
<1>1. cancelUnpaidReservation /\ task["job"].r = r
  <2>1. ASSUME NEW q \in Reservations, NEW v,
               \/ ha' = [ha EXCEPT ![q].sum = v] \/ ha' = [ha EXCEPT ![q].contact = v]
               \/ ha' = [ha EXCEPT ![q].st = v] /\ (v # "cancelled" \/ q # r)
               \/ ha' = ha
        PROVE  FALSE
      BY <1>0, <2>1, HaUpdate
  <2>2. CASE UNCHANGED ha
      BY <2>2
  <2>3. CASE cancelUnpaidReservation
    <3>1. task["job"].r \in Reservations
        BY <2>3, AtStay DEF cancelUnpaidReservation, At, Tasks
    <3>2. ha' = [ha EXCEPT ![task["job"].r].st = "cancelled"] \/ ha' = ha
        BY <2>3 DEF cancelUnpaidReservation
    <3>. QED
        BY <2>1, <2>3, <3>1, <3>2
  <2>4. ASSUME NEW w \in Tasks, NEW from, NEW to, from \notin {"idle", "next"},
               attachStoredGuestContact(w, from, to)
        PROVE  FALSE
    <3>1. task[w].r \in Reservations
        BY <2>4, AtStay DEF attachStoredGuestContact, At
    <3>2. ha' = [ha EXCEPT ![task[w].r].contact = TRUE] \/ ha' = ha
        BY <2>4 DEF attachStoredGuestContact
    <3>. QED
        BY <2>1, <3>1, <3>2
  <2>5. CASE stripHostawayGuestContact
    <3>1. task["origin"].r \in Reservations
        BY <2>5, AtStay DEF stripHostawayGuestContact, At, Tasks
    <3>2. ha' = [ha EXCEPT ![task["origin"].r].contact = FALSE] \/ ha' = ha
        BY <2>5 DEF stripHostawayGuestContact
    <3>. QED
        BY <2>1, <3>1, <3>2
  <2>6. ASSUME NEW p \in Payers, ConfirmInHostaway(p) PROVE FALSE
    <3>1. task[p].r \in Reservations
        BY <2>6, AtStay DEF ConfirmInHostaway, At, Tasks
    <3>2. ha' = [ha EXCEPT ![task[p].r].st = "new"] \/ ha' = ha
        BY <2>6 DEF ConfirmInHostaway
    <3>. QED
        BY <2>1, <3>1, <3>2
  <2>7. ASSUME NEW q \in Reservations, NEW amt \in Amounts,
               (\E p \in Payers : BookPayment(p, q, amt)) \/ UndoPayment(q, amt)
        PROVE  FALSE
    <3>1. \/ ha' = [ha EXCEPT ![q].sum = ha[q].sum + amt]
          \/ ha' = [ha EXCEPT ![q].sum = ha[q].sum - amt] \/ ha' = ha
        BY <2>7 DEF BookPayment, UndoPayment
    <3>. QED
        BY <2>1, <3>1
  <2>8. ASSUME NEW q \in Reservations, PortalPayment(q) PROVE FALSE
    <3>1. ha' = [ha EXCEPT ![q].sum = Total]
        BY <2>8 DEF PortalPayment
    <3>. QED
        BY <2>1, <3>1
  <2>. QED
      BY <2>2, <2>3, <2>4, <2>5, <2>6, <2>7, <2>8, HaSteps DEF Tasks
<1>2. task["job"].pc = "haCancel" /\ InHand(r)
    BY <1>1 DEF cancelUnpaidReservation, At, CancelKnown, DueInv, InHand
<1>. QED
    BY <1>1, <1>2 DEF DueInv, CancelKnown, SameMarks

----------------------------------------------------------------------------
(* The theorems.                                                           *)

GuestIInv ==
    /\ TypeInv /\ MoneyInv /\ SeenInv /\ ReleaseInv /\ ArrivalInv /\ RemindInv
    /\ ContactAfterMoney /\ ArrivalAfterMoney /\ InquiryNeedsDeposit

\* Nothing has been paid, read or sent at first.
LEMMA GuestInit == Init => GuestIInv
<1>. SUFFICES ASSUME Init PROVE GuestIInv
    OBVIOUS
<1>0. TypeInv
    BY TypeInit
<1>1. \A r \in Reservations :
         /\ row[r] = [EmptyRow EXCEPT !.st = FirstStatus(r)]
         /\ ha[r] = [st |-> FirstStatus(r), sum |-> 0, contact |-> FALSE]
         /\ sent[r] = [reminder |-> 0, arrival |-> 0]
         /\ log[r] = [max |-> 0, full |-> FALSE, marks |-> 0, kept |-> FALSE]
    BY DEF Init
<1>2. \A r \in Reservations : paid[r] = 0
    BY DEF Init, NoCharges
<1>3. \A w \in Tasks : task[w] = IdleTask
    BY DEF Init
<1>4. "job" \in Tasks /\ Payers \subseteq Tasks
    BY DEF Tasks
<1>5. \A r \in Reservations :
         /\ row[r].isPaid = FALSE /\ row[r].phase = None
         /\ row[r].req = FALSE /\ row[r].info = FALSE
         /\ row[r].st = FirstStatus(r)
    BY <1>1 DEF EmptyRow
<1>6. \A r \in Reservations :
         /\ ha[r].sum = 0 /\ ha[r].contact = FALSE /\ ha[r].st = FirstStatus(r)
         /\ sent[r].reminder = 0 /\ sent[r].arrival = 0
         /\ log[r].max = 0 /\ log[r].full = FALSE /\ log[r].marks = 0 /\ log[r].kept = FALSE
  <2>. TAKE r \in Reservations
  <2>1. ha[r].sum = 0 /\ ha[r].contact = FALSE /\ ha[r].st = FirstStatus(r)
      BY DEF Init
  <2>2. sent[r].reminder = 0 /\ sent[r].arrival = 0
      BY DEF Init
  <2>3. log[r].max = 0 /\ log[r].full = FALSE /\ log[r].marks = 0 /\ log[r].kept = FALSE
      BY DEF Init
  <2>. QED
      BY <2>1, <2>2, <2>3
<1>7. /\ IdleTask.pc = "idle" /\ IdleTask.todo = {}
      /\ \A r \in Reservations : IdleTask.matched[r] = 0
    BY DEF IdleTask, NoCharges
<1>8. \A w \in Tasks : task[w].pc = "idle" /\ task[w].todo = {}
                        /\ \A r \in Reservations : task[w].matched[r] = 0
    BY <1>3, <1>7
<1>9. None # "deposit_paid"
    BY NullRule
<1>10. MoneyInv
    BY <1>2, <1>5, <1>6, <1>9, GuestPrices, GuestBounds DEF MoneyInv
<1>11. SeenInv
    BY <1>2, <1>4, <1>5, <1>6, <1>8 DEF SeenInv
<1>12. ReleaseInv
    BY <1>4, <1>5, <1>6, <1>8 DEF ReleaseInv
<1>13. ArrivalInv
  <2>1. \A r \in Reservations : Noting(r) = {} /\ Sending(r) = {}
      BY <1>4, <1>8 DEF Noting, Sending
  <2>2. Cardinality(Payers) \in Nat /\ Cardinality({}) = 0
      BY GuestBounds, FS_CardinalityType, FS_EmptySet
  <2>3. ASSUME NEW r \in Reservations
        PROVE  /\ sent[r].arrival = Cardinality(Noting(r))
               /\ sent[r].arrival + Cardinality(Sending(r)) <= Cardinality(Payers)
    <3>1. sent[r].arrival = 0
        BY <1>6
    <3>2. Cardinality(Noting(r)) = 0 /\ Cardinality(Sending(r)) = 0
        BY <2>1, <2>2
    <3>. QED
        BY <2>2, <3>1, <3>2
  <2>. QED
      BY <2>3, Zenon DEF ArrivalInv
<1>14. RemindInv
    BY <1>4, <1>5, <1>6, <1>8 DEF RemindInv, OnList
<1>15. ContactAfterMoney /\ ArrivalAfterMoney
    BY <1>6 DEF ContactAfterMoney, ArrivalAfterMoney
<1>16. InquiryNeedsDeposit
    BY <1>5, <1>6 DEF InquiryNeedsDeposit, FirstStatus
<1>. QED
    BY <1>0, <1>10, <1>11, <1>12, <1>13, <1>14, <1>15, <1>16 DEF GuestIInv

LEMMA GuestStep == GuestIInv /\ [Next]_vars => GuestIInv'
BY TypeStep, MoneyStep, SeenStep, ReleaseStep, ArrivalStep, RemindStep,
   ContactStep, ArrivalMoneyStep, InquiryStep DEF GuestIInv

LEMMA GuestImplies == GuestIInv => GuestInv
<1>. SUFFICES ASSUME GuestIInv PROVE GuestInv
    OBVIOUS
<1>1. GuestTypeOK /\ ContactAfterMoney /\ ArrivalAfterMoney /\ InquiryNeedsDeposit
    BY DEF GuestIInv, TypeInv
<1>2. OneReminderPerRequest
    BY DEF GuestIInv, RemindInv, OneReminderPerRequest
<1>3. ArrivalSentOnce
  <2>. SUFFICES ASSUME NEW r \in Reservations PROVE sent[r].arrival <= Cardinality(Payers)
      BY DEF ArrivalSentOnce
  <2>1. Sending(r) \subseteq Payers /\ IsFiniteSet(Payers)
      BY GuestBounds DEF Sending
  <2>2. Cardinality(Sending(r)) \in Nat /\ Cardinality(Payers) \in Nat
      BY <2>1, FS_Subset, FS_CardinalityType
  <2>3. sent[r].arrival \in Nat
      BY TypeParts DEF GuestIInv, Messages
  <2>4. sent[r].arrival + Cardinality(Sending(r)) <= Cardinality(Payers)
      BY DEF GuestIInv, ArrivalInv
  <2>. QED
      BY <2>2, <2>3, <2>4
<1>. QED
    BY <1>1, <1>2, <1>3 DEF GuestInv

\* However payments, undos, the daily job, imports and phone offers overlap
\* and fail: contact data, arrival information and the confirmation of an
\* offer follow money that has been booked, the arrival information is not
\* repeated by payments that come one after the other, and a guest is
\* reminded at most once per request (guest-payment-automation.service.ts,
\* guest-checkin-release.service.ts).
THEOREM GuestTheorem == Spec => []GuestInv
<1>. QED
    BY GuestInit, GuestStep, GuestImplies, PTL DEF Spec

DueIInv == TypeInv /\ DueInv

\* A stay is cancelled by the job only, and only when its deadline has come
\* and the guest owes more than half a euro of what was asked
\* (guest-payment-automation.service.ts, guest-payment-schedule.util.ts).
THEOREM CancelTheorem == Spec => CancelIsDue
<1>1. Init => DueIInv
    BY TypeInit, DueInit DEF DueIInv
<1>2. DueIInv /\ [Next]_vars => DueIInv'
    BY TypeStep, DueStep DEF DueIInv
<1>3. DueIInv /\ [Next]_vars =>
          [\A r \in Reservations :
             ha[r].st # "cancelled" /\ ha'[r].st = "cancelled" =>
                /\ row[r].dl # None /\ row[r].dl <= 0
                /\ task["job"].matched[r] + 50 < asked[r]]_vars
    BY CancelStep DEF DueIInv
<1>. QED
    BY <1>1, <1>2, <1>3, PTL DEF Spec, CancelIsDue

=============================================================================
