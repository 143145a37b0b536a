-------------------- MODULE PaymentReconciliationProofs --------------------
(***************************************************************************)
(* ChargeOwnership for every set of payments, reservations and workers and *)
(* every bound.  OwnershipInv is its inductive strengthening.  The proof   *)
(* is modular in the handler's locals: Sound(s, ch) says that the locals s *)
(* are well formed and that the charges they hold are theirs in the charge *)
(* table ch; the first lemmas show that each way a handler moves on keeps  *)
(* it, the next ones that the rows keep what OwnershipInv says of them.    *)
(* From the same invariant the handlers implement PaymentLedger.           *)
(*                                                                         *)
(* The later sections add to it: that a payment and its lines agree, that  *)
(* the poll lock is held by one poll, and, for handlers that run one at a  *)
(* time, that a failed booking is not tried again by itself, that a guest  *)
(* is told once, and that books and charges agree.                         *)
(***************************************************************************)
EXTENDS PaymentReconciliation, TLAPS

Sound(s, ch) ==
    /\ s \in WorkerState
    /\ LocalsOK(s)
    /\ HandOK(s, ch)
    /\ \A r \in Reservations : s.done[r] \in ChargeIds => Made(ch, s.done[r], s.p, r)

\* A charge table that only grows: a charge in use keeps its owner.
Grows(ch, new) ==
    \A c \in ChargeIds :
        ch[c].st # "unused" =>
            /\ new[c].st # "unused"
            /\ new[c].pay = ch[c].pay
            /\ new[c].res = ch[c].res

----------------------------------------------------------------------------
(* Locals.                                                                 *)

\* An idle worker holds nothing.
LEMMA IdleSound ==
  ASSUME NEW ch
  PROVE  Sound(IdleWorker, ch)
BY NullAssumption
   DEF Sound, IdleWorker, WorkerState, LocalsOK, HandOK, PaymentPcs, NoLines, Slots, Pcs, Jobs, Manual

\* Taking the next payment of a loop drops the locals of the last one.
LEMMA ReturnSound ==
  ASSUME NEW ch, NEW s \in WorkerState
  PROVE  Sound(Return(s), ch)
<1> DEFINE t == [IdleWorker EXCEPT !.pc = "batch", !.job = s.job, !.r = s.r,
                                   !.batch = s.batch]
<1>1. t \in WorkerState
  <2>1. /\ s.job \in Jobs /\ s.batch \in SUBSET Payments
        /\ s.r \in Reservations \cup {None}
    BY DEF WorkerState
  <2>2. IdleWorker \in WorkerState /\ "batch" \in Pcs
    BY IdleSound DEF Sound, Pcs
  <2> QED
    BY <2>1, <2>2 DEF WorkerState
<1>2. t.pc = "batch" /\ t.done = NoLines
  BY DEF IdleWorker
<1>3. Sound(t, ch)
  <2> HIDE DEF t
  <2> QED
    BY <1>1, <1>2, NullAssumption DEF Sound, LocalsOK, HandOK, PaymentPcs, NoLines
<1> QED
  BY <1>3, IdleSound DEF Return

\* Booking a line keeps the locals sound when the line's charge is its own.
LEMMA LineSound ==
  ASSUME NEW ch, NEW s, Sound(s, ch), s.p \in Payments,
         NEW r \in Reservations, NEW slot \in Slots,
         slot \in ChargeIds => Made(ch, slot, s.p, r)
  PROVE  Sound(LineDone(s, r, slot), ch)
<1> DEFINE t == LineDone(s, r, slot)
<1>1. /\ s \in WorkerState
      /\ \A q \in Reservations : s.done[q] \in ChargeIds => Made(ch, s.done[q], s.p, q)
  BY DEF Sound
<1>2. /\ t.pc \in {"commit", "charge"}
      /\ t.p = s.p
      /\ t.done = [s.done EXCEPT ![r] = slot]
      /\ t.first \in Reservations
      /\ t.job = s.job
  BY <1>1 DEF LineDone, WorkerState
<1>3. t \in WorkerState
  BY <1>1 DEF LineDone, WorkerState, Pcs
<1>4. s.done \in [Reservations -> Slots]
  BY <1>1 DEF WorkerState
<1> HIDE DEF t
<1>5. \A q \in Reservations : t.done[q] \in ChargeIds => Made(ch, t.done[q], t.p, q)
  BY <1>1, <1>2, <1>4
<1>6. LocalsOK(t) /\ HandOK(t, ch)
  BY <1>2 DEF LocalsOK, HandOK, PaymentPcs
<1> QED
  BY <1>3, <1>5, <1>6 DEF Sound, t

\* A rollback takes up exactly the lines that have a charge.
LEMMA RollbackSound ==
  ASSUME NEW ch, NEW s, Sound(s, ch), s.p \in Payments
  PROVE  Sound(Rollback(s), ch)
<1> DEFINE made == {r \in Reservations : s.done[r] \in ChargeIds}
           t == [s EXCEPT !.pc = "cancel", !.todo = made, !.c = None]
<1>1. s \in WorkerState /\ "cancel" \in Pcs
  BY DEF Sound, Pcs
<1>2. t \in WorkerState
  BY <1>1 DEF WorkerState
<1>3. t.done = s.done /\ t.p = s.p /\ t.pc = "cancel" /\ t.todo = made
  BY <1>1 DEF WorkerState
<1>4. LocalsOK(t)
  <2> HIDE DEF t
  <2> QED
    BY <1>3 DEF LocalsOK
<1>5. Sound(t, ch)
  BY <1>2, <1>3, <1>4 DEF Sound, HandOK
<1> QED
  BY <1>5, IdleSound DEF Rollback

\* A failed line leaves sound locals, whatever the failure.
LEMMA FailedSound ==
  ASSUME NEW ch, NEW s, Sound(s, ch), s.pc \in {"charge", "inbox", "commit"},
         NEW r \in Reservations, NEW archived \in BOOLEAN
  PROVE  Sound(Failed(s, r, archived), ch)
<1>1. s.p \in Payments
  BY DEF Sound, LocalsOK, PaymentPcs
<1>2. Sound(LineDone(s, r, Offline), ch)
  BY <1>1, LineSound, NullAssumption DEF Slots
<1>3. Sound(Rollback(s), ch)
  BY <1>1, RollbackSound
<1>4. ASSUME ~Manual(s), NEW pc \in {"commitOffline", "settleFailed"}
      PROVE  Sound([s EXCEPT !.c = None, !.pc = pc], ch)
  <2>1. PICK t : t = [s EXCEPT !.c = None, !.pc = pc]
    OBVIOUS
  <2>2. s \in WorkerState /\ pc \in Pcs
    BY DEF Sound, Pcs
  <2>3. /\ t \in WorkerState /\ t.pc = pc /\ t.done = s.done /\ t.p = s.p /\ t.first = s.first
    BY <2>1, <2>2 DEF WorkerState
  <2>4. s.first \in Reservations
    BY <1>4 DEF Sound, LocalsOK
  <2>5. LocalsOK(t) /\ HandOK(t, ch)
    BY <1>1, <2>3, <2>4 DEF LocalsOK, HandOK
  <2> QED
    BY <2>1, <2>3, <2>5 DEF Sound
<1> QED
  BY <1>2, <1>3, <1>4 DEF Failed, LineFailed

\* Locals stay sound when the charge table grows.
LEMMA GrowsSound ==
  ASSUME NEW ch, NEW new, NEW s, Sound(s, ch), Grows(ch, new)
  PROVE  Sound(s, new)
BY DEF Sound, Grows, LocalsOK, HandOK, Made

\* Locals without lines are sound once they are in shape.
LEMMA NewSound ==
  ASSUME NEW ch, NEW t \in WorkerState, t.done = NoLines, LocalsOK(t),
         t.pc \notin {"inbox", "record"}
  PROVE  Sound(t, ch)
BY NullAssumption DEF Sound, HandOK, NoLines

\* So are locals that keep their payment and its lines.
LEMMA KeepSound ==
  ASSUME NEW ch, NEW s, Sound(s, ch), NEW t \in WorkerState,
         t.done = s.done, t.p = s.p, LocalsOK(t), t.pc \notin {"inbox", "record"}
  PROVE  Sound(t, ch)
BY DEF Sound, HandOK

----------------------------------------------------------------------------
(* OwnershipInv in three parts: the rows with their charges, the handlers,  *)
(* and the variables that no ownership depends on.                          *)

Rows ==
    /\ payment \in [Payments -> PaymentRow]
    /\ alloc \in [Payments -> [Reservations -> Slots]]
    /\ charge \in [ChargeIds -> ChargeRow]
    /\ nCharges \in 0..MaxCharges
    /\ \A p \in Payments, r \in Reservations :
          alloc[p][r] \in ChargeIds => Made(charge, alloc[p][r], p, r)
    /\ \A p \in Payments :
          payment[p].status \in Applied /\ payment[p].charge # None
             => Made(charge, payment[p].charge, p, payment[p].matched)
    /\ \A c \in ChargeIds : c > nCharges => charge[c].st = "unused"

Handlers ==
    /\ worker \in [Workers -> WorkerState]
    /\ \A w \in Workers : Sound(worker[w], charge)

Rest ==
    /\ notified \in SUBSET ChargeIds
    /\ notes \in [ChargeIds -> 0..2]
    /\ baselined \in SUBSET Reservations
    /\ offline \in SUBSET Reservations
    /\ hasPlan \in SUBSET Reservations
    /\ running \in BOOLEAN
    /\ crashes \in 0..MaxCrashes
    /\ fails \in [Payments -> 0..2]

rowVars == <<payment, alloc, charge, nCharges>>

\* The three parts are OwnershipInv, now and after a step.
LEMMA Parts ==
  /\ OwnershipInv <=> Rows /\ Handlers /\ Rest
  /\ OwnershipInv' <=> Rows' /\ Handlers' /\ Rest'
<1>1. OwnershipInv <=> Rows /\ Handlers /\ Rest
  BY DEF OwnershipInv, TypeOK, ChargeOwnership, Rows, Handlers, Rest, Sound
<1>2. OwnershipInv' <=> Rows' /\ Handlers' /\ Rest'
  BY DEF OwnershipInv, TypeOK, ChargeOwnership, Rows, Handlers, Rest, Sound
<1> QED
  BY <1>1, <1>2

\* A step that leaves the rows and charges alone keeps what is said of them.
LEMMA SameRows ==
  ASSUME Rows, UNCHANGED rowVars
  PROVE  Rows' /\ Grows(charge, charge')
BY DEF Rows, rowVars, Grows

\* One handler moves on to sound locals; the others are not disturbed.
LEMMA Move ==
  ASSUME Handlers, NEW w \in Workers, NEW t, Go(w, t),
         Sound(t, charge'), Grows(charge, charge')
  PROVE  Handlers'
<1>1. t \in WorkerState
  BY DEF Sound
<1>2. worker' \in [Workers -> WorkerState]
  BY <1>1 DEF Handlers, Go
<1>3. ASSUME NEW v \in Workers
      PROVE  Sound(worker'[v], charge')
  <2>1. CASE v = w
    BY <2>1 DEF Handlers, Go
  <2>2. CASE v # w
    <3>1. worker'[v] = worker[v]
      BY <2>2 DEF Handlers, Go
    <3>2. Sound(worker[v], charge)
      BY DEF Handlers
    <3> QED
      BY <3>1, <3>2, GrowsSound
  <2> QED
    BY <2>1, <2>2
<1> QED
  BY <1>2, <1>3 DEF Handlers

\* A step that leaves the rows alone and moves one handler to sound locals.
QuietStep(w) ==
    /\ UNCHANGED rowVars
    /\ Rest'
    /\ \E t : Go(w, t) /\ Sound(t, charge)

\* Such a step keeps the invariant.
LEMMA QuietKeeps ==
  ASSUME OwnershipInv, NEW w \in Workers, QuietStep(w)
  PROVE  OwnershipInv'
<1> USE Parts
<1>1. PICK t : Go(w, t) /\ Sound(t, charge)
  BY DEF QuietStep
<1>2. charge' = charge
  BY DEF QuietStep, rowVars
<1> QED
  BY <1>1, <1>2, SameRows, Move DEF QuietStep

\* An exception leaves sound locals.
LEMMA AbortSound ==
  ASSUME Handlers, NEW w \in Workers, Abort(w)
  PROVE  \E t : Go(w, t) /\ Sound(t, charge)
<1> DEFINE s == worker[w]
<1>1. s \in WorkerState
  BY DEF Handlers, WorkerState
<1>2. /\ Sound(Return(s), charge)
      /\ Sound(IdleWorker, charge)
  BY <1>1, ReturnSound, IdleSound
<1> QED
  BY <1>2 DEF Abort

----------------------------------------------------------------------------
(* The actions.                                                            *)

\* The names the proofs assign to pc and job.
LEMMA Names ==
  /\ "create" \in Pcs /\ "reconcile" \in Pcs /\ "charge" \in Pcs
  /\ "inbox" \in Pcs /\ "record" \in Pcs /\ "commit" \in Pcs
  /\ "settle" \in Pcs /\ "cancel" \in Pcs /\ "forget" \in Pcs
  /\ "undo" \in Pcs /\ "clear" \in Pcs /\ "reset" \in Pcs
  /\ "batch" \in Pcs /\ "pending" \in Pcs /\ "baseline" \in Pcs
  /\ "fetch" \in Pcs /\ "fetchFirst" \in Pcs /\ "note" \in Pcs /\ "noteRow" \in Pcs
  /\ "ingest" \in Jobs /\ "retry" \in Jobs /\ "confirm" \in Jobs /\ "undo" \in Jobs
  /\ "poll" \in Jobs /\ "pollRematch" \in Jobs /\ "planUndo" \in Jobs
  /\ "planRematch" \in Jobs /\ "hostaway" \in Jobs
BY DEF Pcs, Jobs

\* An idle worker is of the right type and holds no line.
LEMMA IdleHolds == IdleWorker \in WorkerState /\ IdleWorker.done = NoLines
BY IdleSound DEF Sound, IdleWorker

\* A new request starts from locals without lines.
Begins(t) ==
    /\ t \in WorkerState /\ t.done = NoLines /\ LocalsOK(t)
    /\ t.pc \notin {"inbox", "record", "commit"}
    /\ t.pc = "undo" => t.job = "undo"
    /\ t.pc = "charge" => t.job = "confirm"

LEMMA CallBegins ==
  ASSUME OwnershipInv, NEW w \in Workers, Call(w)
  PROVE  /\ UNCHANGED rowVars /\ crashes' = crashes
         /\ Rest'
         /\ worker[w].pc = "idle"
         /\ \E t : Go(w, t) /\ Begins(t)
<1> USE Parts
<1> USE IdleHolds
<1>1. ASSUME NEW p \in Payments, IngestCall(w, p)
      PROVE  UNCHANGED rowVars /\ crashes' = crashes /\ Rest' /\ \E t : Go(w, t) /\ Begins(t)
  <2> DEFINE t == [IdleWorker EXCEPT !.pc = "create", !.job = "ingest", !.p = p]
  <2>1. t \in WorkerState
    BY Names DEF WorkerState
  <2>2. t.done = NoLines /\ t.pc = "create" /\ t.p = p
    BY DEF IdleWorker
  <2>3. Begins(t)
    BY <2>1, <2>2 DEF Begins, LocalsOK
  <2> QED
    BY <1>1, <2>3 DEF IngestCall, Rest, rowVars, chargeVars, inboxVars, envVars
<1>2. ASSUME NEW p \in Payments, ConfirmCall(w, p)
      PROVE  UNCHANGED rowVars /\ crashes' = crashes /\ Rest' /\ \E t : Go(w, t) /\ Begins(t)
  <2>1. PICK lines \in SUBSET Reservations :
           Go(w, [IdleWorker EXCEPT !.pc = "charge", !.job = "confirm",
                                    !.p = p, !.todo = lines])
    BY <1>2 DEF ConfirmCall
  <2> DEFINE t == [IdleWorker EXCEPT !.pc = "charge", !.job = "confirm",
                                     !.p = p, !.todo = lines]
  <2>2. t \in WorkerState
    BY Names DEF WorkerState
  <2>3. t.done = NoLines /\ t.pc = "charge" /\ t.p = p /\ t.job = "confirm"
    BY DEF IdleWorker
  <2>4. Begins(t)
    BY <2>2, <2>3 DEF Begins, LocalsOK, Manual
  <2> QED
    BY <1>2, <2>1, <2>4 DEF ConfirmCall, Rest, rowVars, chargeVars, inboxVars, envVars
<1>3. ASSUME NEW p \in Payments, RetryCall(w, p)
      PROVE  UNCHANGED rowVars /\ crashes' = crashes /\ Rest' /\ \E t : Go(w, t) /\ Begins(t)
  <2> DEFINE t == [IdleWorker EXCEPT !.pc = "reconcile", !.job = "retry", !.p = p]
  <2>1. t \in WorkerState
    BY Names DEF WorkerState
  <2>2. t.done = NoLines /\ t.pc = "reconcile" /\ t.p = p
    BY DEF IdleWorker
  <2>3. Begins(t)
    BY <2>1, <2>2 DEF Begins, LocalsOK
  <2> QED
    BY <1>3, <2>3 DEF RetryCall, Rest, rowVars, chargeVars, inboxVars, envVars
<1>4. ASSUME NEW p \in Payments, UndoCall(w, p)
      PROVE  UNCHANGED rowVars /\ crashes' = crashes /\ Rest' /\ \E t : Go(w, t) /\ Begins(t)
  <2> DEFINE t == [IdleWorker EXCEPT !.pc = "undo", !.job = "undo", !.p = p]
  <2>1. t \in WorkerState
    BY Names DEF WorkerState
  <2>2. t.done = NoLines /\ t.pc = "undo" /\ t.p = p
    BY DEF IdleWorker
  <2>3. Begins(t)
    BY <2>1, <2>2 DEF Begins, LocalsOK
  <2> QED
    BY <1>4, <2>3 DEF UndoCall, Rest, rowVars, chargeVars, inboxVars, envVars
<1>5. ASSUME NEW r \in Reservations, PlanUpsert(w, r)
      PROVE  UNCHANGED rowVars /\ crashes' = crashes /\ Rest' /\ \E t : Go(w, t) /\ Begins(t)
  <2> DEFINE t == [IdleWorker EXCEPT !.pc = "pending", !.job = "planRematch"]
  <2>1. t \in WorkerState
    BY Names DEF WorkerState
  <2>2. t.done = NoLines /\ t.pc = "pending"
    BY DEF IdleWorker
  <2>3. Begins(t)
    BY <2>1, <2>2 DEF Begins, LocalsOK, PaymentPcs
  <2> QED
    BY <1>5, <2>3 DEF PlanUpsert, Rest, rowVars, chargeVars, inboxVars
<1>6. ASSUME NEW r \in Reservations, PlanDelete(w, r)
      PROVE  UNCHANGED rowVars /\ crashes' = crashes /\ Rest' /\ \E t : Go(w, t) /\ Begins(t)
  <2> DEFINE ps == {p \in Payments : /\ payment[p].status = "AUTO_APPLIED"
                                     /\ payment[p].matched = r \/ alloc[p][r] # None}
             t == [IdleWorker EXCEPT !.pc = "batch", !.job = "planUndo", !.r = r,
                                     !.batch = ps]
  <2>1. ps \in SUBSET Payments
    OBVIOUS
  <2>2. Go(w, t)
    BY <1>6 DEF PlanDelete
  <2> HIDE DEF ps
  <2>3. t \in WorkerState
    BY <2>1, Names DEF WorkerState
  <2>4. t.done = NoLines /\ t.pc = "batch"
    BY DEF IdleWorker
  <2>5. Begins(t)
    BY <2>3, <2>4 DEF Begins, LocalsOK, PaymentPcs
  <2> QED
    BY <1>6, <2>2, <2>5 DEF PlanDelete, Rest, rowVars, chargeVars, inboxVars, envVars
<1>7. ASSUME NEW r \in Reservations, HostawayUpdate(w, r)
      PROVE  UNCHANGED rowVars /\ crashes' = crashes /\ Rest' /\ \E t : Go(w, t) /\ Begins(t)
  <2>1. PICK pc \in {"fetch", "fetchFirst"} :
           Go(w, [IdleWorker EXCEPT !.pc = pc, !.job = "hostaway", !.r = r,
                                    !.ids = notified])
    BY <1>7 DEF HostawayUpdate
  <2> DEFINE t == [IdleWorker EXCEPT !.pc = pc, !.job = "hostaway", !.r = r,
                                     !.ids = notified]
  <2>2. t \in WorkerState
    BY Names DEF WorkerState, Rest
  <2>3. t.done = NoLines /\ t.pc = pc /\ t.r = r
    BY DEF IdleWorker
  <2>4. Begins(t)
    BY <2>2, <2>3 DEF Begins, LocalsOK, PaymentPcs
  <2> QED
    BY <1>7, <2>1, <2>4 DEF HostawayUpdate, Rest, rowVars, chargeVars, inboxVars, envVars
<1>8. ASSUME PollStart(w)
      PROVE  UNCHANGED rowVars /\ crashes' = crashes /\ Rest' /\ \E t : Go(w, t) /\ Begins(t)
  <2>1. PICK credits \in SUBSET Payments :
           Go(w, [IdleWorker EXCEPT !.pc = "batch", !.job = "poll", !.batch = credits])
    BY <1>8 DEF PollStart
  <2> DEFINE t == [IdleWorker EXCEPT !.pc = "batch", !.job = "poll", !.batch = credits]
  <2>2. t \in WorkerState
    BY Names DEF WorkerState
  <2>3. t.done = NoLines /\ t.pc = "batch"
    BY DEF IdleWorker
  <2>4. Begins(t)
    BY <2>2, <2>3 DEF Begins, LocalsOK, PaymentPcs
  <2> QED
    BY <1>8, <2>1, <2>4 DEF PollStart, Rest, rowVars, chargeVars, inboxVars
<1>9. worker[w].pc = "idle"
  BY DEF Call, IngestCall, ConfirmCall, RetryCall, UndoCall, PlanUpsert, PlanDelete,
         HostawayUpdate, PollStart
<1> QED
  BY <1>1, <1>2, <1>3, <1>4, <1>5, <1>6, <1>7, <1>8, <1>9 DEF Call

\* The rows are as they were and the locals sound.
LEMMA CallKeeps ==
  ASSUME OwnershipInv, NEW w \in Workers, Call(w)
  PROVE  OwnershipInv'
<1> USE Parts
<1>1. PICK t : Go(w, t) /\ Begins(t)
  BY CallBegins
<1>2. Sound(t, charge')
  BY <1>1, NewSound DEF Begins
<1> QED
  BY <1>1, <1>2, CallBegins, SameRows, Move

\* LoadPending.
LEMMA LoadPendingKeeps ==
  ASSUME OwnershipInv, NEW w \in Workers, LoadPending(w)
  PROVE  OwnershipInv'
<1> USE Parts
<1> DEFINE s == worker[w]
           ps == {p \in Payments : payment[p].status = "PENDING_REVIEW"}
           t == [s EXCEPT !.pc = "batch", !.batch = ps]
<1>1. Sound(s, charge) /\ s \in WorkerState /\ ps \in SUBSET Payments
  BY DEF Handlers
<1>2. Go(w, t)
  BY DEF LoadPending
<1> HIDE DEF ps
<1>3. t \in WorkerState /\ t.pc = "batch" /\ t.done = NoLines
  <2>1. s.done = NoLines
    BY <1>1 DEF LoadPending, Sound, LocalsOK
  <2> QED
    BY <1>1, <2>1, Names DEF WorkerState
<1>4. LocalsOK(t)
  <2> HIDE DEF t
  <2> QED
    BY <1>3 DEF LocalsOK, PaymentPcs
<1>5. Sound(t, charge)
  BY <1>3, <1>4, NewSound
<1>6. UNCHANGED rowVars /\ Rest'
  BY DEF LoadPending, Rest, rowVars, chargeVars, inboxVars, envVars
<1> QED
  BY <1>2, <1>5, <1>6, QuietKeeps DEF QuietStep

\* BatchNext.
LEMMA BatchNextKeeps ==
  ASSUME OwnershipInv, NEW w \in Workers, BatchNext(w)
  PROVE  OwnershipInv'
<1> USE Parts
<1> DEFINE s == worker[w]
<1>1. Sound(s, charge) /\ s \in WorkerState /\ s.pc = "batch"
  BY DEF Handlers, BatchNext
<1>2. s.done = NoLines
  BY <1>1 DEF Sound, LocalsOK
<1>3. PICK p \in s.batch :
         \/ Go(w, [s EXCEPT !.batch = @ \ {p}])
         \/ Go(w, [[s EXCEPT !.batch = @ \ {p}] EXCEPT !.p = p, !.pc = FirstPc(s.job)])
  BY DEF BatchNext
<1> DEFINE t == [s EXCEPT !.batch = @ \ {p}]
           u == [t EXCEPT !.p = p, !.pc = FirstPc(s.job)]
<1>4. t \in WorkerState /\ t.done = NoLines /\ t.pc = "batch"
  BY <1>1, <1>2 DEF WorkerState
<1>5. Sound(t, charge)
  BY <1>4, NewSound DEF LocalsOK, PaymentPcs
<1>6. FirstPc(s.job) \in {"create", "undo", "reconcile"} /\ p \in Payments
  BY <1>1 DEF FirstPc, WorkerState
<1>7. u \in WorkerState /\ u.done = NoLines /\ u.p = p /\ u.pc = FirstPc(s.job)
  <2> HIDE DEF t
  <2> QED
    BY <1>4, <1>6, Names DEF WorkerState
<1>8. LocalsOK(u)
  <2> HIDE DEF u
  <2> QED
    BY <1>6, <1>7 DEF LocalsOK
<1>9. Sound(u, charge)
  BY <1>6, <1>7, <1>8, NewSound
<1>10. UNCHANGED rowVars /\ Rest'
  BY DEF BatchNext, Rest, rowVars, chargeVars, inboxVars, envVars
<1> QED
  BY <1>3, <1>5, <1>9, <1>10, QuietKeeps DEF QuietStep

\* BatchEnd.
LEMMA BatchEndKeeps ==
  ASSUME OwnershipInv, NEW w \in Workers, BatchEnd(w)
  PROVE  OwnershipInv'
<1> USE Parts
<1> DEFINE s == worker[w]
           Rematch(job) == [IdleWorker EXCEPT !.pc = "pending", !.job = job]
<1>1. s \in WorkerState
  BY DEF Handlers, WorkerState
<1>2. ASSUME NEW job \in {"pollRematch", "planRematch"}
      PROVE  Sound(Rematch(job), charge)
  <2>1. IdleWorker \in WorkerState
    BY IdleSound DEF Sound
  <2>2. Rematch(job) \in WorkerState
    BY <1>1, <2>1, Names DEF WorkerState
  <2>3. Rematch(job).pc = "pending" /\ Rematch(job).done = NoLines
    BY DEF IdleWorker
  <2> HIDE DEF Rematch
  <2>4. LocalsOK(Rematch(job))
    BY <2>3 DEF LocalsOK, PaymentPcs
  <2> QED
    BY <2>2, <2>3, <2>4, NewSound
<1>3. \/ Go(w, Rematch("pollRematch"))
      \/ Go(w, Rematch("planRematch"))
      \/ Go(w, IdleWorker)
  BY DEF BatchEnd
<1>4. \E t : Go(w, t) /\ Sound(t, charge)
  BY <1>2, <1>3, IdleSound
<1>5. UNCHANGED rowVars /\ Rest'
  BY DEF BatchEnd, Rest, rowVars, chargeVars, inboxVars
<1> QED
  BY <1>4, <1>5, QuietKeeps DEF QuietStep

\* Reconcile: the locals of the match replace those of an earlier one.
LEMMA ReconcileKeeps ==
  ASSUME OwnershipInv, NEW w \in Workers, Reconcile(w)
  PROVE  OwnershipInv'
<1> USE Parts
<1> DEFINE s == worker[w]
           t == [s EXCEPT !.todo = {}, !.done = NoLines, !.first = None, !.c = None]
<1>1. Sound(s, charge) /\ s \in WorkerState /\ s.pc = "reconcile"
  BY DEF Handlers, Reconcile
<1>2. s.p \in Payments
  BY <1>1 DEF Sound, LocalsOK, PaymentPcs
<1>3. t \in WorkerState /\ t.p = s.p /\ t.done = NoLines
  BY <1>1 DEF WorkerState, NoLines, Slots
<1> HIDE DEF t
<1>4. ASSUME NEW best \in Reservations, NEW off \in BOOLEAN
      PROVE  Sound([t EXCEPT !.pc = "charge", !.todo = {best}, !.first = best,
                             !.off = off], charge)
  <2> DEFINE u == [t EXCEPT !.pc = "charge", !.todo = {best}, !.first = best,
                            !.off = off]
  <2>1. u \in WorkerState
    BY <1>3, Names DEF WorkerState
  <2>2. u.done = NoLines /\ u.p = s.p /\ u.pc = "charge" /\ u.first = best
    BY <1>3 DEF WorkerState
  <2> HIDE DEF u
  <2>3. LocalsOK(u)
    BY <1>2, <2>2 DEF LocalsOK
  <2>4. Sound(u, charge)
    BY <2>1, <2>2, <2>3, NewSound
  <2> QED
    BY <2>4 DEF u
<1>5. ASSUME NEW status \in {"PENDING_REVIEW", "SKIPPED"},
             NEW first \in Reservations \cup {None}
      PROVE  Sound([t EXCEPT !.pc = "settle", !.status = status, !.first = first], charge)
  <2> DEFINE u == [t EXCEPT !.pc = "settle", !.status = status, !.first = first]
  <2>1. u \in WorkerState
    BY <1>3, Names DEF WorkerState
  <2>2. u.done = NoLines /\ u.p = s.p /\ u.pc = "settle" /\ u.status = status
    BY <1>3 DEF WorkerState
  <2> HIDE DEF u
  <2>3. LocalsOK(u)
    BY <1>2, <2>2 DEF LocalsOK
  <2>4. Sound(u, charge)
    BY <2>1, <2>2, <2>3, NewSound
  <2> QED
    BY <2>4 DEF u
<1>6. ASSUME NEW status \in {"PENDING_REVIEW", "SKIPPED"}
      PROVE  Sound([t EXCEPT !.pc = "settle", !.status = status], charge)
  <2> DEFINE u == [t EXCEPT !.pc = "settle", !.status = status]
  <2>1. u \in WorkerState
    BY <1>3, Names DEF WorkerState
  <2>2. u.done = NoLines /\ u.p = s.p /\ u.pc = "settle" /\ u.status = status
    BY <1>3 DEF WorkerState
  <2> HIDE DEF u
  <2>3. LocalsOK(u)
    BY <1>2, <2>2 DEF LocalsOK
  <2>4. Sound(u, charge)
    BY <2>1, <2>2, <2>3, NewSound
  <2> QED
    BY <2>4 DEF u
<1>7. Sound(Return(s), charge)
  BY <1>1, <1>2, ReturnSound
<1>8. \E u : Go(w, u) /\ Sound(u, charge)
  <2>1. CASE Go(w, Return(s))
    BY <2>1, <1>7
  <2>2. CASE \E best \in Reservations :
               Go(w, IF TryAutoApply(s, s.p, best)
                     THEN [t EXCEPT !.pc = "charge", !.todo = {best}, !.first = best,
                                    !.off = best \in offline]
                     ELSE [t EXCEPT !.pc = "settle", !.status = "PENDING_REVIEW",
                                    !.first = best])
    <3>1. PICK best \in Reservations :
            \/ Go(w, [t EXCEPT !.pc = "charge", !.todo = {best}, !.first = best,
                               !.off = best \in offline])
            \/ Go(w, [t EXCEPT !.pc = "settle", !.status = "PENDING_REVIEW",
                               !.first = best])
      BY <2>2
    <3>2. PICK off \in BOOLEAN : off = (best \in offline)
      <4>1. CASE best \in offline
        <5>1. TRUE = (best \in offline)
          BY <4>1
        <5> QED
          BY <5>1
      <4>2. CASE best \notin offline
        <5>1. FALSE = (best \in offline)
          BY <4>2
        <5> QED
          BY <5>1
      <4> QED
        BY <4>1, <4>2
    <3>3. \/ Go(w, [t EXCEPT !.pc = "charge", !.todo = {best}, !.first = best,
                             !.off = off])
          \/ Go(w, [t EXCEPT !.pc = "settle", !.status = "PENDING_REVIEW",
                             !.first = best])
      BY <3>1, <3>2
    <3> QED
      BY <3>3, <1>4, <1>5
  <2>3. CASE \E status \in {"PENDING_REVIEW", "SKIPPED"} :
               Go(w, [t EXCEPT !.pc = "settle", !.status = status])
    BY <2>3, <1>6
  <2> QED
    BY <2>1, <2>2, <2>3 DEF Reconcile, t
<1>9. UNCHANGED rowVars /\ Rest'
  <2>1. /\ fails' = IF Forced(s) THEN [fails EXCEPT ![s.p] = 0] ELSE fails
        /\ UNCHANGED <<payment, alloc, chargeVars, inboxVars, envVars>>
    BY DEF Reconcile
  <2>2. fails' = fails \/ fails' = [fails EXCEPT ![s.p] = 0]
    BY <2>1
  <2>3. fails' \in [Payments -> 0..2]
    BY <2>2 DEF Rest
  <2> QED
    BY <2>1, <2>3 DEF Rest, rowVars, chargeVars, inboxVars, envVars
<1> QED
  BY <1>8, <1>9, QuietKeeps DEF QuietStep

\* ApplyOffline.
LEMMA ApplyOfflineKeeps ==
  ASSUME OwnershipInv, NEW w \in Workers, ApplyOffline(w)
  PROVE  OwnershipInv'
<1> USE Parts
<1> DEFINE s == worker[w]
<1>1. Sound(s, charge) /\ s \in WorkerState /\ s.pc = "charge"
  BY DEF Handlers, ApplyOffline
<1>2. s.p \in Payments
  BY <1>1 DEF Sound, LocalsOK, PaymentPcs
<1>3. PICK r \in s.todo : Go(w, LineDone(s, r, Offline))
  BY DEF ApplyOffline
<1>4. r \in Reservations
  BY <1>1 DEF WorkerState
<1>5. Sound(LineDone(s, r, Offline), charge)
  BY <1>1, <1>2, <1>4, LineSound, NullAssumption DEF Slots
<1>6. UNCHANGED rowVars /\ Rest'
  BY DEF ApplyOffline, Rest, rowVars, chargeVars, inboxVars, envVars
<1> QED
  BY <1>3, <1>5, <1>6, QuietKeeps DEF QuietStep

\* InboxNote and InboxThrows: the charge in hand stays in hand, or is dropped.
LEMMA InboxKeeps ==
  ASSUME OwnershipInv, NEW w \in Workers, InboxNote(w) \/ InboxThrows(w)
  PROVE  OwnershipInv'
<1> USE Parts
<1> DEFINE s == worker[w]
<1>1. Sound(s, charge) /\ s \in WorkerState /\ s.pc = "inbox"
  BY DEF Handlers, InboxNote, InboxThrows
<1>2. /\ s.p \in Payments /\ s.c \in ChargeIds
      /\ Made(charge, s.c, s.p, charge[s.c].res) /\ charge[s.c].res \in Reservations
      /\ ~Manual(s) => s.first \in Reservations
  BY <1>1 DEF Sound, LocalsOK, HandOK, PaymentPcs
<1>3. CASE InboxNote(w)
  <2> DEFINE t == [s EXCEPT !.pc = "record"]
  <2>1. t \in WorkerState
    BY <1>1, Names DEF WorkerState
  <2>2. /\ t.pc = "record" /\ t.p = s.p /\ t.c = s.c /\ t.done = s.done
        /\ t.first = s.first /\ t.job = s.job
    BY <1>1 DEF WorkerState
  <2> HIDE DEF t
  <2>3. LocalsOK(t) /\ HandOK(t, charge)
    BY <1>2, <2>2 DEF LocalsOK, HandOK, Manual
  <2>4. Sound(t, charge)
    BY <1>1, <2>1, <2>2, <2>3 DEF Sound
  <2>5. Go(w, t)
    BY <1>3 DEF InboxNote, t
  <2>6. UNCHANGED rowVars /\ Rest'
    BY <1>3 DEF InboxNote, Note, Rest, rowVars, chargeVars, envVars
  <2> QED
    BY <2>4, <2>5, <2>6, QuietKeeps DEF QuietStep
<1>4. CASE InboxThrows(w)
  <2>1. Sound(Failed(s, charge[s.c].res, FALSE), charge)
    BY <1>1, <1>2, FailedSound
  <2>2. UNCHANGED rowVars /\ Rest' /\ Go(w, Failed(s, charge[s.c].res, FALSE))
    BY <1>4 DEF InboxThrows, Rest, rowVars, chargeVars, inboxVars, envVars
  <2> QED
    BY <2>1, <2>2, QuietKeeps DEF QuietStep
<1> QED
  BY <1>3, <1>4

\* Record: the charge in hand becomes the charge of its line.
LEMMA RecordKeeps ==
  ASSUME OwnershipInv, NEW w \in Workers, Record(w)
  PROVE  OwnershipInv'
<1> USE Parts
<1> DEFINE s == worker[w]
           r == charge[s.c].res
<1>1. Sound(s, charge) /\ s \in WorkerState /\ s.pc = "record"
  BY DEF Handlers, Record
<1>2. /\ s.p \in Payments /\ s.c \in ChargeIds
      /\ Made(charge, s.c, s.p, r) /\ r \in Reservations
  BY <1>1 DEF Sound, LocalsOK, HandOK, PaymentPcs
<1>3. Sound(LineDone(s, r, s.c), charge)
  BY <1>1, <1>2, LineSound DEF Slots
<1>4. UNCHANGED rowVars /\ Rest' /\ Go(w, LineDone(s, r, s.c))
  BY <1>2 DEF Record, Rest, rowVars, chargeVars, envVars
<1> QED
  BY <1>3, <1>4, QuietKeeps DEF QuietStep

\* UndoRead: the charges to cancel are the payment's own.
LEMMA UndoReadKeeps ==
  ASSUME OwnershipInv, NEW w \in Workers, UndoRead(w)
  PROVE  OwnershipInv'
<1> USE Parts
<1> DEFINE s == worker[w]
           targets == UndoTargets(s.p)
           todo == {r \in Reservations : targets[r] # None}
<1>1. Sound(s, charge) /\ s \in WorkerState /\ s.pc = "undo"
  BY DEF Handlers, UndoRead
<1>2. s.p \in Payments
  BY <1>1 DEF Sound, LocalsOK, PaymentPcs
<1>3. UNCHANGED rowVars /\ Rest'
  <2>1. running' \in BOOLEAN
    BY DEF UndoRead, Abort, Rest
  <2> QED
    BY <2>1 DEF UndoRead, Rest, rowVars, chargeVars, inboxVars
<1>4. CASE payment[s.p].status \in Applied
  <2>1. /\ payment[s.p] \in PaymentRow
        /\ alloc[s.p] \in [Reservations -> Slots]
    BY <1>2 DEF Rows
  <2>2. /\ targets \in [Reservations -> ChargeIds \cup {None}]
        /\ \A r \in Reservations :
              targets[r] \in ChargeIds => Made(charge, targets[r], s.p, r)
    <3>1. CASE alloc[s.p] # NoLines
      <4>1. targets = [r \in Reservations |->
                         IF alloc[s.p][r] = Offline THEN None ELSE alloc[s.p][r]]
        BY <3>1 DEF UndoTargets
      <4> QED
        BY <4>1, <1>2, <2>1, NullAssumption DEF Rows, Slots
    <3>2. CASE alloc[s.p] = NoLines
      <4>1. targets = [r \in Reservations |->
                         IF payment[s.p].matched = r THEN payment[s.p].charge ELSE None]
        BY <3>2 DEF UndoTargets
      <4> QED
        BY <4>1, <1>2, <1>4, <2>1, NullAssumption DEF Rows, PaymentRow
    <3> QED
      BY <3>1, <3>2
  <2>3. PICK pc \in {"clear", "cancel"} :
           Go(w, [s EXCEPT !.done = targets, !.todo = todo, !.pc = pc])
    BY <1>4 DEF UndoRead
  <2> DEFINE t == [s EXCEPT !.done = targets, !.todo = todo, !.pc = pc]
  <2>4. /\ targets \in [Reservations -> Slots]
        /\ todo \in SUBSET Reservations
        /\ \A r \in todo : targets[r] \in ChargeIds
    BY <2>2 DEF Slots
  <2> HIDE DEF targets, todo
  <2>5. t \in WorkerState
    BY <1>1, <2>4, Names DEF WorkerState
  <2>6. t.done = targets /\ t.todo = todo /\ t.p = s.p /\ t.pc = pc
    BY <1>1 DEF WorkerState
  <2>7. Go(w, t)
    BY <2>3
  <2> HIDE DEF t
  <2>8. LocalsOK(t)
    BY <1>2, <2>4, <2>6 DEF LocalsOK
  <2>9. HandOK(t, charge)
    BY <2>6 DEF HandOK
  <2>10. Sound(t, charge)
    BY <2>2, <2>5, <2>6, <2>8, <2>9 DEF Sound
  <2> QED
    BY <1>3, <2>7, <2>10, QuietKeeps DEF QuietStep
<1>5. CASE payment[s.p].status \notin Applied
  <2>1. Abort(w)
    BY <1>5 DEF UndoRead
  <2> QED
    BY <1>3, <2>1, AbortSound, QuietKeeps DEF QuietStep
<1> QED
  BY <1>4, <1>5

\* ForgetCharge.
LEMMA ForgetChargeKeeps ==
  ASSUME OwnershipInv, NEW w \in Workers, ForgetCharge(w)
  PROVE  OwnershipInv'
<1> USE Parts
<1> DEFINE s == worker[w]
<1>1. Sound(s, charge) /\ s \in WorkerState /\ s.pc = "forget"
  BY DEF Handlers, ForgetCharge
<1>2. s.p \in Payments /\ \A r \in s.todo : s.done[r] \in ChargeIds
  BY <1>1 DEF Sound, LocalsOK, PaymentPcs
<1>3. ASSUME NEW pc \in {"cancel", "clear"}
      PROVE  Sound([s EXCEPT !.pc = pc, !.c = None], charge)
  <2> DEFINE t == [s EXCEPT !.pc = pc, !.c = None]
  <2>1. t \in WorkerState
    BY <1>1, Names DEF WorkerState
  <2>2. t.done = s.done /\ t.todo = s.todo /\ t.p = s.p /\ t.pc = pc
    BY <1>1 DEF WorkerState
  <2> HIDE DEF t
  <2>3. LocalsOK(t)
    BY <1>2, <2>2 DEF LocalsOK
  <2>4. Sound(t, charge)
    BY <1>1, <2>1, <2>2, <2>3, KeepSound
  <2> QED
    BY <2>4 DEF t
<1>4. \/ Go(w, [s EXCEPT !.pc = "cancel", !.c = None])
      \/ Go(w, [s EXCEPT !.pc = "clear", !.c = None])
      \/ Go(w, IdleWorker)
  BY DEF ForgetCharge
<1>5. \E t : Go(w, t) /\ Sound(t, charge)
  BY <1>3, <1>4, IdleSound
<1>6. UNCHANGED rowVars /\ Rest'
  BY DEF ForgetCharge, Rest, rowVars, chargeVars, envVars
<1> QED
  BY <1>5, <1>6, QuietKeeps DEF QuietStep

\* The webhook's steps never touch a payment's lines.
LEMMA WebhookKeeps ==
  ASSUME OwnershipInv, NEW w \in Workers,
         FetchCharges(w) \/ Baseline(w) \/ NoteCharge(w) \/ NoteRow(w)
  PROVE  OwnershipInv'
<1> USE Parts
<1> DEFINE s == worker[w]
<1>1. Sound(s, charge) /\ s \in WorkerState /\ s.ids \in SUBSET ChargeIds
  BY DEF Handlers, WorkerState
<1>2. ASSUME NEW pc \in {"baseline", "note", "noteRow"},
             NEW ids \in SUBSET ChargeIds, NEW c \in ChargeIds \cup {None},
             pc = "noteRow" => c \in ChargeIds,
             pc = "baseline" => s.r \in Reservations
      PROVE  Sound([s EXCEPT !.pc = pc, !.c = c, !.ids = ids], charge)
  <2> DEFINE t == [s EXCEPT !.pc = pc, !.c = c, !.ids = ids]
  <2>1. t \in WorkerState
    BY <1>1, <1>2, Names DEF WorkerState
  <2>2. t.done = s.done /\ t.p = s.p /\ t.pc = pc /\ t.c = c /\ t.r = s.r
    BY <1>1 DEF WorkerState
  <2> HIDE DEF t
  <2>3. LocalsOK(t)
    BY <1>2, <2>2 DEF LocalsOK, PaymentPcs
  <2>4. Sound(t, charge)
    BY <1>1, <2>1, <2>2, <2>3, KeepSound
  <2> QED
    BY <2>4 DEF t
<1>3. CASE FetchCharges(w)
  <2> DEFINE new == {c \in ChargeIds : charge[c].st = "paid" /\ charge[c].res = s.r} \ s.ids
  <2>1. new \in SUBSET ChargeIds
    OBVIOUS
  <2>2. s.pc = "fetchFirst" => s.r \in Reservations
    BY <1>1 DEF Sound, LocalsOK
  <2>3. \/ s.pc = "fetchFirst" /\ Go(w, [s EXCEPT !.pc = "baseline", !.ids = new])
        \/ Go(w, [s EXCEPT !.pc = "note", !.ids = new])
        \/ Go(w, IdleWorker)
    BY <1>3 DEF FetchCharges
  <2> HIDE DEF new
  <2>4. /\ [s EXCEPT !.pc = "baseline", !.ids = new]
             = [s EXCEPT !.pc = "baseline", !.c = s.c, !.ids = new]
        /\ [s EXCEPT !.pc = "note", !.ids = new]
             = [s EXCEPT !.pc = "note", !.c = s.c, !.ids = new]
        /\ s.c \in ChargeIds \cup {None}
    BY <1>1 DEF WorkerState
  <2>5. \E t : Go(w, t) /\ Sound(t, charge)
    BY <1>2, <2>1, <2>2, <2>3, <2>4, IdleSound
  <2>6. UNCHANGED rowVars /\ Rest'
    BY <1>3 DEF FetchCharges, Rest, rowVars, chargeVars, inboxVars, envVars
  <2> QED
    BY <2>5, <2>6, QuietKeeps DEF QuietStep
<1>4. CASE Baseline(w)
  <2>1. s.r \in Reservations
    BY <1>1, <1>4 DEF Sound, LocalsOK, Baseline
  <2>2. UNCHANGED rowVars /\ Rest' /\ Go(w, IdleWorker)
    BY <1>1, <1>4, <2>1 DEF Baseline, Rest, rowVars, chargeVars, envVars
  <2> QED
    BY <2>2, IdleSound, QuietKeeps DEF QuietStep
<1>5. CASE NoteCharge(w)
  <2>1. PICK c \in s.ids : Note(c) /\ Go(w, [s EXCEPT !.pc = "noteRow", !.c = c, !.ids = @ \ {c}])
    BY <1>5 DEF NoteCharge
  <2>2. [s EXCEPT !.pc = "noteRow", !.c = c, !.ids = @ \ {c}]
          = [s EXCEPT !.pc = "noteRow", !.c = c, !.ids = s.ids \ {c}]
    BY <1>1 DEF WorkerState
  <2>3. Sound([s EXCEPT !.pc = "noteRow", !.c = c, !.ids = s.ids \ {c}], charge)
    BY <1>1, <1>2
  <2>4. UNCHANGED rowVars /\ Rest'
    <3>1. UNCHANGED <<payment, alloc, chargeVars, notified, baselined, envVars, fails>>
      BY <1>5 DEF NoteCharge
    <3>2. notes' \in [ChargeIds -> 0..2]
      BY <2>1 DEF Note, Rest
    <3> QED
      BY <3>1, <3>2 DEF Rest, rowVars, chargeVars, envVars
  <2> QED
    BY <2>1, <2>2, <2>3, <2>4, QuietKeeps DEF QuietStep
<1>6. CASE NoteRow(w)
  <2>1. s.c \in ChargeIds
    BY <1>1, <1>6 DEF Sound, LocalsOK, NoteRow
  <2>2. [s EXCEPT !.pc = "note", !.c = None] = [s EXCEPT !.pc = "note", !.c = None, !.ids = s.ids]
    BY <1>1 DEF WorkerState
  <2>3. Go(w, IdleWorker) \/ Go(w, [s EXCEPT !.pc = "note", !.c = None])
    BY <1>6 DEF NoteRow
  <2>4. Sound([s EXCEPT !.pc = "note", !.c = None, !.ids = s.ids], charge)
    BY <1>1, <1>2
  <2>5. UNCHANGED rowVars /\ Rest'
    BY <1>6, <2>1 DEF NoteRow, Rest, rowVars, chargeVars, envVars
  <2> QED
    BY <2>2, <2>3, <2>4, <2>5, IdleSound, QuietKeeps DEF QuietStep
<1> QED
  BY <1>3, <1>4, <1>5, <1>6

\* A new charge gets an id nobody holds, so every owner keeps its charges.
LEMMA AcceptGrows ==
  ASSUME Rows, NEW p \in Payments, NEW r \in Reservations, Accept(p, r),
         UNCHANGED <<payment, alloc>>
  PROVE  /\ Rows' /\ Grows(charge, charge')
         /\ nCharges + 1 \in ChargeIds
         /\ Made(charge', nCharges + 1, p, r)
<1>1. /\ nCharges + 1 \in ChargeIds
      /\ nCharges' \in 0..MaxCharges
      /\ charge[nCharges + 1].st = "unused"
  BY BoundsAssumption DEF Rows, Accept, ChargeIds
<1>2. charge' \in [ChargeIds -> ChargeRow]
  BY <1>1 DEF Accept, Rows, ChargeRow
<1>3. Made(charge', nCharges + 1, p, r)
  BY <1>1 DEF Accept, Rows, Made
<1>4. \A c \in ChargeIds : c # nCharges + 1 => charge'[c] = charge[c]
  BY <1>1 DEF Accept, Rows
<1>5. Grows(charge, charge')
  BY <1>1, <1>4 DEF Grows
<1>6. \A c \in ChargeIds : c > nCharges' => charge'[c].st = "unused"
  BY <1>4 DEF Accept, Rows, ChargeIds
<1>7. /\ \A q \in Payments, x \in Reservations :
            alloc[q][x] \in ChargeIds => Made(charge', alloc[q][x], q, x)
      /\ \A q \in Payments :
            payment[q].status \in Applied /\ payment[q].charge # None
               => Made(charge', payment[q].charge, q, payment[q].matched)
  <2>1. \A c \in ChargeIds : \A q, x : Made(charge, c, q, x) => Made(charge', c, q, x)
    BY <1>5 DEF Grows, Made
  <2>2. \A q \in Payments : payment[q].charge \in ChargeIds \cup {None}
    BY DEF Rows, PaymentRow
  <2>3. /\ \A q \in Payments, x \in Reservations :
              alloc[q][x] \in ChargeIds => Made(charge, alloc[q][x], q, x)
        /\ \A q \in Payments :
              payment[q].status \in Applied /\ payment[q].charge # None
                 => Made(charge, payment[q].charge, q, payment[q].matched)
    BY DEF Rows
  <2> QED
    BY <2>1, <2>2, <2>3
<1> QED
  BY <1>1, <1>2, <1>3, <1>5, <1>6, <1>7 DEF Rows

\* ChargeCreate: the handler takes the new charge in hand.
LEMMA ChargeCreateKeeps ==
  ASSUME OwnershipInv, NEW w \in Workers, ChargeCreate(w)
  PROVE  OwnershipInv'
<1> USE Parts
<1> DEFINE s == worker[w]
           n == nCharges + 1
           t == [s EXCEPT !.pc = "inbox", !.c = n]
<1>1. Sound(s, charge) /\ s \in WorkerState /\ s.pc = "charge"
  BY DEF Handlers, ChargeCreate
<1>2. s.p \in Payments /\ (~Manual(s) => s.first \in Reservations)
  BY <1>1 DEF Sound, LocalsOK, PaymentPcs
<1>3. PICK r \in s.todo : Accept(s.p, r) /\ Go(w, t)
  BY DEF ChargeCreate
<1>4. r \in Reservations
  BY <1>1 DEF WorkerState
<1>5. UNCHANGED <<payment, alloc>> /\ Rest'
  BY DEF ChargeCreate, Rest, inboxVars, envVars
<1>6. /\ Rows' /\ Grows(charge, charge') /\ n \in ChargeIds
      /\ Made(charge', n, s.p, r)
  BY <1>2, <1>3, <1>4, <1>5, AcceptGrows
<1> HIDE DEF n
<1>7. t \in WorkerState
  BY <1>1, <1>6, Names DEF WorkerState
<1>8. /\ t.pc = "inbox" /\ t.c = n /\ t.p = s.p /\ t.done = s.done
      /\ t.first = s.first /\ t.job = s.job
  BY <1>1 DEF WorkerState
<1>9. Sound(s, charge')
  BY <1>1, <1>6, GrowsSound
<1>10. Go(w, t)
  BY <1>3
<1> HIDE DEF t
<1>11. LocalsOK(t)
  BY <1>2, <1>6, <1>8 DEF LocalsOK, Manual
<1>12. HandOK(t, charge')
  BY <1>4, <1>6, <1>8 DEF HandOK, Made
<1>13. Sound(t, charge')
  BY <1>7, <1>8, <1>9, <1>11, <1>12 DEF Sound
<1> QED
  BY <1>5, <1>6, <1>10, <1>13, Move

\* ChargeFail: refused, or accepted without the handler knowing.
LEMMA ChargeFailKeeps ==
  ASSUME OwnershipInv, NEW w \in Workers, ChargeFail(w)
  PROVE  OwnershipInv'
<1> USE Parts
<1> DEFINE s == worker[w]
<1>1. Sound(s, charge) /\ s \in WorkerState /\ s.pc = "charge"
  BY DEF Handlers, ChargeFail
<1>2. s.p \in Payments
  BY <1>1 DEF Sound, LocalsOK, PaymentPcs
<1>3. UNCHANGED <<payment, alloc>> /\ Rest'
  BY DEF ChargeFail, Rest, inboxVars, envVars
<1>4. PICK r \in s.todo, archived \in BOOLEAN :
         /\ Go(w, Failed(s, r, archived))
         /\ UNCHANGED chargeVars \/ Accept(s.p, r)
  BY DEF ChargeFail
<1>5. r \in Reservations
  BY <1>1 DEF WorkerState
<1>6. Rows' /\ Grows(charge, charge')
  <2>1. CASE UNCHANGED chargeVars
    BY <1>3, <2>1, SameRows DEF rowVars, chargeVars
  <2>2. CASE Accept(s.p, r)
    BY <1>2, <1>3, <1>5, <2>2, AcceptGrows
  <2> QED
    BY <1>4, <2>1, <2>2
<1>7. Sound(s, charge')
  BY <1>1, <1>6, GrowsSound
<1>8. Sound(Failed(s, r, archived), charge')
  BY <1>1, <1>5, <1>7, FailedSound
<1> QED
  BY <1>3, <1>4, <1>6, <1>8, Move

\* CancelCharge: a cancelled charge keeps its owner.
LEMMA CancelChargeKeeps ==
  ASSUME OwnershipInv, NEW w \in Workers, CancelCharge(w)
  PROVE  OwnershipInv'
<1> USE Parts
<1> DEFINE s == worker[w]
<1>1. Sound(s, charge) /\ s \in WorkerState /\ s.pc = "cancel"
  BY DEF Handlers, CancelCharge
<1>2. s.p \in Payments /\ \A r \in s.todo : s.done[r] \in ChargeIds
  BY <1>1 DEF Sound, LocalsOK, PaymentPcs
<1>3. UNCHANGED <<payment, alloc, nCharges>> /\ Rest'
  BY DEF CancelCharge, Rest, inboxVars, envVars
<1>4. PICK r \in s.todo, failed \in BOOLEAN :
         /\ Go(w, [s EXCEPT !.pc = "forget", !.c = s.done[r], !.todo = @ \ {r},
                            !.failed = failed])
         /\ \/ charge' = [charge EXCEPT ![s.done[r]].st = "cancelled"]
            \/ UNCHANGED charge
  <2>1. s = [s EXCEPT !.failed = s.failed] /\ s.failed \in BOOLEAN
    BY <1>1 DEF WorkerState
  <2>2. PICK r \in s.todo :
          \/ /\ charge' = [charge EXCEPT ![s.done[r]].st = "cancelled"]
             /\ Go(w, [s EXCEPT !.pc = "forget", !.c = s.done[r], !.todo = @ \ {r}])
          \/ /\ Go(w, [s EXCEPT !.pc = "forget", !.c = s.done[r], !.todo = @ \ {r},
                                !.failed = TRUE])
             /\ UNCHANGED charge
    BY DEF CancelCharge
  <2>3. [s EXCEPT !.pc = "forget", !.c = s.done[r], !.todo = @ \ {r}]
          = [s EXCEPT !.pc = "forget", !.c = s.done[r], !.todo = @ \ {r},
                      !.failed = s.failed]
    BY <1>1 DEF WorkerState
  <2> QED
    BY <2>1, <2>2, <2>3
<1>5. Rows' /\ Grows(charge, charge')
  <2>1. CASE UNCHANGED charge
    BY <1>3, <2>1, SameRows DEF rowVars
  <2>2. CASE charge' = [charge EXCEPT ![s.done[r]].st = "cancelled"]
    <3> DEFINE d == s.done[r]
    <3>1. d \in ChargeIds
      BY <1>2
    <3>2. Made(charge, d, s.p, r)
      BY <1>1, <3>1 DEF Sound, WorkerState
    <3> HIDE DEF d
    <3>3. charge' = [charge EXCEPT ![d].st = "cancelled"]
      BY <2>2 DEF d
    <3>4. charge' \in [ChargeIds -> ChargeRow]
      BY <3>1, <3>3 DEF Rows, ChargeRow
    <3>5. \A c \in ChargeIds :
            /\ charge'[c].pay = charge[c].pay /\ charge'[c].res = charge[c].res
            /\ charge'[c].st = IF c = d THEN "cancelled" ELSE charge[c].st
      BY <3>1, <3>3 DEF Rows, ChargeRow
    <3>6. Grows(charge, charge')
      BY <3>5 DEF Grows
    <3>7. \A c \in ChargeIds : c > nCharges' => charge'[c].st = "unused"
      BY <1>3, <3>2, <3>5 DEF Rows, Made
    <3>8. /\ \A q \in Payments, x \in Reservations :
                alloc[q][x] \in ChargeIds => Made(charge', alloc[q][x], q, x)
          /\ \A q \in Payments :
                payment[q].status \in Applied /\ payment[q].charge # None
                   => Made(charge', payment[q].charge, q, payment[q].matched)
      BY <3>6 DEF Rows, Grows, Made, PaymentRow
    <3> QED
      BY <1>3, <3>4, <3>6, <3>7, <3>8 DEF Rows
  <2> QED
    BY <1>4, <2>1, <2>2
<1> DEFINE t == [s EXCEPT !.pc = "forget", !.c = s.done[r], !.todo = @ \ {r},
                          !.failed = failed]
<1>6. t \in WorkerState
  BY <1>1, <1>2, Names DEF WorkerState
<1>7. /\ t.pc = "forget" /\ t.c = s.done[r] /\ t.p = s.p /\ t.done = s.done
      /\ t.todo = s.todo \ {r}
  BY <1>1 DEF WorkerState
<1>8. Go(w, t)
  BY <1>4
<1> HIDE DEF t
<1>9. LocalsOK(t)
  BY <1>2, <1>7 DEF LocalsOK
<1>10. Sound(s, charge')
  BY <1>1, <1>5, GrowsSound
<1>11. Sound(t, charge')
  BY <1>6, <1>7, <1>9, <1>10, KeepSound
<1> QED
  BY <1>3, <1>5, <1>8, <1>11, Move

----------------------------------------------------------------------------
(* Steps that write a payment row or its allocations.                      *)

\* A payment row may be replaced by one whose charge, if applied, is its own.
LEMMA RowWrite ==
  ASSUME Rows, NEW p \in Payments, NEW row \in PaymentRow,
         payment' = [payment EXCEPT ![p] = row],
         row.status \in Applied /\ row.charge # None => Made(charge, row.charge, p, row.matched),
         UNCHANGED <<alloc, charge, nCharges>>
  PROVE  Rows' /\ Grows(charge, charge')
<1>1. payment' \in [Payments -> PaymentRow]
  BY DEF Rows
<1>2. ASSUME NEW q \in Payments, payment'[q].status \in Applied, payment'[q].charge # None
      PROVE  Made(charge, payment'[q].charge, q, payment'[q].matched)
  BY <1>2 DEF Rows
<1> QED
  BY <1>1, <1>2 DEF Rows, Grows

\* A row written back without an applied status may hold any charge id.
LEMMA ReviewWrite ==
  ASSUME Rows, NEW p \in Payments, NEW row \in PaymentRow,
         payment' = [payment EXCEPT ![p] = row], row.status \notin Applied,
         UNCHANGED <<alloc, charge, nCharges>>
  PROVE  Rows' /\ Grows(charge, charge')
BY RowWrite

\* Create.
LEMMA CreateKeeps ==
  ASSUME OwnershipInv, NEW w \in Workers, Create(w)
  PROVE  OwnershipInv'
<1> USE Parts
<1> DEFINE s == worker[w]
           t == [s EXCEPT !.pc = "reconcile"]
<1>1. Sound(s, charge) /\ s \in WorkerState /\ s.pc = "create"
  BY DEF Handlers, Create
<1>2. s.p \in Payments
  BY <1>1 DEF Sound, LocalsOK, PaymentPcs
<1>3. UNCHANGED <<alloc, charge, nCharges>> /\ Rest'
  <2>1. running' \in BOOLEAN
    BY DEF Create, Abort, Rest
  <2> QED
    BY <2>1 DEF Create, Rest, chargeVars, inboxVars
<1>4. CASE payment[s.p].status = "ABSENT"
  <2> DEFINE row == [payment[s.p] EXCEPT !.status = "RECEIVED"]
  <2>1. payment[s.p] \in PaymentRow
    BY <1>2 DEF Rows
  <2>2. row \in PaymentRow /\ row.status \notin Applied
    BY <2>1 DEF PaymentRow, Statuses, Applied
  <2>3. payment' = [payment EXCEPT ![s.p] = row] /\ Go(w, t)
    BY <1>4, <1>2 DEF Create, Rows
  <2> HIDE DEF row
  <2>4. Rows' /\ Grows(charge, charge')
    BY <1>2, <1>3, <2>2, <2>3, ReviewWrite
  <2>5. t \in WorkerState
    BY <1>1, Names DEF WorkerState
  <2>6. t.pc = "reconcile" /\ t.p = s.p /\ t.done = s.done
    BY <1>1 DEF WorkerState
  <2> HIDE DEF t
  <2>7. LocalsOK(t)
    BY <1>2, <2>6 DEF LocalsOK
  <2>8. Sound(t, charge')
    BY <1>1, <2>4, <2>5, <2>6, <2>7, KeepSound, GrowsSound
  <2> QED
    BY <1>3, <2>3, <2>4, <2>8, Move
<1>5. CASE payment[s.p].status # "ABSENT"
  <2>1. Abort(w) /\ UNCHANGED rowVars
    BY <1>3, <1>5 DEF Create, rowVars
  <2> QED
    BY <1>3, <2>1, AbortSound, QuietKeeps DEF QuietStep
<1> QED
  BY <1>4, <1>5

\* Settle and SettleFailed: the payment goes to the review queue or is skipped.
LEMMA SettleKeeps ==
  ASSUME OwnershipInv, NEW w \in Workers, Settle(w) \/ SettleFailed(w)
  PROVE  OwnershipInv'
<1> USE Parts
<1> DEFINE s == worker[w]
<1>1. Sound(s, charge) /\ s \in WorkerState /\ s.pc \in {"settle", "settleFailed"}
  BY DEF Handlers, Settle, SettleFailed
<1>2. s.p \in Payments /\ (s.pc = "settle" => s.status # "none")
  BY <1>1 DEF Sound, LocalsOK, PaymentPcs
<1>3. s.status \in {"none", "PENDING_REVIEW", "SKIPPED"} /\ s.first \in Reservations \cup {None}
  BY <1>1 DEF WorkerState
<1>4. payment[s.p] \in PaymentRow
  BY <1>2 DEF Rows
<1> DEFINE Row(status, error) ==
             [payment[s.p] EXCEPT !.status = status, !.matched = s.first, !.error = error]
<1>5. PICK status \in {"PENDING_REVIEW", "SKIPPED"}, error \in Errors :
        payment' = [payment EXCEPT ![s.p] = Row(status, error)]
  <2>1. CASE Settle(w)
    <3>1. s.status \in {"PENDING_REVIEW", "SKIPPED"}
      BY <1>2, <1>3, <2>1 DEF Settle
    <3>2. payment[s.p].error \in Errors /\ "none" \in Errors
      BY <1>4 DEF PaymentRow, Errors
    <3>3. CASE s.status = "SKIPPED"
      <4>1. payment' = [payment EXCEPT ![s.p] = Row(s.status, "none")]
        BY <1>2, <1>4, <2>1, <3>3 DEF Settle, Rows, PaymentRow
      <4> HIDE DEF Row
      <4> QED
        BY <3>1, <3>2, <4>1
    <3>4. CASE s.status # "SKIPPED"
      <4>1. payment' = [payment EXCEPT ![s.p] = Row(s.status, payment[s.p].error)]
        BY <1>2, <1>4, <2>1, <3>4 DEF Settle, Rows, PaymentRow
      <4> HIDE DEF Row
      <4> QED
        BY <3>1, <3>2, <4>1
    <3> HIDE DEF Row
    <3> QED
      BY <3>3, <3>4
  <2>2. CASE SettleFailed(w)
    <3>1. payment' = [payment EXCEPT ![s.p] = Row("PENDING_REVIEW", "applyFailed")]
      BY <1>2, <1>4, <2>2 DEF SettleFailed, Rows, PaymentRow
    <3> HIDE DEF Row
    <3> QED
      BY <3>1 DEF Errors
  <2> HIDE DEF Row
  <2> QED
    BY <2>1, <2>2
<1> DEFINE row == Row(status, error)
<1>6. row \in PaymentRow /\ row.status \notin Applied
  BY <1>3, <1>4 DEF PaymentRow, Statuses, Applied
<1>7. payment' = [payment EXCEPT ![s.p] = row]
  BY <1>5
<1>8. UNCHANGED <<alloc, charge, nCharges>> /\ Rest' /\ Go(w, Return(s))
  <2>1. fails' \in [Payments -> 0..2]
    <3>1. CASE Settle(w)
      <4>1. fails \in [Payments -> 0..2] /\ (fails' = fails \/ fails' = [fails EXCEPT ![s.p] = 0])
        BY <3>1 DEF Settle, Rest
      <4> QED
        BY <4>1
    <3>2. CASE SettleFailed(w)
      <4>1. fails \in [Payments -> 0..2] /\ \A n \in 0..2 : (IF n = 2 THEN 2 ELSE n + 1) \in 0..2
        BY DEF Rest
      <4>2. fails' = [fails EXCEPT ![s.p] = IF @ = 2 THEN 2 ELSE @ + 1]
        BY <3>2 DEF SettleFailed
      <4> QED
        BY <4>1, <4>2
    <3> QED
      BY <1>2, <3>1, <3>2
  <2> QED
    BY <2>1 DEF Settle, SettleFailed, Rest, chargeVars, inboxVars, envVars
<1> HIDE DEF row
<1>9. Rows' /\ Grows(charge, charge')
  BY <1>2, <1>6, <1>7, <1>8, ReviewWrite
<1>10. Sound(Return(s), charge')
  BY <1>1, <1>2, ReturnSound
<1> QED
  BY <1>8, <1>9, <1>10, Move

\* Writing a sound handler's lines: each line's charge is its own.
LEMMA BookedRows ==
  ASSUME Rows, NEW s, Sound(s, charge), s.p \in Payments, s.first \in Reservations,
         NEW status \in Applied, NEW error \in Errors,
         Booked(s, status, error), UNCHANGED <<charge, nCharges>>
  PROVE  Rows' /\ Grows(charge, charge')
<1>1. /\ s.done \in [Reservations -> Slots]
      /\ \A r \in Reservations : s.done[r] \in ChargeIds => Made(charge, s.done[r], s.p, r)
  BY DEF Sound, WorkerState
<1> DEFINE c == IF s.done[s.first] = Offline THEN None ELSE s.done[s.first]
           row == [status |-> status, matched |-> s.first, error |-> error, charge |-> c]
           lines == [r \in Reservations |-> IF s.done[r] = None THEN alloc[s.p][r] ELSE s.done[r]]
<1>2. c \in ChargeIds \cup {None} /\ (c # None => Made(charge, c, s.p, s.first))
  BY <1>1, NullAssumption DEF Slots
<1>3. payment' = [payment EXCEPT ![s.p] = row] /\ alloc' = [alloc EXCEPT ![s.p] = lines]
  BY DEF Booked, Rows
<1>4. row \in PaymentRow
  <2> HIDE DEF c
  <2> QED
    BY <1>2 DEF PaymentRow, Statuses
<1>5. /\ lines \in [Reservations -> Slots]
      /\ \A r \in Reservations : lines[r] \in ChargeIds => Made(charge, lines[r], s.p, r)
  BY <1>1 DEF Rows
<1>6. row.charge = c /\ row.matched = s.first
  OBVIOUS
<1> HIDE DEF c, row, lines
<1>7. payment' \in [Payments -> PaymentRow] /\ alloc' \in [Payments -> [Reservations -> Slots]]
  BY <1>3, <1>4, <1>5 DEF Rows
<1>8. ASSUME NEW q \in Payments, NEW r \in Reservations, alloc'[q][r] \in ChargeIds
      PROVE  Made(charge, alloc'[q][r], q, r)
  BY <1>3, <1>5, <1>8 DEF Rows
<1>9. ASSUME NEW q \in Payments, payment'[q].status \in Applied, payment'[q].charge # None
      PROVE  Made(charge, payment'[q].charge, q, payment'[q].matched)
  BY <1>2, <1>3, <1>6, <1>9 DEF Rows
<1> QED
  BY <1>7, <1>8, <1>9 DEF Rows, Grows

\* Commit.
LEMMA CommitKeeps ==
  ASSUME OwnershipInv, NEW w \in Workers, Commit(w)
  PROVE  OwnershipInv'
<1> USE Parts
<1> DEFINE s == worker[w]
<1>1. Sound(s, charge) /\ s \in WorkerState /\ s.pc = "commit"
  BY DEF Handlers, Commit
<1>2. s.p \in Payments /\ s.first \in Reservations
  BY <1>1 DEF Sound, LocalsOK, PaymentPcs
<1>3. UNCHANGED <<charge, nCharges>> /\ Rest'
  <2>1. running' \in BOOLEAN
    BY DEF Commit, Abort, Rest
  <2>2. fails' = fails \/ fails' = [fails EXCEPT ![s.p] = 0]
    BY DEF Commit, Booked
  <2>3. fails' \in [Payments -> 0..2]
    BY <1>2, <2>2 DEF Rest
  <2> QED
    BY <2>1, <2>3 DEF Commit, Rest, chargeVars, inboxVars
<1>4. CASE ~Clash(s)
  <2>1. PICK status \in Applied : Booked(s, status, "none")
    BY <1>4 DEF Commit, Applied
  <2>2. Go(w, Return(s)) /\ "none" \in Errors
    BY <1>4 DEF Commit, Errors
  <2>3. Rows' /\ Grows(charge, charge')
    BY <1>1, <1>2, <1>3, <2>1, <2>2, BookedRows
  <2>4. Sound(Return(s), charge')
    BY <1>1, <1>2, ReturnSound
  <2> QED
    BY <1>3, <2>2, <2>3, <2>4, Move
<1>5. CASE Clash(s) /\ ~Manual(s)
  <2>1. Go(w, Failed(s, s.first, FALSE)) /\ UNCHANGED rowVars
    BY <1>3, <1>5 DEF Commit, rowVars
  <2>2. Sound(Failed(s, s.first, FALSE), charge)
    BY <1>1, <1>2, FailedSound
  <2> QED
    BY <1>3, <2>1, <2>2, QuietKeeps DEF QuietStep
<1>6. CASE Clash(s) /\ Manual(s)
  <2>1. Abort(w) /\ UNCHANGED rowVars
    BY <1>3, <1>6 DEF Commit, rowVars
  <2> QED
    BY <1>3, <2>1, AbortSound, QuietKeeps DEF QuietStep
<1> QED
  BY <1>4, <1>5, <1>6

\* CommitOffline: a line without a charge.
LEMMA CommitOfflineKeeps ==
  ASSUME OwnershipInv, NEW w \in Workers, CommitOffline(w)
  PROVE  OwnershipInv'
<1> USE Parts
<1> DEFINE s == worker[w]
           d == [NoLines EXCEPT ![s.first] = Offline]
           t == [s EXCEPT !.done = d]
<1>1. Sound(s, charge) /\ s \in WorkerState /\ s.pc = "commitOffline"
  BY DEF Handlers, CommitOffline
<1>2. s.p \in Payments /\ s.first \in Reservations
  BY <1>1 DEF Sound, LocalsOK, PaymentPcs
<1>3. UNCHANGED <<charge, nCharges>> /\ Rest'
  <2>1. running' \in BOOLEAN
    BY DEF CommitOffline, Abort, Rest
  <2>2. t.p = s.p
    BY <1>1 DEF WorkerState
  <2>3. fails' = fails \/ fails' = [fails EXCEPT ![t.p] = 0]
    BY DEF CommitOffline, Booked
  <2> HIDE DEF t
  <2>4. fails' \in [Payments -> 0..2]
    BY <1>2, <2>2, <2>3 DEF Rest
  <2> QED
    BY <2>1, <2>4 DEF CommitOffline, Rest, chargeVars, inboxVars
<1>4. /\ d \in [Reservations -> Slots]
      /\ \A r \in Reservations : d[r] \notin ChargeIds
  BY <1>2, NullAssumption DEF NoLines, Slots
<1> HIDE DEF d
<1>5. t \in WorkerState
  BY <1>1, <1>4 DEF WorkerState
<1>6. t.done = d /\ t.p = s.p /\ t.first = s.first /\ t.pc = "commitOffline"
  BY <1>1 DEF WorkerState
<1>7. CASE ~Clash(t)
  <2>1. Booked(t, "AUTO_APPLIED", "none") /\ Go(w, Return(s))
    BY <1>7 DEF CommitOffline, d
  <2>2. "none" \in Errors /\ "AUTO_APPLIED" \in Applied
    BY DEF Errors, Applied
  <2> HIDE DEF t
  <2>3. LocalsOK(t)
    BY <1>2, <1>6 DEF LocalsOK
  <2>4. Sound(t, charge)
    BY <1>4, <1>5, <1>6, <2>3 DEF Sound, HandOK
  <2>5. Rows' /\ Grows(charge, charge')
    BY <1>2, <1>3, <1>6, <2>1, <2>2, <2>4, BookedRows
  <2>6. Sound(Return(s), charge')
    BY <1>1, <1>2, ReturnSound
  <2> QED
    BY <1>3, <2>1, <2>5, <2>6, Move
<1>8. CASE Clash(t)
  <2>1. Abort(w) /\ UNCHANGED rowVars
    BY <1>3, <1>8 DEF CommitOffline, rowVars, d
  <2> QED
    BY <1>3, <2>1, AbortSound, QuietKeeps DEF QuietStep
<1> QED
  BY <1>7, <1>8

\* SkipReview: the row keeps its charge id but is no longer applied.
LEMMA SkipReviewKeeps ==
  ASSUME OwnershipInv, NEW p \in Payments, SkipReview(p)
  PROVE  OwnershipInv'
<1> USE Parts
<1> DEFINE row == [payment[p] EXCEPT !.status = "SKIPPED"]
<1>1. payment[p] \in PaymentRow
  BY DEF Rows
<1>2. row \in PaymentRow /\ row.status \notin Applied
  BY <1>1 DEF PaymentRow, Statuses, Applied
<1>3. payment' = [payment EXCEPT ![p] = row]
  BY DEF SkipReview, Rows
<1> HIDE DEF row
<1>4. UNCHANGED <<alloc, charge, nCharges, worker>> /\ Rest'
  BY DEF SkipReview, Rest, chargeVars, inboxVars, envVars
<1>5. Rows' /\ charge' = charge
  BY <1>2, <1>3, <1>4, ReviewWrite
<1>6. Handlers'
  BY <1>4, <1>5 DEF Handlers
<1> QED
  BY <1>4, <1>5, <1>6

\* ClearAllocations: fewer charges are held.
LEMMA ClearAllocationsKeeps ==
  ASSUME OwnershipInv, NEW w \in Workers, ClearAllocations(w)
  PROVE  OwnershipInv'
<1> USE Parts
<1> DEFINE s == worker[w]
           t == [s EXCEPT !.pc = "reset"]
<1>1. Sound(s, charge) /\ s \in WorkerState /\ s.pc = "clear"
  BY DEF Handlers, ClearAllocations
<1>2. s.p \in Payments
  BY <1>1 DEF Sound, LocalsOK, PaymentPcs
<1>3. UNCHANGED <<payment, charge, nCharges>> /\ Rest' /\ Go(w, t)
  BY DEF ClearAllocations, Rest, chargeVars, inboxVars, envVars
<1>4. /\ NoLines \in [Reservations -> Slots]
      /\ \A r \in Reservations : NoLines[r] \notin ChargeIds
  BY NullAssumption DEF NoLines, Slots
<1>5. alloc' = [alloc EXCEPT ![s.p] = NoLines]
  BY DEF ClearAllocations
<1>6. Rows' /\ Grows(charge, charge')
  <2>1. alloc' \in [Payments -> [Reservations -> Slots]]
    BY <1>2, <1>4, <1>5 DEF Rows
  <2>2. ASSUME NEW q \in Payments, NEW r \in Reservations, alloc'[q][r] \in ChargeIds
        PROVE  Made(charge, alloc'[q][r], q, r)
    BY <1>2, <1>4, <1>5, <2>2 DEF Rows
  <2> QED
    BY <1>3, <2>1, <2>2 DEF Rows, Grows
<1>7. t \in WorkerState
  BY <1>1, Names DEF WorkerState
<1>8. t.pc = "reset" /\ t.p = s.p /\ t.done = s.done
  BY <1>1 DEF WorkerState
<1> HIDE DEF t
<1>9. LocalsOK(t)
  BY <1>2, <1>8 DEF LocalsOK
<1>10. Sound(t, charge')
  BY <1>1, <1>6, <1>7, <1>8, <1>9, KeepSound, GrowsSound
<1> QED
  BY <1>3, <1>6, <1>10, Move

\* ResetPayment.
LEMMA ResetPaymentKeeps ==
  ASSUME OwnershipInv, NEW w \in Workers, ResetPayment(w)
  PROVE  OwnershipInv'
<1> USE Parts
<1> DEFINE s == worker[w]
           t == [s EXCEPT !.pc = "reconcile"]
<1>1. Sound(s, charge) /\ s \in WorkerState /\ s.pc = "reset"
  BY DEF Handlers, ResetPayment
<1>2. s.p \in Payments
  BY <1>1 DEF Sound, LocalsOK, PaymentPcs
<1>3. UNCHANGED <<alloc, charge, nCharges>> /\ Rest' /\ Go(w, t)
  <2>1. fails' \in [Payments -> 0..2]
    BY <1>2 DEF ResetPayment, Rest
  <2> QED
    BY <2>1 DEF ResetPayment, Rest, chargeVars, inboxVars, envVars
<1>4. PICK error \in Errors :
         payment' = [payment EXCEPT ![s.p] =
            [status |-> "PENDING_REVIEW", matched |-> None, charge |-> None, error |-> error]]
  BY DEF ResetPayment, Errors
<1> DEFINE row == [status |-> "PENDING_REVIEW", matched |-> None, charge |-> None, error |-> error]
<1>5. row \in PaymentRow /\ row.status \notin Applied
  BY DEF PaymentRow, Statuses, Applied
<1>6. payment' = [payment EXCEPT ![s.p] = row]
  BY <1>4
<1> HIDE DEF row
<1>7. Rows' /\ Grows(charge, charge')
  BY <1>2, <1>3, <1>5, <1>6, ReviewWrite
<1>8. t \in WorkerState
  BY <1>1, Names DEF WorkerState
<1>9. t.pc = "reconcile" /\ t.p = s.p /\ t.done = s.done
  BY <1>1 DEF WorkerState
<1> HIDE DEF t
<1>10. LocalsOK(t)
  BY <1>2, <1>9 DEF LocalsOK
<1>11. Sound(t, charge')
  BY <1>1, <1>7, <1>8, <1>9, <1>10, KeepSound, GrowsSound
<1> QED
  BY <1>3, <1>7, <1>11, Move

\* PollStartThrows and ListingSync leave rows and handlers alone.
LEMMA EnvironmentKeeps ==
  ASSUME OwnershipInv, PollStartThrows \/ \E r \in Reservations : ListingSync(r)
  PROVE  OwnershipInv'
<1> USE Parts
<1>1. UNCHANGED <<payment, alloc, charge, nCharges, worker>> /\ Rest'
  <2>1. CASE PollStartThrows
    BY <2>1 DEF PollStartThrows, Rest, chargeVars, inboxVars
  <2>2. CASE \E r \in Reservations : ListingSync(r)
    BY <2>2 DEF ListingSync, Rest, chargeVars, inboxVars
  <2> QED
    BY <2>1, <2>2
<1>2. Rows' /\ charge' = charge
  BY <1>1, SameRows DEF rowVars
<1>3. Handlers'
  BY <1>1, <1>2 DEF Handlers
<1> QED
  BY <1>1, <1>2, <1>3

\* Crash: idle workers hold nothing.
LEMMA CrashKeeps ==
  ASSUME OwnershipInv, Crash
  PROVE  OwnershipInv'
<1> USE Parts
<1>1. UNCHANGED rowVars
  BY DEF Crash, rowVars, chargeVars
<1>2. Rest'
  <2>1. crashes' \in 0..MaxCrashes
    BY BoundsAssumption DEF Crash, Rest
  <2> QED
    BY <2>1 DEF Crash, Rest, inboxVars
<1>3. Handlers'
  <2>1. IdleWorker \in WorkerState /\ Sound(IdleWorker, charge')
    BY IdleSound DEF Sound
  <2>2. worker' = [w \in Workers |-> IdleWorker]
    BY DEF Crash
  <2> QED
    BY <2>1, <2>2 DEF Handlers
<1> QED
  BY <1>1, <1>2, <1>3, SameRows

----------------------------------------------------------------------------
(* The theorems.                                                           *)

\* No charge exists yet and nobody holds one.
LEMMA InitOwnership ==
  Init => OwnershipInv
<1> SUFFICES ASSUME Init PROVE OwnershipInv
  OBVIOUS
<1>1. Rows
  <2>1. payment \in [Payments -> PaymentRow]
    BY DEF Init, PaymentRow, Statuses, Errors
  <2>2. alloc \in [Payments -> [Reservations -> Slots]]
    BY DEF Init, NoLines, Slots
  <2>3. charge \in [ChargeIds -> ChargeRow]
    BY DEF Init, ChargeRow
  <2>4. nCharges \in 0..MaxCharges
    BY BoundsAssumption DEF Init
  <2>5. /\ \A p \in Payments, r \in Reservations : alloc[p][r] \notin ChargeIds
        /\ \A p \in Payments : payment[p].charge = None
        /\ \A c \in ChargeIds : charge[c].st = "unused"
    BY NullAssumption DEF Init, NoLines
  <2> QED
    BY <2>1, <2>2, <2>3, <2>4, <2>5 DEF Rows
<1>2. Handlers
  <2>1. IdleWorker \in WorkerState /\ Sound(IdleWorker, charge)
    BY IdleSound DEF Sound
  <2> QED
    BY <2>1 DEF Init, Handlers
<1>3. Rest
  <2>1. /\ notes \in [ChargeIds -> 0..2] /\ fails \in [Payments -> 0..2]
    BY DEF Init
  <2>2. crashes \in 0..MaxCrashes
    BY BoundsAssumption DEF Init
  <2>3. /\ notified \in SUBSET ChargeIds /\ baselined \in SUBSET Reservations
        /\ offline \in SUBSET Reservations /\ hasPlan \in SUBSET Reservations
        /\ running \in BOOLEAN
    BY DEF Init
  <2> QED
    BY <2>1, <2>2, <2>3 DEF Rest
<1> QED
  BY <1>1, <1>2, <1>3, Parts

\* Every step of a handler keeps the invariant.
LEMMA StepKeeps ==
  ASSUME OwnershipInv, NEW w \in Workers, Step(w)
  PROVE  OwnershipInv'
<1>1. CASE Create(w) \/ LoadPending(w) \/ BatchNext(w) \/ BatchEnd(w)
  BY <1>1, CreateKeeps, LoadPendingKeeps, BatchNextKeeps, BatchEndKeeps
<1>2. CASE Reconcile(w) \/ Settle(w) \/ SettleFailed(w)
  BY <1>2, ReconcileKeeps, SettleKeeps
<1>3. CASE Apply(w)
  BY <1>3, ApplyOfflineKeeps, ChargeCreateKeeps, ChargeFailKeeps, InboxKeeps, RecordKeeps,
     CommitKeeps, CommitOfflineKeeps
     DEF Apply
<1>4. CASE Undo(w)
  BY <1>4, UndoReadKeeps, CancelChargeKeeps, ForgetChargeKeeps, ClearAllocationsKeeps,
     ResetPaymentKeeps
     DEF Undo
<1>5. CASE FetchCharges(w) \/ Baseline(w) \/ NoteCharge(w) \/ NoteRow(w)
  BY <1>5, WebhookKeeps
<1> QED
  BY <1>1, <1>2, <1>3, <1>4, <1>5 DEF Step

\* OwnershipInv is inductive.
LEMMA NextOwnership ==
  OwnershipInv /\ [Next]_vars => OwnershipInv'
<1> SUFFICES ASSUME OwnershipInv, [Next]_vars PROVE OwnershipInv'
  OBVIOUS
<1>1. CASE \E w \in Workers : Step(w) \/ Call(w)
  BY <1>1, StepKeeps, CallKeeps
<1>2. CASE \E p \in Payments : SkipReview(p)
  BY <1>2, SkipReviewKeeps
<1>3. CASE PollStartThrows \/ \E r \in Reservations : ListingSync(r)
  BY <1>3, EnvironmentKeeps
<1>4. CASE Crash
  BY <1>4, CrashKeeps
<1>5. CASE UNCHANGED vars
  <2>1. /\ UNCHANGED rowVars /\ UNCHANGED worker
        /\ UNCHANGED <<notified, notes, baselined, offline, hasPlan, running, crashes, fails>>
    BY <1>5 DEF vars, rowVars
  <2>2. Rows /\ Handlers /\ Rest
    BY Parts
  <2>3. Rows' /\ charge' = charge
    BY <2>1, <2>2, SameRows DEF rowVars
  <2>4. Handlers'
    BY <2>1, <2>2, <2>3 DEF Handlers
  <2>5. Rest'
    BY <2>1, <2>2 DEF Rest
  <2> QED
    BY <2>3, <2>4, <2>5, Parts
<1> QED
  BY <1>1, <1>2, <1>3, <1>4, <1>5 DEF Next

\* For every set of payments, reservations and workers, every bound and every
\* choice of faults: in each reachable state the handlers' locals, the rows
\* and the charge table satisfy the inductive invariant.
THEOREM OwnershipTheorem == Spec => []OwnershipInv
<1>1. Init => OwnershipInv
  BY InitOwnership
<1>2. OwnershipInv /\ [Next]_vars => OwnershipInv'
  BY NextOwnership
<1> QED
  BY <1>1, <1>2, PTL DEF Spec

\* Every column, local and counter keeps its type.
THEOREM TypeTheorem == Spec => []TypeOK
<1>1. OwnershipInv => TypeOK
  BY DEF OwnershipInv
<1> QED
  BY <1>1, OwnershipTheorem, PTL

\* A payment row, an allocation or a handler never holds a charge that was
\* made for another payment or another reservation, so undoApplication and
\* the rollback of confirmReview cancel only what the payment itself booked.
THEOREM ChargeOwnershipTheorem == Spec => []ChargeOwnership
<1>1. OwnershipInv => ChargeOwnership
  BY DEF OwnershipInv
<1> QED
  BY <1>1, OwnershipTheorem, PTL

----------------------------------------------------------------------------
(* The handlers implement the ledger.  The refinement mapping takes the    *)
(* two tables as they are; what has to be shown is that no interleaving    *)
(* writes a line over another or with a charge of somebody else, and that  *)
(* follows from OwnershipInv.  There is one lemma per kind of step that    *)
(* touches the books; every other step is a stutter of the ledger.         *)

Books == <<alloc, charge>>

\* Nothing is assigned and nothing posted at the start.
LEMMA InitLedger == Init => Ledger!LedgerInit
BY DEF Init, Ledger!LedgerInit, Ledger!Free, Ledger!LedgerIds, NoLines, ChargeIds

\* A charge Hostaway accepts is one posting.
LEMMA AcceptPosts ==
  ASSUME OwnershipInv, NEW p \in Payments, NEW r \in Reservations, Accept(p, r),
         UNCHANGED alloc
  PROVE  Ledger!Post(p, r)
<1>1. nCharges + 1 \in ChargeIds /\ nCharges + 1 > nCharges
  BY BoundsAssumption DEF OwnershipInv, TypeOK, Accept, ChargeIds
<1>2. charge[nCharges + 1].st = "unused"
  BY <1>1 DEF OwnershipInv
<1> QED
  BY <1>1, <1>2 DEF Accept, Ledger!Post, Ledger!LedgerIds, ChargeIds

\* The line's charge is posted, whether or not the answer gets back.
LEMMA ChargeLedger ==
  ASSUME OwnershipInv, NEW w \in Workers, ChargeCreate(w) \/ ChargeFail(w)
  PROVE  Ledger!LedgerNext \/ UNCHANGED Books
<1> DEFINE s == worker[w]
<1>1. s \in WorkerState /\ LocalsOK(s) /\ s.pc = "charge"
  BY DEF OwnershipInv, TypeOK, ChargeCreate, ChargeFail
<1>2. s.p \in Payments /\ s.todo \in SUBSET Reservations
  BY <1>1 DEF LocalsOK, PaymentPcs, WorkerState
<1>3. UNCHANGED alloc
  BY DEF ChargeCreate, ChargeFail
<1>4. UNCHANGED charge \/ \E r \in s.todo : Accept(s.p, r)
  BY DEF ChargeCreate, ChargeFail, chargeVars
<1>5. CASE \E r \in s.todo : Accept(s.p, r)
  BY <1>2, <1>3, <1>5, AcceptPosts DEF Ledger!LedgerNext
<1> QED
  BY <1>3, <1>4, <1>5 DEF Books

\* A charge a handler cancels is one that was posted; cancelling it again
\* changes nothing.
LEMMA CancelLedger ==
  ASSUME OwnershipInv, NEW w \in Workers, CancelCharge(w)
  PROVE  Ledger!LedgerNext \/ UNCHANGED Books
<1> DEFINE s == worker[w]
<1>1. /\ s \in WorkerState /\ LocalsOK(s) /\ s.pc = "cancel"
      /\ charge \in [ChargeIds -> ChargeRow]
      /\ UNCHANGED alloc
  BY DEF OwnershipInv, TypeOK, CancelCharge
<1>2. PICK r \in s.todo :
         \/ charge' = [charge EXCEPT ![s.done[r]].st = "cancelled"]
         \/ UNCHANGED charge
  BY DEF CancelCharge
<1>3. r \in Reservations /\ s.done[r] \in ChargeIds
  BY <1>1 DEF WorkerState, LocalsOK
<1>4. charge[s.done[r]].st \in {"paid", "cancelled"}
  BY <1>1, <1>3 DEF OwnershipInv, ChargeOwnership, Made, ChargeRow
<1>5. CASE charge[s.done[r]].st = "paid"
  BY <1>1, <1>2, <1>3, <1>5
     DEF Ledger!LedgerNext, Ledger!Cancel, Ledger!LedgerIds, ChargeIds, Books
<1>6. CASE charge[s.done[r]].st = "cancelled"
  <2>1. [charge EXCEPT ![s.done[r]].st = "cancelled"] = charge
    BY <1>1, <1>3, <1>6 DEF ChargeRow
  <2> QED
    BY <1>1, <1>2, <2>1 DEF Books
<1> QED
  BY <1>4, <1>5, <1>6

\* Lines that do not clash with the payment's own and hold its own charges
\* are an assignment.
LEMMA BookedAssigns ==
  ASSUME OwnershipInv, NEW s, s.p \in Payments, s.done \in [Reservations -> Slots],
         \A r \in Reservations : s.done[r] \in ChargeIds => Made(charge, s.done[r], s.p, r),
         ~Clash(s), NEW status, NEW error, Booked(s, status, error), UNCHANGED charge
  PROVE  Ledger!LedgerNext
<1>1. s.done \in [Reservations -> Ledger!LedgerIds \cup {None, Offline}]
  BY DEF Slots, ChargeIds, Ledger!LedgerIds
<1>2. ASSUME NEW r \in Reservations, s.done[r] # None
      PROVE  \/ alloc[s.p][r] = None /\ s.done[r] = Offline
             \/ /\ alloc[s.p][r] = None /\ s.done[r] \in Ledger!LedgerIds
                /\ charge[s.done[r]].st # "unused"
                /\ charge[s.done[r]].res = r /\ charge[s.done[r]].pay = s.p
  <2>1. alloc[s.p][r] = None
    BY <1>2 DEF Clash
  <2>2. s.done[r] = Offline \/ s.done[r] \in ChargeIds
    BY <1>2 DEF Slots
  <2> QED
    BY <2>1, <2>2 DEF Made, ChargeIds, Ledger!LedgerIds
<1>3. Ledger!Assign(s.p, s.done)
  BY <1>2 DEF Booked, Ledger!Assign
<1> QED
  BY <1>1, <1>3 DEF Ledger!LedgerNext

\* Both ways to write the result book what the handler holds.
LEMMA CommitLedger ==
  ASSUME OwnershipInv, NEW w \in Workers, Commit(w) \/ CommitOffline(w)
  PROVE  Ledger!LedgerNext \/ UNCHANGED Books
<1> DEFINE s == worker[w]
           t == [s EXCEPT !.done = [NoLines EXCEPT ![s.first] = Offline]]
<1>1. /\ s \in WorkerState /\ LocalsOK(s) /\ s.pc \in {"commit", "commitOffline"}
      /\ \A r \in Reservations : s.done[r] \in ChargeIds => Made(charge, s.done[r], s.p, r)
      /\ UNCHANGED charge
  BY DEF OwnershipInv, TypeOK, ChargeOwnership, Commit, CommitOffline, chargeVars
<1>2. /\ s.p \in Payments /\ s.first \in Reservations
      /\ s.done \in [Reservations -> Slots]
  BY <1>1 DEF LocalsOK, PaymentPcs, WorkerState
<1>3. CASE Commit(w)
  <2>1. UNCHANGED alloc \/ (~Clash(s) /\ \E status \in Statuses : Booked(s, status, "none"))
    BY <1>3 DEF Commit, Statuses, Applied
  <2> QED
    BY <1>1, <1>2, <2>1, BookedAssigns DEF Books
<1>4. CASE CommitOffline(w)
  <2>1. UNCHANGED alloc \/ (~Clash(t) /\ Booked(t, "AUTO_APPLIED", "none"))
    BY <1>4 DEF CommitOffline
  <2>2. t.p = s.p /\ t.done = [NoLines EXCEPT ![s.first] = Offline]
    BY <1>1 DEF WorkerState
  <2>3. t.done \in [Reservations -> Slots]
    BY <2>2 DEF NoLines, Slots
  <2>4. \A r \in Reservations : t.done[r] \notin ChargeIds
    BY <2>2, <1>2, NullAssumption DEF NoLines
  <2> HIDE DEF t
  <2> QED
    BY <1>1, <1>2, <2>1, <2>2, <2>3, <2>4, BookedAssigns DEF Books
<1> QED
  BY <1>3, <1>4

\* An undo takes back all lines of its payment.
LEMMA ClearLedger ==
  ASSUME OwnershipInv, NEW w \in Workers, ClearAllocations(w)
  PROVE  Ledger!LedgerNext
<1>1. worker[w].p \in Payments
  BY DEF OwnershipInv, TypeOK, ClearAllocations, LocalsOK, PaymentPcs
<1> QED
  BY <1>1 DEF ClearAllocations, chargeVars, Ledger!LedgerNext, Ledger!Release,
              Ledger!Free, NoLines

\* Every step is a step of the ledger or leaves it alone.
LEMMA NextLedger ==
  OwnershipInv /\ [Next]_vars => [Ledger!LedgerNext]_(Ledger!ledger)
<1> SUFFICES ASSUME OwnershipInv, [Next]_vars
             PROVE  Ledger!LedgerNext \/ UNCHANGED Books
  BY DEF Ledger!ledger, Books
<1>1. ASSUME NEW w \in Workers, Step(w) PROVE Ledger!LedgerNext \/ UNCHANGED Books
  <2>1. CASE ChargeCreate(w) \/ ChargeFail(w)
    BY <2>1, ChargeLedger
  <2>2. CASE CancelCharge(w)
    BY <2>2, CancelLedger
  <2>3. CASE Commit(w) \/ CommitOffline(w)
    BY <2>3, CommitLedger
  <2>4. CASE ClearAllocations(w)
    BY <2>4, ClearLedger
  <2>5. CASE Create(w) \/ LoadPending(w) \/ BatchNext(w) \/ BatchEnd(w) \/ Reconcile(w)
    BY <2>5 DEF Create, LoadPending, BatchNext, BatchEnd, Reconcile, chargeVars, Books
  <2>6. CASE Settle(w) \/ SettleFailed(w) \/ ApplyOffline(w) \/ InboxNote(w) \/ InboxThrows(w)
    BY <2>6 DEF Settle, SettleFailed, ApplyOffline, InboxNote, InboxThrows, chargeVars, Books
  <2>7. CASE Record(w) \/ UndoRead(w) \/ ForgetCharge(w) \/ ResetPayment(w)
    BY <2>7 DEF Record, UndoRead, ForgetCharge, ResetPayment, chargeVars, Books
  <2>8. CASE FetchCharges(w) \/ Baseline(w) \/ NoteCharge(w) \/ NoteRow(w)
    BY <2>8 DEF FetchCharges, Baseline, NoteCharge, NoteRow, chargeVars, Books
  <2> QED
    BY <1>1, <2>1, <2>2, <2>3, <2>4, <2>5, <2>6, <2>7, <2>8 DEF Step, Apply, Undo
<1>2. ASSUME NEW w \in Workers, Call(w) PROVE UNCHANGED Books
  BY <1>2 DEF Call, IngestCall, PollStart, ConfirmCall, RetryCall, UndoCall, PlanUpsert,
              PlanDelete, HostawayUpdate, chargeVars, Books
<1>3. CASE \E p \in Payments : SkipReview(p)
  BY <1>3 DEF SkipReview, chargeVars, Books
<1>4. CASE PollStartThrows \/ (\E r \in Reservations : ListingSync(r)) \/ Crash
  BY <1>4 DEF PollStartThrows, ListingSync, Crash, chargeVars, Books
<1>5. CASE UNCHANGED vars
  BY <1>5 DEF vars, chargeVars, Books
<1> QED
  BY <1>1, <1>2, <1>3, <1>4, <1>5 DEF Next

\* The payment handlers implement the ledger: whatever they interleave with,
\* wherever a call fails and whenever the process restarts, no line of an
\* allocation is overwritten or points to money made for something else, no
\* cancelled charge comes back, and a payment is taken back as a whole.
THEOREM LedgerTheorem == Spec => KeepsLedger
<1>1. Init => Ledger!LedgerInit
  BY InitLedger
<1>2. OwnershipInv /\ [Next]_vars => [Ledger!LedgerNext]_(Ledger!ledger)
  BY NextLedger
<1> QED
  BY <1>1, <1>2, OwnershipTheorem, PTL DEF Spec, KeepsLedger, Ledger!LedgerSpec

----------------------------------------------------------------------------
(* A payment and its lines agree.  What has to be shown is that a charge a *)
(* handler may still cancel or store is nobody else's: it stands in no     *)
(* allocation and on no payment row, no second handler holds it, and it is *)
(* paid until the handler itself rolls it back.  Only the handlers of      *)
(* undoApplication hold charges that are also in the rows, and those store *)
(* nothing.                                                                *)

UndoJobs == {"undo", "planUndo"}
Booking == {"charge", "inbox", "record", "commit"}
Unwinding == {"cancel", "forget", "clear"}

\* Charge c is in the hand of the handler with locals s.
Holds(s, c) ==
    \/ \E r \in Reservations : s.done[r] = c
    \/ s.pc \in {"inbox", "record"} /\ s.c = c

\* Undoing and booking are apart, and a commit has a line to store.
Course(s) ==
    /\ s.job \in UndoJobs => s.pc \notin Booking
    /\ s.pc = "undo" => s.job \in UndoJobs
    /\ s.pc = "commit" => \E r \in Reservations : s.done[r] # None

\* A charge held for booking is this handler's alone.
OwnHand ==
    \A w \in Workers : worker[w].job \notin UndoJobs =>
        \A c \in ChargeIds : Holds(worker[w], c) =>
            /\ \A p \in Payments : payment[p].charge # c
            /\ \A p \in Payments, r \in Reservations : alloc[p][r] # c
            /\ \A v \in Workers : v # w => ~Holds(worker[v], c)
            /\ worker[w].pc \in Booking => charge[c].st = "paid"

Hands ==
    /\ \A w \in Workers : Course(worker[w])
    /\ OwnHand
    /\ \A p \in Payments :
          payment[p].charge # None => charge[payment[p].charge].st # "unused"

\* AllocationsAgree made inductive.
AllocInv == OwnershipInv /\ Hands /\ AllocationsAgree

\* A handler with locals s moves on to t, holding no more than before; an
\* undo stays with its payment until the allocations are gone.
Follows(s, t) ==
    /\ Course(t)
    /\ \A c \in ChargeIds : Holds(t, c) =>
          /\ Holds(s, c)
          /\ t.job = s.job
          /\ t.pc \in Booking => s.pc \in Booking
    /\ s.pc # "reset"
    /\ s.job \in UndoJobs /\ s.pc \in Unwinding =>
          t.p = s.p /\ t.job = s.job /\ t.pc \in Unwinding

\* A step that stores nothing and takes nothing back.
Tame(w) ==
    /\ UNCHANGED <<alloc, crashes>>
    /\ \A c \in ChargeIds : charge[c].st # "unused" => charge'[c].st = charge[c].st
    /\ \A p \in Payments :
          /\ payment'[p].charge = payment[p].charge
          /\ payment'[p].status \in Applied => payment[p].status \in Applied
    /\ \E t \in WorkerState : Go(w, t) /\ Follows(worker[w], t)

\* Charges in the rows and in a hand are in use.
LEMMA HeldUsed ==
  ASSUME OwnershipInv
  PROVE  /\ \A w \in Workers, c \in ChargeIds : Holds(worker[w], c) => charge[c].st # "unused"
         /\ \A p \in Payments, r \in Reservations :
               alloc[p][r] \in ChargeIds => charge[alloc[p][r]].st # "unused"
<1>1. ASSUME NEW w \in Workers, NEW c \in ChargeIds, Holds(worker[w], c)
      PROVE  charge[c].st # "unused"
  BY <1>1 DEF OwnershipInv, ChargeOwnership, HandOK, Made, Holds
<1> QED
  BY <1>1 DEF OwnershipInv, ChargeOwnership, Made

\* Tame steps keep the hands apart.
LEMMA TameHands ==
  ASSUME AllocInv, NEW w \in Workers, Tame(w)
  PROVE  Hands'
<1>1. PICK t \in WorkerState : Go(w, t) /\ Follows(worker[w], t)
  BY DEF Tame
<1>2. /\ worker \in [Workers -> WorkerState]
      /\ worker' = [worker EXCEPT ![w] = t]
      /\ payment \in [Payments -> PaymentRow]
  BY <1>1 DEF AllocInv, OwnershipInv, TypeOK, Go
<1>3. ASSUME NEW v \in Workers PROVE Course(worker'[v])
  BY <1>1, <1>2 DEF Follows, AllocInv, Hands
<1>4. ASSUME NEW v \in Workers, NEW c \in ChargeIds, Holds(worker'[v], c)
      PROVE  /\ Holds(worker[v], c)
             /\ worker'[v].job = worker[v].job
             /\ worker'[v].pc \in Booking => worker[v].pc \in Booking
             /\ charge'[c].st = charge[c].st
  <2>1. /\ Holds(worker[v], c)
        /\ worker'[v].job = worker[v].job
        /\ worker'[v].pc \in Booking => worker[v].pc \in Booking
    BY <1>1, <1>2, <1>4 DEF Follows
  <2>2. charge[c].st # "unused"
    BY <2>1, HeldUsed DEF AllocInv
  <2> QED
    BY <2>1, <2>2 DEF Tame
<1>5. OwnHand'
  <2> SUFFICES ASSUME NEW v \in Workers, worker'[v].job \notin UndoJobs,
                      NEW c \in ChargeIds, Holds(worker'[v], c)
               PROVE  /\ \A p \in Payments : payment'[p].charge # c
                      /\ \A p \in Payments, r \in Reservations : alloc'[p][r] # c
                      /\ \A u \in Workers : u # v => ~Holds(worker'[u], c)
                      /\ worker'[v].pc \in Booking => charge'[c].st = "paid"
    BY DEF OwnHand, Holds
  <2>1. /\ \A p \in Payments : payment[p].charge # c
        /\ \A p \in Payments, r \in Reservations : alloc[p][r] # c
        /\ \A u \in Workers : u # v => ~Holds(worker[u], c)
        /\ worker[v].pc \in Booking => charge[c].st = "paid"
    BY <1>4 DEF AllocInv, Hands, OwnHand
  <2> QED
    BY <1>4, <2>1 DEF Tame
<1>6. ASSUME NEW p \in Payments, payment'[p].charge # None
      PROVE  charge'[payment'[p].charge].st # "unused"
  <2>1. payment'[p].charge = payment[p].charge /\ payment[p].charge \in ChargeIds
    BY <1>2, <1>6 DEF Tame, PaymentRow
  <2> QED
    BY <1>6, <2>1 DEF Tame, AllocInv, Hands
<1> QED
  BY <1>3, <1>5, <1>6 DEF Hands

\* Tame steps keep payments and lines in agreement.
LEMMA TameAgrees ==
  ASSUME AllocInv, NEW w \in Workers, Tame(w)
  PROVE  AllocationsAgree'
<1>1. PICK t \in WorkerState : Go(w, t) /\ Follows(worker[w], t)
  BY DEF Tame
<1>2. /\ worker \in [Workers -> WorkerState]
      /\ worker' = [worker EXCEPT ![w] = t]
      /\ alloc' = alloc /\ crashes' = crashes
  BY <1>1 DEF AllocInv, OwnershipInv, TypeOK, Go, Tame
<1>3. ASSUME NEW p \in Payments, Cancelling(p) PROVE Cancelling(p)'
  BY <1>1, <1>2, <1>3 DEF Cancelling, Follows, UndoJobs, Unwinding
<1>4. CancelledNotAllocated'
  BY <1>2, <1>3, HeldUsed DEF CancelledNotAllocated, AllocInv, AllocationsAgree, Tame
<1>5. AppliedIsAllocated'
  BY <1>1, <1>2 DEF AppliedIsAllocated, AllocInv, AllocationsAgree, Tame, Follows
<1> QED
  BY <1>4, <1>5 DEF AllocationsAgree

\* Locals that keep the lines and the job, and do not go back to booking.
LEMMA StayFollows ==
  ASSUME NEW s \in WorkerState, NEW t \in WorkerState,
         t.done = s.done, t.job = s.job, s.pc # "reset",
         t.pc \notin {"inbox", "commit", "undo"},
         t.pc = "record" => s.pc = "inbox" /\ t.c = s.c,
         t.pc = "charge" => s.pc \in Booking,
         s.job \in UndoJobs => t.pc # "charge",
         s.pc \in Unwinding => t.pc \in Unwinding /\ t.p = s.p,
         t.pc = "record" => s.job \notin UndoJobs
  PROVE  Follows(s, t)
BY DEF Follows, Course, Holds, Booking

\* Locals that hold nothing.
LEMMA EmptyFollows ==
  ASSUME NEW s \in WorkerState, NEW t \in WorkerState,
         \A r \in Reservations : t.done[r] = None,
         t.pc \notin {"inbox", "record", "commit"},
         t.job \in UndoJobs => t.pc # "charge",
         t.pc = "undo" => t.job \in UndoJobs,
         s.pc # "reset", s.job \in UndoJobs => s.pc \notin Unwinding
  PROVE  Follows(s, t)
BY NullAssumption DEF Follows, Course, Holds, Booking

LEMMA IdleFollows ==
  ASSUME NEW s \in WorkerState, s.pc # "reset", s.job \in UndoJobs => s.pc \notin Unwinding
  PROVE  /\ IdleWorker \in WorkerState /\ Follows(s, IdleWorker)
         /\ Return(s) \in WorkerState /\ Follows(s, Return(s))
<1>1. IdleWorker \in WorkerState /\ Return(s) \in WorkerState
  BY IdleSound, ReturnSound DEF Sound
<1>2. /\ \A r \in Reservations : IdleWorker.done[r] = None
      /\ IdleWorker.pc = "idle"
  BY DEF IdleWorker, NoLines
<1>3. \A r \in Reservations : Return(s).done[r] = None
  BY DEF Return, IdleWorker, NoLines
<1>4. Return(s).pc \in {"idle", "batch"}
  BY DEF Return, IdleWorker
<1> QED
  BY <1>1, <1>2, <1>3, <1>4, EmptyFollows

\* A line booked under a charge that was in hand, or under none.
LEMMA LineFollows ==
  ASSUME NEW s \in WorkerState, s.pc \in {"charge", "inbox", "record"}, s.job \notin UndoJobs,
         NEW r \in Reservations, NEW slot \in Slots \ {None},
         slot = Offline \/ (s.pc \in {"inbox", "record"} /\ slot = s.c)
  PROVE  LineDone(s, r, slot) \in WorkerState /\ Follows(s, LineDone(s, r, slot))
<1> DEFINE t == LineDone(s, r, slot)
<1>1. t \in WorkerState
  BY DEF LineDone, WorkerState, Pcs
<1>2. /\ t.pc \in {"commit", "charge"} /\ t.job = s.job
      /\ t.done = [s.done EXCEPT ![r] = slot]
      /\ s.done \in [Reservations -> Slots]
  BY DEF LineDone, WorkerState
<1> HIDE DEF t
<1>3. t.done[r] # None
  BY <1>2
<1>4. Course(t)
  BY <1>2, <1>3 DEF Course, UndoJobs
<1>5. ASSUME NEW c \in ChargeIds, Holds(t, c) PROVE Holds(s, c)
  BY <1>2, <1>5, NullAssumption DEF Holds
<1> QED
  BY <1>1, <1>2, <1>4, <1>5 DEF Follows, Booking, t

\* Whatever becomes of a failed line, nothing new is held.
LEMMA FailedFollows ==
  ASSUME NEW s \in WorkerState, s.pc \in {"charge", "inbox", "commit"}, s.job \notin UndoJobs,
         s.pc = "commit" => ~Manual(s),
         NEW r \in Reservations, NEW archived \in BOOLEAN
  PROVE  Failed(s, r, archived) \in WorkerState /\ Follows(s, Failed(s, r, archived))
<1> DEFINE made == {x \in Reservations : s.done[x] \in ChargeIds}
           t == [s EXCEPT !.pc = "cancel", !.todo = made, !.c = None]
<1>1. t \in WorkerState /\ Follows(s, t)
  <2>1. t \in WorkerState
    BY Names DEF WorkerState
  <2>2. t.done = s.done /\ t.job = s.job /\ t.pc = "cancel"
    BY DEF WorkerState
  <2> QED
    BY <2>1, <2>2, StayFollows DEF Unwinding
<1>2. Rollback(s) \in WorkerState /\ Follows(s, Rollback(s))
  BY <1>1, IdleFollows DEF Rollback
<1>3. ASSUME s.pc # "commit"
      PROVE  /\ LineDone(s, r, Offline) \in WorkerState
             /\ Follows(s, LineDone(s, r, Offline))
  BY <1>3, LineFollows, NullAssumption DEF Slots
<1>4. ASSUME NEW pc \in {"commitOffline", "settleFailed"}
      PROVE  LET u == [s EXCEPT !.c = None, !.pc = pc]
             IN  u \in WorkerState /\ Follows(s, u)
  <2> DEFINE u == [s EXCEPT !.c = None, !.pc = pc]
  <2>1. u \in WorkerState
    BY DEF WorkerState, Pcs
  <2>2. u.done = s.done /\ u.job = s.job /\ u.pc = pc
    BY DEF WorkerState
  <2> HIDE DEF u
  <2>3. Follows(s, u)
    BY <2>1, <2>2, StayFollows DEF Unwinding
  <2> QED
    BY <2>1, <2>3 DEF u
<1> QED
  BY <1>2, <1>3, <1>4 DEF Failed, LineFailed

\* A step that writes no row and moves on as Follows allows is tame.
LEMMA TameBy ==
  ASSUME NEW w \in Workers, UNCHANGED <<alloc, charge, payment, crashes>>,
         \E t \in WorkerState : Go(w, t) /\ Follows(worker[w], t)
  PROVE  Tame(w)
BY DEF Tame

\* An exception outside of an undo's own writes.
LEMMA AbortTame ==
  ASSUME NEW w \in Workers, worker[w] \in WorkerState, Abort(w),
         worker[w].pc # "reset", worker[w].pc \notin Unwinding
  PROVE  \E t \in WorkerState : Go(w, t) /\ Follows(worker[w], t)
BY IdleFollows DEF Abort

\* Requests.
LEMMA CallTame ==
  ASSUME OwnershipInv, NEW w \in Workers, Call(w)
  PROVE  Tame(w)
<1>1. PICK t : Go(w, t) /\ Begins(t)
  BY CallBegins
<1>2. worker[w] \in WorkerState /\ worker[w].pc = "idle" /\ t \in WorkerState
  BY <1>1, CallBegins DEF OwnershipInv, TypeOK, Begins
<1>3. /\ \A r \in Reservations : t.done[r] = None
      /\ t.pc \notin {"inbox", "record", "commit"}
      /\ t.job \in UndoJobs => t.pc # "charge"
      /\ t.pc = "undo" => t.job \in UndoJobs
  BY <1>1 DEF Begins, NoLines, UndoJobs
<1>4. Follows(worker[w], t)
  BY <1>2, <1>3, EmptyFollows DEF Unwinding
<1> QED
  BY <1>1, <1>2, <1>4, CallBegins, TameBy DEF rowVars

\* The loops.
LEMMA LoopTame ==
  ASSUME OwnershipInv, NEW w \in Workers,
         Create(w) \/ LoadPending(w) \/ BatchNext(w) \/ BatchEnd(w)
  PROVE  Tame(w)
<1> DEFINE s == worker[w]
<1>0. /\ s \in WorkerState /\ LocalsOK(s)
      /\ payment \in [Payments -> PaymentRow]
  BY DEF OwnershipInv, TypeOK
<1>1. CASE Create(w)
  <2>1. s.pc = "create" /\ s.p \in Payments
    BY <1>0, <1>1 DEF Create, LocalsOK, PaymentPcs
  <2>2. UNCHANGED <<alloc, charge, crashes>>
    BY <1>1 DEF Create, chargeVars
  <2>3. \A p \in Payments :
           /\ payment'[p].charge = payment[p].charge
           /\ payment'[p].status \in Applied => payment[p].status \in Applied
    BY <1>0, <1>1, <2>1 DEF Create, PaymentRow, Applied
  <2>4. CASE Go(w, [s EXCEPT !.pc = "reconcile"])
    <3> DEFINE t == [s EXCEPT !.pc = "reconcile"]
    <3>1. t \in WorkerState /\ t.done = s.done /\ t.job = s.job /\ t.pc = "reconcile"
      BY <1>0, Names DEF WorkerState
    <3> HIDE DEF t
    <3>2. Follows(s, t)
      BY <1>0, <2>1, <3>1, StayFollows DEF Unwinding
    <3> QED
      BY <2>2, <2>3, <2>4, <3>1, <3>2 DEF Tame, t
  <2>5. CASE Abort(w)
    <3>1. \E t \in WorkerState : Go(w, t) /\ Follows(s, t)
      BY <1>0, <2>1, <2>5, AbortTame DEF Unwinding
    <3> QED
      BY <2>2, <2>3, <3>1 DEF Tame
  <2> QED
    BY <1>1, <2>4, <2>5 DEF Create
<1>2. CASE LoadPending(w)
  <2> DEFINE ps == {p \in Payments : payment[p].status = "PENDING_REVIEW"}
             t == [s EXCEPT !.pc = "batch", !.batch = ps]
  <2>1. ps \in SUBSET Payments
    OBVIOUS
  <2>2. Go(w, t) /\ s.pc = "pending"
    BY <1>2 DEF LoadPending
  <2> HIDE DEF ps
  <2>3. t \in WorkerState /\ t.done = s.done /\ t.job = s.job /\ t.pc = "batch"
    BY <1>0, <2>1, Names DEF WorkerState
  <2> HIDE DEF t
  <2>4. Follows(s, t)
    BY <1>0, <2>2, <2>3, StayFollows DEF Unwinding
  <2> QED
    BY <1>2, <2>2, <2>3, <2>4, TameBy DEF LoadPending, chargeVars, envVars
<1>3. CASE BatchNext(w)
  <2>1. s.pc = "batch" /\ s.done = NoLines /\ UNCHANGED <<alloc, charge, payment, crashes>>
    BY <1>0, <1>3 DEF BatchNext, LocalsOK, chargeVars, envVars
  <2>2. PICK p \in s.batch :
          \/ Go(w, [s EXCEPT !.batch = @ \ {p}])
          \/ Go(w, [[s EXCEPT !.batch = @ \ {p}] EXCEPT !.p = p, !.pc = FirstPc(s.job)])
    BY <1>3 DEF BatchNext
  <2> DEFINE t == [s EXCEPT !.batch = @ \ {p}]
             u == [t EXCEPT !.p = p, !.pc = FirstPc(s.job)]
  <2>3. p \in Payments /\ FirstPc(s.job) \in Pcs
    BY <1>0, Names DEF WorkerState, FirstPc
  <2>4. /\ FirstPc(s.job) \in {"create", "undo", "reconcile"}
        /\ FirstPc(s.job) = "undo" => s.job = "planUndo"
    BY DEF FirstPc
  <2>5. t \in WorkerState /\ t.done = s.done /\ t.job = s.job /\ t.pc = "batch"
    BY <1>0, <2>1 DEF WorkerState
  <2>6. u \in WorkerState /\ u.done = s.done /\ u.job = s.job /\ u.pc = FirstPc(s.job)
    BY <2>3, <2>5 DEF WorkerState
  <2> HIDE DEF u, t
  <2>7. Follows(s, t) /\ Follows(s, u)
    <3>1. \A r \in Reservations : t.done[r] = None /\ u.done[r] = None
      BY <2>1, <2>5, <2>6 DEF NoLines
    <3> QED
      BY <1>0, <2>1, <2>4, <2>5, <2>6, <3>1, EmptyFollows DEF Unwinding, UndoJobs
  <2> QED
    BY <2>1, <2>2, <2>5, <2>6, <2>7, TameBy DEF t, u
<1>4. CASE BatchEnd(w)
  <2>1. s.pc = "batch" /\ UNCHANGED <<alloc, charge, payment, crashes>>
    BY <1>4 DEF BatchEnd, chargeVars
  <2> DEFINE R(job) == [IdleWorker EXCEPT !.pc = "pending", !.job = job]
  <2>2. \E job \in {"pollRematch", "planRematch"} : Go(w, IdleWorker) \/ Go(w, R(job))
    BY <1>4 DEF BatchEnd
  <2>3. ASSUME NEW job \in {"pollRematch", "planRematch"}
        PROVE  R(job) \in WorkerState /\ Follows(s, R(job))
    <3>1. R(job) \in WorkerState
      BY IdleHolds, Names DEF WorkerState
    <3>2. R(job).done = NoLines /\ R(job).pc = "pending" /\ R(job).job = job
      BY DEF IdleWorker
    <3>3. \A r \in Reservations : R(job).done[r] = None
      BY <3>2 DEF NoLines
    <3> HIDE DEF R
    <3> QED
      BY <1>0, <2>1, <3>1, <3>2, <3>3, EmptyFollows DEF Unwinding
  <2>4. IdleWorker \in WorkerState /\ Follows(s, IdleWorker)
    BY <1>0, <2>1, IdleFollows DEF Unwinding
  <2> HIDE DEF R
  <2> QED
    BY <2>1, <2>2, <2>3, <2>4, TameBy
<1> QED
  BY <1>1, <1>2, <1>3, <1>4

\* reconcile: it takes up a payment with empty hands.
LEMMA ReconcileTame ==
  ASSUME OwnershipInv, NEW w \in Workers, Reconcile(w)
  PROVE  Tame(w)
<1> DEFINE s == worker[w]
           u == [s EXCEPT !.todo = {}, !.done = NoLines, !.first = None, !.c = None]
<1>0. /\ s \in WorkerState /\ s.pc = "reconcile"
      /\ UNCHANGED <<alloc, charge, payment, crashes>>
  BY DEF OwnershipInv, TypeOK, Reconcile, chargeVars, envVars
<1>1. u \in WorkerState /\ u.done = NoLines /\ u.job = s.job
  BY <1>0 DEF WorkerState, NoLines, Slots
<1>2. ASSUME NEW t \in WorkerState, t.done = NoLines, t.job = s.job,
             \/ t.pc = "settle"
             \/ t.pc = "charge" /\ s.job \notin UndoJobs
      PROVE  Follows(s, t)
  <2>1. \A r \in Reservations : t.done[r] = None
    BY <1>2 DEF NoLines
  <2> QED
    BY <1>0, <1>2, <2>1, EmptyFollows DEF Unwinding
<1>3. CASE Go(w, Return(s))
  BY <1>0, <1>3, IdleFollows, TameBy DEF Unwinding
<1>4. ASSUME NEW best \in Reservations, TryAutoApply(s, s.p, best),
             Go(w, [u EXCEPT !.pc = "charge", !.todo = {best}, !.first = best,
                             !.off = best \in offline])
      PROVE  Tame(w)
  <2> DEFINE off == best \in offline
             t == [u EXCEPT !.pc = "charge", !.todo = {best}, !.first = best, !.off = off]
  <2>0. off \in BOOLEAN
    OBVIOUS
  <2> HIDE DEF u, off
  <2>1. t \in WorkerState
    BY <1>1, <2>0, Names DEF WorkerState
  <2>2. t.done = NoLines /\ t.job = s.job /\ t.pc = "charge"
    BY <1>1 DEF WorkerState
  <2>3. s.job \notin UndoJobs
    BY <1>4 DEF TryAutoApply, AllowAuto, UndoJobs
  <2>4. Go(w, t)
    BY <1>4 DEF u, off
  <2> HIDE DEF t
  <2>5. Follows(s, t)
    BY <1>2, <2>1, <2>2, <2>3
  <2> QED
    BY <1>0, <2>1, <2>4, <2>5, TameBy
<1>5. ASSUME NEW best \in Reservations,
             Go(w, [u EXCEPT !.pc = "settle", !.status = "PENDING_REVIEW", !.first = best])
      PROVE  Tame(w)
  <2> DEFINE t == [u EXCEPT !.pc = "settle", !.status = "PENDING_REVIEW", !.first = best]
  <2> HIDE DEF u
  <2>1. t \in WorkerState
    BY <1>1, Names DEF WorkerState
  <2>2. t.done = NoLines /\ t.job = s.job /\ t.pc = "settle"
    BY <1>1 DEF WorkerState
  <2> HIDE DEF t
  <2>3. Follows(s, t)
    BY <1>2, <2>1, <2>2
  <2> QED
    BY <1>0, <1>5, <2>1, <2>3, TameBy DEF t, u
<1>6. ASSUME NEW status \in {"PENDING_REVIEW", "SKIPPED"},
             Go(w, [u EXCEPT !.pc = "settle", !.status = status])
      PROVE  Tame(w)
  <2> DEFINE t == [u EXCEPT !.pc = "settle", !.status = status]
  <2> HIDE DEF u
  <2>1. t \in WorkerState
    BY <1>1, Names DEF WorkerState
  <2>2. t.done = NoLines /\ t.job = s.job /\ t.pc = "settle"
    BY <1>1 DEF WorkerState
  <2> HIDE DEF t
  <2>3. Follows(s, t)
    BY <1>2, <2>1, <2>2
  <2> QED
    BY <1>0, <1>6, <2>1, <2>3, TameBy DEF t, u
<1> QED
  BY <1>3, <1>4, <1>5, <1>6 DEF Reconcile

\* Writing a verdict into the row takes a payment out of Applied at most.
LEMMA SettleTame ==
  ASSUME OwnershipInv, NEW w \in Workers, Settle(w) \/ SettleFailed(w)
  PROVE  Tame(w)
<1> DEFINE s == worker[w]
<1>0. /\ s \in WorkerState /\ LocalsOK(s)
      /\ payment \in [Payments -> PaymentRow]
      /\ s.pc \in {"settle", "settleFailed"}
      /\ Go(w, Return(s))
      /\ UNCHANGED <<alloc, charge, crashes>>
  BY DEF OwnershipInv, TypeOK, Settle, SettleFailed, chargeVars, envVars
<1>1. s.p \in Payments /\ s.status \notin Applied
  BY <1>0 DEF LocalsOK, PaymentPcs, WorkerState, Applied
<1>2. \A p \in Payments :
         /\ payment'[p].charge = payment[p].charge
         /\ payment'[p].status \in Applied => payment[p].status \in Applied
  <2>1. \E m, e, st : /\ st \notin Applied
                      /\ payment' = [payment EXCEPT ![s.p].status = st, ![s.p].matched = m,
                                                    ![s.p].error = e]
    <3>1. CASE Settle(w)
      BY <1>1, <3>1 DEF Settle
    <3>2. CASE SettleFailed(w)
      BY <3>2 DEF SettleFailed, Applied
    <3> QED
      BY <3>1, <3>2
  <2>2. PICK m, e, st : /\ st \notin Applied
                        /\ payment' = [payment EXCEPT ![s.p].status = st, ![s.p].matched = m,
                                                      ![s.p].error = e]
    BY <2>1
  <2> HIDE DEF s
  <2>3. \A p \in Payments : p # s.p => payment'[p] = payment[p]
    BY <1>0, <2>2
  <2>4. payment'[s.p] = [payment[s.p] EXCEPT !.status = st, !.matched = m, !.error = e]
        /\ payment[s.p] \in PaymentRow
    BY <1>0, <1>1, <2>2
  <2>5. payment'[s.p].charge = payment[s.p].charge /\ payment'[s.p].status = st
    BY <2>4 DEF PaymentRow
  <2> QED
    BY <2>2, <2>3, <2>5
<1>3. Return(s) \in WorkerState /\ Follows(s, Return(s))
  BY <1>0, IdleFollows DEF Unwinding
<1> QED
  BY <1>0, <1>2, <1>3 DEF Tame

\* A handler that books is not an undo.
LEMMA BookingJob ==
  ASSUME Hands, NEW w \in Workers, worker[w].pc \in Booking
  PROVE  worker[w].job \notin UndoJobs
BY DEF Hands, Course

\* The line at hand, without a commit.
LEMMA LineTame ==
  ASSUME OwnershipInv, Hands, NEW w \in Workers,
         ApplyOffline(w) \/ InboxNote(w) \/ InboxThrows(w) \/ Record(w)
  PROVE  Tame(w)
<1> DEFINE s == worker[w]
<1>0. /\ s \in WorkerState /\ LocalsOK(s) /\ HandOK(s, charge)
      /\ UNCHANGED <<alloc, charge, payment, crashes>>
  BY DEF OwnershipInv, TypeOK, ApplyOffline, InboxNote, InboxThrows, Record, chargeVars, envVars
<1>1. CASE ApplyOffline(w)
  <2>1. s.pc = "charge" /\ s.job \notin UndoJobs
    BY <1>1, BookingJob DEF ApplyOffline, Booking
  <2>2. PICK r \in s.todo \cap offline : Go(w, LineDone(s, r, Offline))
    BY <1>1 DEF ApplyOffline
  <2>3. r \in Reservations
    BY <1>0 DEF WorkerState
  <2> QED
    BY <1>0, <2>1, <2>2, <2>3, LineFollows, TameBy, NullAssumption DEF Slots
<1>2. CASE InboxNote(w)
  <2> DEFINE t == [s EXCEPT !.pc = "record"]
  <2>1. s.pc = "inbox" /\ s.job \notin UndoJobs /\ Go(w, t)
    BY <1>2, BookingJob DEF InboxNote, Booking
  <2>2. t \in WorkerState /\ t.done = s.done /\ t.job = s.job /\ t.pc = "record" /\ t.c = s.c
    BY <1>0, Names DEF WorkerState
  <2> HIDE DEF t
  <2>3. Follows(s, t)
    BY <1>0, <2>1, <2>2, StayFollows DEF Unwinding
  <2> QED
    BY <1>0, <2>1, <2>2, <2>3, TameBy
<1>3. CASE InboxThrows(w)
  <2>1. s.pc = "inbox" /\ s.job \notin UndoJobs /\ charge[s.c].res \in Reservations
    BY <1>0, <1>3, BookingJob DEF InboxThrows, Booking, HandOK
  <2>2. Go(w, Failed(s, charge[s.c].res, FALSE))
    BY <1>3 DEF InboxThrows
  <2> QED
    BY <1>0, <2>1, <2>2, FailedFollows, TameBy
<1>4. CASE Record(w)
  <2>1. /\ s.pc = "record" /\ s.job \notin UndoJobs /\ charge[s.c].res \in Reservations
        /\ s.c \in ChargeIds
    BY <1>0, <1>4, BookingJob DEF Record, Booking, HandOK, LocalsOK
  <2>2. Go(w, LineDone(s, charge[s.c].res, s.c))
    BY <1>4 DEF Record
  <2>3. s.c \in Slots \ {None}
    BY <2>1, NullAssumption DEF Slots
  <2> QED
    BY <1>0, <2>1, <2>2, <2>3, LineFollows, TameBy
<1> QED
  BY <1>1, <1>2, <1>3, <1>4

\* A failed call may have left a charge that nobody holds.
LEMMA ChargeFailTame ==
  ASSUME OwnershipInv, Hands, NEW w \in Workers, ChargeFail(w)
  PROVE  Tame(w)
<1> DEFINE s == worker[w]
<1>0. /\ s \in WorkerState /\ s.pc = "charge" /\ s.job \notin UndoJobs
      /\ UNCHANGED <<alloc, payment, crashes>>
  BY BookingJob DEF OwnershipInv, TypeOK, ChargeFail, Booking, envVars
<1>1. PICK r \in s.todo \ offline :
         /\ \E archived \in BOOLEAN : Go(w, Failed(s, r, archived))
         /\ UNCHANGED charge \/ Accept(s.p, r)
  BY DEF ChargeFail, chargeVars
<1>2. r \in Reservations
  BY <1>0 DEF WorkerState
<1>3. \E t \in WorkerState : Go(w, t) /\ Follows(s, t)
  BY <1>0, <1>1, <1>2, FailedFollows
<1>4. \A c \in ChargeIds : charge[c].st # "unused" => charge'[c].st = charge[c].st
  <2>1. CASE Accept(s.p, r)
    <3>1. /\ nCharges + 1 \in ChargeIds /\ nCharges + 1 > nCharges
          /\ charge \in [ChargeIds -> ChargeRow]
      BY <2>1, BoundsAssumption DEF OwnershipInv, TypeOK, Accept, ChargeIds
    <3>2. charge[nCharges + 1].st = "unused"
      BY <3>1 DEF OwnershipInv
    <3> QED
      BY <2>1, <3>1, <3>2 DEF Accept
  <2> QED
    BY <1>1, <2>1
<1> QED
  BY <1>0, <1>3, <1>4 DEF Tame

\* The rows of the charges a handler forgets, and the webhook's.
LEMMA RowTame ==
  ASSUME OwnershipInv, Hands, NEW w \in Workers,
         ForgetCharge(w) \/ FetchCharges(w) \/ Baseline(w) \/ NoteCharge(w) \/ NoteRow(w)
  PROVE  Tame(w)
<1> DEFINE s == worker[w]
<1>0. /\ s \in WorkerState /\ UNCHANGED <<alloc, charge, payment, crashes>>
  BY DEF OwnershipInv, TypeOK, ForgetCharge, FetchCharges, Baseline, NoteCharge, NoteRow,
         chargeVars, envVars
<1>1. IdleWorker \in WorkerState /\ (s.pc = "forget" /\ Manual(s) => Follows(s, IdleWorker))
  BY <1>0, IdleHolds, IdleFollows DEF Manual, UndoJobs
<1>2. CASE ForgetCharge(w)
  <2> DEFINE T(pc) == [s EXCEPT !.pc = pc, !.c = None]
  <2>1. s.pc = "forget"
    BY <1>2 DEF ForgetCharge
  <2>2. \/ \E pc \in {"cancel", "clear"} : Go(w, T(pc))
        \/ Manual(s) /\ Go(w, IdleWorker)
    BY <1>2 DEF ForgetCharge
  <2>3. ASSUME NEW pc \in {"cancel", "clear"}
        PROVE  T(pc) \in WorkerState /\ Follows(s, T(pc))
    <3>1. /\ T(pc) \in WorkerState /\ T(pc).done = s.done /\ T(pc).job = s.job
          /\ T(pc).pc = pc /\ T(pc).p = s.p
      BY <1>0, Names DEF WorkerState
    <3> HIDE DEF T
    <3> QED
      BY <1>0, <2>1, <3>1, StayFollows DEF Unwinding
  <2> HIDE DEF T
  <2> QED
    BY <1>0, <1>1, <2>1, <2>2, <2>3, TameBy
<1>3. CASE FetchCharges(w) \/ Baseline(w) \/ NoteCharge(w) \/ NoteRow(w)
  <2>1. s.pc \in {"fetch", "fetchFirst", "baseline", "note", "noteRow"}
    BY <1>3 DEF FetchCharges, Baseline, NoteCharge, NoteRow
  <2>2. Follows(s, IdleWorker)
    BY <1>0, <2>1, IdleFollows DEF Unwinding
  <2>3. ASSUME NEW t \in WorkerState, t.done = s.done, t.job = s.job,
               t.pc \in {"baseline", "note", "noteRow"}
        PROVE  Follows(s, t)
    BY <1>0, <2>1, <2>3, StayFollows DEF Unwinding
  <2>4. \/ Go(w, IdleWorker)
        \/ \E t \in WorkerState : /\ Go(w, t) /\ t.done = s.done /\ t.job = s.job
                                  /\ t.pc \in {"baseline", "note", "noteRow"}
    <3>1. CASE FetchCharges(w)
      <4> DEFINE new == {c \in ChargeIds : charge[c].st = "paid" /\ charge[c].res = s.r} \ s.ids
                 T(pc) == [s EXCEPT !.pc = pc, !.ids = new]
      <4>1. Go(w, IdleWorker) \/ \E pc \in {"baseline", "note"} : Go(w, T(pc))
        BY <2>1, <3>1 DEF FetchCharges
      <4>2. new \in SUBSET ChargeIds
        OBVIOUS
      <4> HIDE DEF new
      <4>3. \A pc \in {"baseline", "note"} :
               T(pc) \in WorkerState /\ T(pc).done = s.done /\ T(pc).job = s.job /\ T(pc).pc = pc
        BY <1>0, <4>2, Names DEF WorkerState
      <4> HIDE DEF T
      <4> QED
        BY <4>1, <4>3
    <3>2. CASE Baseline(w)
      BY <3>2 DEF Baseline
    <3>3. CASE NoteCharge(w)
      <4>1. PICK c \in s.ids : Go(w, [s EXCEPT !.pc = "noteRow", !.c = c, !.ids = @ \ {c}])
        BY <3>3 DEF NoteCharge
      <4> DEFINE t == [s EXCEPT !.pc = "noteRow", !.c = c, !.ids = @ \ {c}]
      <4>2. t \in WorkerState /\ t.done = s.done /\ t.job = s.job /\ t.pc = "noteRow"
        BY <1>0, Names DEF WorkerState
      <4> HIDE DEF t
      <4> QED
        BY <4>1, <4>2 DEF t
    <3>4. CASE NoteRow(w)
      <4>1. Go(w, IdleWorker) \/ Go(w, [s EXCEPT !.pc = "note", !.c = None])
        BY <3>4 DEF NoteRow
      <4> DEFINE t == [s EXCEPT !.pc = "note", !.c = None]
      <4>2. t \in WorkerState /\ t.done = s.done /\ t.job = s.job /\ t.pc = "note"
        BY <1>0, Names DEF WorkerState
      <4> HIDE DEF t
      <4> QED
        BY <4>1, <4>2 DEF t
    <3> QED
      BY <1>3, <3>1, <3>2, <3>3, <3>4
  <2> QED
    BY <1>0, <1>1, <2>2, <2>3, <2>4, TameBy
<1> QED
  BY <1>2, <1>3

\* What the non-tame steps leave to be shown of AllocationsAgree.
LEMMA AgreesBy ==
  ASSUME AllocInv, NEW w \in Workers, NEW t, Go(w, t), crashes' = crashes,
         worker[w].job \in UndoJobs /\ worker[w].pc \in Unwinding =>
            t.p = worker[w].p /\ t.job = worker[w].job /\ t.pc \in Unwinding,
         worker[w].pc # "reset",
         \A p \in Payments, r \in Reservations :
            alloc'[p][r] \in ChargeIds /\ charge'[alloc'[p][r]].st = "cancelled"
              => \/ alloc[p][r] = alloc'[p][r] /\ charge[alloc[p][r]].st = "cancelled"
                 \/ t.p = p /\ t.job \in UndoJobs /\ t.pc \in Unwinding,
         \A p \in Payments : payment'[p].status \in Applied =>
            \/ alloc'[p] # NoLines
            \/ payment[p].status \in Applied /\ alloc'[p] = alloc[p]
  PROVE  AllocationsAgree'
<1>1. worker \in [Workers -> WorkerState] /\ worker' = [worker EXCEPT ![w] = t]
  BY DEF AllocInv, OwnershipInv, TypeOK, Go
<1>2. ASSUME NEW p \in Payments,
             Cancelling(p) \/ (t.p = p /\ t.job \in UndoJobs /\ t.pc \in Unwinding)
      PROVE  Cancelling(p)'
  BY <1>1, <1>2 DEF Cancelling, UndoJobs, Unwinding
<1>3. CancelledNotAllocated'
  BY <1>2 DEF CancelledNotAllocated, AllocInv, AllocationsAgree
<1>4. AppliedIsAllocated'
  BY <1>1 DEF AppliedIsAllocated, AllocInv, AllocationsAgree
<1> QED
  BY <1>3, <1>4 DEF AllocationsAgree

\* A new charge is in nobody's hand and in no row.
LEMMA ChargeCreateAlloc ==
  ASSUME AllocInv, NEW w \in Workers, ChargeCreate(w)
  PROVE  Hands' /\ AllocationsAgree'
<1> DEFINE s == worker[w]
           c == nCharges + 1
           t == [s EXCEPT !.pc = "inbox", !.c = c]
<1>0. /\ s \in WorkerState /\ s.pc = "charge" /\ s.job \notin UndoJobs
      /\ worker \in [Workers -> WorkerState]
      /\ payment \in [Payments -> PaymentRow]
      /\ charge \in [ChargeIds -> ChargeRow]
      /\ UNCHANGED <<alloc, payment, crashes>>
  BY BookingJob DEF AllocInv, OwnershipInv, TypeOK, ChargeCreate, Booking, envVars
<1>1. /\ Go(w, t)
      /\ \E r \in s.todo : Accept(s.p, r)
  BY DEF ChargeCreate
<1>2. c \in ChargeIds /\ charge[c].st = "unused"
  <2>1. c \in ChargeIds /\ c > nCharges
    BY <1>1, BoundsAssumption DEF AllocInv, OwnershipInv, TypeOK, Accept, ChargeIds
  <2> QED
    BY <2>1 DEF AllocInv, OwnershipInv
<1>3. /\ charge'[c].st = "paid"
      /\ \A d \in ChargeIds : d # c => charge'[d] = charge[d]
  BY <1>0, <1>1, <1>2 DEF Accept
<1> HIDE DEF c
<1>4. t \in WorkerState /\ t.done = s.done /\ t.job = s.job /\ t.pc = "inbox" /\ t.c = c
  BY <1>0, <1>2, Names DEF WorkerState
<1> HIDE DEF t
<1>5. worker' = [worker EXCEPT ![w] = t]
  BY <1>1 DEF Go
<1>6. /\ \A v \in Workers : ~Holds(worker[v], c)
      /\ \A p \in Payments, r \in Reservations : alloc[p][r] # c
      /\ \A p \in Payments : payment[p].charge # c
  BY <1>2, HeldUsed, NullAssumption DEF AllocInv, Hands
<1>7. Hands'
  <2>1. ASSUME NEW v \in Workers PROVE Course(worker'[v])
    BY <1>0, <1>4, <1>5 DEF AllocInv, Hands, Course
  <2>2. ASSUME NEW v \in Workers, NEW d \in ChargeIds, Holds(worker'[v], d)
        PROVE  /\ Holds(worker[v], d) \/ (v = w /\ d = c)
               /\ worker'[v].job = worker[v].job
               /\ worker'[v].pc \in Booking => worker[v].pc \in Booking
    BY <1>0, <1>4, <1>5, <2>2 DEF Holds, Booking
  <2>3. OwnHand'
    <3> SUFFICES ASSUME NEW v \in Workers, worker'[v].job \notin UndoJobs,
                        NEW d \in ChargeIds, Holds(worker'[v], d)
                 PROVE  /\ \A p \in Payments : payment'[p].charge # d
                        /\ \A p \in Payments, r \in Reservations : alloc'[p][r] # d
                        /\ \A u \in Workers : u # v => ~Holds(worker'[u], d)
                        /\ worker'[v].pc \in Booking => charge'[d].st = "paid"
      BY DEF OwnHand, Holds
    <3>1. CASE d = c
      BY <1>0, <1>3, <1>6, <2>2, <3>1
    <3>2. CASE d # c
      <4>1. Holds(worker[v], d) /\ charge'[d] = charge[d]
        BY <1>3, <2>2, <3>2
      <4>2. /\ \A p \in Payments : payment[p].charge # d
            /\ \A p \in Payments, r \in Reservations : alloc[p][r] # d
            /\ \A u \in Workers : u # v => ~Holds(worker[u], d)
            /\ worker[v].pc \in Booking => charge[d].st = "paid"
        BY <2>2, <4>1 DEF AllocInv, Hands, OwnHand
      <4> QED
        BY <1>0, <2>2, <3>2, <4>1, <4>2
    <3> QED
      BY <3>1, <3>2
  <2>4. ASSUME NEW p \in Payments, payment'[p].charge # None
        PROVE  charge'[payment'[p].charge].st # "unused"
    <3>1. payment'[p].charge = payment[p].charge /\ payment[p].charge \in ChargeIds
      BY <1>0, <2>4 DEF PaymentRow
    <3> QED
      BY <1>3, <1>6, <2>4, <3>1 DEF AllocInv, Hands
  <2> QED
    BY <2>1, <2>3, <2>4 DEF Hands
<1>8. AllocationsAgree'
  <2>1. ASSUME NEW p \in Payments, NEW r \in Reservations, alloc'[p][r] \in ChargeIds
        PROVE  alloc'[p][r] = alloc[p][r] /\ charge'[alloc'[p][r]] = charge[alloc[p][r]]
    BY <1>0, <1>3, <1>6, <2>1
  <2> QED
    BY <1>0, <1>1, <2>1, AgreesBy DEF Unwinding
<1> QED
  BY <1>7, <1>8

\* The result of a handler is stored: what it held stands in the rows now,
\* and its hands are empty.
LEMMA BookedAlloc ==
  ASSUME AllocInv, NEW w \in Workers, NEW s \in WorkerState,
         worker[w].pc \in {"commit", "commitOffline"}, worker[w].job \notin UndoJobs \/
            \A r \in Reservations : s.done[r] \notin ChargeIds,
         s.p \in Payments, s.first \in Reservations,
         \A r \in Reservations : s.done[r] \in ChargeIds =>
            Holds(worker[w], s.done[r]) /\ worker[w].pc \in Booking,
         \E r \in Reservations : s.done[r] # None,
         NEW status \in Statuses, NEW error \in Errors, Booked(s, status, error),
         Go(w, Return(worker[w])), UNCHANGED <<charge, crashes>>
  PROVE  Hands' /\ AllocationsAgree'
<1> DEFINE u == worker[w]
           t == Return(u)
<1>0. /\ u \in WorkerState
      /\ worker \in [Workers -> WorkerState]
      /\ payment \in [Payments -> PaymentRow]
      /\ alloc \in [Payments -> [Reservations -> Slots]]
      /\ s.done \in [Reservations -> Slots]
  BY DEF AllocInv, OwnershipInv, TypeOK, WorkerState
<1>1. /\ t \in WorkerState /\ Course(t) /\ \A c \in ChargeIds : ~Holds(t, c)
      /\ worker' = [worker EXCEPT ![w] = t]
  <2>1. t \in WorkerState /\ t.pc \in {"idle", "batch"} /\ \A r \in Reservations : t.done[r] = None
    BY <1>0, ReturnSound DEF Sound, Return, IdleWorker, NoLines
  <2> HIDE DEF t
  <2>2. Course(t) /\ \A c \in ChargeIds : ~Holds(t, c)
    BY <2>1, NullAssumption DEF Course, Holds, Booking
  <2> QED
    BY <2>1, <2>2 DEF Go, t
<1> HIDE DEF t
<1>2. ASSUME NEW p \in Payments, NEW r \in Reservations
      PROVE  alloc'[p][r] = alloc[p][r] \/ (alloc'[p][r] = s.done[r] /\ p = s.p)
  BY <1>0 DEF Booked
<1>3. ASSUME NEW p \in Payments
      PROVE  \/ payment'[p].charge = payment[p].charge
             \/ payment'[p].charge = None
             \/ payment'[p].charge \in ChargeIds /\ payment'[p].charge = s.done[s.first]
  BY <1>0 DEF Booked, Slots
<1>4. ASSUME NEW r \in Reservations, s.done[r] \in ChargeIds
      PROVE  /\ charge[s.done[r]].st = "paid"
             /\ \A v \in Workers : ~Holds(worker'[v], s.done[r])
  <2>1. /\ Holds(u, s.done[r]) /\ u.pc \in Booking /\ u.job \notin UndoJobs
    BY <1>4
  <2>2. /\ charge[s.done[r]].st = "paid"
        /\ \A v \in Workers : v # w => ~Holds(worker[v], s.done[r])
    BY <1>4, <2>1 DEF AllocInv, Hands, OwnHand
  <2> QED
    BY <1>0, <1>1, <1>4, <2>2
<1>5. Hands'
  <2>1. ASSUME NEW v \in Workers PROVE Course(worker'[v])
    BY <1>0, <1>1 DEF AllocInv, Hands
  <2>2. ASSUME NEW v \in Workers, NEW c \in ChargeIds, Holds(worker'[v], c)
        PROVE  v # w /\ worker'[v] = worker[v]
    BY <1>0, <1>1, <2>2
  <2>3. OwnHand'
    <3> SUFFICES ASSUME NEW v \in Workers, worker'[v].job \notin UndoJobs,
                        NEW c \in ChargeIds, Holds(worker'[v], c)
                 PROVE  /\ \A p \in Payments : payment'[p].charge # c
                        /\ \A p \in Payments, r \in Reservations : alloc'[p][r] # c
                        /\ \A x \in Workers : x # v => ~Holds(worker'[x], c)
                        /\ worker'[v].pc \in Booking => charge'[c].st = "paid"
      BY DEF OwnHand, Holds
    <3>1. /\ \A p \in Payments : payment[p].charge # c
          /\ \A p \in Payments, r \in Reservations : alloc[p][r] # c
          /\ \A x \in Workers : x # v => ~Holds(worker[x], c)
          /\ worker[v].pc \in Booking => charge[c].st = "paid"
      BY <2>2 DEF AllocInv, Hands, OwnHand
    <3>2. \A r \in Reservations : s.done[r] # c
      BY <1>4
    <3> QED
      BY <1>2, <1>3, <2>2, <3>1, <3>2, NullAssumption
  <2>4. ASSUME NEW p \in Payments, payment'[p].charge # None
        PROVE  charge'[payment'[p].charge].st # "unused"
    BY <1>3, <1>4, <2>4 DEF AllocInv, Hands
  <2> QED
    BY <2>1, <2>3, <2>4 DEF Hands
<1>6. AllocationsAgree'
  <2>1. ASSUME NEW p \in Payments, NEW r \in Reservations,
               alloc'[p][r] \in ChargeIds, charge'[alloc'[p][r]].st = "cancelled"
        PROVE  alloc[p][r] = alloc'[p][r] /\ charge[alloc[p][r]].st = "cancelled"
    BY <1>2, <1>4, <2>1
  <2>2. ASSUME NEW p \in Payments
        PROVE  alloc'[p] # NoLines \/ (alloc'[p] = alloc[p] /\ payment'[p] = payment[p])
    <3>1. CASE p = s.p
      <4>1. PICK r \in Reservations : s.done[r] # None
        OBVIOUS
      <4>2. alloc'[p][r] # None
        BY <1>0, <3>1, <4>1 DEF Booked
      <4> QED
        BY <4>2 DEF NoLines
    <3>2. CASE p # s.p
      BY <1>0, <3>2 DEF Booked
    <3> QED
      BY <3>1, <3>2
  <2>3. Go(w, t)
    BY DEF t
  <2> QED
    BY <2>1, <2>2, <2>3, AgreesBy DEF Unwinding
<1> QED
  BY <1>5, <1>6

\* Tame steps keep the invariant's two parts.
LEMMA TameAlloc ==
  ASSUME AllocInv, NEW w \in Workers, Tame(w)
  PROVE  Hands' /\ AllocationsAgree'
BY TameHands, TameAgrees

\* The two ways to write the result, and the clashes that stop them.
LEMMA CommitAlloc ==
  ASSUME AllocInv, NEW w \in Workers, Commit(w) \/ CommitOffline(w)
  PROVE  Hands' /\ AllocationsAgree'
<1> DEFINE s == worker[w]
           t == [s EXCEPT !.done = [NoLines EXCEPT ![s.first] = Offline]]
<1>0. /\ s \in WorkerState /\ LocalsOK(s) /\ UNCHANGED <<charge, crashes>>
      /\ s.pc \in {"commit", "commitOffline"}
  BY DEF AllocInv, OwnershipInv, TypeOK, Commit, CommitOffline, chargeVars
<1>1. s.p \in Payments /\ s.first \in Reservations
  BY <1>0 DEF LocalsOK, PaymentPcs
<1>2. ASSUME UNCHANGED <<alloc, payment>>, Abort(w)
      PROVE  Hands' /\ AllocationsAgree'
  <2>1. \E u \in WorkerState : Go(w, u) /\ Follows(s, u)
    BY <1>0, <1>2, AbortTame DEF Unwinding
  <2> QED
    BY <1>0, <1>2, <2>1, TameBy, TameAlloc
<1>3. CASE Commit(w)
  <2>1. /\ s.pc = "commit" /\ s.job \notin UndoJobs
        /\ \E r \in Reservations : s.done[r] # None
    BY <1>3, BookingJob DEF AllocInv, Hands, Course, Commit, Booking
  <2>2. ASSUME NEW status \in Applied, Booked(s, status, "none"), Go(w, Return(s))
        PROVE  Hands' /\ AllocationsAgree'
    <3>1. status \in Statuses /\ "none" \in Errors
      BY DEF Statuses, Errors
    <3> QED
      BY <1>0, <1>1, <2>1, <2>2, <3>1, BookedAlloc DEF Holds, Booking
  <2>3. ASSUME ~Manual(s), Go(w, Failed(s, s.first, FALSE)), UNCHANGED <<alloc, payment>>
        PROVE  Hands' /\ AllocationsAgree'
    <3>1. \E u \in WorkerState : Go(w, u) /\ Follows(s, u)
      BY <1>0, <1>1, <2>1, <2>3, FailedFollows
    <3> QED
      BY <1>0, <2>3, <3>1, TameBy, TameAlloc
  <2> QED
    BY <1>2, <1>3, <2>2, <2>3 DEF Commit, Applied
<1>4. CASE CommitOffline(w)
  <2>1. /\ t.p = s.p /\ t.first = s.first /\ t \in WorkerState
        /\ t.done = [NoLines EXCEPT ![s.first] = Offline]
    BY <1>0 DEF WorkerState, NoLines, Slots
  <2>2. ASSUME Booked(t, "AUTO_APPLIED", "none"), Go(w, Return(s))
        PROVE  Hands' /\ AllocationsAgree'
    <3>1. "AUTO_APPLIED" \in Statuses /\ "none" \in Errors
      BY DEF Statuses, Applied, Errors
    <3>2. /\ \A r \in Reservations : t.done[r] \notin ChargeIds
          /\ t.done[s.first] # None
      BY <1>1, <2>1, NullAssumption DEF NoLines
    <3> HIDE DEF t
    <3> QED
      BY <1>0, <1>1, <2>1, <2>2, <3>1, <3>2, BookedAlloc
  <2> QED
    BY <1>2, <1>4, <2>2 DEF CommitOffline
<1> QED
  BY <1>3, <1>4

\* undoApplication takes charges out of the rows into its hand; those are in
\* the hand of no handler that books.
LEMMA UndoReadAlloc ==
  ASSUME AllocInv, NEW w \in Workers, UndoRead(w)
  PROVE  Hands' /\ AllocationsAgree'
<1> DEFINE s == worker[w]
           targets == UndoTargets(s.p)
           todo == {r \in Reservations : targets[r] # None}
           T(pc) == [s EXCEPT !.done = targets, !.todo = todo, !.pc = pc]
<1>0. /\ s \in WorkerState /\ LocalsOK(s) /\ s.pc = "undo" /\ s.job \in UndoJobs
      /\ worker \in [Workers -> WorkerState]
      /\ payment \in [Payments -> PaymentRow]
      /\ alloc \in [Payments -> [Reservations -> Slots]]
      /\ UNCHANGED <<alloc, payment, charge, crashes>>
  BY DEF AllocInv, OwnershipInv, TypeOK, UndoRead, Hands, Course, chargeVars
<1>1. s.p \in Payments
  BY <1>0 DEF LocalsOK, PaymentPcs
<1>2. /\ targets \in [Reservations -> Slots]
      /\ \A r \in Reservations : targets[r] \in ChargeIds =>
            alloc[s.p][r] = targets[r] \/ payment[s.p].charge = targets[r]
  BY <1>0, <1>1, NullAssumption DEF UndoTargets, PaymentRow, Slots
<1>3. todo \in SUBSET Reservations
  OBVIOUS
<1> HIDE DEF targets, todo
<1>4. CASE Abort(w)
  <2>1. \E u \in WorkerState : Go(w, u) /\ Follows(s, u)
    BY <1>0, <1>4, AbortTame DEF Unwinding
  <2> QED
    BY <1>0, <2>1, TameBy, TameAlloc
<1>5. Abort(w) \/ \E pc \in {"clear", "cancel"} : Go(w, T(pc))
  BY DEF UndoRead, targets, todo
<1>6. ASSUME NEW pc \in {"clear", "cancel"}, Go(w, T(pc))
      PROVE  Hands' /\ AllocationsAgree'
  <2> DEFINE t == T(pc)
  <2>1. /\ t \in WorkerState /\ t.done = targets /\ t.job = s.job /\ t.pc = pc /\ t.p = s.p
    BY <1>0, <1>2, <1>3, Names DEF WorkerState
  <2>2. Go(w, t)
    BY <1>6
  <2> HIDE DEF t, T
  <2>3. worker' = [worker EXCEPT ![w] = t]
    BY <2>2 DEF Go
  <2>4. ASSUME NEW v \in Workers PROVE Course(worker'[v])
    BY <1>0, <2>1, <2>3 DEF AllocInv, Hands, Course, Booking
  <2>5. OwnHand'
    <3> SUFFICES ASSUME NEW v \in Workers, worker'[v].job \notin UndoJobs,
                        NEW c \in ChargeIds, Holds(worker'[v], c)
                 PROVE  /\ \A p \in Payments : payment'[p].charge # c
                        /\ \A p \in Payments, r \in Reservations : alloc'[p][r] # c
                        /\ \A x \in Workers : x # v => ~Holds(worker'[x], c)
                        /\ worker'[v].pc \in Booking => charge'[c].st = "paid"
      BY DEF OwnHand, Holds
    <3>1. v # w /\ worker'[v] = worker[v]
      BY <1>0, <2>1, <2>3
    <3>2. /\ \A p \in Payments : payment[p].charge # c
          /\ \A p \in Payments, r \in Reservations : alloc[p][r] # c
          /\ \A x \in Workers : x # v => ~Holds(worker[x], c)
          /\ worker[v].pc \in Booking => charge[c].st = "paid"
      BY <3>1 DEF AllocInv, Hands, OwnHand
    <3>3. ~Holds(t, c)
      BY <1>1, <1>2, <2>1, <3>2 DEF Holds
    <3> QED
      BY <1>0, <2>3, <3>1, <3>2, <3>3
  <2>6. Hands'
    BY <1>0, <2>4, <2>5 DEF Hands, AllocInv
  <2>7. AllocationsAgree'
    BY <1>0, <2>1, <2>2, AgreesBy DEF Unwinding
  <2> QED
    BY <2>6, <2>7
<1> HIDE DEF T
<1> QED
  BY <1>4, <1>5, <1>6

\* Cancelling is harmless to whoever books: an undo's charges are in no other
\* hand that books, and a rollback's in no row and no other hand.
LEMMA CancelChargeAlloc ==
  ASSUME AllocInv, NEW w \in Workers, CancelCharge(w)
  PROVE  Hands' /\ AllocationsAgree'
<1> DEFINE s == worker[w]
<1>0. /\ s \in WorkerState /\ LocalsOK(s) /\ s.pc = "cancel"
      /\ worker \in [Workers -> WorkerState]
      /\ payment \in [Payments -> PaymentRow]
      /\ charge \in [ChargeIds -> ChargeRow]
      /\ UNCHANGED <<alloc, payment, crashes>>
  BY DEF AllocInv, OwnershipInv, TypeOK, CancelCharge, envVars
<1>1. PICK r \in s.todo :
         /\ charge' = [charge EXCEPT ![s.done[r]].st = "cancelled"] \/ UNCHANGED charge
         /\ \E failed \in BOOLEAN :
               Go(w, [s EXCEPT !.pc = "forget", !.c = s.done[r], !.todo = @ \ {r},
                               !.failed = failed])
  <2>1. [s EXCEPT !.failed = s.failed] = s /\ s.failed \in BOOLEAN
    BY <1>0 DEF WorkerState
  <2>2. \A r \in s.todo :
           [s EXCEPT !.pc = "forget", !.c = s.done[r], !.todo = @ \ {r}]
             = [s EXCEPT !.pc = "forget", !.c = s.done[r], !.todo = @ \ {r}, !.failed = s.failed]
    BY <1>0 DEF WorkerState
  <2> QED
    BY <2>1, <2>2 DEF CancelCharge
<1> DEFINE c == s.done[r]
<1>2. PICK failed \in BOOLEAN :
         Go(w, [s EXCEPT !.pc = "forget", !.c = c, !.todo = @ \ {r}, !.failed = failed])
  BY <1>1
<1> DEFINE t == [s EXCEPT !.pc = "forget", !.c = c, !.todo = @ \ {r}, !.failed = failed]
<1>3. r \in Reservations /\ c \in ChargeIds
  BY <1>0, <1>1 DEF LocalsOK, WorkerState
<1>4. t \in WorkerState /\ t.done = s.done /\ t.job = s.job /\ t.pc = "forget" /\ t.p = s.p
  BY <1>0, <1>3, Names DEF WorkerState
<1>5. Go(w, t) /\ worker' = [worker EXCEPT ![w] = t]
  BY <1>2 DEF Go
<1>6. /\ \A d \in ChargeIds : d # c => charge'[d] = charge[d]
      /\ charge'[c].st \in {charge[c].st, "cancelled"}
  BY <1>0, <1>1, <1>3 DEF ChargeRow
<1>7. Holds(s, c) /\ Made(charge, c, s.p, r)
  BY <1>3 DEF Holds, AllocInv, OwnershipInv, ChargeOwnership
<1> HIDE DEF t, c
<1>8. Hands'
  <2>1. ASSUME NEW v \in Workers PROVE Course(worker'[v])
    BY <1>0, <1>4, <1>5 DEF AllocInv, Hands, Course, Booking
  <2>2. ASSUME NEW v \in Workers, NEW d \in ChargeIds, Holds(worker'[v], d)
        PROVE  /\ Holds(worker[v], d) /\ worker'[v].job = worker[v].job
               /\ worker'[v].pc \in Booking => worker[v].pc \in Booking /\ v # w
    BY <1>0, <1>4, <1>5, <2>2 DEF Holds, Booking
  <2>3. OwnHand'
    <3> SUFFICES ASSUME NEW v \in Workers, worker'[v].job \notin UndoJobs,
                        NEW d \in ChargeIds, Holds(worker'[v], d)
                 PROVE  /\ \A p \in Payments : payment'[p].charge # d
                        /\ \A p \in Payments, q \in Reservations : alloc'[p][q] # d
                        /\ \A x \in Workers : x # v => ~Holds(worker'[x], d)
                        /\ worker'[v].pc \in Booking => charge'[d].st = "paid"
      BY DEF OwnHand, Holds
    <3>1. /\ \A p \in Payments : payment[p].charge # d
          /\ \A p \in Payments, q \in Reservations : alloc[p][q] # d
          /\ \A x \in Workers : x # v => ~Holds(worker[x], d)
          /\ worker[v].pc \in Booking => charge[d].st = "paid"
      BY <2>2 DEF AllocInv, Hands, OwnHand
    <3>2. worker'[v].pc \in Booking => d # c
      BY <1>7, <2>2, <3>1
    <3> QED
      BY <1>0, <1>6, <2>2, <3>1, <3>2
  <2>4. ASSUME NEW p \in Payments, payment'[p].charge # None
        PROVE  charge'[payment'[p].charge].st # "unused"
    BY <1>0, <1>6, <2>4 DEF AllocInv, Hands, PaymentRow
  <2> QED
    BY <2>1, <2>3, <2>4 DEF Hands
<1>9. AllocationsAgree'
  <2>1. ASSUME NEW p \in Payments, NEW q \in Reservations, alloc[p][q] = c
        PROVE  p = s.p /\ s.job \in UndoJobs
    <3>1. Made(charge, c, p, q)
      BY <1>3, <2>1 DEF AllocInv, OwnershipInv, ChargeOwnership
    <3>2. s.job \in UndoJobs
      BY <1>3, <1>7, <2>1 DEF AllocInv, Hands, OwnHand
    <3> QED
      BY <1>7, <3>1, <3>2 DEF Made
  <2>2. ASSUME NEW p \in Payments, NEW q \in Reservations,
               alloc'[p][q] \in ChargeIds, charge'[alloc'[p][q]].st = "cancelled"
        PROVE  \/ alloc[p][q] = alloc'[p][q] /\ charge[alloc[p][q]].st = "cancelled"
               \/ t.p = p /\ t.job \in UndoJobs /\ t.pc \in Unwinding
    BY <1>0, <1>4, <1>6, <2>1, <2>2 DEF Unwinding
  <2> QED
    BY <1>0, <1>4, <1>5, <2>2, AgreesBy DEF Unwinding
<1> QED
  BY <1>8, <1>9

\* The hands of a step that only takes back: what was held stays held by the
\* same handler, and rows lose lines at most.
LEMMA ReleaseHands ==
  ASSUME AllocInv, NEW w \in Workers, NEW t \in WorkerState, Go(w, t),
         t.done = worker[w].done, t.job = worker[w].job, t.pc \in {"reset", "reconcile"},
         UNCHANGED charge,
         \A p \in Payments, r \in Reservations : alloc'[p][r] \in {alloc[p][r], None},
         \A p \in Payments : payment'[p].charge \in {payment[p].charge, None}
  PROVE  Hands'
<1>0. /\ worker \in [Workers -> WorkerState]
      /\ worker' = [worker EXCEPT ![w] = t]
  BY DEF AllocInv, OwnershipInv, TypeOK, Go
<1>1. ASSUME NEW v \in Workers PROVE Course(worker'[v])
  BY <1>0 DEF AllocInv, Hands, Course, Booking
<1>2. ASSUME NEW v \in Workers, NEW c \in ChargeIds, Holds(worker'[v], c)
      PROVE  /\ Holds(worker[v], c) /\ worker'[v].job = worker[v].job
             /\ worker'[v].pc \in Booking => worker[v].pc \in Booking
  BY <1>0, <1>2 DEF Holds, Booking
<1>3. OwnHand'
  <2> SUFFICES ASSUME NEW v \in Workers, worker'[v].job \notin UndoJobs,
                      NEW c \in ChargeIds, Holds(worker'[v], c)
               PROVE  /\ \A p \in Payments : payment'[p].charge # c
                      /\ \A p \in Payments, r \in Reservations : alloc'[p][r] # c
                      /\ \A x \in Workers : x # v => ~Holds(worker'[x], c)
                      /\ worker'[v].pc \in Booking => charge'[c].st = "paid"
    BY DEF OwnHand, Holds
  <2>1. /\ \A p \in Payments : payment[p].charge # c
        /\ \A p \in Payments, r \in Reservations : alloc[p][r] # c
        /\ \A x \in Workers : x # v => ~Holds(worker[x], c)
        /\ worker[v].pc \in Booking => charge[c].st = "paid"
    BY <1>2 DEF AllocInv, Hands, OwnHand
  <2> QED
    BY <1>2, <2>1, NullAssumption
<1>4. ASSUME NEW p \in Payments, payment'[p].charge # None
      PROVE  charge'[payment'[p].charge].st # "unused"
  BY <1>4 DEF AllocInv, Hands
<1> QED
  BY <1>1, <1>3, <1>4 DEF Hands

\* The two writes that end an undo.
LEMMA TakeBackAlloc ==
  ASSUME AllocInv, NEW w \in Workers, ClearAllocations(w) \/ ResetPayment(w)
  PROVE  Hands' /\ AllocationsAgree'
<1> DEFINE s == worker[w]
           T(pc) == [s EXCEPT !.pc = pc]
<1>0. /\ s \in WorkerState /\ LocalsOK(s)
      /\ worker \in [Workers -> WorkerState]
      /\ payment \in [Payments -> PaymentRow]
      /\ alloc \in [Payments -> [Reservations -> Slots]]
      /\ s.pc \in {"clear", "reset"}
      /\ UNCHANGED <<charge, crashes>>
  BY DEF AllocInv, OwnershipInv, TypeOK, ClearAllocations, ResetPayment, chargeVars, envVars
<1>1. s.p \in Payments
  BY <1>0 DEF LocalsOK, PaymentPcs
<1>2. ASSUME NEW pc \in {"reset", "reconcile"}
      PROVE  /\ T(pc) \in WorkerState /\ T(pc).done = s.done /\ T(pc).job = s.job
             /\ T(pc).pc = pc /\ T(pc).p = s.p
  BY <1>0, Names DEF WorkerState
<1>3. CASE ClearAllocations(w)
  <2>1. /\ Go(w, T("reset")) /\ UNCHANGED payment
        /\ alloc' = [alloc EXCEPT ![s.p] = NoLines] /\ s.pc = "clear"
    BY <1>3 DEF ClearAllocations
  <2> HIDE DEF T
  <2>2. worker' = [worker EXCEPT ![w] = T("reset")]
    BY <2>1 DEF Go
  <2>3. \A p \in Payments, r \in Reservations : alloc'[p][r] \in {alloc[p][r], None}
    BY <1>0, <2>1 DEF NoLines
  <2>4. Hands'
    BY <1>0, <1>2, <2>1, <2>3, ReleaseHands
  <2>5. CancelledNotAllocated'
    <3>1. ASSUME NEW p \in Payments, p # s.p, Cancelling(p) PROVE Cancelling(p)'
      BY <1>0, <2>2, <3>1 DEF Cancelling
    <3>2. \A r \in Reservations : alloc'[s.p][r] \notin ChargeIds
      BY <1>0, <1>1, <2>1, NullAssumption DEF NoLines
    <3> QED
      BY <1>0, <1>1, <2>1, <3>1, <3>2 DEF CancelledNotAllocated, AllocInv, AllocationsAgree
  <2>6. AppliedIsAllocated'
    <3>1. ASSUME NEW p \in Payments, NEW v \in Workers, worker[v].p = p, worker[v].pc = "reset"
          PROVE  worker'[v].p = p /\ worker'[v].pc = "reset"
      BY <1>0, <2>1, <2>2, <3>1
    <3>2. worker'[w].p = s.p /\ worker'[w].pc = "reset"
      BY <1>0, <1>2, <2>2
    <3> QED
      BY <1>0, <2>1, <3>1, <3>2 DEF AppliedIsAllocated, AllocInv, AllocationsAgree
  <2> QED
    BY <2>4, <2>5, <2>6 DEF AllocationsAgree
<1>4. CASE ResetPayment(w)
  <2> DEFINE row == [status |-> "PENDING_REVIEW", matched |-> None, charge |-> None,
                     error |-> IF s.failed THEN "undoIncomplete" ELSE "none"]
  <2>1. /\ Go(w, T("reconcile")) /\ UNCHANGED alloc /\ s.pc = "reset"
        /\ payment' = [payment EXCEPT ![s.p] = row]
    BY <1>4 DEF ResetPayment
  <2>2. row.status = "PENDING_REVIEW" /\ row.charge = None
    OBVIOUS
  <2> HIDE DEF T, row
  <2>3. worker' = [worker EXCEPT ![w] = T("reconcile")]
    BY <2>1 DEF Go
  <2>4. \A p \in Payments :
           /\ payment'[p].charge \in {payment[p].charge, None}
           /\ payment'[p].status \in Applied => p # s.p /\ payment[p].status \in Applied
    BY <1>0, <2>1, <2>2 DEF Applied
  <2>5. Hands'
    BY <1>0, <1>2, <2>1, <2>4, ReleaseHands
  <2>6. CancelledNotAllocated'
    <3>1. ASSUME NEW p \in Payments, Cancelling(p) PROVE Cancelling(p)'
      BY <1>0, <2>1, <2>3, <3>1 DEF Cancelling
    <3> QED
      BY <1>0, <2>1, <3>1 DEF CancelledNotAllocated, AllocInv, AllocationsAgree
  <2>7. AppliedIsAllocated'
    <3>1. ASSUME NEW p \in Payments, p # s.p, NEW v \in Workers,
                 worker[v].p = p, worker[v].pc = "reset"
          PROVE  worker'[v].p = p /\ worker'[v].pc = "reset"
      BY <1>0, <2>3, <3>1
    <3> QED
      BY <1>0, <2>1, <2>4, <3>1 DEF AppliedIsAllocated, AllocInv, AllocationsAgree
  <2> QED
    BY <2>5, <2>6, <2>7 DEF AllocationsAgree
<1> QED
  BY <1>3, <1>4

\* A step of a handler.
LEMMA StepAlloc ==
  ASSUME AllocInv, NEW w \in Workers, Step(w)
  PROVE  Hands' /\ AllocationsAgree'
<1> USE DEF AllocInv
<1>1. CASE Create(w) \/ LoadPending(w) \/ BatchNext(w) \/ BatchEnd(w)
  BY <1>1, LoopTame, TameAlloc
<1>2. CASE Reconcile(w) \/ Settle(w) \/ SettleFailed(w)
  BY <1>2, ReconcileTame, SettleTame, TameAlloc
<1>3. CASE Apply(w)
  BY <1>3, LineTame, ChargeFailTame, TameAlloc, ChargeCreateAlloc, CommitAlloc DEF Apply
<1>4. CASE Undo(w)
  BY <1>4, UndoReadAlloc, CancelChargeAlloc, RowTame, TameAlloc, TakeBackAlloc DEF Undo
<1>5. CASE FetchCharges(w) \/ Baseline(w) \/ NoteCharge(w) \/ NoteRow(w)
  BY <1>5, RowTame, TameAlloc
<1> QED
  BY <1>1, <1>2, <1>3, <1>4, <1>5 DEF Step

\* Steps of no handler: staff skip a payment, listings change, the poll's job
\* row fails, or nothing happens.
LEMMA OutsideAlloc ==
  ASSUME AllocInv,
         \/ \E p \in Payments : SkipReview(p)
         \/ \E r \in Reservations : ListingSync(r)
         \/ PollStartThrows
         \/ UNCHANGED vars
  PROVE  Hands' /\ AllocationsAgree'
<1>1. UNCHANGED <<alloc, charge, worker, crashes>>
  BY DEF SkipReview, ListingSync, PollStartThrows, vars, chargeVars, envVars
<1>2. \A p \in Payments :
         /\ payment'[p].charge = payment[p].charge
         /\ payment'[p].status \in Applied => payment[p].status \in Applied
  <2>1. payment \in [Payments -> PaymentRow]
    BY DEF AllocInv, OwnershipInv, TypeOK
  <2> QED
    BY <2>1 DEF SkipReview, ListingSync, PollStartThrows, vars, PaymentRow, Applied
<1>3. Hands'
  BY <1>1, <1>2 DEF AllocInv, Hands, OwnHand, Holds, Course
<1>4. AllocationsAgree'
  BY <1>1, <1>2 DEF AllocInv, AllocationsAgree, CancelledNotAllocated, AppliedIsAllocated, Cancelling
<1> QED
  BY <1>3, <1>4

\* A restart empties all hands; what it cut short, AllocationsAgree leaves out.
LEMMA CrashAlloc ==
  ASSUME AllocInv, Crash
  PROVE  Hands' /\ AllocationsAgree'
<1>1. /\ UNCHANGED <<alloc, charge, payment>>
      /\ worker' = [w \in Workers |-> IdleWorker]
      /\ crashes' = crashes + 1 /\ crashes \in Nat
  BY BoundsAssumption DEF Crash, chargeVars, AllocInv, OwnershipInv, TypeOK
<1>2. Course(IdleWorker) /\ \A c \in ChargeIds : ~Holds(IdleWorker, c)
  BY NullAssumption DEF Course, Holds, IdleWorker, NoLines, Booking
<1>3. Hands'
  BY <1>1, <1>2 DEF AllocInv, Hands, OwnHand, Holds, Course
<1>4. crashes' # 0
  BY <1>1
<1> QED
  BY <1>3, <1>4 DEF AllocationsAgree, CancelledNotAllocated, AppliedIsAllocated

\* Nothing is held or applied at the start.
LEMMA InitAlloc == Init => AllocInv
<1> SUFFICES ASSUME Init PROVE AllocInv
  OBVIOUS
<1>1. \A w \in Workers : Course(worker[w]) /\ \A c \in ChargeIds : ~Holds(worker[w], c)
  BY NullAssumption DEF Init, Course, Holds, IdleWorker, NoLines, Booking
<1>2. Hands
  BY <1>1 DEF Init, Hands, OwnHand
<1>3. AllocationsAgree
  BY NullAssumption DEF Init, AllocationsAgree, CancelledNotAllocated, AppliedIsAllocated,
     NoLines, Applied
<1> QED
  BY <1>2, <1>3, InitOwnership DEF AllocInv

LEMMA NextAlloc ==
  ASSUME AllocInv, [Next]_vars
  PROVE  AllocInv'
<1>1. OwnershipInv'
  BY NextOwnership DEF AllocInv
<1>2. ASSUME NEW w \in Workers, Call(w) PROVE Hands' /\ AllocationsAgree'
  BY <1>2, CallTame, TameAlloc DEF AllocInv
<1>3. Hands' /\ AllocationsAgree'
  BY <1>2, StepAlloc, OutsideAlloc, CrashAlloc DEF Next
<1> QED
  BY <1>1, <1>3 DEF AllocInv

\* For any payments, reservations, handlers and failures, and as long as the
\* process is not restarted: a payment is never left with a line on a
\* cancelled charge, and never stands as applied without a line, except inside
\* the undo that takes it back.
THEOREM AllocationsTheorem == Spec => []AllocationsAgree
<1>1. AllocInv /\ [Next]_vars => AllocInv'
  BY NextAlloc
<1>2. AllocInv => AllocationsAgree
  BY DEF AllocInv
<1> QED
  BY <1>1, <1>2, InitAlloc, PTL DEF Spec

----------------------------------------------------------------------------
(* The poll lock.  Without the failure that leaves it taken (the SyncJob    *)
(* row is created outside pollOnce's try), it is held exactly while a poll  *)
(* is in flight.  What has to be known of the handlers is that those of the *)
(* webhook, which are dropped without a finally, are never a poll's.        *)

Dropped == {"idle", "fetch", "fetchFirst", "baseline", "note", "noteRow"}

LockInv ==
    /\ \A w \in Workers : worker[w].pc \in Dropped => worker[w].job \notin PollJobs
    /\ PollLock

\* One handler moves on: it stays a poll or none, or it is one no longer and
\* has let go of the lock.
Passes(w) ==
    \E t : /\ Go(w, t)
           /\ t.pc \in Dropped => t.job \notin PollJobs
           /\ \/ (t.job \in PollJobs <=> worker[w].job \in PollJobs) /\ UNCHANGED running
              \/ t.job \notin PollJobs /\ running' = (running /\ worker[w].job \notin PollJobs)

\* The lock stays with the poll.
LEMMA PassesKeeps ==
  ASSUME OwnershipInv, LockInv, NEW w \in Workers, Passes(w)
  PROVE  LockInv'
<1>1. PICK t : /\ Go(w, t)
               /\ t.pc \in Dropped => t.job \notin PollJobs
               /\ \/ (t.job \in PollJobs <=> worker[w].job \in PollJobs) /\ UNCHANGED running
                  \/ /\ t.job \notin PollJobs
                     /\ running' = (running /\ worker[w].job \notin PollJobs)
  BY DEF Passes
<1>2. /\ worker \in [Workers -> WorkerState] /\ running \in BOOLEAN
      /\ worker' = [worker EXCEPT ![w] = t]
  BY <1>1 DEF OwnershipInv, TypeOK, Go
<1>3. ASSUME NEW v \in Workers PROVE worker'[v] = IF v = w THEN t ELSE worker[v]
  BY <1>2
<1>4. \A v \in Workers : worker'[v].pc \in Dropped => worker'[v].job \notin PollJobs
  BY <1>1, <1>3 DEF LockInv
<1>5. CASE (t.job \in PollJobs <=> worker[w].job \in PollJobs) /\ UNCHANGED running
  <2>1. \A v \in Workers : worker'[v].job \in PollJobs <=> worker[v].job \in PollJobs
    BY <1>3, <1>5
  <2> QED
    BY <1>4, <1>5, <2>1 DEF LockInv, PollLock
<1>6. CASE /\ t.job \notin PollJobs
           /\ running' = (running /\ worker[w].job \notin PollJobs)
  <2>1. \A v \in Workers : worker'[v].job \in PollJobs <=> v # w /\ worker[v].job \in PollJobs
    BY <1>3, <1>6
  <2>2. /\ running <=> \E v \in Workers : worker[v].job \in PollJobs
        /\ \A u, v \in Workers :
              worker[u].job \in PollJobs /\ worker[v].job \in PollJobs => u = v
    BY DEF LockInv, PollLock
  <2>3. running' <=> \E v \in Workers : worker'[v].job \in PollJobs
    BY <1>6, <2>1, <2>2
  <2>4. \A u, v \in Workers :
           worker'[u].job \in PollJobs /\ worker'[v].job \in PollJobs => u = v
    BY <2>1, <2>2
  <2> QED
    BY <1>4, <2>3, <2>4 DEF LockInv, PollLock
<1> QED
  BY <1>1, <1>5, <1>6

\* Locals that keep the job, at an await of the job's own.
LEMMA JobPasses ==
  ASSUME NEW w \in Workers, NEW t, Go(w, t), t.job = worker[w].job,
         t.pc \notin Dropped \/ worker[w].job \notin PollJobs, UNCHANGED running
  PROVE  Passes(w)
BY DEF Passes

\* The ends of a handler.
LEMMA EndPasses ==
  ASSUME NEW w \in Workers, worker[w] \in WorkerState, running \in BOOLEAN,
         \/ Go(w, Return(worker[w])) /\ UNCHANGED running
         \/ Go(w, IdleWorker) /\ UNCHANGED running /\ worker[w].job \notin PollJobs
         \/ Abort(w)
  PROVE  Passes(w)
<1> DEFINE s == worker[w]
<1>1. IdleWorker.job \notin PollJobs
  BY DEF IdleWorker, PollJobs
<1>2. /\ Return(s).job \in PollJobs <=> s.job \in PollJobs
      /\ Return(s).pc \in Dropped => Return(s).job \notin PollJobs
  BY <1>1 DEF Return, IdleWorker, PollJobs, Dropped
<1>3. CASE Go(w, Return(s)) /\ UNCHANGED running
  BY <1>2, <1>3 DEF Passes
<1>4. CASE Go(w, IdleWorker) /\ UNCHANGED running /\ s.job \notin PollJobs
  BY <1>1, <1>4 DEF Passes
<1>5. CASE Abort(w)
  <2>1. running' = (running /\ s.job \notin PollJobs)
    BY <1>5 DEF Abort
  <2>2. CASE s.job = "planUndo"
    <3>1. Go(w, Return(s)) /\ s.job \notin PollJobs /\ running' = running
      BY <1>5, <2>1, <2>2 DEF Abort, PollJobs
    <3> QED
      BY <1>2, <3>1 DEF Passes
  <2>3. CASE s.job # "planUndo"
    <3>1. Go(w, IdleWorker)
      BY <1>5, <2>3 DEF Abort
    <3> QED
      BY <1>1, <2>1, <3>1 DEF Passes
  <2> QED
    BY <2>2, <2>3
<1> QED
  BY <1>3, <1>4, <1>5

\* A failed line and a line that is done keep the handler's job, unless
\* confirmReview, which is no poll, has nothing to roll back.
LEMMA LinePasses ==
  ASSUME NEW w \in Workers, worker[w] \in WorkerState, running \in BOOLEAN, UNCHANGED running,
         NEW r,
         \/ \E slot : Go(w, LineDone(worker[w], r, slot))
         \/ \E archived \in BOOLEAN : Go(w, Failed(worker[w], r, archived))
  PROVE  Passes(w)
<1> DEFINE s == worker[w]
<1>1. ASSUME NEW slot
      PROVE  LineDone(s, r, slot).job = s.job /\ LineDone(s, r, slot).pc \notin Dropped
  BY DEF LineDone, WorkerState, Dropped
<1>2. ASSUME Manual(s) PROVE s.job \notin PollJobs
  BY <1>2 DEF Manual, PollJobs
<1>3. ASSUME NEW archived \in BOOLEAN, Go(w, Failed(s, r, archived))
      PROVE  Passes(w)
  <2>1. CASE Go(w, LineDone(s, r, Offline))
    BY <1>1, <2>1, JobPasses
  <2>2. CASE Manual(s) /\ Go(w, IdleWorker)
    BY <1>2, <2>2, EndPasses
  <2>3. ASSUME Manual(s), NEW todo, Go(w, [s EXCEPT !.pc = "cancel", !.todo = todo, !.c = None])
        PROVE  Passes(w)
    <3> DEFINE t == [s EXCEPT !.pc = "cancel", !.todo = todo, !.c = None]
    <3>1. t.job = s.job
      BY DEF WorkerState
    <3> QED
      BY <1>2, <2>3, <3>1, JobPasses
  <2>4. ASSUME NEW pc \in {"commitOffline", "settleFailed"},
               Go(w, [s EXCEPT !.c = None, !.pc = pc])
        PROVE  Passes(w)
    <3> DEFINE t == [s EXCEPT !.c = None, !.pc = pc]
    <3>1. t.job = s.job /\ t.pc = pc
      BY DEF WorkerState
    <3> HIDE DEF t
    <3> QED
      BY <2>4, <3>1, JobPasses DEF t, Dropped
  <2> QED
    BY <1>3, <2>1, <2>2, <2>3, <2>4 DEF Failed, LineFailed, Rollback
<1> QED
  BY <1>1, <1>3, JobPasses

\* Handlers that neither take the lock nor hold the poll's place.
LEMMA CallPasses ==
  ASSUME OwnershipInv, NEW w \in Workers, Call(w), worker[w].job \notin PollJobs, ~PollStart(w)
  PROVE  Passes(w)
<1>1. ASSUME NEW t, Go(w, t), t.job \notin PollJobs, UNCHANGED running
      PROVE  Passes(w)
  BY <1>1 DEF Passes
<1>2. \E t : Go(w, t) /\ t.job \notin PollJobs /\ UNCHANGED running
  <2>1. ASSUME NEW r \in Reservations, PlanDelete(w, r)
        PROVE  \E t : Go(w, t) /\ t.job \notin PollJobs /\ UNCHANGED running
    <3>1. \E ps : Go(w, [IdleWorker EXCEPT !.pc = "batch", !.job = "planUndo", !.r = r, !.batch = ps])
      BY <2>1 DEF PlanDelete
    <3> QED
      BY <2>1, <3>1 DEF PlanDelete, IdleWorker, PollJobs, envVars
  <2>2. CASE ~\E r \in Reservations : PlanDelete(w, r)
    BY <2>2 DEF Call, IngestCall, ConfirmCall, RetryCall, UndoCall, PlanUpsert, HostawayUpdate,
       IdleWorker, PollJobs, envVars
  <2> QED
    BY <2>1, <2>2
<1> QED
  BY <1>1, <1>2

\* The loops: the poll's own end is the only one that lets go of the lock.
LEMMA LoopPasses ==
  ASSUME OwnershipInv, NEW w \in Workers,
         Create(w) \/ LoadPending(w) \/ BatchNext(w) \/ BatchEnd(w)
  PROVE  Passes(w)
<1> DEFINE s == worker[w]
<1>0. s \in WorkerState /\ running \in BOOLEAN
  BY DEF OwnershipInv, TypeOK
<1>1. CASE Create(w)
  <2>1. CASE Abort(w)
    BY <1>0, <2>1, EndPasses
  <2>2. CASE Go(w, [s EXCEPT !.pc = "reconcile"]) /\ UNCHANGED running
    <3> DEFINE t == [s EXCEPT !.pc = "reconcile"]
    <3>1. t.job = s.job /\ t.pc = "reconcile"
      BY <1>0 DEF WorkerState
    <3> QED
      BY <2>2, <3>1, JobPasses DEF Dropped
  <2> QED
    BY <1>1, <2>1, <2>2 DEF Create
<1>2. CASE LoadPending(w)
  <2>1. \E ps : Go(w, [s EXCEPT !.pc = "batch", !.batch = ps]) /\ UNCHANGED running
    BY <1>2 DEF LoadPending, envVars
  <2>2. \A ps : LET t == [s EXCEPT !.pc = "batch", !.batch = ps]
                IN  t.job = s.job /\ t.pc = "batch"
    BY <1>0 DEF WorkerState
  <2> QED
    BY <2>1, <2>2, JobPasses DEF Dropped
<1>3. CASE BatchNext(w)
  <2>1. PICK p \in s.batch :
          \/ Go(w, [s EXCEPT !.batch = @ \ {p}])
          \/ Go(w, [[s EXCEPT !.batch = @ \ {p}] EXCEPT !.p = p, !.pc = FirstPc(s.job)])
    BY <1>3 DEF BatchNext
  <2> DEFINE t == [s EXCEPT !.batch = @ \ {p}]
             u == [t EXCEPT !.p = p, !.pc = FirstPc(s.job)]
  <2>2. t.job = s.job /\ t.pc = "batch"
    BY <1>0, <1>3 DEF BatchNext, WorkerState
  <2>3. u.job = s.job /\ u.pc = FirstPc(s.job)
    BY <1>0 DEF WorkerState
  <2>4. FirstPc(s.job) \notin Dropped
    BY DEF FirstPc, Dropped
  <2>5. UNCHANGED running
    BY <1>3 DEF BatchNext, envVars
  <2> HIDE DEF u, t
  <2> QED
    BY <2>1, <2>2, <2>3, <2>4, <2>5, JobPasses DEF t, u, Dropped
<1>4. CASE BatchEnd(w)
  <2> DEFINE R(job) == [IdleWorker EXCEPT !.pc = "pending", !.job = job]
  <2>1. running' = (running /\ s.job # "pollRematch")
    BY <1>4 DEF BatchEnd
  <2>2. \A job : R(job).job = job /\ R(job).pc = "pending"
    BY DEF IdleWorker
  <2>3. IdleWorker.job \notin PollJobs
    BY DEF IdleWorker, PollJobs
  <2>4. CASE s.job = "poll"
    <3>1. Go(w, R("pollRematch"))
      BY <1>4, <2>4 DEF BatchEnd
    <3> HIDE DEF R
    <3> QED
      BY <1>0, <2>1, <2>2, <2>4, <3>1 DEF Passes, PollJobs, Dropped
  <2>5. CASE s.job = "planUndo" /\ s.r \in hasPlan
    <3>1. Go(w, R("planRematch"))
      BY <1>4, <2>5 DEF BatchEnd
    <3> HIDE DEF R
    <3> QED
      BY <1>0, <2>1, <2>2, <2>5, <3>1 DEF Passes, PollJobs
  <2>6. CASE s.job # "poll" /\ ~(s.job = "planUndo" /\ s.r \in hasPlan)
    <3>1. Go(w, IdleWorker)
      BY <1>4, <2>6 DEF BatchEnd
    <3> QED
      BY <1>0, <2>1, <2>3, <2>6, <3>1 DEF Passes, PollJobs
  <2> QED
    BY <2>4, <2>5, <2>6
<1> QED
  BY <1>1, <1>2, <1>3, <1>4

\* The verdicts.
LEMMA VerdictPasses ==
  ASSUME OwnershipInv, NEW w \in Workers, Reconcile(w) \/ Settle(w) \/ SettleFailed(w)
  PROVE  Passes(w)
<1> DEFINE s == worker[w]
           u == [s EXCEPT !.todo = {}, !.done = NoLines, !.first = None, !.c = None]
<1>0. s \in WorkerState /\ running \in BOOLEAN /\ UNCHANGED running
  BY DEF OwnershipInv, TypeOK, Reconcile, Settle, SettleFailed, envVars
<1>1. CASE Go(w, Return(s))
  BY <1>0, <1>1, EndPasses
<1>2. ASSUME NEW todo, NEW first, NEW off,
             Go(w, [u EXCEPT !.pc = "charge", !.todo = todo, !.first = first, !.off = off])
      PROVE  Passes(w)
  <2> DEFINE t == [u EXCEPT !.pc = "charge", !.todo = todo, !.first = first, !.off = off]
  <2>1. t.job = s.job /\ t.pc = "charge"
    BY <1>0 DEF WorkerState
  <2> HIDE DEF t
  <2> QED
    BY <1>0, <1>2, <2>1, JobPasses DEF Dropped, t
<1>3. ASSUME NEW status, NEW first,
             \/ Go(w, [u EXCEPT !.pc = "settle", !.status = status, !.first = first])
             \/ Go(w, [u EXCEPT !.pc = "settle", !.status = status])
      PROVE  Passes(w)
  <2> DEFINE t == [u EXCEPT !.pc = "settle", !.status = status, !.first = first]
             x == [u EXCEPT !.pc = "settle", !.status = status]
  <2>1. t.job = s.job /\ t.pc = "settle" /\ x.job = s.job /\ x.pc = "settle"
    BY <1>0 DEF WorkerState
  <2> HIDE DEF t, x
  <2> QED
    BY <1>0, <1>3, <2>1, JobPasses DEF Dropped, t, x
<1> HIDE DEF u
<1> QED
  BY <1>1, <1>2, <1>3 DEF Reconcile, Settle, SettleFailed, u

\* Booking.
LEMMA ApplyPasses ==
  ASSUME OwnershipInv, NEW w \in Workers, Apply(w)
  PROVE  Passes(w)
<1> DEFINE s == worker[w]
<1>0. s \in WorkerState /\ running \in BOOLEAN
  BY DEF OwnershipInv, TypeOK
<1>1. CASE ApplyOffline(w) \/ ChargeFail(w) \/ InboxThrows(w) \/ Record(w)
  <2>1. UNCHANGED running
    BY <1>1 DEF ApplyOffline, ChargeFail, InboxThrows, Record, envVars
  <2>2. \E r : \/ \E slot : Go(w, LineDone(s, r, slot))
               \/ \E archived \in BOOLEAN : Go(w, Failed(s, r, archived))
    <3>1. CASE ApplyOffline(w)
      BY <3>1 DEF ApplyOffline
    <3>2. CASE ChargeFail(w)
      BY <3>2 DEF ChargeFail
    <3>3. CASE InboxThrows(w)
      BY <3>3 DEF InboxThrows
    <3>4. CASE Record(w)
      BY <3>4 DEF Record
    <3> QED
      BY <1>1, <3>1, <3>2, <3>3, <3>4
  <2> QED
    BY <1>0, <2>1, <2>2, LinePasses
<1>2. CASE ChargeCreate(w) \/ InboxNote(w)
  <2>1. \/ \E c : Go(w, [s EXCEPT !.pc = "inbox", !.c = c])
        \/ Go(w, [s EXCEPT !.pc = "record"])
    BY <1>2 DEF ChargeCreate, InboxNote
  <2>2. /\ \A c : LET t == [s EXCEPT !.pc = "inbox", !.c = c] IN t.job = s.job /\ t.pc = "inbox"
        /\ LET t == [s EXCEPT !.pc = "record"] IN t.job = s.job /\ t.pc = "record"
    BY <1>0 DEF WorkerState
  <2>3. UNCHANGED running
    BY <1>2 DEF ChargeCreate, InboxNote, envVars
  <2> QED
    BY <2>1, <2>2, <2>3, JobPasses DEF Dropped
<1>3. CASE Commit(w)
  <2>1. \/ Go(w, Return(s)) /\ UNCHANGED running
        \/ Go(w, Failed(s, s.first, FALSE)) /\ UNCHANGED running
        \/ Abort(w)
    BY <1>3 DEF Commit
  <2> QED
    BY <1>0, <2>1, EndPasses, LinePasses
<1>4. CASE CommitOffline(w)
  <2>1. (Go(w, Return(s)) /\ UNCHANGED running) \/ Abort(w)
    BY <1>4 DEF CommitOffline
  <2> QED
    BY <1>0, <2>1, EndPasses
<1> QED
  BY <1>1, <1>2, <1>3, <1>4 DEF Apply

\* Undoing.
LEMMA UndoPasses ==
  ASSUME OwnershipInv, NEW w \in Workers, Undo(w)
  PROVE  Passes(w)
<1> DEFINE s == worker[w]
<1>0. s \in WorkerState /\ running \in BOOLEAN
  BY DEF OwnershipInv, TypeOK
<1>1. ASSUME NEW t, Go(w, t), t.job = s.job,
             t.pc \in {"clear", "cancel", "forget", "reset", "reconcile"}, UNCHANGED running
      PROVE  Passes(w)
  BY <1>1, JobPasses DEF Dropped
<1>2. CASE UndoRead(w)
  <2>1. \/ Abort(w)
        \/ /\ UNCHANGED running
           /\ \E done, todo : \E pc \in {"clear", "cancel"} :
                 Go(w, [s EXCEPT !.done = done, !.todo = todo, !.pc = pc])
    BY <1>2 DEF UndoRead
  <2>2. ASSUME NEW done, NEW todo, NEW pc \in {"clear", "cancel"},
               Go(w, [s EXCEPT !.done = done, !.todo = todo, !.pc = pc]), UNCHANGED running
        PROVE  Passes(w)
    <3> DEFINE t == [s EXCEPT !.done = done, !.todo = todo, !.pc = pc]
    <3>1. t.job = s.job /\ t.pc = pc
      BY <1>0 DEF WorkerState
    <3> HIDE DEF t
    <3> QED
      BY <1>1, <2>2, <3>1 DEF t
  <2> QED
    BY <1>0, <2>1, <2>2, EndPasses
<1>3. CASE CancelCharge(w)
  <2>1. PICK r \in s.todo :
           \/ Go(w, [s EXCEPT !.pc = "forget", !.c = s.done[r], !.todo = @ \ {r}])
           \/ Go(w, [s EXCEPT !.pc = "forget", !.c = s.done[r], !.todo = @ \ {r}, !.failed = TRUE])
    BY <1>3 DEF CancelCharge
  <2> DEFINE t == [s EXCEPT !.pc = "forget", !.c = s.done[r], !.todo = @ \ {r}]
             u == [s EXCEPT !.pc = "forget", !.c = s.done[r], !.todo = @ \ {r}, !.failed = TRUE]
  <2>2. t.job = s.job /\ t.pc = "forget" /\ u.job = s.job /\ u.pc = "forget"
    BY <1>0 DEF WorkerState
  <2>3. UNCHANGED running
    BY <1>3 DEF CancelCharge, envVars
  <2> HIDE DEF t, u
  <2> QED
    BY <1>1, <2>1, <2>2, <2>3 DEF t, u
<1>4. CASE ForgetCharge(w)
  <2>1. \/ Manual(s) /\ Go(w, IdleWorker)
        \/ \E pc \in {"cancel", "clear"} : Go(w, [s EXCEPT !.pc = pc, !.c = None])
    BY <1>4 DEF ForgetCharge
  <2>2. \A pc \in {"cancel", "clear"} :
           LET t == [s EXCEPT !.pc = pc, !.c = None] IN t.job = s.job /\ t.pc = pc
    BY <1>0 DEF WorkerState
  <2>3. UNCHANGED running
    BY <1>4 DEF ForgetCharge, envVars
  <2> QED
    BY <1>0, <1>1, <2>1, <2>2, <2>3, EndPasses DEF Manual, PollJobs
<1>5. CASE ClearAllocations(w) \/ ResetPayment(w)
  <2>1. \E pc \in {"reset", "reconcile"} : Go(w, [s EXCEPT !.pc = pc])
    BY <1>5 DEF ClearAllocations, ResetPayment
  <2>2. \A pc \in {"reset", "reconcile"} :
           LET t == [s EXCEPT !.pc = pc] IN t.job = s.job /\ t.pc = pc
    BY <1>0 DEF WorkerState
  <2>3. UNCHANGED running
    BY <1>5 DEF ClearAllocations, ResetPayment, envVars
  <2> QED
    BY <1>1, <2>1, <2>2, <2>3
<1> QED
  BY <1>2, <1>3, <1>4, <1>5 DEF Undo

\* The webhook's handlers, which are no poll's.
LEMMA WebhookPasses ==
  ASSUME OwnershipInv, LockInv, NEW w \in Workers,
         FetchCharges(w) \/ Baseline(w) \/ NoteCharge(w) \/ NoteRow(w)
  PROVE  Passes(w)
<1> DEFINE s == worker[w]
<1>0. /\ s \in WorkerState /\ running \in BOOLEAN /\ UNCHANGED running
      /\ s.pc \in Dropped
  BY DEF OwnershipInv, TypeOK, FetchCharges, Baseline, NoteCharge, NoteRow, envVars, Dropped
<1>1. s.job \notin PollJobs
  BY <1>0 DEF LockInv
<1>2. ASSUME NEW t, Go(w, t), t.job = s.job PROVE Passes(w)
  BY <1>0, <1>1, <1>2, JobPasses
<1>3. CASE FetchCharges(w)
  <2>1. \/ Go(w, IdleWorker)
        \/ \E ids : \E pc \in {"baseline", "note"} :
              Go(w, [s EXCEPT !.pc = pc, !.ids = ids])
    BY <1>3 DEF FetchCharges
  <2>2. \A ids : \A pc \in {"baseline", "note"} :
           [s EXCEPT !.pc = pc, !.ids = ids].job = s.job
    BY <1>0 DEF WorkerState
  <2> QED
    BY <1>0, <1>1, <1>2, <2>1, <2>2, EndPasses
<1>4. CASE Baseline(w)
  BY <1>0, <1>1, <1>4, EndPasses DEF Baseline
<1>5. CASE NoteCharge(w)
  <2>1. PICK c \in s.ids : Go(w, [s EXCEPT !.pc = "noteRow", !.c = c, !.ids = @ \ {c}])
    BY <1>5 DEF NoteCharge
  <2>2. [s EXCEPT !.pc = "noteRow", !.c = c, !.ids = @ \ {c}].job = s.job
    BY <1>0 DEF WorkerState
  <2> QED
    BY <1>2, <2>1, <2>2
<1>6. CASE NoteRow(w)
  <2>1. Go(w, IdleWorker) \/ Go(w, [s EXCEPT !.pc = "note", !.c = None])
    BY <1>6 DEF NoteRow
  <2>2. [s EXCEPT !.pc = "note", !.c = None].job = s.job
    BY <1>0 DEF WorkerState
  <2> QED
    BY <1>0, <1>1, <1>2, <2>1, <2>2, EndPasses
<1> QED
  BY <1>3, <1>4, <1>5, <1>6 DEF FetchCharges, Baseline, NoteCharge, NoteRow

\* A poll starts when nobody holds the lock.
LEMMA PollStartLocks ==
  ASSUME OwnershipInv, LockInv, NEW w \in Workers, PollStart(w)
  PROVE  LockInv'
<1>1. PICK credits \in SUBSET Payments :
         Go(w, [IdleWorker EXCEPT !.pc = "batch", !.job = "poll", !.batch = credits])
  BY DEF PollStart
<1> DEFINE t == [IdleWorker EXCEPT !.pc = "batch", !.job = "poll", !.batch = credits]
<1>2. t.job = "poll" /\ t.pc = "batch"
  BY DEF IdleWorker
<1> HIDE DEF t
<1>3. /\ worker \in [Workers -> WorkerState]
      /\ worker' = [worker EXCEPT ![w] = t]
      /\ ~running /\ running' = TRUE
  BY <1>1 DEF OwnershipInv, TypeOK, Go, PollStart, t
<1>4. \A v \in Workers : worker[v].job \notin PollJobs
  BY <1>3 DEF LockInv, PollLock
<1>5. \A v \in Workers : worker'[v] = IF v = w THEN t ELSE worker[v]
  BY <1>3
<1> QED
  BY <1>2, <1>3, <1>4, <1>5 DEF LockInv, PollLock, Dropped, PollJobs

\* As long as the SyncJob row can be written, the poll's lock is held by a
\* poll in flight, by one, and let go of with its last step, whatever fails
\* inside the poll and whenever the process restarts: pollOnce's finally.
THEOREM PollLockTheorem ==
  ASSUME "pollJob" \notin Faults
  PROVE  Spec => []PollLock
<1>1. Init => LockInv
  BY DEF Init, LockInv, PollLock, IdleWorker, PollJobs
<1>2. OwnershipInv /\ LockInv /\ [Next]_vars => LockInv'
  <2> SUFFICES ASSUME OwnershipInv, LockInv, [Next]_vars PROVE LockInv'
    OBVIOUS
  <2>1. ASSUME NEW w \in Workers, Step(w) PROVE LockInv'
    BY <2>1, PassesKeeps, LoopPasses, VerdictPasses, ApplyPasses, UndoPasses, WebhookPasses
       DEF Step
  <2>2. ASSUME NEW w \in Workers, Call(w) PROVE LockInv'
    <3>1. worker[w].job \notin PollJobs
      BY <2>2, CallBegins DEF LockInv, Dropped
    <3> QED
      BY <2>2, <3>1, PassesKeeps, CallPasses, PollStartLocks
  <2>3. CASE (\E p \in Payments : SkipReview(p)) \/ (\E r \in Reservations : ListingSync(r))
             \/ UNCHANGED vars
    <3>1. UNCHANGED <<worker, running>>
      BY <2>3 DEF SkipReview, ListingSync, vars, envVars
    <3> QED
      BY <3>1 DEF LockInv, PollLock
  <2>4. ~PollStartThrows
    BY DEF PollStartThrows
  <2>5. CASE Crash
    BY <2>5 DEF Crash, LockInv, PollLock, IdleWorker, PollJobs
  <2> QED
    BY <2>1, <2>2, <2>3, <2>4, <2>5 DEF Next
<1>3. LockInv => PollLock
  BY DEF LockInv
<1> QED
  BY <1>1, <1>2, <1>3, OwnershipTheorem, PTL DEF Spec

----------------------------------------------------------------------------
(* One handler at a time.  NoUnforcedRetry, NotedOnce and ChargesAgree do   *)
(* not survive two handlers of one payment side by side, nor every failure; *)
(* each is proved under the conditions it needs.  First, what each step of  *)
(* a handler does to its locals s, field by field.                          *)

OneHandler == \A v, w \in Workers : v = w

Keeps(s, t) == t.job = s.job /\ t.p = s.p /\ t.off = s.off

\* Awaits at which a handler has nothing on its hands.
LightPcs == {"idle", "batch", "pending", "create", "reconcile", "undo"}

Light(s, t) == t.pc \in LightPcs /\ t.done \in {NoLines, s.done}

\* The end of a handler, or of its turn in a loop.
LEMMA EndMoves ==
  ASSUME NEW s \in WorkerState
  PROVE  /\ IdleWorker \in WorkerState /\ Light(s, IdleWorker)
         /\ Return(s) \in WorkerState /\ Light(s, Return(s))
         /\ IdleWorker.pc = "idle" /\ IdleWorker.done = NoLines
         /\ Return(s).pc \in {"idle", "batch"} /\ Return(s).done = NoLines
<1>1. IdleWorker \in WorkerState /\ Return(s) \in WorkerState
  BY IdleSound, ReturnSound DEF Sound
<1>2. IdleWorker.done = NoLines /\ IdleWorker.pc = "idle"
  BY DEF IdleWorker
<1>3. Return(s).done = NoLines /\ Return(s).pc \in {"idle", "batch"}
  BY DEF IdleWorker, Return
<1> QED
  BY <1>1, <1>2, <1>3 DEF Light, LightPcs

LEMMA AbortMoves ==
  ASSUME NEW w \in Workers, worker[w] \in WorkerState, Abort(w)
  PROVE  \E t \in WorkerState : Go(w, t) /\ Light(worker[w], t)
BY EndMoves DEF Abort

LEMMA LoopMoves ==
  ASSUME OwnershipInv, NEW w \in Workers,
         Create(w) \/ LoadPending(w) \/ BatchNext(w) \/ BatchEnd(w)
  PROVE  /\ worker[w].pc \in {"create", "pending", "batch"}
         /\ \E t \in WorkerState : Go(w, t) /\ Light(worker[w], t)
<1> DEFINE s == worker[w]
<1>0. s \in WorkerState
  BY DEF OwnershipInv, TypeOK
<1>1. CASE Create(w)
  <2> DEFINE t == [s EXCEPT !.pc = "reconcile"]
  <2>1. t \in WorkerState /\ t.pc = "reconcile" /\ t.done = s.done
    BY <1>0, Names DEF WorkerState
  <2>2. Go(w, t) \/ Abort(w)
    BY <1>1 DEF Create
  <2> HIDE DEF t
  <2> QED
    BY <1>0, <1>1, <2>1, <2>2, AbortMoves DEF Create, Light, LightPcs
<1>2. CASE LoadPending(w)
  <2> DEFINE ps == {p \in Payments : payment[p].status = "PENDING_REVIEW"}
             t == [s EXCEPT !.pc = "batch", !.batch = ps]
  <2>1. ps \in SUBSET Payments /\ Go(w, t)
    BY <1>2 DEF LoadPending
  <2> HIDE DEF ps
  <2>2. t \in WorkerState /\ t.pc = "batch" /\ t.done = s.done
    BY <1>0, <2>1, Names DEF WorkerState
  <2> HIDE DEF t
  <2> QED
    BY <1>2, <2>1, <2>2 DEF LoadPending, Light, LightPcs
<1>3. CASE BatchNext(w)
  <2>1. PICK p \in s.batch :
          \/ Go(w, [s EXCEPT !.batch = @ \ {p}])
          \/ Go(w, [[s EXCEPT !.batch = @ \ {p}] EXCEPT !.p = p, !.pc = FirstPc(s.job)])
    BY <1>3 DEF BatchNext
  <2> DEFINE t == [s EXCEPT !.batch = @ \ {p}]
             u == [t EXCEPT !.p = p, !.pc = FirstPc(s.job)]
  <2>2. /\ FirstPc(s.job) \in {"create", "undo", "reconcile"} /\ FirstPc(s.job) \in Pcs
        /\ p \in Payments /\ s.pc = "batch"
    BY <1>0, <1>3, <2>1, Names DEF FirstPc, WorkerState, BatchNext
  <2>3. t \in WorkerState /\ t.pc = "batch" /\ t.done = s.done
    BY <1>0, <2>2 DEF WorkerState
  <2>4. u \in WorkerState /\ u.pc = FirstPc(s.job) /\ u.done = s.done
    BY <2>2, <2>3 DEF WorkerState
  <2> HIDE DEF t, u
  <2>5. Light(s, t) /\ Light(s, u)
    BY <2>2, <2>3, <2>4 DEF Light, LightPcs
  <2> QED
    BY <2>1, <2>2, <2>3, <2>4, <2>5 DEF t, u
<1>4. CASE BatchEnd(w)
  <2> DEFINE R(job) == [IdleWorker EXCEPT !.pc = "pending", !.job = job]
  <2>1. \E job \in {"pollRematch", "planRematch"} : Go(w, IdleWorker) \/ Go(w, R(job))
    BY <1>4 DEF BatchEnd
  <2>2. \A job \in {"pollRematch", "planRematch"} :
           R(job) \in WorkerState /\ R(job).pc = "pending" /\ R(job).done = NoLines
    BY IdleHolds, Names DEF WorkerState
  <2>3. s.pc = "batch"
    BY <1>4 DEF BatchEnd
  <2> HIDE DEF R
  <2> QED
    BY <1>0, <2>1, <2>2, <2>3, EndMoves DEF Light, LightPcs
<1> QED
  BY <1>1, <1>2, <1>3, <1>4

LEMMA CallMoves ==
  ASSUME OwnershipInv, NEW w \in Workers, Call(w)
  PROVE  /\ worker[w].pc = "idle"
         /\ UNCHANGED <<payment, alloc, charge, notified, notes, crashes, fails>>
         /\ \E t \in WorkerState :
               /\ Go(w, t) /\ t.done = NoLines
               /\ \/ t.pc \in LightPcs
                  \/ /\ t.pc = "charge" /\ Manual(t) /\ t.p \in Payments
                     /\ payment[t.p].status = "PENDING_REVIEW"
                  \/ t.pc \in {"fetch", "fetchFirst"} /\ t.ids = notified
<1>1. PICK t : Go(w, t) /\ Begins(t)
  BY CallBegins
<1>2. UNCHANGED <<payment, alloc, charge, notified, notes, crashes, fails>>
  BY DEF Call, IngestCall, ConfirmCall, RetryCall, UndoCall, PlanUpsert, PlanDelete,
         HostawayUpdate, PollStart, chargeVars, inboxVars, envVars
<1>3. worker \in [Workers -> WorkerState]
  BY DEF OwnershipInv, TypeOK
<1>4. \A u : Go(w, u) => u = t
  BY <1>1, <1>3 DEF Go
<1>5. CASE \E p \in Payments : ConfirmCall(w, p)
  <2>1. PICK p \in Payments : ConfirmCall(w, p)
    BY <1>5
  <2>2. PICK lines : Go(w, [IdleWorker EXCEPT !.pc = "charge", !.job = "confirm",
                                              !.p = p, !.todo = lines])
    BY <2>1 DEF ConfirmCall
  <2> DEFINE u == [IdleWorker EXCEPT !.pc = "charge", !.job = "confirm", !.p = p, !.todo = lines]
  <2>3. u.pc = "charge" /\ u.job = "confirm" /\ u.p = p
    BY DEF IdleWorker
  <2> HIDE DEF u
  <2>4. t.pc = "charge" /\ Manual(t) /\ t.p = p
    BY <1>4, <2>2, <2>3 DEF u, Manual
  <2> QED
    BY <1>1, <1>2, <2>1, <2>4, CallBegins DEF Begins, ConfirmCall
<1>6. CASE \E r \in Reservations : HostawayUpdate(w, r)
  <2>1. PICK r \in Reservations, pc \in {"fetch", "fetchFirst"} :
           Go(w, [IdleWorker EXCEPT !.pc = pc, !.job = "hostaway", !.r = r, !.ids = notified])
    BY <1>6 DEF HostawayUpdate
  <2> DEFINE u == [IdleWorker EXCEPT !.pc = pc, !.job = "hostaway", !.r = r, !.ids = notified]
  <2>2. u.pc = pc /\ u.ids = notified
    BY DEF IdleWorker
  <2> HIDE DEF u
  <2>3. t.pc = pc /\ t.ids = notified
    BY <1>4, <2>1, <2>2 DEF u
  <2> QED
    BY <1>1, <1>2, <2>3, CallBegins DEF Begins
<1>7. CASE ~(\E p \in Payments : ConfirmCall(w, p)) /\ ~(\E r \in Reservations : HostawayUpdate(w, r))
  <2>1. t.pc \in LightPcs
    <3>1. ASSUME NEW p \in Payments, IngestCall(w, p) \/ RetryCall(w, p) \/ UndoCall(w, p)
          PROVE  t.pc \in {"create", "reconcile", "undo"}
      BY <1>4, <3>1 DEF IngestCall, RetryCall, UndoCall, IdleWorker
    <3>2. ASSUME PollStart(w) PROVE t.pc = "batch"
      BY <1>4, <3>2 DEF PollStart, IdleWorker
    <3>3. ASSUME NEW r \in Reservations, PlanUpsert(w, r)
          PROVE  t.pc = "pending"
      BY <1>4, <3>3 DEF PlanUpsert, IdleWorker
    <3>4. ASSUME NEW r \in Reservations, PlanDelete(w, r)
          PROVE  t.pc = "batch"
      <4>1. \E ps : Go(w, [IdleWorker EXCEPT !.pc = "batch", !.job = "planUndo", !.r = r, !.batch = ps])
        BY <3>4 DEF PlanDelete
      <4> QED
        BY <1>4, <4>1 DEF IdleWorker
    <3> QED
      BY <1>7, <3>1, <3>2, <3>3, <3>4 DEF Call, LightPcs
  <2> QED
    BY <1>1, <1>2, <2>1, CallBegins DEF Begins
<1> QED
  BY <1>5, <1>6, <1>7

LEMMA ReconcileMoves ==
  ASSUME OwnershipInv, NEW w \in Workers, Reconcile(w)
  PROVE  /\ worker[w].pc = "reconcile"
         /\ \E t \in WorkerState :
               /\ Go(w, t)
               /\ \/ Light(worker[w], t)
                  \/ /\ payment[worker[w].p].status \notin Applied
                     /\ Keeps(worker[w], [t EXCEPT !.off = worker[w].off])
                     /\ t.done = NoLines
                     /\ \/ t.pc = "settle"
                        \/ /\ t.pc = "charge" /\ t.todo = {t.first}
                           /\ AllowAuto(worker[w]) /\ t.first \in Reservations
                           /\ \/ Forced(worker[w])
                              \/ payment[t.p].error # "applyFailed"
                              \/ t.off
<1> DEFINE s == worker[w]
           u == [s EXCEPT !.todo = {}, !.done = NoLines, !.first = None, !.c = None]
           Out(t) == \/ Light(s, t)
                     \/ /\ payment[s.p].status \notin Applied
                        /\ Keeps(s, [t EXCEPT !.off = s.off])
                        /\ t.done = NoLines
                        /\ \/ t.pc = "settle"
                           \/ /\ t.pc = "charge" /\ t.todo = {t.first}
                              /\ AllowAuto(s) /\ t.first \in Reservations
                              /\ \/ Forced(s)
                                 \/ payment[t.p].error # "applyFailed"
                                 \/ t.off
<1>0. s \in WorkerState /\ s.pc = "reconcile"
  BY DEF OwnershipInv, TypeOK, Reconcile
<1>1. u \in WorkerState /\ u.done = NoLines /\ u.job = s.job /\ u.p = s.p /\ u.off = s.off
  BY <1>0 DEF WorkerState, NoLines, Slots
<1> HIDE DEF u
<1>2. ASSUME Go(w, Return(s)) PROVE \E t \in WorkerState : Go(w, t) /\ Out(t)
  BY <1>0, <1>2, EndMoves
<1>3. ASSUME payment[s.p].status \notin Applied, NEW best \in Reservations,
             TryAutoApply(s, s.p, best),
             Go(w, [u EXCEPT !.pc = "charge", !.todo = {best}, !.first = best,
                             !.off = best \in offline])
      PROVE  \E t \in WorkerState : Go(w, t) /\ Out(t)
  <2> DEFINE off == best \in offline
             t == [u EXCEPT !.pc = "charge", !.todo = {best}, !.first = best, !.off = off]
  <2>0. off \in BOOLEAN /\ Go(w, [u EXCEPT !.pc = "charge", !.todo = {best}, !.first = best, !.off = off])
    BY <1>3
  <2>1. AllowAuto(s) /\ (Forced(s) \/ payment[s.p].error # "applyFailed" \/ off)
    BY <1>3 DEF TryAutoApply
  <2> HIDE DEF off
  <2>2. t \in WorkerState
    BY <1>1, <2>0, Names DEF WorkerState
  <2>3. /\ t.job = s.job /\ t.p = s.p /\ t.off = off /\ t.done = NoLines /\ t.pc = "charge"
        /\ t.todo = {best} /\ t.first = best
    BY <1>1 DEF WorkerState
  <2> HIDE DEF t
  <2>4. Keeps(s, [t EXCEPT !.off = s.off])
    BY <1>0, <2>2, <2>3 DEF Keeps, WorkerState
  <2>5. Out(t)
    BY <1>3, <2>1, <2>3, <2>4
  <2>6. Go(w, t)
    BY <2>0 DEF t
  <2> HIDE DEF Out
  <2> QED
    BY <2>2, <2>5, <2>6
<1>4. ASSUME payment[s.p].status \notin Applied, NEW t \in WorkerState, Go(w, t),
             t.job = s.job, t.p = s.p, t.off = s.off, t.done = NoLines, t.pc = "settle"
      PROVE  Out(t)
  <2>1. Keeps(s, [t EXCEPT !.off = s.off])
    BY <1>4 DEF Keeps, WorkerState
  <2> QED
    BY <1>4, <2>1
<1>5. ASSUME payment[s.p].status \notin Applied, NEW best \in Reservations,
             Go(w, [u EXCEPT !.pc = "settle", !.status = "PENDING_REVIEW", !.first = best])
      PROVE  \E t \in WorkerState : Go(w, t) /\ Out(t)
  <2> DEFINE t == [u EXCEPT !.pc = "settle", !.status = "PENDING_REVIEW", !.first = best]
  <2>1. t \in WorkerState
    BY <1>1, Names DEF WorkerState
  <2>2. t.job = s.job /\ t.p = s.p /\ t.off = s.off /\ t.done = NoLines /\ t.pc = "settle"
    BY <1>1 DEF WorkerState
  <2> HIDE DEF t, Out
  <2> QED
    BY <1>4, <1>5, <2>1, <2>2 DEF t
<1>6. ASSUME payment[s.p].status \notin Applied, NEW status \in {"PENDING_REVIEW", "SKIPPED"},
             Go(w, [u EXCEPT !.pc = "settle", !.status = status])
      PROVE  \E t \in WorkerState : Go(w, t) /\ Out(t)
  <2> DEFINE t == [u EXCEPT !.pc = "settle", !.status = status]
  <2>1. t \in WorkerState
    BY <1>1, Names DEF WorkerState
  <2>2. t.job = s.job /\ t.p = s.p /\ t.off = s.off /\ t.done = NoLines /\ t.pc = "settle"
    BY <1>1 DEF WorkerState
  <2> HIDE DEF t, Out
  <2> QED
    BY <1>4, <1>6, <2>1, <2>2 DEF t
<1>7. \E t \in WorkerState : Go(w, t) /\ Out(t)
  <2> HIDE DEF Out
  <2> QED
    BY <1>2, <1>3, <1>5, <1>6 DEF Reconcile, u
<1> QED
  BY <1>0, <1>7

LEMMA LineMoves ==
  ASSUME NEW s \in WorkerState, NEW r \in Reservations, NEW slot \in Slots
  PROVE  /\ LineDone(s, r, slot) \in WorkerState
         /\ Keeps(s, LineDone(s, r, slot))
         /\ LineDone(s, r, slot).todo = s.todo \ {r}
         /\ LineDone(s, r, slot).done = [s.done EXCEPT ![r] = slot]
         /\ LineDone(s, r, slot).pc = IF s.todo \ {r} = {} THEN "commit" ELSE "charge"
BY DEF LineDone, WorkerState, Pcs, Keeps

LEMMA FailedMoves ==
  ASSUME NEW s \in WorkerState, NEW r \in Reservations, NEW archived \in BOOLEAN
  PROVE  \E t \in WorkerState :
            /\ t = Failed(s, r, archived)
            /\ \/ Manual(s) /\ t = LineDone(s, r, Offline)
               \/ /\ Manual(s) /\ Light(s, t)
                  /\ \A x \in Reservations : s.done[x] \notin ChargeIds
               \/ /\ Manual(s) /\ Keeps(s, t) /\ t.pc = "cancel" /\ t.done = s.done
                  /\ t.todo = {x \in Reservations : s.done[x] \in ChargeIds}
               \/ /\ ~Manual(s) /\ Keeps(s, t) /\ t.done = s.done
                  /\ t.pc = "commitOffline" \/ (t.pc = "settleFailed" /\ ~s.off)
<1> DEFINE made == {x \in Reservations : s.done[x] \in ChargeIds}
           b == [s EXCEPT !.pc = "cancel", !.todo = made, !.c = None]
           F(pc) == [s EXCEPT !.c = None, !.pc = pc]
<1>1. LineDone(s, r, Offline) \in WorkerState
  BY LineMoves DEF Slots
<1>2. b \in WorkerState /\ Keeps(s, b) /\ b.pc = "cancel" /\ b.done = s.done /\ b.todo = made
  BY Names DEF WorkerState, Keeps
<1>3. \A pc \in {"commitOffline", "settleFailed"} :
         F(pc) \in WorkerState /\ Keeps(s, F(pc)) /\ F(pc).pc = pc /\ F(pc).done = s.done
  BY DEF WorkerState, Keeps, Pcs
<1>4. Rollback(s) = IF made = {} THEN IdleWorker ELSE b
  BY DEF Rollback
<1>5. CASE Manual(s)
  <2>1. Failed(s, r, archived) \in {LineDone(s, r, Offline), Rollback(s)}
    BY <1>5 DEF Failed, LineFailed
  <2> HIDE DEF b
  <2> QED
    BY <1>1, <1>2, <1>4, <1>5, <2>1, EndMoves
<1>6. CASE ~Manual(s)
  <2>1. \/ Failed(s, r, archived) = F("commitOffline")
        \/ Failed(s, r, archived) = F("settleFailed") /\ ~s.off
    BY <1>6 DEF Failed
  <2> HIDE DEF F
  <2> QED
    BY <1>3, <1>6, <2>1
<1> QED
  BY <1>5, <1>6

LEMMA UndoReadMoves ==
  ASSUME OwnershipInv, NEW w \in Workers, UndoRead(w)
  PROVE  /\ worker[w].pc = "undo"
         /\ \E t \in WorkerState :
               /\ Go(w, t)
               /\ \/ Light(worker[w], t)
                  \/ /\ payment[worker[w].p].status \in Applied
                     /\ Keeps(worker[w], t) /\ t.done = UndoTargets(worker[w].p)
                     /\ t.todo = {r \in Reservations : t.done[r] # None}
                     /\ t.pc = IF t.todo = {} THEN "clear" ELSE "cancel"
<1> DEFINE s == worker[w]
           targets == UndoTargets(s.p)
           todo == {r \in Reservations : targets[r] # None}
           pc == IF todo = {} THEN "clear" ELSE "cancel"
           t == [s EXCEPT !.done = targets, !.todo = todo, !.pc = pc]
<1>0. /\ s \in WorkerState /\ LocalsOK(s) /\ s.pc = "undo"
      /\ payment \in [Payments -> PaymentRow]
      /\ alloc \in [Payments -> [Reservations -> Slots]]
  BY DEF OwnershipInv, TypeOK, UndoRead
<1>1. s.p \in Payments
  BY <1>0 DEF LocalsOK, PaymentPcs
<1>2. targets \in [Reservations -> Slots]
  BY <1>0, <1>1 DEF UndoTargets, PaymentRow, Slots
<1>3. \/ Go(w, t) /\ payment[s.p].status \in Applied
      \/ Abort(w)
  BY DEF UndoRead
<1>4. todo \in SUBSET Reservations /\ pc \in Pcs
  BY Names
<1> HIDE DEF targets
<1>5. t \in WorkerState /\ Keeps(s, t) /\ t.done = targets /\ t.todo = todo /\ t.pc = pc
  <2> HIDE DEF todo, pc
  <2> QED
    BY <1>0, <1>2, <1>4 DEF WorkerState, Keeps
<1> HIDE DEF t
<1>6. CASE Abort(w)
  BY <1>0, <1>6, AbortMoves
<1>7. CASE Go(w, t) /\ payment[s.p].status \in Applied
  BY <1>0, <1>5, <1>7 DEF targets
<1> QED
  BY <1>3, <1>6, <1>7

LEMMA CancelMoves ==
  ASSUME OwnershipInv, NEW w \in Workers, CancelCharge(w)
  PROVE  /\ worker[w].pc = "cancel"
         /\ \E t \in WorkerState, r \in worker[w].todo :
               /\ Go(w, t) /\ Keeps(worker[w], t)
               /\ t.pc = "forget" /\ t.done = worker[w].done
               /\ t.todo = worker[w].todo \ {r} /\ t.c = worker[w].done[r]
               /\ \/ charge' = [charge EXCEPT ![worker[w].done[r]].st = "cancelled"]
                  \/ "cancel" \in Faults /\ UNCHANGED charge
<1> DEFINE s == worker[w]
           T(r) == [s EXCEPT !.pc = "forget", !.c = s.done[r], !.todo = @ \ {r}]
           U(r) == [s EXCEPT !.pc = "forget", !.c = s.done[r], !.todo = @ \ {r}, !.failed = TRUE]
<1>0. s \in WorkerState /\ LocalsOK(s) /\ s.pc = "cancel"
  BY DEF OwnershipInv, TypeOK, CancelCharge
<1>1. PICK r \in s.todo :
         \/ charge' = [charge EXCEPT ![s.done[r]].st = "cancelled"] /\ Go(w, T(r))
         \/ "cancel" \in Faults /\ UNCHANGED charge /\ Go(w, U(r))
  BY DEF CancelCharge
<1>2. s.done[r] \in ChargeIds
  BY <1>0, <1>1 DEF LocalsOK
<1>3. /\ T(r) \in WorkerState /\ Keeps(s, T(r)) /\ T(r).pc = "forget" /\ T(r).done = s.done
      /\ T(r).todo = s.todo \ {r} /\ T(r).c = s.done[r]
  BY <1>0, <1>2, Names DEF WorkerState, Keeps
<1>4. /\ U(r) \in WorkerState /\ Keeps(s, U(r)) /\ U(r).pc = "forget" /\ U(r).done = s.done
      /\ U(r).todo = s.todo \ {r} /\ U(r).c = s.done[r]
  BY <1>0, <1>2, Names DEF WorkerState, Keeps
<1> HIDE DEF T, U
<1> QED
  BY <1>0, <1>1, <1>3, <1>4

LEMMA ForgetMoves ==
  ASSUME OwnershipInv, NEW w \in Workers, ForgetCharge(w)
  PROVE  /\ worker[w].pc = "forget" /\ notified' = notified \ {worker[w].c}
         /\ \E t \in WorkerState :
               /\ Go(w, t)
               /\ \/ /\ Keeps(worker[w], t) /\ t.done = worker[w].done /\ t.todo = worker[w].todo
                     /\ \/ t.pc = "cancel"
                        \/ t.pc = "clear" /\ worker[w].todo = {} /\ ~Manual(worker[w])
                  \/ Light(worker[w], t) /\ worker[w].todo = {} /\ Manual(worker[w])
<1> DEFINE s == worker[w]
           T(pc) == [s EXCEPT !.pc = pc, !.c = None]
<1>0. s \in WorkerState
  BY DEF OwnershipInv, TypeOK
<1>1. \/ Go(w, T("cancel"))
      \/ Go(w, T("clear")) /\ s.todo = {} /\ ~Manual(s)
      \/ Go(w, IdleWorker) /\ s.todo = {} /\ Manual(s)
  BY DEF ForgetCharge
<1>2. \A pc \in {"cancel", "clear"} :
         /\ T(pc) \in WorkerState /\ Keeps(s, T(pc)) /\ T(pc).pc = pc
         /\ T(pc).done = s.done /\ T(pc).todo = s.todo
  BY <1>0, Names DEF WorkerState, Keeps
<1> HIDE DEF T
<1> QED
  BY <1>0, <1>1, <1>2, EndMoves DEF ForgetCharge

LEMMA TakeBackMoves ==
  ASSUME OwnershipInv, NEW w \in Workers, ClearAllocations(w) \/ ResetPayment(w)
  PROVE  \E t \in WorkerState :
            /\ Go(w, t) /\ Keeps(worker[w], t) /\ t.done = worker[w].done
            /\ t.pc = IF worker[w].pc = "clear" THEN "reset" ELSE "reconcile"
<1> DEFINE s == worker[w]
           T(pc) == [s EXCEPT !.pc = pc]
<1>0. s \in WorkerState
  BY DEF OwnershipInv, TypeOK
<1>1. \/ Go(w, T("reset")) /\ s.pc = "clear"
      \/ Go(w, T("reconcile")) /\ s.pc = "reset"
  BY DEF ClearAllocations, ResetPayment
<1>2. \A pc \in {"reset", "reconcile"} :
         /\ T(pc) \in WorkerState /\ Keeps(s, T(pc)) /\ T(pc).pc = pc /\ T(pc).done = s.done
  BY <1>0, Names DEF WorkerState, Keeps
<1> HIDE DEF T
<1> QED
  BY <1>1, <1>2

LEMMA WebhookMoves ==
  ASSUME OwnershipInv, NEW w \in Workers,
         FetchCharges(w) \/ Baseline(w) \/ NoteCharge(w) \/ NoteRow(w)
  PROVE  \E t \in WorkerState :
            /\ Go(w, t)
            /\ \/ Light(worker[w], t)
               \/ /\ Keeps(worker[w], t) /\ t.done = worker[w].done
                  /\ \/ /\ FetchCharges(w) /\ t.pc \in {"baseline", "note"}
                        /\ t.ids = {c \in ChargeIds : /\ charge[c].st = "paid"
                                                      /\ charge[c].res = worker[w].r}
                                     \ worker[w].ids
                     \/ /\ NoteCharge(w) /\ t.pc = "noteRow" /\ t.c \in worker[w].ids
                        /\ Note(t.c) /\ t.ids = worker[w].ids \ {t.c}
                     \/ NoteRow(w) /\ t.pc = "note" /\ t.ids = worker[w].ids
<1> DEFINE s == worker[w]
           new == {c \in ChargeIds : charge[c].st = "paid" /\ charge[c].res = s.r} \ s.ids
<1>0. s \in WorkerState
  BY DEF OwnershipInv, TypeOK
<1>1. CASE FetchCharges(w)
  <2> DEFINE T(pc) == [s EXCEPT !.pc = pc, !.ids = new]
  <2>1. Go(w, IdleWorker) \/ \E pc \in {"baseline", "note"} : Go(w, T(pc))
    BY <1>1 DEF FetchCharges
  <2>2. new \in SUBSET ChargeIds
    OBVIOUS
  <2> HIDE DEF new
  <2>3. \A pc \in {"baseline", "note"} :
           /\ T(pc) \in WorkerState /\ Keeps(s, T(pc)) /\ T(pc).done = s.done
           /\ T(pc).pc = pc /\ T(pc).ids = new
    BY <1>0, <2>2, Names DEF WorkerState, Keeps
  <2> HIDE DEF T
  <2> QED
    BY <1>0, <1>1, <2>1, <2>3, EndMoves DEF new
<1>2. CASE Baseline(w)
  BY <1>0, <1>2, EndMoves DEF Baseline
<1>3. CASE NoteCharge(w)
  <2>1. PICK c \in s.ids : Note(c) /\ Go(w, [s EXCEPT !.pc = "noteRow", !.c = c, !.ids = @ \ {c}])
    BY <1>3 DEF NoteCharge
  <2> DEFINE t == [s EXCEPT !.pc = "noteRow", !.c = c, !.ids = @ \ {c}]
  <2>2. /\ t \in WorkerState /\ Keeps(s, t) /\ t.done = s.done /\ t.pc = "noteRow" /\ t.c = c
        /\ t.ids = s.ids \ {c}
    BY <1>0, Names DEF WorkerState, Keeps
  <2> HIDE DEF t
  <2>3. Go(w, t) /\ t.c \in s.ids /\ Note(t.c)
    BY <2>1, <2>2 DEF t
  <2> QED
    BY <1>3, <2>2, <2>3
<1>4. CASE NoteRow(w)
  <2> DEFINE t == [s EXCEPT !.pc = "note", !.c = None]
  <2>1. Go(w, IdleWorker) \/ Go(w, t)
    BY <1>4 DEF NoteRow
  <2>2. t \in WorkerState /\ Keeps(s, t) /\ t.done = s.done /\ t.pc = "note" /\ t.ids = s.ids
    BY <1>0, Names DEF WorkerState, Keeps
  <2> HIDE DEF t
  <2> QED
    BY <1>0, <1>4, <2>1, <2>2, EndMoves
<1> QED
  BY <1>1, <1>2, <1>3, <1>4

LEMMA ApplyMoves ==
  ASSUME OwnershipInv, NEW w \in Workers,
         ApplyOffline(w) \/ ChargeCreate(w) \/ InboxNote(w) \/ Record(w)
  PROVE  \E t \in WorkerState :
            /\ Go(w, t) /\ Keeps(worker[w], t)
            /\ \/ /\ ApplyOffline(w)
                  /\ \E r \in worker[w].todo : t = LineDone(worker[w], r, Offline)
               \/ /\ ChargeCreate(w) /\ t.pc = "inbox" /\ t.c = nCharges + 1
                  /\ t.done = worker[w].done /\ t.todo = worker[w].todo
                  /\ t.first = worker[w].first
               \/ /\ InboxNote(w) /\ t.pc = "record" /\ t.c = worker[w].c
                  /\ t.done = worker[w].done /\ t.todo = worker[w].todo
                  /\ t.first = worker[w].first
               \/ /\ Record(w) /\ charge[worker[w].c].res \in Reservations
                  /\ t = LineDone(worker[w], charge[worker[w].c].res, worker[w].c)
<1> DEFINE s == worker[w]
<1>0. s \in WorkerState /\ LocalsOK(s) /\ HandOK(s, charge) /\ nCharges \in 0..MaxCharges
  BY DEF OwnershipInv, TypeOK
<1>1. CASE ApplyOffline(w)
  <2>1. PICK r \in s.todo : Go(w, LineDone(s, r, Offline))
    BY <1>1 DEF ApplyOffline
  <2>2. r \in Reservations
    BY <1>0 DEF WorkerState
  <2> QED
    BY <1>0, <1>1, <2>1, <2>2, LineMoves DEF Slots
<1>2. CASE ChargeCreate(w)
  <2> DEFINE t == [s EXCEPT !.pc = "inbox", !.c = nCharges + 1]
  <2>1. Go(w, t) /\ nCharges < MaxCharges
    BY <1>2 DEF ChargeCreate, Accept
  <2>2. nCharges + 1 \in ChargeIds
    BY <1>0, <2>1, BoundsAssumption DEF ChargeIds
  <2>3. /\ t \in WorkerState /\ Keeps(s, t) /\ t.pc = "inbox" /\ t.c = nCharges + 1
        /\ t.done = s.done /\ t.todo = s.todo /\ t.first = s.first
    BY <1>0, <2>2, Names DEF WorkerState, Keeps
  <2> HIDE DEF t
  <2> QED
    BY <1>2, <2>1, <2>3
<1>3. CASE InboxNote(w)
  <2> DEFINE t == [s EXCEPT !.pc = "record"]
  <2>1. Go(w, t)
    BY <1>3 DEF InboxNote
  <2>2. /\ t \in WorkerState /\ Keeps(s, t) /\ t.pc = "record" /\ t.c = s.c
        /\ t.done = s.done /\ t.todo = s.todo /\ t.first = s.first
    BY <1>0, Names DEF WorkerState, Keeps
  <2> HIDE DEF t
  <2> QED
    BY <1>3, <2>1, <2>2
<1>4. CASE Record(w)
  <2>1. Go(w, LineDone(s, charge[s.c].res, s.c)) /\ s.pc = "record"
    BY <1>4 DEF Record
  <2>2. charge[s.c].res \in Reservations /\ s.c \in Slots
    BY <1>0, <2>1 DEF HandOK, LocalsOK, Slots
  <2> QED
    BY <1>0, <1>4, <2>1, <2>2, LineMoves
<1> QED
  BY <1>1, <1>2, <1>3, <1>4

LEMMA FailMoves ==
  ASSUME OwnershipInv, NEW w \in Workers,
         ChargeFail(w) \/ InboxThrows(w) \/ (Commit(w) /\ Clash(worker[w]))
  PROVE  /\ worker[w].pc \in {"charge", "inbox", "commit"}
         /\ UNCHANGED <<payment, alloc, fails, notified, notes>>
         /\ \E t \in WorkerState :
            /\ Go(w, t)
            /\ \/ /\ worker[w].pc \in {"charge", "inbox"}
                  /\ \E r \in worker[w].todo \cup {charge[worker[w].c].res},
                        archived \in BOOLEAN : t = Failed(worker[w], r, archived)
                  /\ worker[w].pc = "charge" =>
                        \E r \in worker[w].todo, archived \in BOOLEAN :
                           t = Failed(worker[w], r, archived)
               \/ /\ worker[w].pc = "commit" /\ ~Manual(worker[w])
                  /\ worker[w].first \in Reservations
                  /\ t = Failed(worker[w], worker[w].first, FALSE)
               \/ worker[w].pc = "commit" /\ Light(worker[w], t)
<1> DEFINE s == worker[w]
<1>0. s \in WorkerState /\ LocalsOK(s) /\ HandOK(s, charge)
  BY DEF OwnershipInv, TypeOK
<1>1. CASE ChargeFail(w)
  <2>1. PICK r \in s.todo, archived \in BOOLEAN : Go(w, Failed(s, r, archived))
    BY <1>1 DEF ChargeFail
  <2>2. r \in Reservations
    BY <1>0 DEF WorkerState
  <2>3. Failed(s, r, archived) \in WorkerState
    BY <1>0, <2>2, FailedMoves
  <2> QED
    BY <1>1, <2>1, <2>3 DEF ChargeFail, inboxVars
<1>2. CASE InboxThrows(w)
  <2>1. Go(w, Failed(s, charge[s.c].res, FALSE)) /\ s.pc = "inbox"
    BY <1>2 DEF InboxThrows
  <2>2. charge[s.c].res \in Reservations
    BY <1>0, <2>1 DEF HandOK
  <2>3. Failed(s, charge[s.c].res, FALSE) \in WorkerState
    BY <1>0, <2>2, FailedMoves
  <2> QED
    BY <1>2, <2>1, <2>3 DEF InboxThrows, inboxVars
<1>3. CASE Commit(w) /\ Clash(s)
  <2>1. s.pc = "commit" /\ UNCHANGED <<payment, alloc, fails, notified, notes>>
    BY <1>3 DEF Commit, inboxVars
  <2>2. CASE Manual(s)
    <3>1. Abort(w)
      BY <1>3, <2>2 DEF Commit
    <3> QED
      BY <1>0, <2>1, <3>1, AbortMoves
  <2>3. CASE ~Manual(s)
    <3>1. Go(w, Failed(s, s.first, FALSE)) /\ s.first \in Reservations
      BY <1>0, <1>3, <2>1, <2>3 DEF Commit, LocalsOK
    <3>2. Failed(s, s.first, FALSE) \in WorkerState
      BY <1>0, <3>1, FailedMoves
    <3> QED
      BY <2>1, <2>3, <3>1, <3>2
  <2> QED
    BY <2>2, <2>3
<1> QED
  BY <1>1, <1>2, <1>3

LEMMA BookMoves ==
  ASSUME OwnershipInv, NEW w \in Workers,
         (Commit(w) /\ ~Clash(worker[w])) \/ CommitOffline(w)
  PROVE  \E t \in WorkerState :
            /\ Go(w, t) /\ Light(worker[w], t)
            /\ \/ UNCHANGED <<payment, alloc, fails>> /\ CommitOffline(w)
               \/ /\ Commit(w) /\ t.done = NoLines
                  /\ \E status \in Applied : Booked(worker[w], status, "none")
               \/ /\ CommitOffline(w) /\ t.done = NoLines
                  /\ \E u : /\ Booked(u, "AUTO_APPLIED", "none")
                            /\ u.p = worker[w].p /\ u.first = worker[w].first
                            /\ u.done = [NoLines EXCEPT ![worker[w].first] = Offline]
<1> DEFINE s == worker[w]
<1>0. s \in WorkerState
  BY DEF OwnershipInv, TypeOK
<1>1. CASE Commit(w) /\ ~Clash(s)
  <2>1. Go(w, Return(s)) /\ \E status \in Applied : Booked(s, status, "none")
    BY <1>1 DEF Commit, Applied
  <2> QED
    BY <1>0, <1>1, <2>1, EndMoves
<1>2. CASE CommitOffline(w)
  <2> DEFINE u == [s EXCEPT !.done = [NoLines EXCEPT ![s.first] = Offline]]
  <2>1. \/ Booked(u, "AUTO_APPLIED", "none") /\ Go(w, Return(s))
        \/ Abort(w) /\ UNCHANGED <<payment, alloc, fails>>
    BY <1>2 DEF CommitOffline
  <2>4. u.p = s.p /\ u.first = s.first /\ u.done = [NoLines EXCEPT ![s.first] = Offline]
    BY <1>0 DEF WorkerState
  <2> HIDE DEF u
  <2>2. CASE Booked(u, "AUTO_APPLIED", "none") /\ Go(w, Return(s))
    BY <1>0, <1>2, <2>2, <2>4, EndMoves
  <2>3. CASE Abort(w) /\ UNCHANGED <<payment, alloc, fails>>
    <3>1. Go(w, IdleWorker) \/ Go(w, Return(s))
      BY <2>3 DEF Abort
    <3> QED
      BY <1>0, <1>2, <2>3, <3>1, EndMoves
  <2> QED
    BY <2>1, <2>2, <2>3
<1> QED
  BY <1>1, <1>2

----------------------------------------------------------------------------
(* No unforced retry.  Two polls' worth of handlers side by side may both   *)
(* read the row before either writes its error, so one handler at a time    *)
(* is the condition; failures and restarts may be any.                      *)

\* A handler that is on an automatic attempt of a unit that was not archived.
Attempt(s) ==
    /\ s.pc \in {"charge", "inbox", "record", "commit", "settleFailed"}
    /\ ~Manual(s) /\ ~s.off

\* NoUnforcedRetry made inductive: a failure is on the row for the next
\* reconcile to see, and whoever attempts again has had the count forced to 0.
RetryInv ==
    /\ \A p \in Payments :
          fails[p] # 0 => fails[p] = 1 /\ payment[p].error = "applyFailed"
    /\ \A w \in Workers :
          /\ Attempt(worker[w]) => fails[worker[w].p] = 0
          /\ worker[w].pc = "settleFailed" => Attempt(worker[w])

LEMMA RetryBy ==
  ASSUME OwnershipInv, OneHandler, RetryInv, NEW w \in Workers, NEW t, Go(w, t),
         \A p \in Payments :
            fails'[p] # 0 => fails'[p] = 1 /\ payment'[p].error = "applyFailed",
         Attempt(t) => fails'[t.p] = 0,
         t.pc = "settleFailed" => Attempt(t)
  PROVE  RetryInv'
<1>1. \A v \in Workers : worker'[v] = t
  BY DEF Go, OneHandler, OwnershipInv, TypeOK
<1> QED
  BY <1>1 DEF RetryInv

\* A step that leaves the rows and the counts alone and goes on with the same
\* attempt, or with none.
LEMMA RetryQuiet ==
  ASSUME OwnershipInv, OneHandler, RetryInv, NEW w \in Workers, NEW t, Go(w, t),
         UNCHANGED <<payment, fails>>,
         \/ Light(worker[w], t)
         \/ t.pc \notin {"charge", "inbox", "record", "commit", "settleFailed"}
         \/ t.pc \in {"charge", "inbox", "record", "commit"} /\ Manual(t)
         \/ /\ Keeps(worker[w], t)
            /\ worker[w].pc \in {"charge", "inbox", "record", "commit"}
            /\ t.pc = "settleFailed" => ~Manual(t) /\ ~t.off
  PROVE  RetryInv'
<1>1. Attempt(t) => fails[t.p] = 0
  BY DEF RetryInv, Attempt, Keeps, Manual, Light, LightPcs
<1>2. t.pc = "settleFailed" => Attempt(t)
  BY DEF Attempt, Light, LightPcs
<1> QED
  BY <1>1, <1>2, RetryBy DEF RetryInv

LEMMA ApplyRetry ==
  ASSUME OwnershipInv, OneHandler, RetryInv, NEW w \in Workers, Apply(w)
  PROVE  RetryInv'
<1> DEFINE s == worker[w]
<1>0. s \in WorkerState /\ LocalsOK(s) /\ HandOK(s, charge)
  BY DEF OwnershipInv, TypeOK
<1>1. CASE ApplyOffline(w) \/ ChargeCreate(w) \/ InboxNote(w) \/ Record(w)
  <2>1. s.pc \in {"charge", "inbox", "record"} /\ UNCHANGED <<payment, fails>>
    BY <1>1 DEF ApplyOffline, ChargeCreate, InboxNote, Record
  <2>2. PICK t \in WorkerState : Go(w, t) /\ Keeps(s, t) /\ t.pc # "settleFailed"
    <3>1. PICK t \in WorkerState :
            /\ Go(w, t) /\ Keeps(s, t)
            /\ \/ \E r \in s.todo : t = LineDone(s, r, Offline)
               \/ t.pc = "inbox"
               \/ t.pc = "record"
               \/ charge[s.c].res \in Reservations /\ t = LineDone(s, charge[s.c].res, s.c)
      BY <1>1, ApplyMoves
    <3>2. \A r, slot : LineDone(s, r, slot).pc \in {"commit", "charge"}
      BY <1>0 DEF LineDone, WorkerState
    <3> QED
      BY <3>1, <3>2
  <2> QED
    BY <2>1, <2>2, RetryQuiet
<1>2. CASE ChargeFail(w) \/ InboxThrows(w) \/ (Commit(w) /\ Clash(s))
  <2>1. PICK t \in WorkerState :
          /\ Go(w, t)
          /\ \/ \E r \in Reservations, archived \in BOOLEAN : t = Failed(s, r, archived)
             \/ Light(s, t)
    <3>1. /\ s.pc = "inbox" => charge[s.c].res \in Reservations
          /\ s.todo \subseteq Reservations
      BY <1>0 DEF HandOK, WorkerState
    <3> QED
      BY <1>2, <3>1, FailMoves
  <2>2. s.pc \in {"charge", "inbox", "commit"} /\ UNCHANGED <<payment, fails>>
    BY <1>2, FailMoves
  <2>3. CASE Light(s, t)
    BY <2>1, <2>2, <2>3, RetryQuiet
  <2>4. ASSUME NEW r \in Reservations, NEW archived \in BOOLEAN, t = Failed(s, r, archived)
        PROVE  RetryInv'
    <3>1. \/ Manual(s) /\ t = LineDone(s, r, Offline)
          \/ Light(s, t)
          \/ t.pc = "cancel"
          \/ /\ ~Manual(s) /\ Keeps(s, t)
             /\ t.pc = "commitOffline" \/ (t.pc = "settleFailed" /\ ~s.off)
      BY <1>0, <2>4, FailedMoves
    <3>2. CASE Manual(s) /\ t = LineDone(s, r, Offline)
      <4>1. Manual(t) /\ t.pc \in {"commit", "charge"}
        BY <1>0, <3>2 DEF LineDone, WorkerState, Manual
      <4> QED
        BY <2>1, <2>2, <4>1, RetryQuiet
    <3>3. CASE Light(s, t) \/ t.pc = "cancel"
      BY <2>1, <2>2, <3>3, RetryQuiet
    <3>4. CASE /\ ~Manual(s) /\ Keeps(s, t)
               /\ t.pc = "commitOffline" \/ (t.pc = "settleFailed" /\ ~s.off)
      <4>1. ~Manual(t) /\ t.off = s.off
        BY <3>4 DEF Keeps, Manual
      <4> QED
        BY <2>1, <2>2, <3>4, <4>1, RetryQuiet
    <3> QED
      BY <3>1, <3>2, <3>3, <3>4
  <2> QED
    BY <2>1, <2>3, <2>4
<1>3. CASE (Commit(w) /\ ~Clash(s)) \/ CommitOffline(w)
  <2>1. PICK t \in WorkerState :
          /\ Go(w, t) /\ Light(s, t)
          /\ UNCHANGED <<payment, fails>> \/ \E u, status : u.p = s.p /\ Booked(u, status, "none")
    <3>1. PICK t \in WorkerState :
            /\ Go(w, t) /\ Light(s, t)
            /\ \/ UNCHANGED <<payment, alloc, fails>>
               \/ \E status \in Applied : Booked(s, status, "none")
               \/ \E u : Booked(u, "AUTO_APPLIED", "none") /\ u.p = s.p
      BY <1>3, BookMoves
    <3>2. CASE UNCHANGED <<payment, alloc, fails>>
      BY <3>1, <3>2
    <3>3. CASE \E status \in Applied : Booked(s, status, "none")
      BY <3>1, <3>3
    <3>4. CASE \E u : Booked(u, "AUTO_APPLIED", "none") /\ u.p = s.p
      BY <3>1, <3>4
    <3> QED
      BY <3>1, <3>2, <3>3, <3>4
  <2>2. CASE UNCHANGED <<payment, fails>>
    BY <2>1, <2>2, RetryQuiet
  <2>3. CASE \E u, status : u.p = s.p /\ Booked(u, status, "none")
    <3>1. /\ fails' = [fails EXCEPT ![s.p] = 0]
          /\ \E row : payment' = [payment EXCEPT ![s.p] = row]
      BY <2>3 DEF Booked
    <3>2. \A p \in Payments : fails'[p] # 0 => fails'[p] = 1 /\ payment'[p].error = "applyFailed"
      BY <3>1 DEF RetryInv, OwnershipInv, TypeOK
    <3>3. ~Attempt(t) /\ t.pc # "settleFailed"
      BY <2>1 DEF Attempt, Light, LightPcs
    <3> QED
      BY <2>1, <3>2, <3>3, RetryBy
  <2> QED
    BY <2>1, <2>2, <2>3
<1> QED
  BY <1>1, <1>2, <1>3 DEF Apply, Commit

LEMMA VerdictRetry ==
  ASSUME OwnershipInv, OneHandler, RetryInv, NEW w \in Workers,
         Reconcile(w) \/ Settle(w) \/ SettleFailed(w)
  PROVE  RetryInv'
<1> DEFINE s == worker[w]
<1>0. /\ s \in WorkerState /\ LocalsOK(s)
      /\ payment \in [Payments -> PaymentRow] /\ fails \in [Payments -> 0..2]
  BY DEF OwnershipInv, TypeOK
<1>00. s.p \in Payments
  BY <1>0 DEF LocalsOK, PaymentPcs, Reconcile, Settle, SettleFailed
<1>1. CASE Reconcile(w)
  <2>1. PICK t \in WorkerState :
          /\ Go(w, t)
          /\ \/ Light(s, t)
             \/ /\ Keeps(s, [t EXCEPT !.off = s.off])
                /\ \/ t.pc = "settle"
                   \/ /\ t.pc = "charge"
                      /\ Forced(s) \/ payment[t.p].error # "applyFailed" \/ t.off
    BY <1>1, ReconcileMoves
  <2>2. /\ UNCHANGED payment
        /\ fails' = IF Forced(s) THEN [fails EXCEPT ![s.p] = 0] ELSE fails
    BY <1>1 DEF Reconcile
  <2>3. \A p \in Payments : fails'[p] # 0 => fails'[p] = 1 /\ payment'[p].error = "applyFailed"
    BY <1>0, <1>00, <2>2 DEF RetryInv
  <2>4. t.pc # "settleFailed"
    BY <2>1 DEF Light, LightPcs
  <2>5. Attempt(t) => fails'[t.p] = 0
    <3>1. SUFFICES ASSUME Attempt(t) PROVE fails'[t.p] = 0
      OBVIOUS
    <3>2. /\ ~t.off /\ Keeps(s, [t EXCEPT !.off = s.off])
          /\ Forced(s) \/ payment[t.p].error # "applyFailed"
      BY <2>1, <3>1 DEF Attempt, Light, LightPcs
    <3>3. t.p = s.p
      BY <3>2 DEF Keeps, WorkerState
    <3> QED
      BY <1>0, <1>00, <2>2, <3>2, <3>3 DEF RetryInv
  <2> QED
    BY <2>1, <2>3, <2>4, <2>5, RetryBy
<1>2. CASE Settle(w)
  <2>1. Go(w, Return(s)) /\ Return(s).pc \in {"idle", "batch"}
    BY <1>0, <1>2, EndMoves DEF Settle
  <2>2. \A p \in Payments : fails'[p] # 0 => fails'[p] = 1 /\ payment'[p].error = "applyFailed"
    <3>1. CASE s.status = "SKIPPED"
      BY <1>0, <1>00, <1>2, <3>1 DEF Settle, RetryInv
    <3>2. CASE s.status # "SKIPPED"
      <4>1. fails' = fails /\ \A p \in Payments : payment'[p].error = payment[p].error
        BY <1>0, <1>00, <1>2, <3>2 DEF Settle, PaymentRow
      <4> QED
        BY <4>1 DEF RetryInv
    <3> QED
      BY <3>1, <3>2
  <2> QED
    BY <2>1, <2>2, RetryBy DEF Attempt
<1>3. CASE SettleFailed(w)
  <2>1. Go(w, Return(s)) /\ Return(s).pc \in {"idle", "batch"}
    BY <1>0, <1>3, EndMoves DEF SettleFailed
  <2>2. fails[s.p] = 0
    BY <1>3 DEF SettleFailed, RetryInv
  <2>3. fails' = [fails EXCEPT ![s.p] = 1]
    BY <1>0, <1>00, <1>3, <2>2 DEF SettleFailed
  <2>4. \A p \in Payments : payment'[p].error = IF p = s.p THEN "applyFailed" ELSE payment[p].error
    BY <1>0, <1>00, <1>3 DEF SettleFailed, PaymentRow
  <2>5. \A p \in Payments : fails'[p] # 0 => fails'[p] = 1 /\ payment'[p].error = "applyFailed"
    BY <1>0, <1>00, <2>3, <2>4 DEF RetryInv
  <2> QED
    BY <2>1, <2>5, RetryBy DEF Attempt
<1> QED
  BY <1>1, <1>2, <1>3

LEMMA OtherRetry ==
  ASSUME OwnershipInv, OneHandler, RetryInv, NEW w \in Workers,
         \/ Create(w) \/ LoadPending(w) \/ BatchNext(w) \/ BatchEnd(w)
         \/ Undo(w) \/ Call(w)
         \/ FetchCharges(w) \/ Baseline(w) \/ NoteCharge(w) \/ NoteRow(w)
  PROVE  RetryInv'
<1> DEFINE s == worker[w]
<1>0. s \in WorkerState /\ LocalsOK(s) /\ payment \in [Payments -> PaymentRow]
      /\ fails \in [Payments -> 0..2]
  BY DEF OwnershipInv, TypeOK
<1>1. CASE Create(w) \/ LoadPending(w) \/ BatchNext(w) \/ BatchEnd(w)
  <2>1. PICK t \in WorkerState : Go(w, t) /\ Light(s, t)
    BY <1>1, LoopMoves
  <2>2. UNCHANGED fails /\ \A p \in Payments : payment'[p].error = payment[p].error
    <3>1. CASE Create(w)
      BY <1>0, <3>1 DEF Create, PaymentRow
    <3>2. CASE LoadPending(w) \/ BatchNext(w) \/ BatchEnd(w)
      <4>1. UNCHANGED <<payment, fails>>
        BY <3>2 DEF LoadPending, BatchNext, BatchEnd
      <4> QED
        BY <4>1
    <3> QED
      BY <1>1, <3>1, <3>2
  <2>3. ~Attempt(t) /\ t.pc # "settleFailed"
    BY <2>1 DEF Attempt, Light, LightPcs
  <2> QED
    BY <2>1, <2>2, <2>3, RetryBy DEF RetryInv
<1>2. CASE Call(w)
  <2>1. PICK t \in WorkerState :
          /\ Go(w, t)
          /\ t.pc \in LightPcs \/ (t.pc = "charge" /\ Manual(t)) \/ t.pc \in {"fetch", "fetchFirst"}
    BY <1>2, CallMoves
  <2>2. UNCHANGED <<payment, fails>>
    BY <1>2, CallMoves
  <2> QED
    BY <2>1, <2>2, RetryQuiet DEF LightPcs
<1>3. CASE ResetPayment(w)
  <2>1. PICK t \in WorkerState : Go(w, t) /\ t.pc = "reconcile"
    BY <1>3, TakeBackMoves DEF ResetPayment
  <2>2. \E row : payment' = [payment EXCEPT ![s.p] = row] /\ fails' = [fails EXCEPT ![s.p] = 0]
    BY <1>3 DEF ResetPayment
  <2>3. \A p \in Payments : fails'[p] # 0 => fails'[p] = 1 /\ payment'[p].error = "applyFailed"
    BY <1>0, <2>2 DEF RetryInv
  <2> QED
    BY <2>1, <2>3, RetryBy DEF Attempt
<1>4. CASE UndoRead(w) \/ CancelCharge(w) \/ ForgetCharge(w) \/ ClearAllocations(w)
  <2>1. UNCHANGED <<payment, fails>>
    BY <1>4 DEF UndoRead, CancelCharge, ForgetCharge, ClearAllocations
  <2>2. \E t \in WorkerState :
           /\ Go(w, t)
           /\ Light(s, t) \/ t.pc \in {"cancel", "clear", "forget", "reset", "reconcile"}
    <3>1. CASE UndoRead(w)
      BY <3>1, UndoReadMoves
    <3>2. CASE CancelCharge(w)
      BY <3>2, CancelMoves
    <3>3. CASE ForgetCharge(w)
      BY <3>3, ForgetMoves
    <3>4. CASE ClearAllocations(w)
      BY <3>4, TakeBackMoves
    <3> QED
      BY <1>4, <3>1, <3>2, <3>3, <3>4
  <2> QED
    BY <2>1, <2>2, RetryQuiet
<1>5. CASE FetchCharges(w) \/ Baseline(w) \/ NoteCharge(w) \/ NoteRow(w)
  <2>1. UNCHANGED <<payment, fails>>
    BY <1>5 DEF FetchCharges, Baseline, NoteCharge, NoteRow
  <2>2. \E t \in WorkerState :
           Go(w, t) /\ (Light(s, t) \/ t.pc \in {"baseline", "note", "noteRow"})
    BY <1>5, WebhookMoves
  <2> QED
    BY <2>1, <2>2, RetryQuiet
<1> QED
  BY <1>1, <1>2, <1>3, <1>4, <1>5 DEF Undo

\* A payment whose automatic booking failed is not tried again by a poll, an
\* import or a webhook until staff, a plan change or an undo gives it a new
\* chance: for any number of payments, whatever fails and however often the
\* process restarts, as long as its handlers run one at a time.
THEOREM NoUnforcedRetryTheorem ==
  ASSUME OneHandler PROVE Spec => []NoUnforcedRetry
<1>1. Init => RetryInv
  BY DEF Init, RetryInv, IdleWorker, Attempt
<1>2. OwnershipInv /\ RetryInv /\ [Next]_vars => RetryInv'
  <2> SUFFICES ASSUME OwnershipInv, RetryInv, [Next]_vars PROVE RetryInv'
    OBVIOUS
  <2>1. CASE UNCHANGED vars
    BY <2>1 DEF vars, RetryInv
  <2>2. ASSUME NEW w \in Workers, Step(w) \/ Call(w) PROVE RetryInv'
    BY <2>2, ApplyRetry, VerdictRetry, OtherRetry DEF Step
  <2>3. ASSUME NEW p \in Payments, SkipReview(p) PROVE RetryInv'
    <3>1. \A q \in Payments : payment'[q].error = payment[q].error
      BY <2>3 DEF SkipReview, OwnershipInv, TypeOK, PaymentRow
    <3> QED
      BY <2>3, <3>1 DEF SkipReview, RetryInv
  <2>4. ASSUME NEW r \in Reservations, ListingSync(r) PROVE RetryInv'
    BY <2>4 DEF ListingSync, RetryInv
  <2>5. CASE PollStartThrows
    BY <2>5 DEF PollStartThrows, RetryInv
  <2>6. CASE Crash
    BY <2>6 DEF Crash, RetryInv, IdleWorker, Attempt
  <2> QED
    BY <2>1, <2>2, <2>3, <2>4, <2>5, <2>6 DEF Next
<1>3. OwnershipInv /\ RetryInv => NoUnforcedRetry
  <2>1. ASSUME RetryInv, NEW p \in Payments, fails[p] \in 0..2 PROVE fails[p] <= 1
    BY <2>1 DEF RetryInv
  <2> QED
    BY <2>1 DEF NoUnforcedRetry, OwnershipInv, TypeOK
<1> QED
  BY <1>1, <1>2, <1>3, OwnershipTheorem, PTL DEF Spec

----------------------------------------------------------------------------
(* A guest is told once.  A second handler could post between the first     *)
(* one's note and its row, a restart in the same place loses the row, and   *)
(* a cancel that throws takes the row of a charge that still stands; with   *)
(* one handler, no restart and cancels that answer, no note is repeated.    *)

\* What the handler s at work knows of the notes.
HandNoted(s) ==
    /\ s.pc = "inbox" => notes[s.c] = 0
    /\ s.pc = "forget" => charge[s.c].st = "cancelled"
    /\ s.pc \in {"fetch", "fetchFirst"} => s.ids = notified
    /\ s.pc \in {"note", "noteRow"} =>
          \A c \in s.ids : notes[c] = 0 /\ charge[c].st # "unused"

\* Between a note and its row: the handler that posted it is about to write.
Writing(s, c) == s.pc \in {"record", "noteRow"} /\ s.c = c

\* NotedOnce made inductive: a charge with a note has its row, or is about to
\* get it, or is cancelled, so nobody finds it new again.
NoteInv ==
    /\ \A c \in ChargeIds : notes[c] # 0 =>
          /\ notes[c] = 1 /\ charge[c].st # "unused"
          /\ \/ c \in notified \/ charge[c].st = "cancelled"
             \/ \E w \in Workers : Writing(worker[w], c)
    /\ \A w \in Workers : HandNoted(worker[w])

\* A charge is made once and then may only be cancelled.
Ages ==
    \A c \in ChargeIds :
        charge'[c].st # charge[c].st => charge[c].st = "unused" \/ charge'[c].st = "cancelled"

LEMMA NoteBy ==
  ASSUME OwnershipInv, OneHandler, NoteInv, NEW w \in Workers, NEW t, Go(w, t), Ages,
         \A c \in ChargeIds : notes'[c] # notes[c] =>
            notes'[c] = 1 /\ charge'[c].st # "unused" /\ Writing(t, c),
         \A c \in notified \ notified' : charge'[c].st = "cancelled",
         \A c \in ChargeIds : Writing(worker[w], c) => c \in notified' \/ Writing(t, c),
         HandNoted(t)'
  PROVE  NoteInv'
<1>1. \A v \in Workers : v = w /\ worker'[v] = t
  BY DEF Go, OneHandler, OwnershipInv, TypeOK
<1>2. ASSUME NEW c \in ChargeIds, notes'[c] # 0, notes'[c] = notes[c]
      PROVE  /\ notes'[c] = 1 /\ charge'[c].st # "unused"
             /\ c \in notified' \/ charge'[c].st = "cancelled" \/ Writing(t, c)
  <2>1. /\ notes[c] = 1 /\ charge[c].st # "unused"
        /\ c \in notified \/ charge[c].st = "cancelled" \/ Writing(worker[w], c)
    BY <1>1, <1>2 DEF NoteInv
  <2>2. charge'[c].st = charge[c].st \/ charge'[c].st = "cancelled"
    BY <2>1 DEF Ages
  <2> QED
    BY <1>2, <2>1, <2>2
<1>3. \A c \in ChargeIds : notes'[c] # 0 =>
         /\ notes'[c] = 1 /\ charge'[c].st # "unused"
         /\ c \in notified' \/ charge'[c].st = "cancelled" \/ Writing(t, c)
  BY <1>2
<1> QED
  BY <1>1, <1>3 DEF NoteInv

\* Steps with no word on notes or rows, to an await that has none either.
Mute == {"idle", "batch", "pending", "create", "reconcile", "undo", "charge", "commit",
         "commitOffline", "settle", "settleFailed", "cancel", "clear", "reset", "baseline"}

LEMMA NoteMute ==
  ASSUME OwnershipInv, OneHandler, NoteInv, NEW w \in Workers, NEW t, Go(w, t), Ages,
         worker[w].pc \notin {"record", "noteRow"}, t.pc \in Mute,
         UNCHANGED <<notes, notified>>
  PROVE  NoteInv'
<1>1. HandNoted(t)'
  BY DEF HandNoted, Mute
<1> QED
  BY <1>1, NoteBy DEF Writing

LEMMA LightMute == \A s, t : Light(s, t) => t.pc \in Mute
BY DEF Light, LightPcs, Mute

LEMMA StillAges == UNCHANGED charge => Ages
BY DEF Ages

LEMMA ApplyNotes ==
  ASSUME OwnershipInv, OneHandler, NoteInv, NEW w \in Workers, Apply(w)
  PROVE  NoteInv'
<1> DEFINE s == worker[w]
<1>0. /\ s \in WorkerState /\ LocalsOK(s) /\ HandOK(s, charge) /\ HandNoted(s)
      /\ nCharges \in 0..MaxCharges /\ notes \in [ChargeIds -> 0..2]
      /\ charge \in [ChargeIds -> ChargeRow]
      /\ \A c \in ChargeIds : c > nCharges => charge[c].st = "unused"
  BY DEF OwnershipInv, TypeOK, NoteInv
<1>1. ASSUME NEW r, Accept(s.p, r)
      PROVE  /\ Ages /\ nCharges + 1 \in ChargeIds
             /\ charge[nCharges + 1].st = "unused"
  <2>1. nCharges + 1 \in ChargeIds /\ nCharges + 1 > nCharges
    BY <1>0, <1>1, BoundsAssumption DEF Accept, ChargeIds
  <2> QED
    BY <1>0, <1>1, <2>1 DEF Accept, Ages
<1>2. CASE ApplyOffline(w)
  <2>1. \E r \in s.todo : Go(w, LineDone(s, r, Offline))
    BY <1>2 DEF ApplyOffline
  <2>2. \A r \in s.todo : LineDone(s, r, Offline).pc \in Mute
    BY <1>0 DEF LineDone, WorkerState, Mute
  <2> QED
    BY <1>2, <2>1, <2>2, NoteMute, StillAges DEF ApplyOffline, chargeVars, inboxVars
<1>3. CASE ChargeCreate(w)
  <2>1. PICK t \in WorkerState : Go(w, t) /\ t.pc = "inbox" /\ t.c = nCharges + 1
    <3>1. PICK r \in s.todo : Go(w, [s EXCEPT !.pc = "inbox", !.c = nCharges + 1])
      BY <1>3 DEF ChargeCreate
    <3> DEFINE t == [s EXCEPT !.pc = "inbox", !.c = nCharges + 1]
    <3>2. nCharges + 1 \in ChargeIds
      BY <1>1, <1>3 DEF ChargeCreate
    <3>3. t \in WorkerState /\ t.pc = "inbox" /\ t.c = nCharges + 1
      BY <1>0, <3>2, Names DEF WorkerState
    <3> QED
      BY <3>1, <3>3
  <2>2. Ages /\ nCharges + 1 \in ChargeIds /\ charge[nCharges + 1].st = "unused"
    BY <1>1, <1>3 DEF ChargeCreate
  <2>3. UNCHANGED <<notes, notified>> /\ s.pc = "charge"
    BY <1>3 DEF ChargeCreate, inboxVars
  <2>4. notes'[nCharges + 1] = 0
    BY <2>2, <2>3 DEF NoteInv
  <2>5. HandNoted(t)'
    BY <2>1, <2>4 DEF HandNoted
  <2> QED
    BY <2>1, <2>2, <2>3, <2>5, NoteBy DEF Writing
<1>4. CASE InboxNote(w)
  <2>1. PICK t : t = [s EXCEPT !.pc = "record"]
    OBVIOUS
  <2>2. /\ Go(w, t) /\ Note(s.c) /\ s.pc = "inbox"
        /\ UNCHANGED <<charge, notified>>
    BY <1>4, <2>1 DEF InboxNote, chargeVars
  <2>3. t.pc = "record" /\ t.c = s.c
    BY <1>0, <2>1 DEF WorkerState
  <2>4. s.c \in ChargeIds /\ notes[s.c] = 0 /\ charge[s.c].st # "unused"
    BY <1>0, <2>2 DEF LocalsOK, HandOK, HandNoted, Made
  <2>5. \A c \in ChargeIds : notes'[c] # notes[c] => c = s.c /\ notes'[c] = 1
    BY <1>0, <2>2, <2>4 DEF Note
  <2>6. HandNoted(t)'
    BY <2>3 DEF HandNoted
  <2> QED
    BY <2>2, <2>3, <2>4, <2>5, <2>6, NoteBy, StillAges DEF Writing
<1>5. CASE Record(w)
  <2>1. PICK t : t = LineDone(s, charge[s.c].res, s.c)
    OBVIOUS
  <2>2. Go(w, t) /\ notified' = notified \cup {s.c} /\ UNCHANGED <<charge, notes>>
    BY <1>5, <2>1 DEF Record, chargeVars
  <2>3. t.pc \in Mute
    BY <1>0, <2>1 DEF LineDone, WorkerState, Mute
  <2>4. HandNoted(t)'
    BY <2>3 DEF HandNoted, Mute
  <2> QED
    BY <2>2, <2>4, NoteBy, StillAges DEF Writing
<1>6. CASE ChargeFail(w) \/ InboxThrows(w) \/ (Commit(w) /\ Clash(s))
  <2>1. /\ s.pc \in {"charge", "inbox", "commit"} /\ UNCHANGED <<notes, notified>>
        /\ \E t \in WorkerState :
              /\ Go(w, t)
              /\ \/ \E r \in Reservations, archived \in BOOLEAN : t = Failed(s, r, archived)
                 \/ Light(s, t)
    <3>1. /\ s.pc = "inbox" => charge[s.c].res \in Reservations
          /\ s.todo \subseteq Reservations
      BY <1>0 DEF HandOK, WorkerState
    <3> QED
      BY <1>6, <3>1, FailMoves
  <2>2. PICK t \in WorkerState :
          /\ Go(w, t)
          /\ \/ \E r \in Reservations, archived \in BOOLEAN : t = Failed(s, r, archived)
             \/ Light(s, t)
    BY <2>1
  <2>3. t.pc \in Mute
    <3>1. ASSUME NEW r \in Reservations, NEW archived \in BOOLEAN PROVE Failed(s, r, archived).pc \in Mute
      <4>1. PICK u \in WorkerState :
              /\ u = Failed(s, r, archived)
              /\ \/ u = LineDone(s, r, Offline)
                 \/ Light(s, u)
                 \/ u.pc \in {"cancel", "commitOffline", "settleFailed"}
        BY <1>0, <3>1, FailedMoves
      <4>2. LineDone(s, r, Offline).pc \in Mute
        BY <1>0 DEF LineDone, WorkerState, Mute
      <4> QED
        BY <4>1, <4>2, LightMute DEF Mute
    <3> QED
      BY <2>2, <3>1, LightMute
  <2>4. Ages
    <3>1. CASE ChargeFail(w)
      BY <1>1, <3>1, StillAges DEF ChargeFail, chargeVars
    <3>2. CASE InboxThrows(w) \/ Commit(w)
      BY <3>2, StillAges DEF InboxThrows, Commit, chargeVars
    <3> QED
      BY <1>6, <3>1, <3>2
  <2> QED
    BY <2>1, <2>2, <2>3, <2>4, NoteMute
<1>7. CASE (Commit(w) /\ ~Clash(s)) \/ CommitOffline(w)
  <2>1. \E t \in WorkerState : Go(w, t) /\ Light(s, t)
    BY <1>7, BookMoves
  <2>2. UNCHANGED <<notes, notified, charge>> /\ s.pc \in {"commit", "commitOffline"}
    BY <1>7 DEF Commit, CommitOffline, chargeVars, inboxVars
  <2> QED
    BY <2>1, <2>2, NoteMute, LightMute, StillAges
<1> QED
  BY <1>2, <1>3, <1>4, <1>5, <1>6, <1>7 DEF Apply, Commit

LEMMA UndoNotes ==
  ASSUME OwnershipInv, OneHandler, NoteInv, "cancel" \notin Faults,
         NEW w \in Workers, Undo(w)
  PROVE  NoteInv'
<1> DEFINE s == worker[w]
<1>0. /\ s \in WorkerState /\ LocalsOK(s) /\ HandNoted(s)
      /\ charge \in [ChargeIds -> ChargeRow]
  BY DEF OwnershipInv, TypeOK, NoteInv
<1>1. CASE UndoRead(w) \/ ClearAllocations(w) \/ ResetPayment(w)
  <2>1. \E t \in WorkerState : Go(w, t) /\ t.pc \in Mute
    BY <1>1, UndoReadMoves, TakeBackMoves, LightMute DEF Mute
  <2>2. /\ UNCHANGED <<charge, notes, notified>>
        /\ s.pc \notin {"record", "noteRow"}
    BY <1>1 DEF UndoRead, ClearAllocations, ResetPayment, chargeVars, inboxVars
  <2> QED
    BY <2>1, <2>2, NoteMute, StillAges
<1>2. CASE CancelCharge(w)
  <2>1. PICK t \in WorkerState, r \in s.todo :
          /\ Go(w, t) /\ t.pc = "forget" /\ t.c = s.done[r]
          /\ charge' = [charge EXCEPT ![s.done[r]].st = "cancelled"]
    BY <1>2, CancelMoves
  <2>2. s.pc = "cancel" /\ UNCHANGED <<notes, notified>>
    BY <1>2 DEF CancelCharge, inboxVars
  <2>3. s.done[r] \in ChargeIds
    BY <1>0, <2>1, <2>2 DEF LocalsOK
  <2>4. Ages /\ charge'[s.done[r]].st = "cancelled"
    BY <1>0, <2>1, <2>3 DEF Ages, ChargeRow
  <2>5. HandNoted(t)'
    BY <2>1, <2>4 DEF HandNoted
  <2> QED
    BY <2>1, <2>2, <2>4, <2>5, NoteBy DEF Writing
<1>3. CASE ForgetCharge(w)
  <2>1. PICK t \in WorkerState : Go(w, t) /\ t.pc \in Mute
    BY <1>3, ForgetMoves, LightMute DEF Mute
  <2>2. s.pc = "forget" /\ notified' = notified \ {s.c} /\ UNCHANGED <<charge, notes>>
    BY <1>3 DEF ForgetCharge, chargeVars
  <2>3. charge'[s.c].st = "cancelled"
    BY <1>0, <2>2 DEF HandNoted
  <2>4. HandNoted(t)'
    BY <2>1 DEF HandNoted, Mute
  <2> QED
    BY <2>1, <2>2, <2>3, <2>4, NoteBy, StillAges DEF Writing
<1> QED
  BY <1>1, <1>2, <1>3 DEF Undo

LEMMA WebhookNotes ==
  ASSUME OwnershipInv, OneHandler, NoteInv, NEW w \in Workers,
         FetchCharges(w) \/ Baseline(w) \/ NoteCharge(w) \/ NoteRow(w)
  PROVE  NoteInv'
<1> DEFINE s == worker[w]
<1>0. /\ s \in WorkerState /\ LocalsOK(s) /\ HandNoted(s)
      /\ notes \in [ChargeIds -> 0..2]
      /\ UNCHANGED charge
  BY DEF OwnershipInv, TypeOK, NoteInv, FetchCharges, Baseline, NoteCharge, NoteRow, chargeVars
<1>1. PICK t \in WorkerState :
        /\ Go(w, t)
        /\ \/ Light(s, t)
           \/ /\ FetchCharges(w) /\ t.pc \in {"baseline", "note"}
              /\ t.ids = {c \in ChargeIds : charge[c].st = "paid" /\ charge[c].res = s.r} \ s.ids
           \/ /\ NoteCharge(w) /\ t.pc = "noteRow" /\ t.c \in s.ids
              /\ Note(t.c) /\ t.ids = s.ids \ {t.c}
           \/ NoteRow(w) /\ t.pc = "note" /\ t.ids = s.ids
  BY WebhookMoves
<1>2. CASE FetchCharges(w)
  <2>1. s.pc \in {"fetch", "fetchFirst"} /\ UNCHANGED <<notes, notified>>
    BY <1>2 DEF FetchCharges, inboxVars
  <2>2. CASE t.pc \in Mute
    BY <1>0, <1>1, <2>1, <2>2, NoteMute, StillAges
  <2>3. CASE t.pc = "note"
    <3>1. t.ids = {c \in ChargeIds : charge[c].st = "paid" /\ charge[c].res = s.r} \ notified
      BY <1>0, <1>1, <2>1, <2>3 DEF HandNoted, Light, LightPcs, NoteCharge, NoteRow
    <3>2. ASSUME NEW c \in t.ids PROVE notes[c] = 0 /\ charge[c].st # "unused"
      <4>1. c \in ChargeIds /\ charge[c].st = "paid" /\ c \notin notified
        BY <3>1
      <4>2. ~Writing(worker[w], c)
        BY <2>1 DEF Writing
      <4>3. \A v \in Workers : ~Writing(worker[v], c)
        BY <4>2 DEF OneHandler
      <4> QED
        BY <4>1, <4>3 DEF NoteInv
    <3>3. HandNoted(t)'
      BY <1>0, <2>1, <2>3, <3>2 DEF HandNoted
    <3> QED
      BY <1>0, <1>1, <2>1, <3>3, NoteBy, StillAges DEF Writing
  <2> QED
    BY <1>1, <1>2, <2>1, <2>2, <2>3, LightMute DEF Mute, NoteCharge, NoteRow
<1>3. CASE Baseline(w)
  <2>1. s.pc = "baseline" /\ notified' = notified \cup s.ids /\ UNCHANGED notes
    BY <1>3 DEF Baseline
  <2>2. t.pc \in Mute
    BY <1>1, <2>1, LightMute DEF FetchCharges, NoteCharge, NoteRow
  <2>3. HandNoted(t)'
    BY <2>2 DEF HandNoted, Mute
  <2> QED
    BY <1>0, <1>1, <2>1, <2>3, NoteBy, StillAges DEF Writing
<1>4. CASE NoteCharge(w)
  <2>1. s.pc = "note" /\ UNCHANGED notified
    BY <1>4 DEF NoteCharge
  <2>2. PICK c \in s.ids : Note(c) /\ Go(w, [s EXCEPT !.pc = "noteRow", !.c = c, !.ids = @ \ {c}])
    BY <1>4 DEF NoteCharge
  <2>3. t.pc = "noteRow" /\ t.c = c /\ t.ids = s.ids \ {c}
    <3>1. worker' = [worker EXCEPT ![w] = t]
          /\ worker' = [worker EXCEPT ![w] = [s EXCEPT !.pc = "noteRow", !.c = c, !.ids = @ \ {c}]]
      BY <1>1, <2>2 DEF Go
    <3>2. t = [s EXCEPT !.pc = "noteRow", !.c = c, !.ids = @ \ {c}]
      BY <3>1 DEF OwnershipInv, TypeOK
    <3> QED
      BY <1>0, <3>2 DEF WorkerState
  <2>4. c \in ChargeIds /\ notes[c] = 0 /\ charge[c].st # "unused"
    BY <1>0, <2>1 DEF HandNoted, WorkerState
  <2>5. \A x \in ChargeIds : notes'[x] # notes[x] => x = c /\ notes'[x] = 1
    BY <1>0, <2>2, <2>4 DEF Note
  <2>6. \A x \in t.ids : notes'[x] = 0 /\ charge[x].st # "unused"
    <3>1. ASSUME NEW x \in t.ids PROVE notes'[x] = 0 /\ charge[x].st # "unused"
      <4>1. x \in ChargeIds /\ x # c /\ notes[x] = 0 /\ charge[x].st # "unused"
        BY <1>0, <2>1, <2>3 DEF HandNoted, WorkerState
      <4> QED
        BY <2>5, <4>1
    <3> QED
      BY <3>1
  <2>7. HandNoted(t)'
    BY <1>0, <2>3, <2>6 DEF HandNoted
  <2> QED
    BY <1>0, <1>1, <2>1, <2>3, <2>4, <2>5, <2>7, NoteBy, StillAges DEF Writing
<1>5. CASE NoteRow(w)
  <2>1. s.pc = "noteRow" /\ notified' = notified \cup {s.c} /\ UNCHANGED notes
    BY <1>5 DEF NoteRow
  <2>2. t.pc \in Mute \/ (t.pc = "note" /\ t.ids = s.ids)
    BY <1>1, <2>1, LightMute DEF FetchCharges, NoteCharge
  <2>3. HandNoted(t)'
    BY <1>0, <2>1, <2>2 DEF HandNoted, Mute
  <2> QED
    BY <1>0, <1>1, <2>1, <2>3, NoteBy, StillAges DEF Writing
<1> QED
  BY <1>2, <1>3, <1>4, <1>5

LEMMA OtherNotes ==
  ASSUME OwnershipInv, OneHandler, NoteInv, NEW w \in Workers,
         \/ Create(w) \/ LoadPending(w) \/ BatchNext(w) \/ BatchEnd(w)
         \/ Reconcile(w) \/ Settle(w) \/ SettleFailed(w) \/ Call(w)
  PROVE  NoteInv'
<1> DEFINE s == worker[w]
<1>0. s \in WorkerState
  BY DEF OwnershipInv, TypeOK
<1>1. CASE Call(w)
  <2>1. PICK t \in WorkerState :
          /\ Go(w, t)
          /\ t.pc \in LightPcs \/ t.pc = "charge" \/ (t.pc \in {"fetch", "fetchFirst"} /\ t.ids = notified)
    BY <1>1, CallMoves
  <2>2. s.pc = "idle" /\ UNCHANGED <<charge, notes, notified>>
    BY <1>1, CallMoves
  <2>3. HandNoted(t)'
    BY <2>1, <2>2 DEF HandNoted, LightPcs
  <2> QED
    BY <2>1, <2>2, <2>3, NoteBy, StillAges DEF Writing
<1>2. CASE Create(w) \/ LoadPending(w) \/ BatchNext(w) \/ BatchEnd(w)
  <2>1. s.pc \in {"create", "pending", "batch"} /\ \E t \in WorkerState : Go(w, t) /\ Light(s, t)
    BY <1>2, LoopMoves
  <2>2. UNCHANGED <<charge, notes, notified>>
    BY <1>2 DEF Create, LoadPending, BatchNext, BatchEnd, chargeVars, inboxVars
  <2> QED
    BY <2>1, <2>2, NoteMute, LightMute, StillAges
<1>3. CASE Reconcile(w)
  <2>1. s.pc = "reconcile" /\ \E t \in WorkerState : Go(w, t) /\ (Light(s, t) \/ t.pc \in {"settle", "charge"})
    BY <1>3, ReconcileMoves
  <2>2. UNCHANGED <<charge, notes, notified>>
    BY <1>3 DEF Reconcile, chargeVars, inboxVars
  <2> QED
    BY <2>1, <2>2, NoteMute, LightMute, StillAges DEF Mute
<1>4. CASE Settle(w) \/ SettleFailed(w)
  <2>1. /\ s.pc \in {"settle", "settleFailed"} /\ Go(w, Return(s))
        /\ UNCHANGED <<charge, notes, notified>>
    BY <1>4 DEF Settle, SettleFailed, chargeVars, inboxVars
  <2>2. PICK t : t = Return(s)
    OBVIOUS
  <2> QED
    BY <1>0, <2>1, <2>2, EndMoves, NoteMute, LightMute, StillAges
<1> QED
  BY <1>1, <1>2, <1>3, <1>4

\* A guest gets at most one note about a charge, from the apply or from the
\* webhook, however many payments, reservations and charges there are and
\* whatever else fails: as long as handlers run one at a time, the process is
\* not restarted and cancels do not throw.
THEOREM NotedOnceTheorem ==
  ASSUME OneHandler, "cancel" \notin Faults PROVE Spec => []NotedOnce
<1> DEFINE Inv == crashes = 0 => NoteInv
<1>1. Init => Inv
  BY DEF Init, NoteInv, HandNoted, IdleWorker
<1>2. OwnershipInv /\ Inv /\ [Next]_vars => Inv'
  <2> SUFFICES ASSUME OwnershipInv, Inv, [Next]_vars, crashes' = 0 PROVE NoteInv'
    OBVIOUS
  <2>1. CASE UNCHANGED vars
    BY <2>1 DEF vars, NoteInv, HandNoted, Writing
  <2>2. ASSUME NEW w \in Workers, Step(w) \/ Call(w) PROVE NoteInv'
    <3>1. UNCHANGED crashes
      BY <2>2, CallMoves DEF Step, Apply, Undo, Create, LoadPending, BatchNext, BatchEnd, Reconcile,
         Settle, SettleFailed, ApplyOffline, ChargeCreate, ChargeFail, InboxNote, InboxThrows,
         Record, Commit, CommitOffline, UndoRead, CancelCharge, ForgetCharge, ClearAllocations,
         ResetPayment, FetchCharges, Baseline, NoteCharge, NoteRow, envVars
    <3>2. NoteInv
      BY <3>1
    <3> QED
      BY <2>2, <3>2, ApplyNotes, UndoNotes, WebhookNotes, OtherNotes DEF Step
  <2>3. ASSUME \/ \E p \in Payments : SkipReview(p)
               \/ \E r \in Reservations : ListingSync(r)
               \/ PollStartThrows
        PROVE  NoteInv'
    BY <2>3 DEF SkipReview, ListingSync, PollStartThrows, chargeVars, inboxVars, envVars,
                NoteInv, HandNoted, Writing
  <2>4. ~Crash
    BY DEF Crash, OwnershipInv, TypeOK
  <2> QED
    BY <2>1, <2>2, <2>3, <2>4 DEF Next
<1>3. OwnershipInv /\ Inv => NotedOnce
  <2>1. ASSUME NoteInv, NEW c \in ChargeIds PROVE notes[c] <= 1
    BY <2>1 DEF NoteInv
  <2> QED
    BY <2>1 DEF NotedOnce
<1> QED
  BY <1>1, <1>2, <1>3, OwnershipTheorem, PTL DEF Spec

----------------------------------------------------------------------------
(* Books and charges agree.  A lost answer, a failed lookup or a restart    *)
(* leaves a paid charge that no row and no handler knows; a cancel that     *)
(* throws, two handlers, or a payment skipped from an outdated page, lines  *)
(* that do not match their payment.  Without these they agree.              *)

Calm ==
    /\ OneHandler
    /\ MaxCrashes = 0
    /\ Faults \cap {"lost", "inbox", "cancel", "stalePage"} = {}

LinePcs == {"charge", "inbox", "record"}

\* The lines still to book have no charge yet; an automatic booking has one
\* line; nothing is booked for a payment that is applied.
TidyLines(s) ==
    /\ s.pc \in LinePcs => \A r \in s.todo : s.done[r] = None
    /\ s.pc \in LinePcs /\ ~Manual(s) => s.todo = {s.first} /\ s.done = NoLines
    /\ s.pc \in {"inbox", "record"} => charge[s.c].res \in s.todo
    /\ s.pc \in Booking \cup {"commitOffline", "settle", "settleFailed"} =>
          payment[s.p].status \notin Applied

\* Outside of a booking a handler holds only charges it cancels or has
\* cancelled, and an undo holds every charge its payment is allocated.
TidyUndo(s) ==
    /\ s.pc \notin Booking => \A r \in Reservations : s.done[r] \in ChargeIds =>
          \/ s.pc \in {"cancel", "forget"} /\ r \in s.todo
          \/ charge[s.done[r]].st = "cancelled"
    /\ s.pc \in Unwinding => s.job \in UndoJobs \/ (Manual(s) /\ s.pc # "clear")
    /\ s.job \in UndoJobs /\ s.pc \in Unwinding =>
          \A r \in Reservations : alloc[s.p][r] \in ChargeIds => s.done[r] = alloc[s.p][r]
    /\ s.pc = "reset" => alloc[s.p] = NoLines
    /\ s.pc = "forget" => charge[s.c].st = "cancelled"

\* The charges the webhook is about to record stand as paid.
TidyHook(s) ==
    /\ s.pc \in {"baseline", "note", "noteRow"} => \A c \in s.ids : charge[c].st = "paid"
    /\ s.pc = "noteRow" => charge[s.c].st = "paid"

Tidy(s) == TidyLines(s) /\ TidyUndo(s) /\ TidyHook(s)

Allocated(c) == \E p \in Payments, r \in Reservations : alloc[p][r] = c

\* ChargesAgree made inductive.
AgreeInv ==
    /\ \A w \in Workers : Tidy(worker[w])
    /\ \A p \in Payments : payment[p].status \notin Applied => alloc[p] = NoLines
    /\ \A c \in ChargeIds : charge[c].st = "paid" =>
          Allocated(c) \/ \E w \in Workers : Holds(worker[w], c)
    /\ CancelledNotCounted

LEMMA AgreeBy ==
  ASSUME AllocInv, OneHandler, AgreeInv, NEW w \in Workers, NEW t, Go(w, t), Tidy(t)',
         \A p \in Payments : payment'[p].status \notin Applied => alloc'[p] = NoLines,
         \A c \in ChargeIds : charge'[c].st = "paid" => Allocated(c)' \/ Holds(t, c),
         \A c \in notified' : charge'[c].st = "cancelled" => t.pc = "forget" /\ t.c = c
  PROVE  AgreeInv'
<1>1. \A v \in Workers : worker'[v] = t
  BY DEF Go, OneHandler, AllocInv, OwnershipInv, TypeOK
<1>2. \A v \in Workers : Tidy(worker[v])'
  BY <1>1 DEF Tidy, TidyLines, TidyUndo, TidyHook
<1> QED
  BY <1>1, <1>2 DEF AgreeInv, CancelledNotCounted

\* Who holds what, with one handler.
LEMMA AgreeNow ==
  ASSUME OneHandler, AgreeInv, NEW w \in Workers
  PROVE  /\ Tidy(worker[w])
         /\ \A c \in ChargeIds : charge[c].st = "paid" => Allocated(c) \/ Holds(worker[w], c)
         /\ \A c \in notified : charge[c].st = "cancelled" =>
               worker[w].pc = "forget" /\ worker[w].c = c
         /\ worker[w].pc \notin Booking \cup {"cancel", "forget"} =>
               \A c \in ChargeIds : charge[c].st = "paid" => ~Holds(worker[w], c)
<1>1. \A v \in Workers : v = w
  BY DEF OneHandler
<1>2. Tidy(worker[w])
  BY DEF AgreeInv
<1>3. ASSUME worker[w].pc \notin Booking \cup {"cancel", "forget"}, NEW c \in ChargeIds,
             charge[c].st = "paid", Holds(worker[w], c)
      PROVE  FALSE
  BY <1>2, <1>3 DEF Tidy, TidyUndo, Holds, Booking
<1> QED
  BY <1>1, <1>2, <1>3 DEF AgreeInv, CancelledNotCounted

\* A step that leaves allocations and charges alone.
LEMMA AgreeQuiet ==
  ASSUME AllocInv, OneHandler, AgreeInv, NEW w \in Workers, NEW t, Go(w, t), Tidy(t)',
         UNCHANGED <<alloc, charge>>,
         \A p \in Payments : payment[p].status \in Applied => payment'[p].status \in Applied,
         \A c \in notified' \ notified : charge[c].st = "paid",
         worker[w].pc # "forget",
         \A c \in ChargeIds : charge[c].st = "paid" /\ Holds(worker[w], c) => Holds(t, c)
  PROVE  AgreeInv'
<1>1. \A p \in Payments : payment'[p].status \notin Applied => alloc'[p] = NoLines
  BY DEF AgreeInv
<1>2. \A c \in ChargeIds : charge'[c].st = "paid" => Allocated(c)' \/ Holds(t, c)
  BY AgreeNow DEF Allocated
<1>3. \A c \in notified' : charge'[c].st = "cancelled" => t.pc = "forget" /\ t.c = c
  BY AgreeNow
<1> QED
  BY <1>1, <1>2, <1>3, AgreeBy

\* Locals with nothing but spent charges, at an await with no business.
LEMMA BareTidy ==
  ASSUME NEW t, t.pc \in LightPcs \cup {"fetch", "fetchFirst"},
         \A r \in Reservations : t.done[r] \in ChargeIds => charge'[t.done[r]].st = "cancelled"
  PROVE  Tidy(t)'
BY DEF Tidy, TidyLines, TidyUndo, TidyHook, LightPcs, LinePcs, Booking, Unwinding

LEMMA NoCharge == \A r \in Reservations : NoLines[r] \notin ChargeIds
BY NullAssumption DEF NoLines

\* The end of a handler that has nothing of value in hand.
LEMMA LightTidy ==
  ASSUME AgreeInv, NEW w \in Workers, NEW t, Light(worker[w], t), UNCHANGED charge,
         \A r \in Reservations :
            worker[w].done[r] \in ChargeIds => charge[worker[w].done[r]].st = "cancelled"
  PROVE  Tidy(t)'
<1>1. \A r \in Reservations : t.done[r] \in ChargeIds => charge'[t.done[r]].st = "cancelled"
  BY NoCharge DEF Light
<1> QED
  BY <1>1, BareTidy DEF Light

\* A step to nothing in particular, from an await with nothing of value.
LEMMA AgreeLight ==
  ASSUME AllocInv, OneHandler, AgreeInv, NEW w \in Workers, NEW t, Go(w, t),
         \/ Light(worker[w], t)
         \/ t.pc \in LightPcs \cup {"fetch", "fetchFirst"} /\ t.done = NoLines,
         UNCHANGED <<alloc, charge>>,
         \A p \in Payments : payment[p].status \in Applied => payment'[p].status \in Applied,
         \A c \in notified' \ notified : charge[c].st = "paid",
         worker[w].pc \notin Booking \cup {"cancel", "forget"}
  PROVE  AgreeInv'
<1>1. \A r \in Reservations :
         worker[w].done[r] \in ChargeIds => charge[worker[w].done[r]].st = "cancelled"
  BY AgreeNow DEF Tidy, TidyUndo
<1>2. Tidy(t)'
  BY <1>1, LightTidy, BareTidy, NoCharge
<1> QED
  BY <1>2, AgreeNow, AgreeQuiet

LEMMA LoopAgree ==
  ASSUME AllocInv, OneHandler, AgreeInv, NEW w \in Workers,
         Create(w) \/ LoadPending(w) \/ BatchNext(w) \/ BatchEnd(w)
  PROVE  AgreeInv'
<1>1. /\ worker[w].pc \in {"create", "pending", "batch"}
      /\ \E t \in WorkerState : Go(w, t) /\ Light(worker[w], t)
  BY LoopMoves DEF AllocInv
<1>2. UNCHANGED <<alloc, charge, notified>>
  BY DEF Create, LoadPending, BatchNext, BatchEnd, chargeVars, inboxVars
<1>3. \A p \in Payments : payment[p].status \in Applied => payment'[p].status \in Applied
  <2>1. CASE Create(w)
    BY <2>1 DEF Create, AllocInv, OwnershipInv, TypeOK, PaymentRow, Applied
  <2>2. CASE LoadPending(w) \/ BatchNext(w) \/ BatchEnd(w)
    BY <2>2 DEF LoadPending, BatchNext, BatchEnd
  <2> QED
    BY <2>1, <2>2
<1> QED
  BY <1>1, <1>2, <1>3, AgreeLight DEF Booking

LEMMA CallAgree ==
  ASSUME AllocInv, OneHandler, AgreeInv, NEW w \in Workers, Call(w)
  PROVE  AgreeInv'
<1>1. PICK t \in WorkerState :
        /\ Go(w, t) /\ t.done = NoLines
        /\ \/ t.pc \in LightPcs \cup {"fetch", "fetchFirst"}
           \/ /\ t.pc = "charge" /\ Manual(t) /\ t.p \in Payments
              /\ payment[t.p].status = "PENDING_REVIEW"
  BY CallMoves DEF AllocInv
<1>2. worker[w].pc = "idle" /\ UNCHANGED <<payment, alloc, charge, notified>>
  BY CallMoves DEF AllocInv
<1>3. CASE t.pc \in LightPcs \cup {"fetch", "fetchFirst"}
  BY <1>1, <1>2, <1>3, AgreeLight DEF Booking
<1>4. CASE t.pc = "charge" /\ Manual(t) /\ payment[t.p].status = "PENDING_REVIEW"
  <2>1. Tidy(t)'
    BY <1>1, <1>2, <1>4 DEF Tidy, TidyLines, TidyUndo, TidyHook, LinePcs, Booking, Unwinding,
                            NoLines, WorkerState, Applied
  <2> QED
    BY <1>1, <1>2, <2>1, AgreeNow, AgreeQuiet DEF Booking
<1> QED
  BY <1>1, <1>3, <1>4

LEMMA VerdictAgree ==
  ASSUME AllocInv, OneHandler, AgreeInv, NEW w \in Workers,
         Reconcile(w) \/ Settle(w) \/ SettleFailed(w)
  PROVE  AgreeInv'
<1> DEFINE s == worker[w]
<1>0. s \in WorkerState /\ LocalsOK(s) /\ payment \in [Payments -> PaymentRow]
  BY DEF AllocInv, OwnershipInv, TypeOK
<1>1. CASE Reconcile(w)
  <2>1. PICK t \in WorkerState :
          /\ Go(w, t)
          /\ \/ Light(s, t)
             \/ /\ payment[s.p].status \notin Applied
                /\ Keeps(s, [t EXCEPT !.off = s.off])
                /\ t.done = NoLines
                /\ t.pc = "settle" \/ (t.pc = "charge" /\ t.todo = {t.first})
    BY <1>1, ReconcileMoves DEF AllocInv
  <2>2. s.pc = "reconcile" /\ UNCHANGED <<payment, alloc, charge, notified>>
    BY <1>1 DEF Reconcile, chargeVars, inboxVars
  <2>3. CASE Light(s, t)
    BY <2>1, <2>2, <2>3, AgreeLight DEF Booking
  <2>4. CASE ~Light(s, t)
    <3>1. t.p = s.p
      BY <2>1, <2>4 DEF Keeps, WorkerState
    <3>2. \A r \in Reservations : t.done[r] = None
      BY <2>1, <2>4 DEF NoLines
    <3>3. Tidy(t)'
      BY <2>1, <2>2, <2>4, <3>1, <3>2, NullAssumption DEF Tidy, TidyLines, TidyUndo, TidyHook,
         LinePcs, Booking, Unwinding, WorkerState
    <3> QED
      BY <2>1, <2>2, <3>3, AgreeNow, AgreeQuiet DEF Booking
  <2> QED
    BY <2>3, <2>4
<1>2. CASE Settle(w) \/ SettleFailed(w)
  <2>1. /\ s.pc \in {"settle", "settleFailed"} /\ Go(w, Return(s))
        /\ UNCHANGED <<alloc, charge, notified>>
    BY <1>2 DEF Settle, SettleFailed, chargeVars, inboxVars
  <2>2. payment[s.p].status \notin Applied
    BY <2>1, AgreeNow DEF Tidy, TidyLines
  <2>3. \A p \in Payments : p # s.p => payment'[p] = payment[p]
    BY <1>0, <1>2 DEF Settle, SettleFailed
  <2>4. PICK t : t = Return(s)
    OBVIOUS
  <2> QED
    BY <1>0, <2>1, <2>2, <2>3, <2>4, EndMoves, AgreeLight DEF Booking
<1> QED
  BY <1>1, <1>2

\* One more line is booked: the charges of the others stay in hand.
LEMMA LineTidy ==
  ASSUME AllocInv, OneHandler, AgreeInv, NEW w \in Workers, worker[w].pc \in LinePcs,
         NEW r \in worker[w].todo, NEW slot \in Slots,
         NEW t, t = LineDone(worker[w], r, slot), UNCHANGED payment
  PROVE  /\ Tidy(t)' /\ t.done[r] = slot
         /\ \A c \in ChargeIds, x \in Reservations :
               worker[w].done[x] = c => x # r /\ t.done[x] = c
<1> DEFINE s == worker[w]
<1>1. s \in WorkerState /\ TidyLines(s) /\ r \in Reservations
  BY AgreeNow DEF AllocInv, OwnershipInv, TypeOK, Tidy, WorkerState
<1>2. /\ t \in WorkerState /\ Keeps(s, t) /\ t.todo = s.todo \ {r}
      /\ t.done = [s.done EXCEPT ![r] = slot]
      /\ t.pc = IF s.todo \ {r} = {} THEN "commit" ELSE "charge"
  BY <1>1, LineMoves
<1>3. s.done[r] = None /\ s.done \in [Reservations -> Slots]
  BY <1>1 DEF TidyLines, WorkerState
<1>4. t.done[r] = slot /\ \A x \in Reservations : x # r => t.done[x] = s.done[x]
  BY <1>1, <1>2, <1>3
<1>5. TidyLines(t)'
  <2>1. t.pc \in LinePcs => Manual(t)
    BY <1>1, <1>2 DEF TidyLines, Keeps, Manual, LinePcs
  <2>2. \A x \in t.todo : t.done[x] = None
    BY <1>1, <1>2, <1>4 DEF TidyLines, WorkerState
  <2>3. payment'[t.p].status \notin Applied
    BY <1>1, <1>2 DEF TidyLines, Keeps, LinePcs, Booking
  <2> QED
    BY <1>2, <2>1, <2>2, <2>3 DEF TidyLines, LinePcs
<1>6. TidyUndo(t)' /\ TidyHook(t)'
  BY <1>2 DEF TidyUndo, TidyHook, Booking, Unwinding
<1> QED
  BY <1>3, <1>4, <1>5, <1>6, NullAssumption DEF Tidy

LEMMA LineAgree ==
  ASSUME AllocInv, OneHandler, AgreeInv, NEW w \in Workers,
         ApplyOffline(w) \/ InboxNote(w) \/ Record(w)
  PROVE  AgreeInv'
<1> DEFINE s == worker[w]
<1>0. /\ s \in WorkerState /\ LocalsOK(s) /\ Tidy(s) /\ OwnHand /\ Course(s)
      /\ UNCHANGED <<payment, alloc, charge>>
  BY AgreeNow DEF AllocInv, OwnershipInv, TypeOK, Hands, ApplyOffline, InboxNote, Record, chargeVars
<1>1. CASE ApplyOffline(w)
  <2>0. PICK r \in s.todo : Go(w, LineDone(s, r, Offline))
    BY <1>1 DEF ApplyOffline
  <2>1. PICK t : Go(w, t) /\ t = LineDone(s, r, Offline)
    BY <2>0
  <2>2. s.pc = "charge" /\ UNCHANGED notified
    BY <1>1 DEF ApplyOffline, inboxVars
  <2>3. /\ Tidy(t)'
        /\ \A c \in ChargeIds, x \in Reservations : s.done[x] = c => t.done[x] = c
    BY <1>0, <2>1, <2>2, LineTidy DEF LinePcs, Slots
  <2> QED
    BY <1>0, <2>1, <2>2, <2>3, AgreeQuiet DEF Holds
<1>2. CASE InboxNote(w)
  <2>1. PICK t : t = [s EXCEPT !.pc = "record"]
    OBVIOUS
  <2>2. Go(w, t) /\ s.pc = "inbox" /\ UNCHANGED notified
    BY <1>2, <2>1 DEF InboxNote
  <2>3. /\ t.pc = "record" /\ t.c = s.c /\ t.done = s.done /\ t.todo = s.todo
        /\ t.job = s.job /\ t.p = s.p /\ t.first = s.first
    BY <1>0, <2>1 DEF WorkerState
  <2>4. Tidy(t)'
    BY <1>0, <2>2, <2>3 DEF Tidy, TidyLines, TidyUndo, TidyHook, LinePcs, Booking, Unwinding, Manual
  <2> QED
    BY <1>0, <2>2, <2>3, <2>4, AgreeQuiet DEF Holds
<1>3. CASE Record(w)
  <2>1. PICK t : t = LineDone(s, charge[s.c].res, s.c)
    OBVIOUS
  <2>2. Go(w, t) /\ s.pc = "record" /\ notified' = notified \cup {s.c}
    BY <1>3, <2>1 DEF Record
  <2>3. s.c \in ChargeIds /\ s.c \in Slots /\ charge[s.c].res \in s.todo
    BY <1>0, <2>2 DEF LocalsOK, Tidy, TidyLines, Slots
  <2>4. charge[s.c].st = "paid"
    BY <1>0, <2>2, <2>3 DEF OwnHand, Holds, Course, Booking
  <2>5. /\ Tidy(t)' /\ t.done[charge[s.c].res] = s.c
        /\ \A c \in ChargeIds, x \in Reservations : s.done[x] = c => t.done[x] = c
    <3>1. PICK r \in s.todo : r = charge[s.c].res
      BY <2>3
    <3>2. s.pc \in LinePcs /\ UNCHANGED payment
      BY <1>3, <2>2 DEF LinePcs, Record
    <3>3. t = LineDone(s, r, s.c)
      BY <2>1, <3>1
    <3>4. /\ Tidy(t)' /\ t.done[r] = s.c
          /\ \A c \in ChargeIds, x \in Reservations : s.done[x] = c => x # r /\ t.done[x] = c
      BY <2>3, <3>2, <3>3, LineTidy
    <3> QED
      BY <3>1, <3>4
  <2>6. charge[s.c].res \in Reservations
    BY <1>0, <2>3 DEF WorkerState
  <2> QED
    BY <1>0, <2>2, <2>4, <2>5, <2>6, AgreeQuiet DEF Holds
<1> QED
  BY <1>1, <1>2, <1>3

LEMMA ChargeCreateAgree ==
  ASSUME AllocInv, OneHandler, AgreeInv, NEW w \in Workers, ChargeCreate(w)
  PROVE  AgreeInv'
<1> DEFINE s == worker[w]
<1>0. /\ s \in WorkerState /\ Tidy(s) /\ LocalsOK(s) /\ s.pc = "charge"
      /\ charge \in [ChargeIds -> ChargeRow] /\ nCharges \in 0..MaxCharges
      /\ \A c \in ChargeIds : c > nCharges => charge[c].st = "unused"
      /\ UNCHANGED <<payment, alloc, notified>>
  BY AgreeNow DEF AllocInv, OwnershipInv, TypeOK, ChargeCreate, inboxVars
<1>01. PICK r \in s.todo :
         Accept(s.p, r) /\ Go(w, [s EXCEPT !.pc = "inbox", !.c = nCharges + 1])
  BY DEF ChargeCreate
<1>1. PICK t :
        /\ Accept(s.p, r) /\ Go(w, t)
        /\ t = [s EXCEPT !.pc = "inbox", !.c = nCharges + 1]
  BY <1>01
<1>2. /\ t.pc = "inbox" /\ t.c = nCharges + 1 /\ t.done = s.done /\ t.todo = s.todo
      /\ t.job = s.job /\ t.p = s.p /\ t.first = s.first
  BY <1>0, <1>1 DEF WorkerState
<1>3. nCharges + 1 \in ChargeIds /\ charge[nCharges + 1].st = "unused"
  BY <1>0, <1>1, BoundsAssumption DEF Accept, ChargeIds
<1>4. charge' = [charge EXCEPT ![nCharges + 1] = [st |-> "paid", res |-> r, pay |-> s.p]]
  BY <1>1 DEF Accept
<1>5. /\ charge'[nCharges + 1].st = "paid" /\ charge'[nCharges + 1].res = r
      /\ \A c \in ChargeIds : c # nCharges + 1 => charge'[c] = charge[c]
  BY <1>0, <1>3, <1>4
<1>6. Tidy(t)'
  BY <1>0, <1>2, <1>5 DEF Tidy, TidyLines, TidyUndo, TidyHook, LinePcs, Booking, Unwinding, Manual
<1>7. \A c \in ChargeIds : charge'[c].st = "paid" => Allocated(c)' \/ Holds(t, c)
  <2>1. ASSUME NEW c \in ChargeIds, charge'[c].st = "paid", c # nCharges + 1
        PROVE  Allocated(c) \/ Holds(s, c)
    BY <1>5, <2>1, AgreeNow
  <2> QED
    BY <1>0, <1>2, <2>1 DEF Holds, Allocated
<1>8. \A c \in notified' : charge'[c].st = "cancelled" => t.pc = "forget" /\ t.c = c
  <2>1. notified \subseteq ChargeIds
    BY DEF AllocInv, OwnershipInv, TypeOK
  <2>2. ASSUME NEW c \in notified, charge'[c].st = "cancelled" PROVE FALSE
    BY <1>0, <1>5, <2>1, <2>2, AgreeNow
  <2> QED
    BY <1>0, <2>2
<1>9. \A p \in Payments : payment'[p].status \notin Applied => alloc'[p] = NoLines
  BY <1>0 DEF AgreeInv
<1> QED
  BY <1>1, <1>6, <1>7, <1>8, <1>9, AgreeBy

\* A line fails with no charge made: a rollback takes the others along, an
\* automatic booking had no others.
LEMMA ChargeFailAgree ==
  ASSUME AllocInv, OneHandler, AgreeInv, "lost" \notin Faults,
         NEW w \in Workers, ChargeFail(w)
  PROVE  AgreeInv'
<1> DEFINE s == worker[w]
<1>0. /\ s \in WorkerState /\ Tidy(s) /\ LocalsOK(s) /\ s.pc = "charge"
      /\ UNCHANGED <<payment, alloc, charge, notified>>
  BY AgreeNow DEF AllocInv, OwnershipInv, TypeOK, ChargeFail, inboxVars, chargeVars
<1>01. PICK r \in s.todo, archived \in BOOLEAN : Go(w, Failed(s, r, archived))
  BY DEF ChargeFail
<1>1. PICK t : Go(w, t) /\ t = Failed(s, r, archived)
  BY <1>01
<1>2. r \in Reservations
  BY <1>0 DEF WorkerState
<1>3. /\ t \in WorkerState
      /\ \/ Manual(s) /\ t = LineDone(s, r, Offline)
         \/ /\ Manual(s) /\ Light(s, t)
            /\ \A x \in Reservations : s.done[x] \notin ChargeIds
         \/ /\ Manual(s) /\ Keeps(s, t) /\ t.pc = "cancel" /\ t.done = s.done
            /\ t.todo = {x \in Reservations : s.done[x] \in ChargeIds}
         \/ /\ ~Manual(s) /\ Keeps(s, t) /\ t.done = s.done
            /\ t.pc \in {"commitOffline", "settleFailed"}
  BY <1>0, <1>1, <1>2, FailedMoves
<1>4. CASE t = LineDone(s, r, Offline)
  <2>1. /\ Tidy(t)'
        /\ \A c \in ChargeIds, x \in Reservations : s.done[x] = c => t.done[x] = c
    BY <1>0, <1>4, LineTidy DEF LinePcs, Slots
  <2> QED
    BY <1>0, <1>1, <2>1, AgreeQuiet DEF Holds
<1>5. CASE Light(s, t) /\ \A x \in Reservations : s.done[x] \notin ChargeIds
  <2>1. Tidy(t)'
    BY <1>0, <1>5, LightTidy
  <2> QED
    BY <1>0, <1>1, <1>5, <2>1, AgreeQuiet DEF Holds
<1>6. CASE /\ Manual(s) /\ Keeps(s, t) /\ t.pc = "cancel" /\ t.done = s.done
           /\ t.todo = {x \in Reservations : s.done[x] \in ChargeIds}
  <2>1. Tidy(t)'
    BY <1>6 DEF Tidy, TidyLines, TidyUndo, TidyHook, Keeps, LinePcs, Booking, Unwinding, Manual,
                UndoJobs
  <2> QED
    BY <1>0, <1>1, <1>6, <2>1, AgreeQuiet DEF Holds
<1>7. CASE /\ ~Manual(s) /\ Keeps(s, t) /\ t.done = s.done
           /\ t.pc \in {"commitOffline", "settleFailed"}
  <2>1. s.done = NoLines /\ payment[s.p].status \notin Applied
    BY <1>0, <1>7 DEF Tidy, TidyLines, LinePcs, Booking
  <2>2. Tidy(t)'
    BY <1>0, <1>7, <2>1, NoCharge DEF Tidy, TidyLines, TidyUndo, TidyHook, Keeps, LinePcs,
       Booking, Unwinding
  <2> QED
    BY <1>0, <1>1, <1>7, <2>2, AgreeQuiet DEF Holds
<1> QED
  BY <1>3, <1>4, <1>5, <1>6, <1>7

\* Booked once: the payment had no lines, so none is replaced, and what was in
\* hand is in the rows.
LEMMA CommitAgree ==
  ASSUME AllocInv, OneHandler, AgreeInv, NEW w \in Workers, Commit(w) \/ CommitOffline(w)
  PROVE  AgreeInv'
<1> DEFINE s == worker[w]
<1>0. /\ s \in WorkerState /\ Tidy(s) /\ LocalsOK(s) /\ s.pc \in {"commit", "commitOffline"}
      /\ payment \in [Payments -> PaymentRow] /\ alloc \in [Payments -> [Reservations -> Slots]]
      /\ UNCHANGED <<charge, notified>>
  BY AgreeNow DEF AllocInv, OwnershipInv, TypeOK, Commit, CommitOffline, inboxVars, chargeVars
<1>1. s.p \in Payments /\ payment[s.p].status \notin Applied
  BY <1>0 DEF LocalsOK, PaymentPcs, Tidy, TidyLines, Booking
<1>2. alloc[s.p] = NoLines
  BY <1>1 DEF AgreeInv
<1>3. ~Clash(s)
  BY <1>2 DEF Clash, NoLines
<1>4. PICK t \in WorkerState :
        /\ Go(w, t) /\ Light(s, t)
        /\ \/ UNCHANGED <<payment, alloc, fails>> /\ CommitOffline(w)
           \/ /\ Commit(w) /\ t.done = NoLines
              /\ \E status \in Applied : Booked(s, status, "none")
           \/ /\ CommitOffline(w) /\ t.done = NoLines
              /\ \E u : /\ Booked(u, "AUTO_APPLIED", "none")
                        /\ u.p = s.p /\ u.first = s.first
                        /\ u.done = [NoLines EXCEPT ![s.first] = Offline]
  BY <1>3, BookMoves DEF AllocInv
<1>5. ASSUME NEW u, u.p = s.p, NEW status \in Applied, Booked(u, status, "none"),
             t.done = NoLines,
             \A c \in ChargeIds : charge[c].st = "paid" /\ Holds(s, c) =>
                \E r \in Reservations : u.done[r] = c
      PROVE  AgreeInv'
  <2>1. /\ payment'[s.p].status = status
        /\ \A p \in Payments : p # s.p => payment'[p] = payment[p] /\ alloc'[p] = alloc[p]
        /\ \A r \in Reservations : u.done[r] # None => alloc'[s.p][r] = u.done[r]
    BY <1>0, <1>1, <1>5 DEF Booked
  <2>2. \A p \in Payments : payment'[p].status \notin Applied => alloc'[p] = NoLines
    BY <1>5, <2>1 DEF AgreeInv
  <2>3. Tidy(t)'
    BY <1>4, <1>5, NoCharge, BareTidy DEF Light
  <2>4. \A c \in ChargeIds : charge'[c].st = "paid" => Allocated(c)' \/ Holds(t, c)
    <3>1. SUFFICES ASSUME NEW c \in ChargeIds, charge'[c].st = "paid"
                   PROVE  \E p \in Payments, r \in Reservations : alloc'[p][r] = c
      BY DEF Allocated
    <3>2. charge[c].st = "paid"
      BY <1>0, <3>1
    <3>3. CASE Holds(s, c)
      BY <1>1, <1>5, <2>1, <3>2, <3>3, NullAssumption
    <3>4. CASE Allocated(c)
      <4>1. PICK p \in Payments, r \in Reservations : alloc[p][r] = c
        BY <3>4 DEF Allocated
      <4>2. p # s.p
        BY <1>2, <4>1, NoCharge
      <4> QED
        BY <2>1, <4>1, <4>2
    <3> QED
      BY <3>2, <3>3, <3>4, AgreeNow
  <2>5. \A c \in notified' : charge'[c].st = "cancelled" => t.pc = "forget" /\ t.c = c
    BY <1>0, AgreeNow
  <2> QED
    BY <1>4, <2>2, <2>3, <2>4, <2>5, AgreeBy
<1>6. CASE Commit(w)
  <2>1. /\ s.pc = "commit" /\ t.done = NoLines
        /\ \E status \in Applied : Booked(s, status, "none")
    BY <1>4, <1>6 DEF Commit, CommitOffline
  <2>2. \A c \in ChargeIds : Holds(s, c) => \E r \in Reservations : s.done[r] = c
    BY <2>1 DEF Holds
  <2> QED
    BY <1>5, <2>1, <2>2
<1>7. CASE CommitOffline(w)
  <2>1. s.pc = "commitOffline"
    BY <1>7 DEF CommitOffline
  <2>2. \A c \in ChargeIds : charge[c].st = "paid" => ~Holds(s, c)
    BY <2>1, AgreeNow DEF Booking
  <2>3. CASE UNCHANGED <<payment, alloc, fails>>
    BY <1>0, <1>4, <2>1, <2>3, AgreeLight DEF Booking
  <2>4. CASE \E u : Booked(u, "AUTO_APPLIED", "none") /\ u.p = s.p /\ t.done = NoLines
    BY <1>5, <2>2, <2>4 DEF Applied
  <2> QED
    BY <1>4, <2>1, <2>3, <2>4 DEF Commit
<1> QED
  BY <1>6, <1>7

LEMMA UndoReadAgree ==
  ASSUME AllocInv, OneHandler, AgreeInv, NEW w \in Workers, UndoRead(w)
  PROVE  AgreeInv'
<1> DEFINE s == worker[w]
<1>0. /\ s \in WorkerState /\ Course(s) /\ LocalsOK(s) /\ s.pc = "undo"
      /\ UNCHANGED <<payment, alloc, charge, notified>>
      /\ alloc \in [Payments -> [Reservations -> Slots]]
  BY DEF AllocInv, OwnershipInv, TypeOK, Hands, UndoRead, chargeVars, inboxVars
<1>1. PICK t \in WorkerState :
        /\ Go(w, t)
        /\ \/ Light(s, t)
           \/ /\ Keeps(s, t) /\ t.done = UndoTargets(s.p)
              /\ t.todo = {r \in Reservations : t.done[r] # None}
              /\ t.pc = IF t.todo = {} THEN "clear" ELSE "cancel"
  BY UndoReadMoves DEF AllocInv
<1>2. CASE Light(s, t)
  BY <1>0, <1>1, <1>2, AgreeLight DEF Booking
<1>3. CASE ~Light(s, t)
  <2>1. t.job \in UndoJobs /\ t.p = s.p /\ s.p \in Payments
    BY <1>0, <1>1, <1>3 DEF Course, Keeps, LocalsOK, PaymentPcs
  <2>2. \A r \in Reservations : alloc[s.p][r] \in ChargeIds => t.done[r] = alloc[s.p][r]
    <3>1. SUFFICES ASSUME NEW r \in Reservations, alloc[s.p][r] \in ChargeIds
                   PROVE  UndoTargets(s.p)[r] = alloc[s.p][r]
      BY <1>1, <1>3
    <3>2. alloc[s.p] # NoLines /\ alloc[s.p][r] # Offline
      BY <3>1, NoCharge, NullAssumption
    <3> QED
      BY <3>2 DEF UndoTargets
  <2>3. \A r \in Reservations : t.done[r] \in ChargeIds => t.pc = "cancel" /\ r \in t.todo
    BY <1>1, <1>3, NullAssumption
  <2>4. Tidy(t)'
    BY <1>0, <1>1, <1>3, <2>1, <2>2, <2>3 DEF Tidy, TidyLines, TidyUndo, TidyHook, LinePcs,
       Booking, Unwinding
  <2> QED
    BY <1>0, <1>1, <2>4, AgreeNow, AgreeQuiet DEF Booking
<1> QED
  BY <1>2, <1>3

LEMMA CancelAgree ==
  ASSUME AllocInv, OneHandler, AgreeInv, "cancel" \notin Faults,
         NEW w \in Workers, CancelCharge(w)
  PROVE  AgreeInv'
<1> DEFINE s == worker[w]
<1>0. /\ s \in WorkerState /\ Tidy(s) /\ LocalsOK(s) /\ s.pc = "cancel"
      /\ UNCHANGED <<payment, alloc, notified>>
      /\ charge \in [ChargeIds -> ChargeRow]
  BY AgreeNow DEF AllocInv, OwnershipInv, TypeOK, CancelCharge, inboxVars
<1>1. PICK t \in WorkerState, r \in s.todo :
        /\ Go(w, t) /\ Keeps(s, t)
        /\ t.pc = "forget" /\ t.done = s.done /\ t.todo = s.todo \ {r} /\ t.c = s.done[r]
        /\ charge' = [charge EXCEPT ![s.done[r]].st = "cancelled"]
  BY CancelMoves DEF AllocInv
<1>2. s.done[r] \in ChargeIds
  BY <1>0, <1>1 DEF LocalsOK
<1>3. \A c \in ChargeIds :
         charge'[c].st = IF c = s.done[r] THEN "cancelled" ELSE charge[c].st
  BY <1>0, <1>1, <1>2 DEF ChargeRow
<1>4. Tidy(t)'
  <2>1. \A x \in Reservations : t.done[x] \in ChargeIds =>
           x \in t.todo \/ charge'[t.done[x]].st = "cancelled"
    BY <1>0, <1>1, <1>3 DEF Tidy, TidyUndo, Booking
  <2>2. charge'[t.c].st = "cancelled"
    BY <1>1, <1>2, <1>3
  <2> QED
    BY <1>0, <1>1, <2>1, <2>2 DEF Tidy, TidyLines, TidyUndo, TidyHook, Keeps, Manual, LinePcs,
       Booking, Unwinding
<1>5. \A p \in Payments : payment'[p].status \notin Applied => alloc'[p] = NoLines
  BY <1>0 DEF AgreeInv
<1>6. \A c \in ChargeIds : charge'[c].st = "paid" => Allocated(c)' \/ Holds(t, c)
  BY <1>0, <1>1, <1>3, AgreeNow DEF Holds, Allocated
<1>7. \A c \in notified' : charge'[c].st = "cancelled" => t.pc = "forget" /\ t.c = c
  <2>1. notified \subseteq ChargeIds
    BY DEF AllocInv, OwnershipInv, TypeOK
  <2>2. ASSUME NEW c \in notified, charge'[c].st = "cancelled" PROVE c = s.done[r]
    BY <1>0, <1>3, <2>1, <2>2, AgreeNow
  <2> QED
    BY <1>0, <1>1, <2>2
<1> QED
  BY <1>1, <1>4, <1>5, <1>6, <1>7, AgreeBy

LEMMA ForgetAgree ==
  ASSUME AllocInv, OneHandler, AgreeInv, NEW w \in Workers, ForgetCharge(w)
  PROVE  AgreeInv'
<1> DEFINE s == worker[w]
<1>0. /\ s \in WorkerState /\ Tidy(s) /\ s.pc = "forget"
      /\ notified' = notified \ {s.c}
      /\ UNCHANGED <<payment, alloc, charge>>
  BY AgreeNow DEF AllocInv, OwnershipInv, TypeOK, ForgetCharge, chargeVars
<1>1. PICK t \in WorkerState :
        /\ Go(w, t)
        /\ \/ /\ Keeps(s, t) /\ t.done = s.done /\ t.todo = s.todo
              /\ \/ t.pc = "cancel"
                 \/ t.pc = "clear" /\ s.todo = {} /\ ~Manual(s)
           \/ Light(s, t) /\ s.todo = {}
  BY ForgetMoves DEF AllocInv
<1>2. \A r \in Reservations : s.done[r] \in ChargeIds =>
         r \in s.todo \/ charge[s.done[r]].st = "cancelled"
  BY <1>0 DEF Tidy, TidyUndo, Booking
<1>3. Tidy(t)'
  <2>1. CASE Light(s, t) /\ s.todo = {}
    BY <1>0, <1>2, <2>1, LightTidy
  <2>2. CASE ~(Light(s, t) /\ s.todo = {})
    <3>1. \A r \in Reservations : t.done[r] \in ChargeIds =>
             (t.pc = "cancel" /\ r \in t.todo) \/ charge[t.done[r]].st = "cancelled"
      BY <1>1, <1>2, <2>2
    <3>2. Keeps(s, t) /\ t.pc \in {"cancel", "clear"} /\ (t.pc = "clear" => ~Manual(s))
      BY <1>1, <2>2
    <3> QED
      BY <1>0, <1>1, <2>2, <3>1, <3>2 DEF Tidy, TidyLines, TidyUndo, TidyHook, Keeps, Manual,
         LinePcs, Booking, Unwinding
  <2> QED
    BY <1>1, <2>1, <2>2
<1>4. \A p \in Payments : payment'[p].status \notin Applied => alloc'[p] = NoLines
  BY <1>0 DEF AgreeInv
<1>5. \A c \in ChargeIds : charge[c].st = "paid" /\ Holds(s, c) => Holds(t, c)
  BY <1>0, <1>1, <1>2 DEF Holds
<1>6. \A c \in ChargeIds : charge'[c].st = "paid" => Allocated(c)' \/ Holds(t, c)
  BY <1>0, <1>5, AgreeNow DEF Allocated
<1>7. \A c \in notified' : charge'[c].st = "cancelled" => t.pc = "forget" /\ t.c = c
  BY <1>0, AgreeNow
<1> QED
  BY <1>1, <1>3, <1>4, <1>6, <1>7, AgreeBy

\* The allocations go only after every charge in them is cancelled.
LEMMA TakeBackAgree ==
  ASSUME AllocInv, OneHandler, AgreeInv, NEW w \in Workers,
         ClearAllocations(w) \/ ResetPayment(w)
  PROVE  AgreeInv'
<1> DEFINE s == worker[w]
<1>0. /\ s \in WorkerState /\ Tidy(s) /\ LocalsOK(s) /\ s.pc \in {"clear", "reset"}
      /\ payment \in [Payments -> PaymentRow] /\ alloc \in [Payments -> [Reservations -> Slots]]
      /\ UNCHANGED <<charge, notified>>
  BY AgreeNow DEF AllocInv, OwnershipInv, TypeOK, ClearAllocations, ResetPayment, chargeVars, inboxVars
<1>1. s.p \in Payments
  BY <1>0 DEF LocalsOK, PaymentPcs
<1>2. PICK t \in WorkerState :
        /\ Go(w, t) /\ Keeps(s, t) /\ t.done = s.done
        /\ t.pc = IF s.pc = "clear" THEN "reset" ELSE "reconcile"
  BY TakeBackMoves DEF AllocInv
<1>3. /\ \A r \in Reservations : s.done[r] \in ChargeIds => charge[s.done[r]].st = "cancelled"
      /\ \A c \in ChargeIds : charge[c].st = "paid" => Allocated(c)
  BY <1>0, AgreeNow DEF Tidy, TidyUndo, Booking
<1>4. \A c \in notified' : charge'[c].st = "cancelled" => t.pc = "forget" /\ t.c = c
  BY <1>0, AgreeNow
<1>5. CASE ClearAllocations(w)
  <2>1. /\ s.pc = "clear" /\ UNCHANGED payment
        /\ alloc' = [alloc EXCEPT ![s.p] = NoLines]
    BY <1>5 DEF ClearAllocations
  <2>2. alloc'[s.p] = NoLines /\ \A p \in Payments : p # s.p => alloc'[p] = alloc[p]
    BY <1>0, <1>1, <2>1
  <2>3. s.job \in UndoJobs
    BY <1>0, <2>1 DEF Tidy, TidyUndo, Unwinding
  <2>4. \A r \in Reservations : alloc[s.p][r] \in ChargeIds => charge[alloc[s.p][r]].st = "cancelled"
    BY <1>0, <1>3, <2>1, <2>3 DEF Tidy, TidyUndo, Unwinding
  <2>5. \A c \in ChargeIds : charge'[c].st = "paid" => Allocated(c)'
    <3>1. SUFFICES ASSUME NEW c \in ChargeIds, charge[c].st = "paid"
                   PROVE  \E p \in Payments, r \in Reservations : alloc'[p][r] = c
      BY <1>0 DEF Allocated
    <3>2. PICK p \in Payments, r \in Reservations : alloc[p][r] = c
      BY <1>3, <3>1 DEF Allocated
    <3>3. p # s.p
      BY <2>4, <3>1, <3>2
    <3> QED
      BY <2>2, <3>2, <3>3
  <2>6. \A p \in Payments : payment'[p].status \notin Applied => alloc'[p] = NoLines
    BY <2>1, <2>2 DEF AgreeInv
  <2>7. Tidy(t)'
    <3>1. t.pc = "reset" /\ t.p = s.p /\ t.done = s.done
      BY <1>2, <2>1 DEF Keeps
    <3>2. alloc'[t.p] = NoLines
      BY <2>2, <3>1
    <3>3. \A r \in Reservations : t.done[r] \in ChargeIds => charge'[t.done[r]].st = "cancelled"
      BY <1>0, <1>3, <3>1
    <3> QED
      BY <3>1, <3>2, <3>3 DEF Tidy, TidyLines, TidyUndo, TidyHook, LinePcs, Booking, Unwinding
  <2> QED
    BY <1>2, <1>4, <2>5, <2>6, <2>7, AgreeBy
<1>6. CASE ResetPayment(w)
  <2>1. s.pc = "reset" /\ UNCHANGED alloc /\ \E row : payment' = [payment EXCEPT ![s.p] = row]
    BY <1>6 DEF ResetPayment
  <2>2. alloc[s.p] = NoLines
    BY <1>0, <2>1 DEF Tidy, TidyUndo
  <2>3. \A p \in Payments : payment'[p].status \notin Applied => alloc'[p] = NoLines
    <3>1. \A p \in Payments : p # s.p => payment'[p] = payment[p]
      BY <1>0, <2>1
    <3> QED
      BY <2>1, <2>2, <3>1 DEF AgreeInv
  <2>4. \A c \in ChargeIds : charge'[c].st = "paid" => Allocated(c)' \/ Holds(t, c)
    BY <1>0, <1>3, <2>1 DEF Allocated
  <2>5. Tidy(t)'
    <3>1. t.pc = "reconcile"
      BY <1>2, <2>1
    <3> QED
      BY <1>0, <1>2, <1>3, <3>1, BareTidy DEF LightPcs
  <2> QED
    BY <1>2, <1>4, <2>3, <2>4, <2>5, AgreeBy
<1> QED
  BY <1>5, <1>6

LEMMA HookAgree ==
  ASSUME AllocInv, OneHandler, AgreeInv, NEW w \in Workers,
         FetchCharges(w) \/ Baseline(w) \/ NoteCharge(w) \/ NoteRow(w)
  PROVE  AgreeInv'
<1> DEFINE s == worker[w]
           new == {c \in ChargeIds : charge[c].st = "paid" /\ charge[c].res = s.r} \ s.ids
<1>0. /\ s \in WorkerState /\ Tidy(s)
      /\ s.pc \in {"fetch", "fetchFirst", "baseline", "note", "noteRow"}
      /\ UNCHANGED <<payment, alloc, charge>>
  BY AgreeNow DEF AllocInv, OwnershipInv, TypeOK, FetchCharges, Baseline, NoteCharge, NoteRow,
                  chargeVars
<1>1. PICK t \in WorkerState :
        /\ Go(w, t)
        /\ \/ Light(s, t)
           \/ /\ Keeps(s, t) /\ t.done = s.done
              /\ \/ FetchCharges(w) /\ t.pc \in {"baseline", "note"} /\ t.ids = new
                 \/ NoteCharge(w) /\ t.pc = "noteRow" /\ t.c \in s.ids /\ t.ids = s.ids \ {t.c}
                 \/ NoteRow(w) /\ t.pc = "note" /\ t.ids = s.ids
  BY WebhookMoves DEF AllocInv
<1>2. \A c \in notified' \ notified : charge[c].st = "paid"
  BY <1>0 DEF FetchCharges, Baseline, NoteCharge, NoteRow, Tidy, TidyHook, inboxVars
<1>3. CASE Light(s, t)
  BY <1>0, <1>1, <1>2, <1>3, AgreeLight DEF Booking
<1>4. CASE ~Light(s, t)
  <2>1. /\ t.pc \in {"baseline", "note", "noteRow"} /\ t.done = s.done
        /\ \A c \in t.ids : charge[c].st = "paid"
        /\ t.pc = "noteRow" => charge[t.c].st = "paid"
    BY <1>0, <1>1, <1>4 DEF NoteCharge, NoteRow, Tidy, TidyHook
  <2>2. \A r \in Reservations : t.done[r] \in ChargeIds => charge[t.done[r]].st = "cancelled"
    BY <1>0, <2>1 DEF Tidy, TidyUndo, Booking
  <2>3. Tidy(t)'
    BY <1>0, <2>1, <2>2 DEF Tidy, TidyLines, TidyUndo, TidyHook, LinePcs, Booking, Unwinding
  <2> QED
    BY <1>0, <1>1, <1>2, <2>3, AgreeNow, AgreeQuiet DEF Booking
<1> QED
  BY <1>3, <1>4

\* Money is booked once and counted once: every charge that stands as paid is
\* allocated or in the hand of the handler that answers for it, and no
\* cancelled charge counts as paid, for any number of payments, reservations
\* and charges, refusals, archived units and undos included.
THEOREM ChargesTheorem ==
  ASSUME Calm PROVE Spec => []ChargesAgree
<1> DEFINE Inv == AllocInv /\ AgreeInv
<1>1. Init => Inv
  <2>1. Init => AgreeInv
    BY NoCharge DEF Init, AgreeInv, Tidy, TidyLines, TidyUndo, TidyHook, IdleWorker,
       CancelledNotCounted, LinePcs, Booking, Unwinding, NoLines
  <2> QED
    BY <2>1, InitAlloc
<1>2. Inv /\ [Next]_vars => Inv'
  <2> SUFFICES ASSUME AllocInv, AgreeInv, [Next]_vars PROVE AgreeInv'
    BY NextAlloc
  <2>0. OneHandler /\ {"lost", "inbox", "cancel", "stalePage"} \cap Faults = {}
    BY DEF Calm
  <2>1. CASE UNCHANGED vars
    BY <2>1 DEF vars, AgreeInv, Tidy, TidyLines, TidyUndo, TidyHook, CancelledNotCounted, Allocated,
                Holds
  <2>2. ASSUME NEW w \in Workers, Step(w) \/ Call(w) PROVE AgreeInv'
    <3>1. ~InboxThrows(w)
      BY <2>0 DEF InboxThrows
    <3> QED
      BY <2>0, <2>2, <3>1, LoopAgree, CallAgree, VerdictAgree, LineAgree, ChargeCreateAgree,
         ChargeFailAgree, CommitAgree, UndoReadAgree, CancelAgree, ForgetAgree, TakeBackAgree,
         HookAgree DEF Step, Apply, Undo
  <2>3. ASSUME NEW p \in Payments, SkipReview(p) PROVE AgreeInv'
    <3>1. \A q \in Payments : payment'[q].status \in Applied <=> payment[q].status \in Applied
      BY <2>0, <2>3 DEF SkipReview, Applied, AllocInv, OwnershipInv, TypeOK, PaymentRow
    <3>2. \A w \in Workers : worker[w].pc \in PaymentPcs => worker[w].p \in Payments
      BY DEF AllocInv, OwnershipInv, LocalsOK
    <3>3. UNCHANGED <<alloc, charge, notified, worker>>
      BY <2>3 DEF SkipReview, chargeVars, inboxVars
    <3>4. \A w \in Workers : Tidy(worker[w])'
      BY <3>1, <3>2, <3>3 DEF AgreeInv, Tidy, TidyLines, TidyUndo, TidyHook, Booking, PaymentPcs
    <3> QED
      BY <3>1, <3>3, <3>4 DEF AgreeInv, CancelledNotCounted, Allocated
  <2>4. ASSUME (\E r \in Reservations : ListingSync(r)) \/ PollStartThrows PROVE AgreeInv'
    BY <2>4 DEF ListingSync, PollStartThrows, chargeVars, inboxVars, AgreeInv, Tidy, TidyLines,
       TidyUndo, TidyHook, CancelledNotCounted, Allocated, Holds
  <2>5. ~Crash
    BY DEF Crash, Calm, AllocInv, OwnershipInv, TypeOK
  <2> QED
    BY <2>1, <2>2, <2>3, <2>4, <2>5 DEF Next
<1>3. Inv => ChargesAgree
  <2> SUFFICES ASSUME AllocInv, AgreeInv PROVE PaidIsAllocated /\ CancelledNotCounted
    BY DEF ChargesAgree
  <2>1. \A w \in Workers, c \in ChargeIds : Holds(worker[w], c) => InHand(c)
    BY DEF Holds, InHand
  <2> QED
    BY <2>1 DEF AgreeInv, PaidIsAllocated, Allocated
<1> QED
  BY <1>1, <1>2, <1>3, PTL DEF Spec
=============================================================================
