----------------------- MODULE Check24BookingProofs ------------------------
(***************************************************************************)
(* LinkOwnership and AcceptedIsImported for every set of bookings and      *)
(* workers and every bound.  LinkInv is the inductive invariant; it is     *)
(* split into what it says of the tables and of each handler's locals.     *)
(* OneStay follows from StayInv, which adds that every reservation is      *)
(* linked or in the hand of the handler that made it.                      *)
(***************************************************************************)
EXTENDS Check24Booking, TLAPS

\* What LinkInv says of the rows and of Hostaway.
Tables ==
    /\ portal \in [Bookings -> PortalStatuses]
    /\ row \in [Bookings -> BookingRow]
    /\ ha \in [ResIds -> Reservation]
    /\ nRes \in 0..MaxRes
    /\ local \in [ResIds -> LocalStatuses]
    /\ auto \in SUBSET ResIds
    /\ faults \in 0..MaxFaults
    /\ \A b \in Bookings : row[b].hid # None => MadeFor(ha, row[b].hid, b)
    /\ \A h \in ResIds : h > nRes => ha[h].st = "unused"
    /\ \A h \in ResIds : local[h] # "absent" => ha[h].st # "unused"

\* What it says of a handler's locals s, in the tables r of reservations and
\* rw of rows.
Sound(s, r, rw) ==
    /\ s \in WorkerState
    /\ LocalsOK(s, r)
    /\ s.pc = "accept" => rw[s.b].hid # None

Handlers ==
    /\ worker \in [Workers -> WorkerState]
    /\ \A w \in Workers : Sound(worker[w], ha, row)

\* A reservation in use keeps its booking.
Grows(r, new) ==
    \A h \in ResIds : r[h].st # "unused" => new[h].st # "unused" /\ new[h].b = r[h].b

\* A linked row stays linked.
StaysLinked(rw, new) ==
    \A b \in Bookings : rw[b].hid # None => new[b].hid # None

----------------------------------------------------------------------------
(* Locals.                                                                 *)

\* The two parts are LinkInv, now and after a step.
LEMMA Parts ==
  /\ LinkInv <=> Tables /\ Handlers
  /\ LinkInv' <=> Tables' /\ Handlers'
<1>1. LinkInv <=> Tables /\ Handlers
  BY DEF LinkInv, Tables, Handlers, Sound, BookingTypeOK
<1>2. LinkInv' <=> Tables' /\ Handlers'
  BY DEF LinkInv, Tables, Handlers, Sound, BookingTypeOK
<1> QED
  BY <1>1, <1>2

\* An idle worker holds nothing.
LEMMA IdleSound ==
  ASSUME NEW r, NEW rw
  PROVE  Sound(IdleWorker, r, rw)
BY NullNotId DEF Sound, IdleWorker, WorkerState, LocalsOK, ImportPcs, NoPage,
   PortalStatuses, LocalStatuses, Pcs

\* The end of processBooking drops the locals of the booking.
LEMMA DoneSound ==
  ASSUME NEW s \in WorkerState, NEW r, NEW rw
  PROVE  Sound(Done(s), r, rw)
<1>1. CASE ~s.poll
  BY <1>1, IdleSound DEF Done
<1>2. CASE s.poll
  <2>1. s.list \in [Bookings -> PortalStatuses]
    BY DEF WorkerState
  <2>2. Done(s) = [pc |-> "next", poll |-> TRUE, list |-> s.list, b |-> None,
                   seen |-> "absent", h |-> None, labels |-> FALSE, got |-> "absent",
                   then |-> "idle"]
    BY <1>2 DEF Done, IdleWorker
  <2> QED
    BY <2>1, <2>2, NullNotId DEF Sound, WorkerState, LocalsOK, ImportPcs,
       PortalStatuses, LocalStatuses, Pcs
<1> QED
  BY <1>1, <1>2

\* One handler moves on to sound locals; the others are not disturbed.
LEMMA Move ==
  ASSUME Handlers, NEW w \in Workers, NEW t, Go(w, t), Sound(t, ha', row'),
         Grows(ha, ha'), StaysLinked(row, row')
  PROVE  Handlers'
<1>1. t \in WorkerState /\ worker \in [Workers -> WorkerState]
  BY DEF Handlers, Sound
<1>2. worker' \in [Workers -> WorkerState] /\ worker'[w] = t
      /\ \A v \in Workers \ {w} : worker'[v] = worker[v]
  BY <1>1 DEF Go
<1>3. ASSUME NEW v \in Workers \ {w}
      PROVE  Sound(worker[v], ha', row')
  <2>1. Sound(worker[v], ha, row)
    BY <1>3 DEF Handlers
  <2>2. worker[v].pc = "accept" => worker[v].b \in Bookings
    BY <2>1 DEF Sound, LocalsOK, ImportPcs
  <2>3. LocalsOK(worker[v], ha')
    BY <2>1 DEF Sound, LocalsOK, MadeFor, Grows, WorkerState, ImportPcs
  <2> QED
    BY <2>1, <2>2, <2>3 DEF Sound, StaysLinked
<1> QED
  BY <1>2, <1>3 DEF Handlers

\* Nothing to show of tables that do not change.
LEMMA SameTables ==
  ASSUME Tables, UNCHANGED <<portal, row, haVars, localVars, faults>>
  PROVE  Tables' /\ Grows(ha, ha') /\ StaysLinked(row, row')
BY DEF Tables, haVars, localVars, Grows, StaysLinked

\* Nor of a step that only counts a failure or moves the portal.
LEMMA SameLinks ==
  ASSUME Tables, UNCHANGED <<row, haVars, localVars>>,
         portal' \in [Bookings -> PortalStatuses],
         faults' \in 0..MaxFaults
  PROVE  Tables' /\ Grows(ha, ha') /\ StaysLinked(row, row')
BY DEF Tables, haVars, localVars, Grows, StaysLinked

\* A failure stays within its bound.
LEMMA FaultBound ==
  ASSUME Tables, NEW k, Fault(k)
  PROVE  faults' \in 0..MaxFaults
BY BookingBounds DEF Tables, Fault

\* A row whose status is written keeps its link.
LEMMA StatusKeeps ==
  ASSUME Tables, NEW b \in Bookings, NEW st \in PortalStatuses,
         row' = [row EXCEPT ![b].status = st],
         UNCHANGED <<portal, haVars, localVars, faults>>
  PROVE  Tables' /\ Grows(ha, ha') /\ StaysLinked(row, row')
<1>1. row' \in [Bookings -> BookingRow] /\ \A c \in Bookings : row'[c].hid = row[c].hid
  BY DEF Tables, BookingRow
<1> QED
  BY <1>1 DEF Tables, haVars, localVars, Grows, StaysLinked

\* A new reservation takes an id nobody holds.
LEMMA AcceptKeeps ==
  ASSUME Tables, NEW b \in Bookings, Accept(b), UNCHANGED <<portal, row, localVars>>,
         faults' \in 0..MaxFaults
  PROVE  /\ Tables' /\ Grows(ha, ha') /\ StaysLinked(row, row')
         /\ nRes + 1 \in ResIds /\ MadeFor(ha', nRes + 1, b)
<1>1. nRes + 1 \in ResIds /\ ha[nRes + 1].st = "unused"
  BY BookingBounds DEF Tables, Accept, ResIds
<1>2. /\ ha' \in [ResIds -> Reservation]
      /\ ha'[nRes + 1] = [st |-> "active", b |-> b]
      /\ \A h \in ResIds \ {nRes + 1} : ha'[h] = ha[h]
      /\ nRes' = nRes + 1 /\ nRes' \in 0..MaxRes
  BY <1>1, BookingBounds DEF Tables, Accept, Reservation, ResIds
<1>3. Grows(ha, ha')
  BY <1>1, <1>2 DEF Grows
<1>4. \A h \in ResIds : h > nRes' => ha'[h].st = "unused"
  BY <1>1, <1>2, BookingBounds DEF Tables, ResIds
<1>5. \A c \in Bookings : row[c].hid # None => MadeFor(ha', row[c].hid, c)
  BY <1>3 DEF Tables, MadeFor, Grows, BookingRow
<1>6. MadeFor(ha', nRes + 1, b) /\ row' = row
  BY <1>2 DEF MadeFor
<1> QED
  BY <1>1, <1>2, <1>3, <1>4, <1>5, <1>6 DEF Tables, StaysLinked, localVars

\* A cancelled reservation keeps its booking.
LEMMA HaCancelKeeps ==
  ASSUME Tables, NEW h \in ResIds, ha[h].st # "unused", CancelAtHostaway(h),
         UNCHANGED <<portal, row, nRes, localVars>>, faults' \in 0..MaxFaults
  PROVE  Tables' /\ Grows(ha, ha') /\ StaysLinked(row, row')
<1>1. /\ ha' \in [ResIds -> Reservation]
      /\ \A g \in ResIds : ha'[g].b = ha[g].b /\ (ha'[g].st = "unused" <=> ha[g].st = "unused")
  BY DEF Tables, CancelAtHostaway, Reservation
<1>2. Grows(ha, ha')
  BY <1>1 DEF Grows
<1>3. \A b \in Bookings : row[b].hid # None => MadeFor(ha', row[b].hid, b)
  BY <1>1 DEF Tables, MadeFor, BookingRow
<1> QED
  BY <1>1, <1>2, <1>3 DEF Tables, StaysLinked, localVars

\* Writing the local row of a reservation that exists.
LEMMA LocalKeeps ==
  ASSUME Tables, NEW h \in ResIds, NEW st \in LocalStatuses,
         st # "absent" => ha[h].st # "unused",
         local' = [local EXCEPT ![h] = st], auto' \in SUBSET ResIds,
         UNCHANGED <<portal, row, haVars, faults>>
  PROVE  Tables' /\ Grows(ha, ha') /\ StaysLinked(row, row')
BY DEF Tables, haVars, Grows, StaysLinked

LEMMA MarkLocalKeeps ==
  ASSUME Tables, NEW h \in ResIds, MarkLocal(h),
         UNCHANGED <<portal, row, haVars, auto, faults>>
  PROVE  Tables' /\ Grows(ha, ha') /\ StaysLinked(row, row')
BY DEF Tables, haVars, Grows, StaysLinked, MarkLocal, LocalStatuses

----------------------------------------------------------------------------
(* The actions.                                                            *)

\* The names the proofs assign to pc.
LEMMA Names ==
  /\ {"idle", "get", "list", "next", "find", "upsert", "ignore", "import",
      "create", "fetch", "store", "link", "accept", "accepted", "readLocal",
      "already", "mark", "haCancel", "goneLocal", "gone", "keptLocal", "keptRow",
      "unpaid", "unpaidLocal", "linked", "portalCancel", "propagated"} \subseteq Pcs
  /\ {"absent", "pending", "requested", "booked", "cancelled"} \subseteq PortalStatuses
BY DEF Pcs, PortalStatuses

\* A new request starts from locals without a booking's reservation.
LEMMA CallKeeps ==
  ASSUME LinkInv, NEW w \in Workers, Call(w)
  PROVE  LinkInv'
<1>1. Tables /\ Handlers
  BY Parts
<1>2. CASE PollCall(w)
  <2> DEFINE t == [IdleWorker EXCEPT !.pc = "list", !.poll = TRUE]
  <2>1. Go(w, t) /\ UNCHANGED <<portal, row, haVars, localVars, faults>>
    BY <1>2 DEF PollCall
  <2>2. Sound(t, ha', row')
    BY IdleSound, Names DEF Sound, WorkerState, LocalsOK, ImportPcs, IdleWorker
  <2> QED
    BY <1>1, <2>1, <2>2, SameTables, Move, Parts
<1>3. CASE \E b \in Bookings : WebhookCall(w, b)
  <2>1. PICK b \in Bookings : WebhookCall(w, b)
    BY <1>3
  <2> DEFINE t == [IdleWorker EXCEPT !.pc = "get", !.b = b]
  <2>2. Go(w, t) /\ UNCHANGED <<portal, row, haVars, localVars, faults>>
    BY <2>1 DEF WebhookCall
  <2>3. Sound(t, ha', row')
    BY IdleSound, Names DEF Sound, WorkerState, LocalsOK, ImportPcs, IdleWorker
  <2> QED
    BY <1>1, <2>2, <2>3, SameTables, Move, Parts
<1>4. CASE \E h \in ResIds : SyncCall(w, h)
  <2>1. PICK h \in ResIds : SyncCall(w, h)
    BY <1>4
  <2> DEFINE t == [IdleWorker EXCEPT !.pc = "fetch", !.h = h]
  <2>2. Go(w, t) /\ UNCHANGED <<portal, row, haVars, localVars, faults>> /\ ha[h].st # "unused"
    BY <2>1 DEF SyncCall
  <2>3. Sound(t, ha', row')
    BY <2>2, IdleSound, Names DEF Sound, WorkerState, LocalsOK, ImportPcs, IdleWorker, haVars
  <2> QED
    BY <1>1, <2>2, <2>3, SameTables, Move, Parts
<1>5. CASE \E h \in ResIds : UnpaidCall(w, h)
  <2>1. PICK h \in ResIds : UnpaidCall(w, h)
    BY <1>5
  <2> DEFINE t == [IdleWorker EXCEPT !.pc = "unpaid", !.h = h]
  <2>2. Go(w, t) /\ UNCHANGED <<portal, row, haVars, localVars, faults>> /\ local[h] = "active"
    BY <2>1 DEF UnpaidCall
  <2>3. ha'[h].st # "unused"
    BY <1>1, <2>2 DEF Tables, haVars
  <2>4. Sound(t, ha', row')
    BY <2>3, IdleSound, Names DEF Sound, WorkerState, LocalsOK, ImportPcs, IdleWorker
  <2> QED
    BY <1>1, <2>2, <2>4, SameTables, Move, Parts
<1> QED
  BY <1>2, <1>3, <1>4, <1>5 DEF Call

\* A handler moves on with sound locals and sound tables.
LEMMA Keep ==
  ASSUME Tables', Handlers, NEW w \in Workers, NEW t, Go(w, t), Sound(t, ha', row'),
         Grows(ha, ha'), StaysLinked(row, row')
  PROVE  LinkInv'
BY Move, Parts

\* The handler of a step has sound locals.
LEMMA HandlerSound ==
  ASSUME LinkInv, NEW w \in Workers
  PROVE  Tables /\ Handlers /\ Sound(worker[w], ha, row)
BY Parts DEF Handlers

\* GetBooking: the status is read, or the request ends.
LEMMA GetBookingKeeps ==
  ASSUME LinkInv, NEW w \in Workers, GetBooking(w)
  PROVE  LinkInv'
<1> DEFINE s == worker[w]
           t == [s EXCEPT !.pc = "find", !.seen = portal[s.b]]
<1>1. Tables /\ Handlers /\ Sound(s, ha, row)
  BY HandlerSound
<1>2. /\ s.pc = "get" /\ UNCHANGED <<portal, row, haVars, localVars>>
      /\ (Go(w, t) /\ UNCHANGED faults) \/ (Fault("portal") /\ Go(w, IdleWorker))
  BY DEF GetBooking
<1>3. Sound(t, ha', row')
  BY <1>1, <1>2, Names DEF Sound, WorkerState, LocalsOK, ImportPcs, Tables
<1>4. faults' \in 0..MaxFaults
  BY <1>1, <1>2, FaultBound DEF Tables
<1>5. Tables' /\ Grows(ha, ha') /\ StaysLinked(row, row')
  BY <1>1, <1>2, <1>4, SameLinks DEF Tables
<1> QED
  BY <1>1, <1>2, <1>3, <1>5, IdleSound, Keep

\* ListBookings: a page of statuses, or the poll ends.
LEMMA ListBookingsKeeps ==
  ASSUME LinkInv, NEW w \in Workers, ListBookings(w)
  PROVE  LinkInv'
<1> DEFINE s == worker[w]
           listed(page) == [b \in Bookings |-> IF b \in page THEN portal[b] ELSE "absent"]
           t(page) == [s EXCEPT !.pc = "next", !.list = listed(page)]
<1>1. Tables /\ Handlers /\ Sound(s, ha, row)
  BY HandlerSound
<1>2. /\ s.pc = "list" /\ UNCHANGED <<portal, row, haVars, localVars>>
      /\ \/ (\E page \in SUBSET Bookings : Go(w, t(page))) /\ UNCHANGED faults
         \/ Fault("portal") /\ Go(w, IdleWorker)
  BY DEF ListBookings
<1>3. ASSUME NEW page \in SUBSET Bookings
      PROVE  Sound(t(page), ha', row')
  <2>1. listed(page) \in [Bookings -> PortalStatuses]
    BY <1>1, Names DEF Tables
  <2> HIDE DEF listed
  <2> QED
    BY <1>1, <1>2, <2>1, Names DEF Sound, WorkerState, LocalsOK, ImportPcs
<1>4. faults' \in 0..MaxFaults
  BY <1>1, <1>2, FaultBound DEF Tables
<1>5. Tables' /\ Grows(ha, ha') /\ StaysLinked(row, row')
  BY <1>1, <1>2, <1>4, SameLinks DEF Tables
<1> HIDE DEF t
<1> QED
  BY <1>1, <1>2, <1>3, <1>5, IdleSound, Keep

\* PollNext: the next booking of the page, or the end of the poll.
LEMMA PollNextKeeps ==
  ASSUME LinkInv, NEW w \in Workers, PollNext(w)
  PROVE  LinkInv'
<1> DEFINE s == worker[w]
           t(b) == [s EXCEPT !.pc = "find", !.b = b, !.seen = s.list[b], !.list[b] = "absent"]
<1>1. Tables /\ Handlers /\ Sound(s, ha, row)
  BY HandlerSound
<1>2. /\ s.pc = "next" /\ UNCHANGED <<portal, row, haVars, localVars, faults>>
      /\ (\E b \in Bookings : Go(w, t(b))) \/ Go(w, IdleWorker)
  BY DEF PollNext
<1>3. ASSUME NEW b \in Bookings
      PROVE  Sound(t(b), ha', row')
  <2> DEFINE rest == [s.list EXCEPT ![b] = "absent"]
  <2>1. s.list[b] \in PortalStatuses /\ rest \in [Bookings -> PortalStatuses]
    BY <1>1, Names DEF Sound, WorkerState
  <2>2. t(b) = [s EXCEPT !.pc = "find", !.b = b, !.seen = s.list[b], !.list = rest]
    BY <1>1 DEF Sound, WorkerState
  <2> HIDE DEF rest, t
  <2> QED
    BY <1>1, <1>2, <2>1, <2>2, Names DEF Sound, WorkerState, LocalsOK, ImportPcs
<1>4. Tables' /\ Grows(ha, ha') /\ StaysLinked(row, row')
  BY <1>1, <1>2, SameTables
<1> HIDE DEF t
<1> QED
  BY <1>1, <1>2, <1>3, <1>4, IdleSound, Keep

\* FindExisting: the row's reservation is the booking's own.
LEMMA FindExistingKeeps ==
  ASSUME LinkInv, NEW w \in Workers, FindExisting(w)
  PROVE  LinkInv'
<1> DEFINE s == worker[w]
           t == [s EXCEPT !.pc = "upsert", !.h = row[s.b].hid]
<1>1. Tables /\ Handlers /\ Sound(s, ha, row)
  BY HandlerSound
<1>2. s.pc = "find" /\ Go(w, t) /\ UNCHANGED <<portal, row, haVars, localVars, faults>>
  BY DEF FindExisting
<1>3. Sound(t, ha', row')
  BY <1>1, <1>2, Names DEF Sound, WorkerState, LocalsOK, ImportPcs, haVars, Tables, BookingRow
<1> QED
  BY <1>1, <1>2, <1>3, SameTables, Keep

\* UpsertRow.
LEMMA UpsertRowKeeps ==
  ASSUME LinkInv, NEW w \in Workers, UpsertRow(w)
  PROVE  LinkInv'
<1> DEFINE s == worker[w]
           t(pc) == [s EXCEPT !.pc = pc]
<1>1. Tables /\ Handlers /\ Sound(s, ha, row)
  BY HandlerSound
<1>2. /\ s.pc = "upsert" /\ UNCHANGED <<portal, haVars, localVars, faults>>
      /\ row' = [row EXCEPT ![s.b].status = s.seen]
  BY DEF UpsertRow
<1>3. \/ Go(w, Done(s)) \/ Go(w, t("ignore")) \/ Go(w, t("import"))
      \/ Go(w, t("readLocal")) /\ s.h # None
  BY <1>2 DEF UpsertRow, isTerminalStatus
<1>4. s.b \in Bookings /\ s.seen \in PortalStatuses /\ s \in WorkerState /\ ha' = ha
  BY <1>1, <1>2 DEF Sound, WorkerState, LocalsOK, ImportPcs, haVars
<1>5. Tables' /\ Grows(ha, ha') /\ StaysLinked(row, row')
  BY <1>1, <1>2, <1>4, StatusKeeps
<1>6. Sound(t("ignore"), ha', row') /\ Sound(t("import"), ha', row')
  BY <1>1, <1>2, <1>4, Names DEF Sound, WorkerState, LocalsOK, ImportPcs
<1>7. s.h # None => Sound(t("readLocal"), ha', row')
  BY <1>1, <1>2, <1>4, Names DEF Sound, WorkerState, LocalsOK, ImportPcs
<1>8. Sound(Done(s), ha', row')
  BY <1>4, DoneSound
<1> HIDE DEF t, s
<1> QED
  BY <1>1, <1>3, <1>5, <1>6, <1>7, <1>8, Keep

\* PrepareImport.
LEMMA PrepareImportKeeps ==
  ASSUME LinkInv, NEW w \in Workers, PrepareImport(w)
  PROVE  LinkInv'
<1> DEFINE s == worker[w]
           t(labels) == [s EXCEPT !.pc = "create", !.labels = labels]
<1>1. Tables /\ Handlers /\ Sound(s, ha, row)
  BY HandlerSound
<1>2. /\ s.pc = "import" /\ UNCHANGED <<portal, row, haVars, localVars>>
      /\ \/ (\E labels \in BOOLEAN : Go(w, t(labels))) /\ UNCHANGED faults
         \/ Fault("mapping") /\ Go(w, Done(s))
  BY DEF PrepareImport
<1>3. ASSUME NEW labels \in BOOLEAN
      PROVE  Sound(t(labels), ha', row')
  BY <1>1, <1>2, Names DEF Sound, WorkerState, LocalsOK, ImportPcs, haVars
<1>4. faults' \in 0..MaxFaults
  BY <1>1, <1>2, FaultBound DEF Tables
<1>5. Tables' /\ Grows(ha, ha') /\ StaysLinked(row, row')
  BY <1>1, <1>2, <1>4, SameLinks DEF Tables
<1>6. Sound(Done(s), ha', row')
  BY <1>1, DoneSound DEF Sound
<1> HIDE DEF t, s
<1> QED
  BY <1>1, <1>2, <1>3, <1>5, <1>6, Keep

\* CreateReservation: the handler takes the new reservation in hand.
LEMMA CreateReservationKeeps ==
  ASSUME LinkInv, NEW w \in Workers, CreateReservation(w)
  PROVE  LinkInv'
<1> DEFINE s == worker[w]
           t == [s EXCEPT !.pc = "fetch", !.then = "link", !.h = nRes + 1]
<1>1. Tables /\ Handlers /\ Sound(s, ha, row)
  BY HandlerSound
<1>2. s.pc = "create" /\ Accept(s.b) /\ Go(w, t) /\ UNCHANGED <<portal, row, localVars, faults>>
  BY DEF CreateReservation
<1>3. s.b \in Bookings /\ faults' \in 0..MaxFaults
  BY <1>1, <1>2 DEF Sound, LocalsOK, ImportPcs, Tables
<1>4. /\ Tables' /\ Grows(ha, ha') /\ StaysLinked(row, row')
      /\ nRes + 1 \in ResIds /\ MadeFor(ha', nRes + 1, s.b)
  BY <1>1, <1>2, <1>3, AcceptKeeps
<1>5. Sound(t, ha', row')
  BY <1>1, <1>2, <1>3, <1>4, Names, NullNotId DEF Sound, WorkerState, LocalsOK, ImportPcs, MadeFor
<1> HIDE DEF t
<1> QED
  BY <1>1, <1>2, <1>4, <1>5, Keep

\* CreateFails: refused, or accepted without the handler knowing.
LEMMA CreateFailsKeeps ==
  ASSUME LinkInv, NEW w \in Workers, CreateFails(w)
  PROVE  LinkInv'
<1> DEFINE s == worker[w]
           t == [s EXCEPT !.labels = FALSE]
<1>1. Tables /\ Handlers /\ Sound(s, ha, row)
  BY HandlerSound
<1>2. /\ s.pc = "create" /\ UNCHANGED <<portal, row, localVars>>
      /\ Go(w, t) \/ Go(w, Done(s))
      /\ \/ Fault("create") /\ UNCHANGED haVars
         \/ Fault("lost") /\ Accept(s.b)
         \/ UNCHANGED <<haVars, faults>>
  BY DEF CreateFails
<1>3. s.b \in Bookings /\ faults' \in 0..MaxFaults
  BY <1>1, <1>2, FaultBound DEF Sound, LocalsOK, ImportPcs, Tables
<1>4. Tables' /\ Grows(ha, ha') /\ StaysLinked(row, row')
  <2>1. CASE UNCHANGED haVars
    BY <1>1, <1>2, <1>3, <2>1, SameLinks DEF Tables
  <2>2. CASE Accept(s.b)
    BY <1>1, <1>2, <1>3, <2>2, AcceptKeeps
  <2> QED
    BY <1>2, <2>1, <2>2
<1>5. Sound(t, ha', row')
  BY <1>1, <1>2, <1>3, <1>4, Names DEF Sound, WorkerState, LocalsOK, ImportPcs, MadeFor, Grows
<1>6. Sound(Done(s), ha', row')
  BY <1>1, DoneSound DEF Sound
<1> HIDE DEF t, s
<1> QED
  BY <1>1, <1>2, <1>4, <1>5, <1>6, Keep

\* After a sync the handler goes on with the reservation it holds.
LEMMA ResumeSound ==
  ASSUME NEW s, NEW r, NEW rw, NEW new, Sound(s, r, rw), s.pc \in {"fetch", "store"}
  PROVE  Sound(Resume(s), r, new)
<1>1. CASE s.then = "idle"
  BY <1>1, IdleSound DEF Resume
<1>2. CASE s.then # "idle"
  BY <1>2, Names DEF Resume, Sound, WorkerState, LocalsOK, ImportPcs
<1> QED
  BY <1>1, <1>2

\* FetchReservation: the answer is a status of a reservation that exists.
LEMMA FetchReservationKeeps ==
  ASSUME LinkInv, NEW w \in Workers, FetchReservation(w)
  PROVE  LinkInv'
<1> DEFINE s == worker[w]
           t == [s EXCEPT !.pc = "store", !.got = ha[s.h].st]
           u == Resume(s)
<1>1. Tables /\ Handlers /\ Sound(s, ha, row)
  BY HandlerSound
<1>2. /\ s.pc = "fetch" /\ UNCHANGED <<portal, row, haVars, localVars>>
      /\ (Go(w, t) /\ UNCHANGED faults) \/ (Fault("fetch") /\ Go(w, u))
  BY DEF FetchReservation
<1>3. faults' \in 0..MaxFaults /\ ha' = ha
  BY <1>1, <1>2, FaultBound DEF Tables, haVars
<1>4. Tables' /\ Grows(ha, ha') /\ StaysLinked(row, row')
  BY <1>1, <1>2, <1>3, SameLinks DEF Tables
<1>5. s.h \in ResIds /\ ha[s.h].st \in {"active", "cancelled"}
  BY <1>1, <1>2 DEF Sound, WorkerState, LocalsOK, Tables, Reservation
<1>6. Sound(t, ha', row')
  BY <1>1, <1>2, <1>3, <1>5, Names DEF Sound, WorkerState, LocalsOK, ImportPcs, LocalStatuses
<1>7. Sound(u, ha', row')
  BY <1>1, <1>2, <1>3, ResumeSound
<1> HIDE DEF t, u
<1> QED
  BY <1>1, <1>2, <1>4, <1>6, <1>7, Keep

\* StoreReservation.
LEMMA StoreReservationKeeps ==
  ASSUME LinkInv, NEW w \in Workers, StoreReservation(w)
  PROVE  LinkInv'
<1> DEFINE s == worker[w]
           u == Resume(s)
<1>1. Tables /\ Handlers /\ Sound(s, ha, row)
  BY HandlerSound
<1>2. /\ s.pc = "store" /\ UNCHANGED <<portal, row, haVars, auto, faults>>
      /\ local' = [local EXCEPT ![s.h] = s.got]
      /\ Go(w, u)
  BY DEF StoreReservation
<1>3. /\ s.h \in ResIds /\ s.got \in LocalStatuses /\ ha[s.h].st # "unused"
      /\ ha' = ha /\ auto' \in SUBSET ResIds
  BY <1>1, <1>2 DEF Sound, WorkerState, LocalsOK, haVars, Tables
<1>4. Tables' /\ Grows(ha, ha') /\ StaysLinked(row, row')
  BY <1>1, <1>2, <1>3, LocalKeeps
<1>5. Sound(u, ha', row')
  BY <1>1, <1>2, <1>3, ResumeSound
<1> HIDE DEF u
<1> QED
  BY <1>1, <1>2, <1>4, <1>5, Keep

\* LinkRow: the row takes over the reservation made for its booking.
LEMMA LinkRowKeeps ==
  ASSUME LinkInv, NEW w \in Workers, LinkRow(w)
  PROVE  LinkInv'
<1> DEFINE s == worker[w]
           t == [s EXCEPT !.pc = "accept"]
<1>1. Tables /\ Handlers /\ Sound(s, ha, row)
  BY HandlerSound
<1>2. /\ s.pc = "link" /\ UNCHANGED <<portal, haVars, localVars, faults>>
      /\ row' = [row EXCEPT ![s.b] = [status |-> s.seen, hid |-> s.h]]
      /\ Go(w, t) \/ Go(w, Done(s))
  BY DEF LinkRow
<1>3. /\ s.b \in Bookings /\ s.h \in ResIds /\ s.h # None /\ s.seen \in PortalStatuses
      /\ MadeFor(ha, s.h, s.b) /\ ha' = ha
  BY <1>1, <1>2, NullNotId DEF Sound, WorkerState, LocalsOK, ImportPcs, haVars
<1>4. /\ row' \in [Bookings -> BookingRow] /\ row'[s.b].hid = s.h
      /\ \A b \in Bookings \ {s.b} : row'[b] = row[b]
  BY <1>1, <1>2, <1>3 DEF Tables, BookingRow
<1>5. \A b \in Bookings : row'[b].hid # None => MadeFor(ha, row'[b].hid, b)
  BY <1>1, <1>3, <1>4 DEF Tables
<1>6. Tables' /\ Grows(ha, ha') /\ StaysLinked(row, row')
  BY <1>1, <1>2, <1>3, <1>4, <1>5 DEF Tables, haVars, localVars, Grows, StaysLinked
<1>7. Sound(t, ha', row')
  BY <1>1, <1>2, <1>3, <1>4, Names DEF Sound, WorkerState, LocalsOK, ImportPcs
<1>8. Sound(Done(s), ha', row')
  BY <1>1, DoneSound DEF Sound
<1> HIDE DEF t, s
<1> QED
  BY <1>1, <1>2, <1>6, <1>7, <1>8, Keep

\* AcceptBooking.
LEMMA AcceptBookingKeeps ==
  ASSUME LinkInv, NEW w \in Workers, AcceptBooking(w)
  PROVE  LinkInv'
<1> DEFINE s == worker[w]
           t == [s EXCEPT !.pc = "accepted"]
<1>1. Tables /\ Handlers /\ Sound(s, ha, row)
  BY HandlerSound
<1>2. /\ s.pc = "accept" /\ UNCHANGED <<row, haVars, localVars>>
      /\ Go(w, t) \/ Go(w, Done(s))
      /\ portal' = [portal EXCEPT ![s.b] = "booked"] \/ portal' = portal
      /\ UNCHANGED faults \/ Fault("portal") \/ Fault("lost")
  BY DEF AcceptBooking
<1>3. faults' \in 0..MaxFaults /\ portal' \in [Bookings -> PortalStatuses] /\ ha' = ha
  BY <1>1, <1>2, FaultBound, Names DEF Tables, haVars
<1>4. Tables' /\ Grows(ha, ha') /\ StaysLinked(row, row')
  BY <1>1, <1>2, <1>3, SameLinks
<1>5. Sound(t, ha', row')
  BY <1>1, <1>2, <1>3, Names DEF Sound, WorkerState, LocalsOK, ImportPcs
<1>6. Sound(Done(s), ha', row')
  BY <1>1, DoneSound DEF Sound
<1> HIDE DEF t, s
<1> QED
  BY <1>1, <1>2, <1>4, <1>5, <1>6, Keep

\* AcceptedRow.
LEMMA AcceptedRowKeeps ==
  ASSUME LinkInv, NEW w \in Workers, AcceptedRow(w)
  PROVE  LinkInv'
<1> DEFINE s == worker[w]
<1>1. Tables /\ Handlers /\ Sound(s, ha, row)
  BY HandlerSound
<1>2. /\ s.pc = "accepted" /\ Go(w, Done(s)) /\ UNCHANGED <<portal, haVars, localVars, faults>>
      /\ row' = [row EXCEPT ![s.b].status = "booked"]
  BY DEF AcceptedRow
<1>3. s.b \in Bookings /\ "booked" \in PortalStatuses /\ s \in WorkerState
  BY <1>1, <1>2, Names DEF Sound, WorkerState, LocalsOK, ImportPcs
<1>4. Tables' /\ Grows(ha, ha') /\ StaysLinked(row, row')
  BY <1>1, <1>2, <1>3, StatusKeeps
<1>5. Sound(Done(s), ha', row')
  BY <1>3, DoneSound
<1> HIDE DEF s
<1> QED
  BY <1>1, <1>2, <1>4, <1>5, Keep

\* IgnoreCancelled.
LEMMA IgnoreCancelledKeeps ==
  ASSUME LinkInv, NEW w \in Workers, IgnoreCancelled(w)
  PROVE  LinkInv'
<1> DEFINE s == worker[w]
<1>1. Tables /\ Handlers /\ Sound(s, ha, row)
  BY HandlerSound
<1>2. /\ s.pc \in {"ignore", "already"} /\ Go(w, Done(s)) /\ UNCHANGED <<portal, haVars, localVars, faults>>
      /\ row' = [row EXCEPT ![s.b].status = s.seen]
  BY DEF IgnoreCancelled
<1>3. s.b \in Bookings /\ s.seen \in PortalStatuses /\ s \in WorkerState
  BY <1>1, <1>2, Names DEF Sound, WorkerState, LocalsOK, ImportPcs
<1>4. Tables' /\ Grows(ha, ha') /\ StaysLinked(row, row')
  BY <1>1, <1>2, <1>3, StatusKeeps
<1>5. Sound(Done(s), ha', row')
  BY <1>3, DoneSound
<1> HIDE DEF s
<1> QED
  BY <1>1, <1>2, <1>4, <1>5, Keep

\* KeptRow.
LEMMA KeptRowKeeps ==
  ASSUME LinkInv, NEW w \in Workers, KeptRow(w)
  PROVE  LinkInv'
<1> DEFINE s == worker[w]
<1>1. Tables /\ Handlers /\ Sound(s, ha, row)
  BY HandlerSound
<1>2. /\ s.pc = "keptRow" /\ Go(w, Done(s)) /\ UNCHANGED <<portal, haVars, localVars, faults>>
      /\ row' = [row EXCEPT ![s.b].status = s.seen]
  BY DEF KeptRow
<1>3. s.b \in Bookings /\ s.seen \in PortalStatuses /\ s \in WorkerState
  BY <1>1, <1>2, Names DEF Sound, WorkerState, LocalsOK, ImportPcs
<1>4. Tables' /\ Grows(ha, ha') /\ StaysLinked(row, row')
  BY <1>1, <1>2, <1>3, StatusKeeps
<1>5. Sound(Done(s), ha', row')
  BY <1>3, DoneSound
<1> HIDE DEF s
<1> QED
  BY <1>1, <1>2, <1>4, <1>5, Keep

\* PropagatedRow.
LEMMA PropagatedRowKeeps ==
  ASSUME LinkInv, NEW w \in Workers, PropagatedRow(w)
  PROVE  LinkInv'
<1> DEFINE s == worker[w]
<1>1. Tables /\ Handlers /\ Sound(s, ha, row)
  BY HandlerSound
<1>2. /\ s.pc = "propagated" /\ Go(w, IdleWorker) /\ UNCHANGED <<portal, haVars, localVars, faults>>
      /\ row' = [row EXCEPT ![s.b].status = "cancelled"]
  BY DEF PropagatedRow
<1>3. s.b \in Bookings /\ "cancelled" \in PortalStatuses /\ s \in WorkerState
  BY <1>1, <1>2, Names DEF Sound, WorkerState, LocalsOK, ImportPcs
<1>4. Tables' /\ Grows(ha, ha') /\ StaysLinked(row, row')
  BY <1>1, <1>2, <1>3, StatusKeeps
<1>5. Sound(IdleWorker, ha', row')
  BY <1>3, IdleSound
<1> HIDE DEF s
<1> QED
  BY <1>1, <1>2, <1>4, <1>5, Keep

\* ReadLocal.
LEMMA ReadLocalKeeps ==
  ASSUME LinkInv, NEW w \in Workers, ReadLocal(w)
  PROVE  LinkInv'
<1> DEFINE s == worker[w]
           t(pc) == [s EXCEPT !.pc = pc]
<1>1. Tables /\ Handlers /\ Sound(s, ha, row)
  BY HandlerSound
<1>2. /\ s.pc = "readLocal" /\ UNCHANGED <<portal, row, haVars, localVars, faults>>
      /\ Go(w, t("already")) \/ Go(w, t("mark"))
  BY DEF ReadLocal
<1>3. Sound(t("already"), ha', row') /\ Sound(t("mark"), ha', row')
  BY <1>1, <1>2, Names DEF Sound, WorkerState, LocalsOK, ImportPcs, haVars
<1>4. Tables' /\ Grows(ha, ha') /\ StaysLinked(row, row')
  BY <1>1, <1>2, SameTables
<1> HIDE DEF t
<1> QED
  BY <1>1, <1>2, <1>3, <1>4, Keep

\* MarkCancelled.
LEMMA MarkCancelledKeeps ==
  ASSUME LinkInv, NEW w \in Workers, MarkCancelled(w)
  PROVE  LinkInv'
<1> DEFINE s == worker[w]
           t == [s EXCEPT !.pc = "haCancel"]
<1>1. Tables /\ Handlers /\ Sound(s, ha, row)
  BY HandlerSound
<1>2. /\ s.pc = "mark" /\ Go(w, t) /\ UNCHANGED <<portal, haVars, localVars, faults>>
      /\ row' = [row EXCEPT ![s.b].status = s.seen]
  BY DEF MarkCancelled
<1>3. s.b \in Bookings /\ s.seen \in PortalStatuses /\ ha' = ha
  BY <1>1, <1>2 DEF Sound, WorkerState, LocalsOK, ImportPcs, haVars
<1>4. Tables' /\ Grows(ha, ha') /\ StaysLinked(row, row')
  BY <1>1, <1>2, <1>3, StatusKeeps
<1>5. Sound(t, ha', row')
  BY <1>1, <1>2, <1>3, Names DEF Sound, WorkerState, LocalsOK, ImportPcs
<1> HIDE DEF t
<1> QED
  BY <1>1, <1>2, <1>4, <1>5, Keep

\* CancelReservation: only the booking's own stay is cancelled.
LEMMA CancelReservationKeeps ==
  ASSUME LinkInv, NEW w \in Workers, CancelReservation(w)
  PROVE  LinkInv'
<1> DEFINE s == worker[w]
           t(pc) == [s EXCEPT !.pc = pc]
<1>1. Tables /\ Handlers /\ Sound(s, ha, row)
  BY HandlerSound
<1>2. /\ s.pc = "haCancel" /\ UNCHANGED <<portal, row, nRes, localVars>>
      /\ Go(w, t("goneLocal")) \/ Go(w, t("keptLocal"))
      /\ CancelAtHostaway(s.h) \/ UNCHANGED ha
      /\ UNCHANGED faults \/ Fault("sticky") \/ Fault("haCancel") \/ Fault("lost")
  BY DEF CancelReservation
<1>3. /\ faults' \in 0..MaxFaults /\ s.h \in ResIds /\ s.h # None
      /\ s.b \in Bookings /\ MadeFor(ha, s.h, s.b)
  BY <1>1, <1>2, FaultBound, NullNotId DEF Tables, Sound, LocalsOK, ImportPcs
<1>4. Tables' /\ Grows(ha, ha') /\ StaysLinked(row, row')
  <2>1. CASE CancelAtHostaway(s.h)
    BY <1>1, <1>2, <1>3, <2>1, HaCancelKeeps DEF MadeFor
  <2>2. CASE UNCHANGED ha
    BY <1>1, <1>2, <1>3, <2>2, SameLinks DEF haVars, Tables
  <2> QED
    BY <1>2, <2>1, <2>2
<1>5. MadeFor(ha', s.h, s.b)
  BY <1>3, <1>4 DEF MadeFor, Grows
<1>6. Sound(t("goneLocal"), ha', row') /\ Sound(t("keptLocal"), ha', row')
  BY <1>1, <1>2, <1>3, <1>5, Names DEF Sound, WorkerState, LocalsOK, ImportPcs
<1> HIDE DEF t
<1> QED
  BY <1>1, <1>2, <1>4, <1>6, Keep

\* CancelLocal.
LEMMA CancelLocalKeeps ==
  ASSUME LinkInv, NEW w \in Workers, CancelLocal(w)
  PROVE  LinkInv'
<1> DEFINE s == worker[w]
           t == [s EXCEPT !.pc = "fetch", !.then = "gone"]
<1>1. Tables /\ Handlers /\ Sound(s, ha, row)
  BY HandlerSound
<1>2. /\ s.pc = "goneLocal" /\ Go(w, t) /\ MarkLocal(s.h)
      /\ UNCHANGED <<portal, row, haVars, auto, faults>>
  BY DEF CancelLocal
<1>3. s.h \in ResIds /\ s \in WorkerState
  BY <1>1, <1>2 DEF Sound, WorkerState, LocalsOK, ImportPcs
<1>4. Tables' /\ Grows(ha, ha') /\ StaysLinked(row, row')
  BY <1>1, <1>2, <1>3, MarkLocalKeeps
<1>5. Sound(t, ha', row')
  BY <1>1, <1>2, <1>3, Names, NullNotId DEF Sound, WorkerState, LocalsOK, ImportPcs, haVars, MadeFor
<1> HIDE DEF t
<1> QED
  BY <1>1, <1>2, <1>4, <1>5, Keep

\* ReassertLocal.
LEMMA ReassertLocalKeeps ==
  ASSUME LinkInv, NEW w \in Workers, ReassertLocal(w)
  PROVE  LinkInv'
<1> DEFINE s == worker[w]
           t == Done(s)
<1>1. Tables /\ Handlers /\ Sound(s, ha, row)
  BY HandlerSound
<1>2. /\ s.pc = "gone" /\ Go(w, t) /\ MarkLocal(s.h)
      /\ UNCHANGED <<portal, row, haVars, auto, faults>>
  BY DEF ReassertLocal
<1>3. s.h \in ResIds /\ s \in WorkerState
  BY <1>1, <1>2 DEF Sound, WorkerState, LocalsOK, ImportPcs
<1>4. Tables' /\ Grows(ha, ha') /\ StaysLinked(row, row')
  BY <1>1, <1>2, <1>3, MarkLocalKeeps
<1>5. Sound(t, ha', row')
  BY <1>3, DoneSound
<1> HIDE DEF t
<1> QED
  BY <1>1, <1>2, <1>4, <1>5, Keep

\* KeptLocal.
LEMMA KeptLocalKeeps ==
  ASSUME LinkInv, NEW w \in Workers, KeptLocal(w)
  PROVE  LinkInv'
<1> DEFINE s == worker[w]
           t == [s EXCEPT !.pc = "keptRow"]
<1>1. Tables /\ Handlers /\ Sound(s, ha, row)
  BY HandlerSound
<1>2. /\ s.pc = "keptLocal" /\ Go(w, t) /\ MarkLocal(s.h)
      /\ UNCHANGED <<portal, row, haVars, auto, faults>>
  BY DEF KeptLocal
<1>3. s.h \in ResIds /\ s \in WorkerState
  BY <1>1, <1>2 DEF Sound, WorkerState, LocalsOK, ImportPcs
<1>4. Tables' /\ Grows(ha, ha') /\ StaysLinked(row, row')
  BY <1>1, <1>2, <1>3, MarkLocalKeeps
<1>5. Sound(t, ha', row')
  BY <1>1, <1>2, <1>3, Names DEF Sound, WorkerState, LocalsOK, ImportPcs, haVars
<1> HIDE DEF t
<1> QED
  BY <1>1, <1>2, <1>4, <1>5, Keep

\* UnpaidCancel: the stay exists, and nothing is linked to it anew.
LEMMA UnpaidCancelKeeps ==
  ASSUME LinkInv, NEW w \in Workers, UnpaidCancel(w)
  PROVE  LinkInv'
<1> DEFINE s == worker[w]
           t == [s EXCEPT !.pc = "unpaidLocal"]
<1>1. Tables /\ Handlers /\ Sound(s, ha, row)
  BY HandlerSound
<1>2. /\ s.pc = "unpaid" /\ UNCHANGED <<portal, row, nRes, localVars>>
      /\ Go(w, t) \/ Go(w, IdleWorker)
      /\ CancelAtHostaway(s.h) \/ UNCHANGED ha
      /\ UNCHANGED faults \/ Fault("sticky") \/ Fault("haCancel") \/ Fault("lost")
  BY DEF UnpaidCancel
<1>3. faults' \in 0..MaxFaults /\ s.h \in ResIds /\ ha[s.h].st # "unused"
  BY <1>1, <1>2, FaultBound DEF Tables, Sound, LocalsOK
<1>4. Tables' /\ Grows(ha, ha') /\ StaysLinked(row, row')
  <2>1. CASE CancelAtHostaway(s.h)
    BY <1>1, <1>2, <1>3, <2>1, HaCancelKeeps
  <2>2. CASE UNCHANGED ha
    BY <1>1, <1>2, <1>3, <2>2, SameLinks DEF haVars, Tables
  <2> QED
    BY <1>2, <2>1, <2>2
<1>5. Sound(t, ha', row')
  BY <1>1, <1>2, <1>3, <1>4, Names DEF Sound, WorkerState, LocalsOK, ImportPcs, Grows
<1> HIDE DEF t
<1> QED
  BY <1>1, <1>2, <1>4, <1>5, IdleSound, Keep

\* UnpaidLocal.
LEMMA UnpaidLocalKeeps ==
  ASSUME LinkInv, NEW w \in Workers, UnpaidLocal(w)
  PROVE  LinkInv'
<1> DEFINE s == worker[w]
           t == [s EXCEPT !.pc = "linked"]
<1>1. Tables /\ Handlers /\ Sound(s, ha, row)
  BY HandlerSound
<1>2. /\ s.pc = "unpaidLocal" /\ Go(w, t) /\ UNCHANGED <<portal, row, haVars, faults>>
      /\ local' = [local EXCEPT ![s.h] = "cancelled"] /\ auto' = auto \cup {s.h}
  BY DEF UnpaidLocal
<1>3. /\ s.h \in ResIds /\ ha[s.h].st # "unused" /\ auto' \in SUBSET ResIds
      /\ "cancelled" \in LocalStatuses
  BY <1>1, <1>2 DEF Tables, Sound, LocalsOK, LocalStatuses
<1>4. Tables' /\ Grows(ha, ha') /\ StaysLinked(row, row')
  BY <1>1, <1>2, <1>3, LocalKeeps
<1>5. Sound(t, ha', row')
  BY <1>1, <1>2, Names DEF Sound, WorkerState, LocalsOK, ImportPcs
<1> HIDE DEF t
<1> QED
  BY <1>1, <1>2, <1>4, <1>5, Keep

\* FindLinked.
LEMMA FindLinkedKeeps ==
  ASSUME LinkInv, NEW w \in Workers, FindLinked(w)
  PROVE  LinkInv'
<1> DEFINE s == worker[w]
           t(b) == [s EXCEPT !.pc = "portalCancel", !.b = b]
<1>1. Tables /\ Handlers /\ Sound(s, ha, row)
  BY HandlerSound
<1>2. /\ s.pc = "linked" /\ UNCHANGED <<portal, row, haVars, localVars, faults>>
      /\ Go(w, IdleWorker) \/ \E b \in Bookings : Go(w, t(b))
  BY DEF FindLinked
<1>3. ASSUME NEW b \in Bookings
      PROVE  Sound(t(b), ha', row')
  BY <1>1, <1>2, Names DEF Sound, WorkerState, LocalsOK, ImportPcs
<1>4. Tables' /\ Grows(ha, ha') /\ StaysLinked(row, row')
  BY <1>1, <1>2, SameTables
<1> HIDE DEF t
<1> QED
  BY <1>1, <1>2, <1>3, <1>4, IdleSound, Keep

\* CancelBooking.
LEMMA CancelBookingKeeps ==
  ASSUME LinkInv, NEW w \in Workers, CancelBooking(w)
  PROVE  LinkInv'
<1> DEFINE s == worker[w]
           t == [s EXCEPT !.pc = "propagated"]
<1>1. Tables /\ Handlers /\ Sound(s, ha, row)
  BY HandlerSound
<1>2. /\ s.pc = "portalCancel" /\ UNCHANGED <<row, haVars, localVars>>
      /\ Go(w, t) \/ Go(w, IdleWorker)
      /\ portal' = [portal EXCEPT ![s.b] = "cancelled"] \/ portal' = portal
      /\ UNCHANGED faults \/ Fault("portal") \/ Fault("lost")
  BY DEF CancelBooking
<1>3. faults' \in 0..MaxFaults /\ portal' \in [Bookings -> PortalStatuses]
  BY <1>1, <1>2, FaultBound, Names DEF Tables
<1>4. Tables' /\ Grows(ha, ha') /\ StaysLinked(row, row')
  BY <1>1, <1>2, <1>3, SameLinks
<1>5. Sound(t, ha', row')
  BY <1>1, <1>2, Names DEF Sound, WorkerState, LocalsOK, ImportPcs
<1> HIDE DEF t
<1> QED
  BY <1>1, <1>2, <1>4, <1>5, IdleSound, Keep

\* CHECK24's guests, Hostaway's staff and a restart.
LEMMA WorldKeeps ==
  ASSUME LinkInv, World \/ Crash
  PROVE  LinkInv'
<1>1. Tables /\ Handlers
  BY Parts
<1>2. CASE \E b \in Bookings : PortalBooks(b) \/ GuestCancels(b)
  <2>1. /\ portal' \in [Bookings -> PortalStatuses] /\ faults' \in 0..MaxFaults
        /\ UNCHANGED <<row, haVars, localVars, worker>>
    BY <1>1, <1>2, Names DEF PortalBooks, GuestCancels, Tables
  <2>2. Tables'
    BY <1>1, <2>1, SameLinks
  <2> QED
    BY <1>1, <2>1, <2>2, Parts DEF Handlers, haVars
<1>3. CASE \E h \in ResIds : StaffCancels(h)
  <2>1. PICK h \in ResIds : StaffCancels(h)
    BY <1>3
  <2>2. /\ ha[h].st # "unused" /\ CancelAtHostaway(h) /\ faults' \in 0..MaxFaults
        /\ UNCHANGED <<portal, row, nRes, localVars, worker>>
    BY <1>1, <2>1 DEF StaffCancels, Tables
  <2>3. Tables' /\ Grows(ha, ha') /\ StaysLinked(row, row')
    BY <1>1, <2>2, HaCancelKeeps
  <2>4. ASSUME NEW w \in Workers PROVE Sound(worker[w], ha', row')
    BY <1>1, <2>2, <2>3 DEF Handlers, Sound, LocalsOK, MadeFor, Grows, WorkerState, ImportPcs
  <2> QED
    BY <1>1, <2>2, <2>3, <2>4, Parts DEF Handlers
<1>4. CASE Crash
  <2>1. faults' \in 0..MaxFaults /\ UNCHANGED <<portal, row, haVars, localVars>>
    BY <1>1, <1>4, FaultBound DEF Crash
  <2>2. Tables'
    BY <1>1, <2>1, SameLinks DEF Tables
  <2>3. Sound(IdleWorker, ha', row') /\ IdleWorker \in WorkerState
    BY IdleSound DEF Sound
  <2>4. Handlers'
    BY <1>4, <2>3 DEF Crash, Handlers
  <2> QED
    BY <2>2, <2>4, Parts
<1> QED
  BY <1>2, <1>3, <1>4 DEF World

LEMMA InitLinkInv == Init => LinkInv
<1> SUFFICES ASSUME Init PROVE LinkInv
  OBVIOUS
<1>1. Tables
  BY BookingBounds, NullNotId, Names DEF Init, Tables, BookingRow, Reservation, LocalStatuses, ResIds
<1>2. Sound(IdleWorker, ha, row) /\ IdleWorker \in WorkerState
  BY IdleSound DEF Sound
<1>3. Handlers
  BY <1>2 DEF Init, Handlers
<1> QED
  BY <1>1, <1>3, Parts

\* LinkInv is inductive.
LEMMA NextLinkInv == LinkInv /\ [Next]_vars => LinkInv'
<1> SUFFICES ASSUME LinkInv, [Next]_vars PROVE LinkInv'
  OBVIOUS
<1>1. ASSUME NEW w \in Workers, Step(w) PROVE LinkInv'
  BY <1>1, GetBookingKeeps, ListBookingsKeeps, PollNextKeeps, FindExistingKeeps,
     UpsertRowKeeps, PrepareImportKeeps, CreateReservationKeeps, CreateFailsKeeps,
     FetchReservationKeeps, StoreReservationKeeps, LinkRowKeeps, AcceptBookingKeeps,
     AcceptedRowKeeps, IgnoreCancelledKeeps, ReadLocalKeeps, MarkCancelledKeeps,
     CancelReservationKeeps, CancelLocalKeeps, ReassertLocalKeeps, KeptLocalKeeps,
     KeptRowKeeps, UnpaidCancelKeeps, UnpaidLocalKeeps, FindLinkedKeeps,
     CancelBookingKeeps, PropagatedRowKeeps DEF Step
<1>2. CASE UNCHANGED vars
  BY <1>2 DEF vars, LinkInv, BookingTypeOK, LocalsOK, MadeFor
<1> QED
  BY <1>1, <1>2, CallKeeps, WorldKeeps DEF Next

\* For every set of bookings and workers, every bound and every choice of
\* events and faults, the inductive invariant holds in each reachable state.
THEOREM LinkTheorem == Spec => []LinkInv
<1>1. Init => LinkInv
  BY InitLinkInv
<1>2. LinkInv /\ [Next]_vars => LinkInv'
  BY NextLinkInv
<1> QED
  BY <1>1, <1>2, PTL DEF Spec

\* A Check24Booking row is linked only to a reservation that was created for
\* that booking, and no two bookings share one: cancelImportedReservation and
\* propagateHostawayCancellation act on the right stay and booking.
THEOREM LinkOwnershipTheorem == Spec => []LinkOwnership
<1>1. LinkInv => LinkOwnership
  BY DEF LinkInv, LinkOwnership, MadeFor
<1> QED
  BY <1>1, LinkTheorem, PTL

\* acceptBooking is called only for a booking whose row is linked to a stay
\* made for it, whatever interleaves, fails or restarts.
THEOREM AcceptTheorem == Spec => AcceptedIsImported
<1>1. LinkInv /\ [Next]_vars => [AcceptsLinked]_vars
  <2> SUFFICES ASSUME LinkInv, Next, NEW b \in Bookings,
                      portal[b] = "requested", portal'[b] = "booked"
               PROVE  row[b].hid # None
    BY DEF LinkInv, AcceptsLinked
  <2>1. CASE \E w \in Workers : AcceptBooking(w) /\ worker[w].b = b
    BY <2>1 DEF AcceptBooking, LinkInv
  <2>2. CASE \E w \in Workers : AcceptBooking(w) /\ worker[w].b # b
    BY <2>2 DEF AcceptBooking, LinkInv, BookingTypeOK
  <2>3. CASE \E w \in Workers : CancelBooking(w)
    BY <2>3 DEF CancelBooking, LinkInv, BookingTypeOK
  <2>4. CASE \E c \in Bookings : PortalBooks(c) \/ GuestCancels(c)
    BY <2>4 DEF PortalBooks, GuestCancels, LinkInv, BookingTypeOK
  <2>5. CASE UNCHANGED portal
    BY <2>5
  <2>6. \/ \E w \in Workers : AcceptBooking(w) \/ CancelBooking(w)
        \/ \E c \in Bookings : PortalBooks(c) \/ GuestCancels(c)
        \/ UNCHANGED portal
    <3>1. ASSUME NEW w \in Workers, Call(w) PROVE UNCHANGED portal
      BY <3>1 DEF Call, PollCall, WebhookCall, SyncCall, UnpaidCall
    <3>2. ASSUME NEW w \in Workers, Step(w)
          PROVE  AcceptBooking(w) \/ CancelBooking(w) \/ UNCHANGED portal
      BY <3>2 DEF Step, GetBooking, ListBookings, PollNext, FindExisting, UpsertRow,
         PrepareImport, CreateReservation, CreateFails, FetchReservation,
         StoreReservation, LinkRow, AcceptedRow, IgnoreCancelled, ReadLocal,
         MarkCancelled, CancelReservation, CancelLocal, ReassertLocal, KeptLocal,
         KeptRow, UnpaidCancel, UnpaidLocal, FindLinked, PropagatedRow
    <3>3. (\E h \in ResIds : StaffCancels(h)) \/ Crash => UNCHANGED portal
      BY DEF StaffCancels, Crash
    <3> QED
      BY <3>1, <3>2, <3>3 DEF Next, World
  <2> QED
    BY <2>1, <2>2, <2>3, <2>4, <2>5, <2>6
<1> QED
  BY <1>1, LinkTheorem, PTL DEF Spec, AcceptedIsImported
----------------------------------------------------------------------------
(* OneStay, where handlers run one at a time and answers arrive.           *)

\* No second handler, no call whose answer is lost and no restart: with any
\* of the three the code does import a booking twice.
OneByOne ==
    /\ \A v, w \in Workers : v = w
    /\ {"lost", "crash"} \cap Faults = {}

\* A handler between createReservation and the write of the link.
Carries(s) == s.pc = "link" \/ (s.pc \in {"fetch", "store"} /\ s.then = "link")

\* existing is still what the row holds; an import runs on an unlinked row.
Fresh(s, rw) ==
    /\ s.pc = "upsert" => s.h = rw[s.b].hid
    /\ s.pc \in {"import", "create"} \/ Carries(s) => rw[s.b].hid = None

\* Every reservation Hostaway accepted is linked to its booking's row or in
\* the hand of the handler that is about to link it.
Held(r, rw, wk) ==
    \A h \in ResIds : r[h].st # "unused" =>
        /\ r[h].b \in Bookings
        /\ \/ rw[r[h].b].hid = h
           \/ \E w \in Workers : Carries(wk[w]) /\ wk[w].h = h

StayInv ==
    /\ LinkInv
    /\ Held(ha, row, worker)
    /\ \A w \in Workers : Fresh(worker[w], row)

\* A handler that neither looks a booking up nor imports one.
Plain(s) == s.pc \notin {"upsert", "import", "create"} /\ ~Carries(s)

\* The rows keep their links.
SameHids == \A b \in Bookings : row'[b].hid = row[b].hid

\* Hostaway's reservations in use, and their bookings, are the same.
SameUse ==
    \A h \in ResIds :
        /\ ha'[h].st # "unused" => ha[h].st # "unused"
        /\ ha'[h].b = ha[h].b

\* The end of a booking's handling.
LEMMA EndsPlain ==
  ASSUME LinkInv, NEW w \in Workers
  PROVE  worker[w] \in WorkerState /\ Plain(IdleWorker) /\ Plain(Done(worker[w]))
BY DEF LinkInv, BookingTypeOK, Plain, Carries, Done, IdleWorker

\* A handler that only moves on.
LEMMA Goes ==
  ASSUME LinkInv, NEW w \in Workers, NEW t, Go(w, t)
  PROVE  worker'[w] = t
BY DEF LinkInv, BookingTypeOK, Go

LEMMA MovesPlain ==
  ASSUME NEW s \in WorkerState, NEW pc
  PROVE  /\ [s EXCEPT !.pc = pc].pc = pc /\ [s EXCEPT !.pc = pc].then = s.then
         /\ [s EXCEPT !.pc = pc].h = s.h /\ [s EXCEPT !.pc = pc].b = s.b
BY DEF WorkerState

LEMMA SameRow == UNCHANGED row => SameHids
BY DEF SameHids

LEMMA SameHa == UNCHANGED ha => SameUse
BY DEF SameUse

\* Writing a status leaves the links alone.
LEMMA StatusHids ==
  ASSUME LinkInv, NEW b, NEW st, row' = [row EXCEPT ![b].status = st]
  PROVE  SameHids
BY DEF LinkInv, BookingTypeOK, BookingRow, SameHids

\* Cancelling a reservation leaves it in use.
LEMMA CancelUse ==
  ASSUME LinkInv, NEW h \in ResIds, ha[h].st # "unused", CancelAtHostaway(h)
  PROVE  SameUse
BY DEF LinkInv, BookingTypeOK, Reservation, CancelAtHostaway, SameUse

\* The only handler moves on, and what it carried it carries on.
LEMMA StayMove ==
  ASSUME OneByOne, StayInv, LinkInv', NEW w \in Workers,
         SameHids, SameUse, Fresh(worker'[w], row'),
         Carries(worker[w]) => Carries(worker'[w]) /\ worker'[w].h = worker[w].h
  PROVE  StayInv'
<1>1. \A v \in Workers : v = w
  BY DEF OneByOne
<1>2. \A v \in Workers : Fresh(worker'[v], row')
  BY <1>1
<1>3. ASSUME NEW h \in ResIds, ha'[h].st # "unused"
      PROVE  /\ ha'[h].b \in Bookings
             /\ \/ row'[ha'[h].b].hid = h
                \/ \E v \in Workers : Carries(worker'[v]) /\ worker'[v].h = h
  <2>1. ha[h].st # "unused" /\ ha'[h].b = ha[h].b /\ ha[h].b \in Bookings
    BY <1>3 DEF SameUse, StayInv, Held
  <2>2. CASE row[ha[h].b].hid = h
    BY <2>1, <2>2 DEF SameHids
  <2>3. CASE \E v \in Workers : Carries(worker[v]) /\ worker[v].h = h
    BY <1>1, <2>1, <2>3
  <2> QED
    BY <2>1, <2>2, <2>3 DEF StayInv, Held
<1> QED
  BY <1>2, <1>3 DEF StayInv, Held

\* A step of handler w that has nothing to do with an import.
Quiet(w) ==
    /\ ~Carries(worker[w]) /\ Plain(worker'[w])
    /\ SameHids /\ SameUse

LEMMA QuietKeeps ==
  ASSUME OneByOne, StayInv, LinkInv', NEW w \in Workers, Quiet(w)
  PROVE  StayInv'
<1>1. Fresh(worker'[w], row')
  BY DEF Quiet, Plain, Fresh
<1> QED
  BY <1>1, StayMove DEF Quiet

\* Statuses and pages are read, requests begin: no row and no reservation
\* changes.
LEMMA ReadsQuiet ==
  ASSUME LinkInv, NEW w \in Workers,
         GetBooking(w) \/ ListBookings(w) \/ PollNext(w) \/ ReadLocal(w) \/ FindLinked(w)
         \/ Call(w)
  PROVE  Quiet(w)
<1> DEFINE s == worker[w]
<1>1. s \in WorkerState /\ Plain(IdleWorker) /\ SameHids /\ SameUse
  BY EndsPlain, SameRow, SameHa
     DEF GetBooking, ListBookings, PollNext, ReadLocal, FindLinked, Call, PollCall,
         WebhookCall, SyncCall, UnpaidCall, haVars
<1>2. CASE GetBooking(w)
  <2>1. s.pc = "get" /\ (worker'[w].pc = "find" \/ worker'[w] = IdleWorker)
    <3>1. \A x : [s EXCEPT !.pc = "find", !.seen = x].pc = "find"
      BY <1>1 DEF WorkerState
    <3> QED
      BY <1>1, <1>2, <3>1, Goes DEF GetBooking
  <2> QED
    BY <1>1, <2>1 DEF Quiet, Plain, Carries
<1>3. CASE ListBookings(w)
  <2>1. s.pc = "list" /\ (worker'[w].pc = "next" \/ worker'[w] = IdleWorker)
    <3>1. \A x : [s EXCEPT !.pc = "next", !.list = x].pc = "next"
      BY <1>1 DEF WorkerState
    <3> QED
      BY <1>1, <1>3, <3>1, Goes DEF ListBookings
  <2> QED
    BY <1>1, <2>1 DEF Quiet, Plain, Carries
<1>4. CASE PollNext(w)
  <2>1. s.pc = "next" /\ (worker'[w].pc = "find" \/ worker'[w] = IdleWorker)
    <3>1. \A b : [s EXCEPT !.pc = "find", !.b = b, !.seen = s.list[b],
                          !.list[b] = "absent"].pc = "find"
      BY <1>1 DEF WorkerState
    <3> QED
      BY <1>1, <1>4, <3>1, Goes DEF PollNext
  <2> QED
    BY <1>1, <2>1 DEF Quiet, Plain, Carries
<1>5. CASE ReadLocal(w)
  <2>1. s.pc = "readLocal" /\ worker'[w].pc \in {"already", "mark"}
    <3>1. \A pc : [s EXCEPT !.pc = pc].pc = pc
      BY <1>1 DEF WorkerState
    <3> QED
      BY <1>1, <1>5, <3>1, Goes DEF ReadLocal
  <2> QED
    BY <1>1, <2>1 DEF Quiet, Plain, Carries
<1>6. CASE FindLinked(w)
  <2>1. s.pc = "linked" /\ (worker'[w].pc = "portalCancel" \/ worker'[w] = IdleWorker)
    <3>1. \A b : [s EXCEPT !.pc = "portalCancel", !.b = b].pc = "portalCancel"
      BY <1>1 DEF WorkerState
    <3> QED
      BY <1>1, <1>6, <3>1, Goes DEF FindLinked
  <2> QED
    BY <1>1, <2>1 DEF Quiet, Plain, Carries
<1>7. CASE Call(w)
  <2>1. /\ s.pc = "idle"
        /\ \/ worker'[w].pc \in {"list", "get", "unpaid"}
           \/ worker'[w].pc = "fetch" /\ worker'[w].then = "idle"
    <3>1. CASE PollCall(w)
      BY <1>1, <3>1, Goes DEF PollCall, IdleWorker
    <3>2. CASE \E b \in Bookings : WebhookCall(w, b)
      <4>1. PICK b \in Bookings : WebhookCall(w, b)
        BY <3>2
      <4>2. worker'[w] = [IdleWorker EXCEPT !.pc = "get", !.b = b]
        BY <4>1, Goes DEF WebhookCall
      <4> QED
        BY <4>1, <4>2 DEF WebhookCall, IdleWorker
    <3>3. CASE \E h \in ResIds : SyncCall(w, h) \/ UnpaidCall(w, h)
      <4>1. PICK h \in ResIds : SyncCall(w, h) \/ UnpaidCall(w, h)
        BY <3>3
      <4>2. CASE SyncCall(w, h)
        <5>1. worker'[w] = [IdleWorker EXCEPT !.pc = "fetch", !.h = h]
          BY <1>1, <4>2, Goes DEF SyncCall
        <5> QED
          BY <4>2, <5>1 DEF SyncCall, IdleWorker
      <4>3. CASE UnpaidCall(w, h)
        <5>1. worker'[w] = [IdleWorker EXCEPT !.pc = "unpaid", !.h = h]
          BY <1>1, <4>3, Goes DEF UnpaidCall
        <5> QED
          BY <4>3, <5>1 DEF UnpaidCall, IdleWorker
      <4> QED
        BY <4>1, <4>2, <4>3
    <3> QED
      BY <1>7, <3>1, <3>2, <3>3 DEF Call
  <2> QED
    BY <1>1, <2>1 DEF Quiet, Plain, Carries
<1> QED
  BY <1>2, <1>3, <1>4, <1>5, <1>6, <1>7

\* Steps that write a row's status, the local row or the portal.
LEMMA WritesQuiet ==
  ASSUME LinkInv, NEW w \in Workers,
         \/ AcceptBooking(w) \/ AcceptedRow(w) \/ IgnoreCancelled(w) \/ MarkCancelled(w)
         \/ CancelLocal(w) \/ ReassertLocal(w) \/ KeptLocal(w) \/ KeptRow(w)
         \/ UnpaidLocal(w) \/ CancelBooking(w) \/ PropagatedRow(w)
  PROVE  Quiet(w)
<1> DEFINE s == worker[w]
<1>1. s \in WorkerState /\ Plain(IdleWorker) /\ Plain(Done(s))
  BY EndsPlain
<1>2. SameHids
  BY SameRow, StatusHids
     DEF AcceptBooking, AcceptedRow, IgnoreCancelled, MarkCancelled, CancelLocal,
         ReassertLocal, KeptLocal, KeptRow, UnpaidLocal, CancelBooking, PropagatedRow
<1>3. SameUse
  BY SameHa
     DEF AcceptBooking, AcceptedRow, IgnoreCancelled, MarkCancelled, CancelLocal,
         ReassertLocal, KeptLocal, KeptRow, UnpaidLocal, CancelBooking, PropagatedRow, haVars
<1>0. \A pc : [s EXCEPT !.pc = pc].pc = pc
  BY <1>1 DEF WorkerState
<1>4. CASE AcceptBooking(w) \/ AcceptedRow(w) \/ IgnoreCancelled(w) \/ MarkCancelled(w)
  <2>1. /\ s.pc \in {"accept", "accepted", "ignore", "already", "mark"}
        /\ worker'[w].pc \in {"accepted", "haCancel"} \/ worker'[w] = Done(s)
    <3>1. CASE AcceptBooking(w)
      BY <1>0, <1>1, <3>1, Goes DEF AcceptBooking
    <3>2. CASE AcceptedRow(w) \/ IgnoreCancelled(w) \/ MarkCancelled(w)
      BY <1>0, <1>1, <3>2, Goes DEF AcceptedRow, IgnoreCancelled, MarkCancelled
    <3> QED
      BY <1>4, <3>1, <3>2
  <2> QED
    BY <1>1, <1>2, <1>3, <2>1 DEF Quiet, Plain, Carries
<1>5. CASE CancelLocal(w) \/ ReassertLocal(w) \/ KeptLocal(w) \/ KeptRow(w)
  <2>1. /\ s.pc \in {"goneLocal", "gone", "keptLocal", "keptRow"}
        /\ \/ worker'[w] = [s EXCEPT !.pc = "fetch", !.then = "gone"]
           \/ worker'[w].pc = "keptRow" \/ worker'[w] = Done(s)
    BY <1>0, <1>1, <1>5, Goes DEF CancelLocal, ReassertLocal, KeptLocal, KeptRow
  <2>2. LET t == [s EXCEPT !.pc = "fetch", !.then = "gone"] IN t.pc = "fetch" /\ t.then = "gone"
    BY <1>1 DEF WorkerState
  <2> QED
    BY <1>1, <1>2, <1>3, <2>1, <2>2 DEF Quiet, Plain, Carries
<1>6. CASE UnpaidLocal(w) \/ CancelBooking(w) \/ PropagatedRow(w)
  BY <1>1, <1>2, <1>3, <1>6, Goes
     DEF UnpaidLocal, CancelBooking, PropagatedRow, Quiet, Plain, Carries, WorkerState
<1> QED
  BY <1>4, <1>5, <1>6

\* The cancel at Hostaway, asked by CHECK24 or for want of payment.
LEMMA CancelsQuiet ==
  ASSUME LinkInv, NEW w \in Workers, CancelReservation(w) \/ UnpaidCancel(w)
  PROVE  Quiet(w)
<1> DEFINE s == worker[w]
<1>1. s \in WorkerState /\ Plain(IdleWorker) /\ LocalsOK(s, ha)
  BY EndsPlain DEF LinkInv
<1>2. s.h \in ResIds /\ ha[s.h].st # "unused"
  BY <1>1, NullNotId
     DEF CancelReservation, UnpaidCancel, LocalsOK, ImportPcs, MadeFor
<1>3. SameHids
  BY SameRow DEF CancelReservation, UnpaidCancel
<1>4. SameUse
  BY <1>2, SameHa, CancelUse DEF CancelReservation, UnpaidCancel
<1>5. CASE CancelReservation(w)
  BY <1>1, <1>3, <1>4, <1>5, Goes DEF CancelReservation, Quiet, Plain, Carries, WorkerState
<1>6. CASE UnpaidCancel(w)
  BY <1>1, <1>3, <1>4, <1>6, Goes DEF UnpaidCancel, Quiet, Plain, Carries, WorkerState
<1> QED
  BY <1>5, <1>6

\* Looking a booking up and preparing its import: what was read of the row
\* is still so when it is used, for there is nobody else to write it.
LEMMA LookupKeeps ==
  ASSUME OneByOne, StayInv, LinkInv', NEW w \in Workers,
         FindExisting(w) \/ UpsertRow(w) \/ PrepareImport(w)
  PROVE  StayInv'
<1> DEFINE s == worker[w]
<1>1. LinkInv /\ s \in WorkerState /\ Plain(Done(s)) /\ Fresh(s, row) /\ LocalsOK(s, ha)
  BY EndsPlain DEF StayInv, LinkInv
<1>2. SameHids /\ SameUse /\ ~Carries(s)
  BY <1>1, SameRow, SameHa, StatusHids
     DEF FindExisting, UpsertRow, PrepareImport, Carries, haVars
<1>3. s.b \in Bookings
  BY <1>1 DEF FindExisting, UpsertRow, PrepareImport, LocalsOK, ImportPcs
<1>4. CASE FindExisting(w)
  <2>1. worker'[w] = [s EXCEPT !.pc = "upsert", !.h = row[s.b].hid] /\ row' = row
    BY <1>1, <1>4, Goes DEF FindExisting
  <2>2. Fresh(worker'[w], row')
    BY <1>1, <2>1 DEF Fresh, Carries, WorkerState
  <2> QED
    BY <1>2, <2>2, StayMove
<1>5. CASE UpsertRow(w)
  <2>1. \/ worker'[w] = [s EXCEPT !.pc = "import"] /\ s.h = None
        \/ worker'[w] = [s EXCEPT !.pc = "ignore"]
        \/ worker'[w] = [s EXCEPT !.pc = "readLocal"]
        \/ worker'[w] = Done(s)
    BY <1>1, <1>5, Goes DEF UpsertRow, isTerminalStatus
  <2>2. s.h = None => row'[s.b].hid = None
    BY <1>1, <1>2, <1>3, <1>5 DEF UpsertRow, Fresh, SameHids
  <2>3. \/ worker'[w].pc = "import" /\ worker'[w].b = s.b /\ s.h = None
        \/ worker'[w].pc \in {"ignore", "readLocal"}
        \/ Plain(worker'[w])
    BY <1>1, <2>1 DEF WorkerState
  <2>4. Fresh(worker'[w], row')
    BY <2>2, <2>3 DEF Fresh, Carries, Plain
  <2> QED
    BY <1>2, <2>4, StayMove
<1>6. CASE PrepareImport(w)
  <2>1. row' = row /\ row[s.b].hid = None
    BY <1>1, <1>6 DEF PrepareImport, Fresh
  <2>2. \/ \E labels \in BOOLEAN : worker'[w] = [s EXCEPT !.pc = "create", !.labels = labels]
        \/ worker'[w] = Done(s)
    BY <1>1, <1>6, Goes DEF PrepareImport
  <2>3. Fresh(worker'[w], row')
    BY <1>1, <2>1, <2>2 DEF Fresh, Carries, Plain, WorkerState
  <2> QED
    BY <1>2, <2>3, StayMove
<1> QED
  BY <1>4, <1>5, <1>6

\* createReservation: the new reservation is in the handler's hand.
LEMMA CreateStays ==
  ASSUME OneByOne, StayInv, LinkInv', NEW w \in Workers, CreateReservation(w)
  PROVE  StayInv'
<1> DEFINE s == worker[w]
           t == [s EXCEPT !.pc = "fetch", !.then = "link", !.h = nRes + 1]
<1>1. /\ LinkInv /\ Tables /\ s \in WorkerState /\ Fresh(s, row) /\ LocalsOK(s, ha)
      /\ \A v \in Workers : v = w
  BY EndsPlain, Parts DEF StayInv, LinkInv, OneByOne
<1>2. s.pc = "create" /\ Accept(s.b) /\ worker'[w] = t /\ row' = row
  BY <1>1, Goes DEF CreateReservation
<1>3. s.b \in Bookings /\ row[s.b].hid = None
  BY <1>1, <1>2 DEF LocalsOK, ImportPcs, Fresh
<1>4. /\ nRes + 1 \in ResIds /\ ha'[nRes + 1] = [st |-> "active", b |-> s.b]
      /\ \A h \in ResIds \ {nRes + 1} : ha'[h] = ha[h]
  BY <1>1, <1>2, BookingBounds DEF Tables, Accept, ResIds
<1>5. t.pc = "fetch" /\ t.then = "link" /\ t.h = nRes + 1 /\ t.b = s.b
  BY <1>1 DEF WorkerState
<1>6. \A v \in Workers : Fresh(worker'[v], row')
  BY <1>1, <1>2, <1>3, <1>5 DEF Fresh, Carries
<1>7. ASSUME NEW h \in ResIds, ha'[h].st # "unused"
      PROVE  /\ ha'[h].b \in Bookings
             /\ \/ row'[ha'[h].b].hid = h
                \/ \E v \in Workers : Carries(worker'[v]) /\ worker'[v].h = h
  <2>1. CASE h = nRes + 1
    <3>1. Carries(worker'[w]) /\ worker'[w].h = h
      BY <1>2, <1>5, <2>1 DEF Carries
    <3> QED
      BY <1>3, <1>4, <2>1, <3>1
  <2>2. CASE h # nRes + 1
    <3>1. ~Carries(s)
      BY <1>2 DEF Carries
    <3> QED
      BY <1>1, <1>2, <1>4, <1>7, <2>2, <3>1 DEF StayInv, Held
  <2> QED
    BY <2>1, <2>2
<1> QED
  BY <1>6, <1>7 DEF StayInv, Held

\* A refused create is tried once more or given up: Hostaway has no new
\* reservation, for no answer is lost.
LEMMA CreateFailsStays ==
  ASSUME OneByOne, StayInv, LinkInv', NEW w \in Workers, CreateFails(w)
  PROVE  StayInv'
<1> DEFINE s == worker[w]
<1>1. LinkInv /\ s \in WorkerState /\ Plain(Done(s)) /\ Fresh(s, row)
  BY EndsPlain DEF StayInv, LinkInv
<1>2. s.pc = "create" /\ row' = row /\ ha' = ha
  BY DEF CreateFails, Fault, OneByOne, haVars
<1>3. worker'[w] = [s EXCEPT !.labels = FALSE] \/ worker'[w] = Done(s)
  BY <1>1, Goes DEF CreateFails
<1>4. Fresh(worker'[w], row') /\ ~Carries(s)
  BY <1>1, <1>2, <1>3 DEF Fresh, Carries, Plain, WorkerState
<1> QED
  BY <1>2, <1>4, SameRow, SameHa, StayMove

\* The sync between create and link carries the new reservation on.
LEMMA SyncStays ==
  ASSUME OneByOne, StayInv, LinkInv', NEW w \in Workers,
         FetchReservation(w) \/ StoreReservation(w)
  PROVE  StayInv'
<1> DEFINE s == worker[w]
<1>1. LinkInv /\ s \in WorkerState /\ Plain(IdleWorker) /\ Fresh(s, row) /\ LocalsOK(s, ha)
  BY EndsPlain DEF StayInv, LinkInv
<1>2. s.pc \in {"fetch", "store"} /\ row' = row /\ ha' = ha
  BY DEF FetchReservation, StoreReservation, haVars
<1>3. s.then \in {"idle", "link", "gone"}
  BY <1>1, <1>2 DEF LocalsOK
<1>4. \/ \E got : worker'[w] = [s EXCEPT !.pc = "store", !.got = got]
      \/ worker'[w] = Resume(s)
  BY <1>1, Goes DEF FetchReservation, StoreReservation
<1>5. CASE \E got : worker'[w] = [s EXCEPT !.pc = "store", !.got = got]
  <2>1. /\ worker'[w].pc = "store" /\ worker'[w].then = s.then
        /\ worker'[w].h = s.h /\ worker'[w].b = s.b
    BY <1>1, <1>5 DEF WorkerState
  <2> QED
    BY <1>1, <1>2, <2>1, SameRow, SameHa, StayMove DEF Fresh, Carries
<1>6. CASE worker'[w] = Resume(s)
  <2>1. CASE s.then = "idle"
    BY <1>1, <1>2, <1>6, <2>1, SameRow, SameHa, StayMove DEF Resume, Plain, Fresh, Carries
  <2>2. CASE s.then # "idle"
    <3>1. /\ worker'[w].pc = s.then /\ worker'[w].h = s.h /\ worker'[w].b = s.b
      BY <1>1, <1>6, <2>2, MovesPlain DEF Resume
    <3> QED
      BY <1>1, <1>2, <1>3, <2>2, <3>1, SameRow, SameHa, StayMove DEF Fresh, Carries
  <2> QED
    BY <2>1, <2>2
<1> QED
  BY <1>4, <1>5, <1>6

\* The link is written: the reservation passes from the hand to the row.
LEMMA LinkStays ==
  ASSUME OneByOne, StayInv, LinkInv', NEW w \in Workers, LinkRow(w)
  PROVE  StayInv'
<1> DEFINE s == worker[w]
<1>1. /\ LinkInv /\ s \in WorkerState /\ Plain(Done(s)) /\ LocalsOK(s, ha) /\ Fresh(s, row)
      /\ \A v \in Workers : v = w
  BY EndsPlain DEF StayInv, LinkInv, OneByOne
<1>2. /\ s.pc = "link" /\ ha' = ha
      /\ row' = [row EXCEPT ![s.b] = [status |-> s.seen, hid |-> s.h]]
  BY DEF LinkRow, haVars
<1>3. worker'[w] = [s EXCEPT !.pc = "accept"] \/ worker'[w] = Done(s)
  BY <1>1, Goes DEF LinkRow
<1>4. s.b \in Bookings /\ s.h \in ResIds /\ MadeFor(ha, s.h, s.b) /\ row[s.b].hid = None
  BY <1>1, <1>2, NullNotId DEF LocalsOK, ImportPcs, Fresh, Carries
<1>5. /\ row'[s.b].hid = s.h
      /\ \A b \in Bookings \ {s.b} : row'[b] = row[b]
  BY <1>1, <1>2, <1>4 DEF LinkInv, BookingTypeOK
<1>6. \A v \in Workers : Fresh(worker'[v], row')
  <2>1. worker'[w].pc = "accept" \/ Plain(worker'[w])
    BY <1>1, <1>3 DEF WorkerState
  <2> QED
    BY <1>1, <2>1 DEF Fresh, Carries, Plain
<1>7. ASSUME NEW h \in ResIds, ha'[h].st # "unused"
      PROVE  ha'[h].b \in Bookings /\ row'[ha'[h].b].hid = h
  <2>1. ha[h].b \in Bookings /\ (row[ha[h].b].hid = h \/ s.h = h)
    BY <1>1, <1>2, <1>7 DEF StayInv, Held
  <2>2. CASE h = s.h
    BY <1>2, <1>4, <1>5, <2>1, <2>2 DEF MadeFor
  <2>3. CASE h # s.h
    BY <1>2, <1>4, <1>5, <2>1, <2>3, NullNotId
  <2> QED
    BY <2>2, <2>3
<1> QED
  BY <1>6, <1>7 DEF StayInv, Held

\* CHECK24's guests and Hostaway's staff make no reservation; nothing
\* restarts.
LEMMA WorldStays ==
  ASSUME OneByOne, StayInv, LinkInv', World \/ Crash
  PROVE  StayInv'
<1>1. row' = row /\ worker' = worker
  BY DEF World, PortalBooks, GuestCancels, StaffCancels, Crash, Fault, OneByOne
<1>2. SameUse
  <2>1. CASE \E h \in ResIds : StaffCancels(h)
    BY <2>1, CancelUse DEF StaffCancels, StayInv
  <2>2. CASE UNCHANGED ha
    BY <2>2, SameHa
  <2> QED
    BY <2>1, <2>2 DEF World, PortalBooks, GuestCancels, Crash, haVars
<1> QED
  BY <1>1, <1>2 DEF StayInv, Held, SameUse

\* StayInv is inductive.
LEMMA NextStayInv == OneByOne /\ StayInv /\ [Next]_vars => StayInv'
<1> SUFFICES ASSUME OneByOne, StayInv, [Next]_vars PROVE StayInv'
  OBVIOUS
<1>1. LinkInv /\ LinkInv'
  BY NextLinkInv DEF StayInv
<1>2. ASSUME NEW w \in Workers, Step(w) \/ Call(w)
      PROVE  StayInv'
  <2>1. Quiet(w) => StayInv'
    BY <1>1, QuietKeeps
  <2> QED
    BY <1>1, <1>2, <2>1, ReadsQuiet, WritesQuiet, CancelsQuiet, LookupKeeps, CreateStays,
       CreateFailsStays, SyncStays, LinkStays DEF Step
<1>3. CASE World \/ Crash
  BY <1>1, <1>3, WorldStays
<1>4. CASE UNCHANGED vars
  BY <1>1, <1>4 DEF vars, StayInv, Held, Fresh, Carries
<1> QED
  BY <1>2, <1>3, <1>4 DEF Next

\* Where processBooking runs one handler at a time to its end and every call
\* answers, a booking is imported once: Hostaway never has two stays for it,
\* whatever else fails and however often webhook and poll see it.
THEOREM OneStayTheorem ==
  ASSUME OneByOne
  PROVE  Spec => []OneStay
<1>1. Init => StayInv
  BY InitLinkInv DEF Init, StayInv, Held, Fresh, Carries, IdleWorker
<1>2. StayInv /\ [Next]_vars => StayInv'
  BY NextStayInv
<1>3. StayInv => OneStay
  <2> SUFFICES ASSUME StayInv, NEW g \in ResIds, NEW h \in ResIds,
                      ha[g].st = "active", ha[h].st = "active", ha[g].b = ha[h].b
               PROVE  g = h
    BY DEF OneStay
  <2> DEFINE b == ha[g].b
             Carried(k) == \E w \in Workers : Carries(worker[w]) /\ worker[w].h = k
  <2>1. b \in Bookings /\ (row[b].hid = g \/ Carried(g)) /\ (row[b].hid = h \/ Carried(h))
    BY DEF StayInv, Held
  <2>2. ASSUME NEW k \in ResIds, ha[k].b = b, Carried(k)
        PROVE  row[b].hid = None
    <3>1. PICK w \in Workers : Carries(worker[w]) /\ worker[w].h = k
      BY <2>2
    <3>2. worker[w].b = b
      BY <2>2, <3>1, NullNotId DEF StayInv, LinkInv, LocalsOK, ImportPcs, Carries, MadeFor
    <3> QED
      BY <3>1, <3>2 DEF StayInv, Fresh
  <2>3. CASE Carried(g) /\ Carried(h)
    BY <2>3 DEF OneByOne
  <2>4. CASE row[b].hid = g \/ row[b].hid = h
    BY <2>1, <2>2, <2>4, NullNotId
  <2> QED
    BY <2>1, <2>3, <2>4
<1> QED
  BY <1>1, <1>2, <1>3, PTL DEF Spec
=============================================================================
