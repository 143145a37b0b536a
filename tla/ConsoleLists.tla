--------------------------- MODULE ConsoleLists ---------------------------
(***************************************************************************)
(* The lists of the admin console that staff work from: guest requests,    *)
(* fonio activity, audit log entries and reservations. Each keeps a filter *)
(* and a page in tableState, a cache of rows, and a drawer with one row.   *)
(* Requests and activity are filtered and paged in the browser, entries    *)
(* and reservations by the server. Answers arrive in any order and nothing *)
(* ties an answer to the question that is on the screen.                   *)
(*                                                                         *)
(* A behaviour is about one list, `board`. A filter is a pair: tab (the    *)
(* tab of requests, the action of activity, the source of entries, the     *)
(* status of reservations) and sub (delivery, outcome, retention rule,     *)
(* payment status).                                                        *)
(***************************************************************************)
EXTENDS Integers, Sequences, FiniteSets

CONSTANTS Boards,     \* the lists looked at
          RowKinds,   \* RowKinds[b]: what rows of list b may look like
          TabsOf,     \* TabsOf[b]: the values of the first filter
          SubsOf,     \* SubsOf[b]: the values of the second
          Flags,      \* early deletion settings the labels depend on
          ServerTake,       \* rows the server answers with at most
          PageSize,
          MaxRows,    \* bound on stored rows
          TurnsOf,    \* TurnsOf[b]: bound on clicks and on changes of the data
          MaxListFaults,  \* bound on failed calls
          ListCalls   \* bound on calls in flight

ASSUME ListBounds == /\ Boards \subseteq {"requests", "fonio", "logs", "reservations"}
                     /\ ServerTake \in Nat \ {0} /\ PageSize \in Nat \ {0}
                     /\ MaxRows \in Nat
                     /\ MaxListFaults \in Nat /\ ListCalls \in Nat \ {0}

VARIABLES board,    \* the list
          flags,    \* the retention settings in force
          db,       \* the stored rows, newest first
          filter,   \* tableState: the filter
          control,  \* what the filter widgets show
          page,     \* tableState: the page
          cache,    \* the rows last received
          table,    \* what is on the screen: rows, total, page
          drawer,   \* the open drawer: its id and the row it shows
          inFlight,    \* calls in flight, in the order they were made
          late,     \* kinds of call whose last word was overtaken or lost
          auto,     \* automatic refresh of the activity
          turns,    \* clicks and changes of the data so far
          listFaults    \* failed calls so far

listVars == <<board, flags, db, filter, control, page, cache, table, drawer,
              inFlight, late, auto, turns, listFaults>>

Nobody == [id |-> 0]          \* no row

Closed == [id |-> 0, row |-> Nobody]

All == [tab |-> "all", sub |-> "all"]

Elements(s) == {s[i] : i \in DOMAIN s}

IdsOf(s) == {r.id : r \in Elements(s)}

RowOf(s, id) == CHOOSE r \in Elements(s) : r.id = id

\* The rows of s that are in S, in their order.
Select(s, S) ==
  LET kept[i \in 0..Len(s)] ==
        IF i = 0 THEN <<>>
        ELSE IF s[i] \in S THEN Append(kept[i - 1], s[i]) ELSE kept[i - 1]
  IN kept[Len(s)]

-----------------------------------------------------------------------------
(* What a row is taken for *)

requestNeedsDelivery(r) == r.status = "FORWARDED" /\ ~r.sent

requestDeliveryKind(r) ==
  CASE r.sent -> "delivered"
    [] requestNeedsDelivery(r) -> "failed"
    [] ~r.sent /\ r.status = "PENDING" -> "pending"
    [] OTHER -> "na"

filterRequestsList(f, r) ==
  /\ f.tab = "pending" => r.status = "PENDING"
  /\ f.tab = "forwarded" => r.status = "FORWARDED"
  /\ f.tab = "auto" => r.status = "AUTO_APPROVED"
  /\ f.tab = "failed" => requestNeedsDelivery(r)
  /\ f.sub # "all" => requestDeliveryKind(r) = f.sub

\* The badges on the tabs, and the card of requests that need attention.
renderRequestsStats(rows) ==
  LET n(S) == Cardinality(S)
      pending == {r \in rows : r.status = "PENDING"}
      failed == {r \in rows : requestNeedsDelivery(r)}
  IN [all |-> n(rows), pending |-> n(pending),
      forwarded |-> n({r \in rows : r.status = "FORWARDED"}),
      auto |-> n({r \in rows : r.status = "AUTO_APPROVED"}),
      failed |-> n(failed),
      attention |-> n({r \in rows : requestNeedsDelivery(r)
                                      \/ r.status = "PENDING"})]

\* An explicit outcome counts first, then the verification, then the status.
fonioOutcomeKind(r) ==
  CASE r.outcome \in {"success", "failed"} -> r.outcome
    [] r.outcome = "none" /\ r.verified # "none" ->
         IF r.verified = "yes" THEN "success" ELSE "failed"
    [] OTHER -> CASE r.code \in 200..299 -> "success"
                  [] r.code >= 400 -> "failed"
                  [] OTHER -> "unknown"

\* The action is left to the server.
filterFonioActivityList(f, r) == f.sub # "all" => fonioOutcomeKind(r) = f.sub

\* AuditLogService.retentionRuleFor
ruleOf(r) == IF r.level = "DEBUG" /\ flags.debugOn THEN "debug"
             ELSE IF r.pii /\ flags.piiOn THEN "pii"
             ELSE IF ~flags.operOn THEN "max_cap" ELSE "operational"

\* listForAdmin narrows by level before it looks at the rule.
LogWhere(f, r) ==
  /\ f.tab # "all" => r.source = f.tab
  /\ f.sub = "debug" => r.level = "DEBUG"
  /\ f.sub \in {"operational", "pii"} => r.level # "DEBUG"
  /\ f.sub # "all" => ruleOf(r) = f.sub

IsCancelled(r) == r.status \in {"cancelled", "declined", "expired"}

\* buildReservationWhere: the card "cancelled today" overrides the rest.
buildReservationWhere(f, r) ==
  IF f.tab = "cancelled_today" THEN IsCancelled(r) /\ r.today
  ELSE /\ f.tab = "payment_due" => ~r.isPaid /\ ~IsCancelled(r)
       /\ f.tab = "cancelled" => IsCancelled(r)
       /\ f.tab = "confirmed" => r.status = "confirmed"
       /\ f.sub = "paid" => r.isPaid
       /\ f.sub = "due" => ~r.isPaid /\ ~r.charged
       /\ f.sub = "partial" => ~r.isPaid /\ r.charged

\* The rows the server looks for, and the rows the browser keeps of them.
ServerFilter(f, r) ==
  CASE board = "requests" -> TRUE
    [] board = "fonio" -> f.tab # "all" => r.action = f.tab
    [] board = "logs" -> LogWhere(f, r)
    [] board = "reservations" -> buildReservationWhere(f, r)

ClientFilter(f, r) ==
  CASE board = "requests" -> filterRequestsList(f, r)
    [] board = "fonio" -> filterFonioActivityList(f, r)
    [] OTHER -> TRUE

Matches(f, r) == ServerFilter(f, r) /\ ClientFilter(f, r)

-----------------------------------------------------------------------------
(* Pages *)

PagesFor(total) ==
  IF total = 0 THEN 1 ELSE (total + PageSize - 1) \div PageSize

SafeEnd(rows, n) == IF n < Len(rows) THEN n ELSE Len(rows)

PageRows(rows, p) ==
  SubSeq(rows, (p - 1) * PageSize + 1, SafeEnd(rows, p * PageSize))

SafePage(p, total) == IF p > PagesFor(total) THEN PagesFor(total) ELSE p

Page(rows, p) == [rows |-> PageRows(rows, p), total |-> Len(rows), page |-> p]

\* paginateClient: a page past the end becomes the last one.
paginateClient(rows, p) == Page(rows, SafePage(p, Len(rows)))

\* listForAdmin moves the page likewise; listReservations answers the page
\* it was asked for, empty or not.
ServerPage(rows, p) ==
  IF board = "logs" THEN Page(rows, SafePage(p, Len(rows))) ELSE Page(rows, p)

ClientPaged == board \in {"requests", "fonio"}

Whole(rows) == [rows |-> rows, total |-> Len(rows), page |-> 1]

\* What the server answers to a query.
Answer(f, p) ==
  LET rows == Select(db, {r \in Elements(db) : ServerFilter(f, r)})
  IN IF ClientPaged THEN Whole(SubSeq(rows, 1, SafeEnd(rows, ServerTake)))
     ELSE ServerPage(rows, p)

\* Drawing a list that is filtered in the browser sets its page.
Render(rows, f, p) ==
  LET drawn == paginateClient(Select(rows, {r \in Elements(rows) : ClientFilter(f, r)}), p)
  IN table' = drawn /\ page' = drawn.page

-----------------------------------------------------------------------------
(* Asking *)

Ask(op, at, f, p, id) ==
  inFlight' = Append(inFlight, [op |-> op, at |-> at, filter |-> f,
                          page |-> p, id |-> id, old |-> FALSE,
                          answer |-> Whole(<<>>)])

CanAsk == Len(inFlight) < ListCalls

\* One more click, or change of the data, within the bound.
Turn == turns < TurnsOf[board] /\ turns' = turns + 1

\* Reservations first refresh their cards and facets, and read the filter
\* only then; the other lists put it into the call at once.
Load(f, p) ==
  Ask("list", IF board = "reservations" THEN "preparing" ELSE "sent", f, p, 0)

query(i) ==
  /\ i \in DOMAIN inFlight /\ inFlight[i].at = "preparing"
  /\ inFlight' = [inFlight EXCEPT ![i].at = "sent", ![i].filter = filter,
                            ![i].page = page]
  /\ UNCHANGED <<board, flags, db, filter, control, page, cache, table, drawer,
                 late, auto, turns, listFaults>>

OnlyServerPaged(f) == ~ClientPaged

\* Whether a new filter f needs the server.
NeedsServer(f) == ~ClientPaged \/ (board = "fonio" /\ f.tab # filter.tab)

Refilter(f) ==
  /\ Turn /\ filter' = f
  /\ IF NeedsServer(f) THEN /\ CanAsk /\ page' = 1 /\ Load(f, 1)
                            /\ UNCHANGED table
     ELSE Render(cache, f, 1) /\ UNCHANGED inFlight
  /\ UNCHANGED <<board, flags, db, cache, drawer, late, auto, listFaults>>

\* The sheet of a filter, on a phone as on the desktop, changes its one widget.
openLogsFilterSheet(f) ==
  /\ control' = f
  /\ (f.tab = control.tab) # (f.sub = control.sub)

\* The log toolbar then reads back every widget, the others only the one that
\* was touched.
setFilter(f) ==
  /\ openLogsFilterSheet(f)
  /\ Refilter(IF board = "logs" THEN f
              ELSE [tab |-> IF f.tab # control.tab THEN f.tab ELSE filter.tab,
                    sub |-> IF f.sub # control.sub THEN f.sub ELSE filter.sub])

clearFilters == filter # All /\ control' = All /\ Refilter(All)

\* A click on the pager.
goTo(p) ==
  /\ Turn /\ p \in 1..PagesFor(table.total) /\ p # page
  /\ IF ClientPaged THEN Render(cache, filter, p) /\ UNCHANGED inFlight
     ELSE /\ CanAsk /\ page' = p /\ Load(filter, p) /\ UNCHANGED table
  /\ UNCHANGED <<board, flags, db, filter, control, cache, drawer, late, auto,
                 listFaults>>

\* The list is opened again.
reload ==
  /\ Turn /\ CanAsk /\ Load(filter, page)
  /\ UNCHANGED <<board, flags, db, filter, control, page, cache, table, drawer,
                 late, auto, listFaults>>

PollWithDrawerOnly ==
  /\ board = "fonio" /\ auto /\ CanAsk /\ drawer # Closed /\ Load(filter, page)
  /\ UNCHANGED <<board, flags, db, filter, control, page, cache, table, drawer,
                 late, auto, turns, listFaults>>

\* The minute is over: an activity list that is open asks again.
manageFonioActivityPoll ==
  /\ board = "fonio" /\ auto /\ CanAsk /\ Load(filter, page)
  /\ UNCHANGED <<board, flags, db, filter, control, page, cache, table, drawer,
                 late, auto, turns, listFaults>>

toggleAutoRefresh ==
  /\ Turn /\ board = "fonio" /\ auto' = ~auto
  /\ UNCHANGED <<board, flags, db, filter, control, page, cache, table, drawer,
                 inFlight, late, listFaults>>

\* The row is looked up in the cache.
openFonioActivityDrawer(id) == drawer' = [id |-> id, row |-> RowOf(cache, id)]

\* A row is opened. Its reservation is fetched; the other lists have it.
openDrawer(id) ==
  /\ Turn /\ id \in IdsOf(table.rows)
  /\ IF board = "reservations"
     THEN /\ CanAsk /\ drawer' = [id |-> id, row |-> Nobody]
          /\ Ask("detail", "sent", All, 1, id)
     ELSE openFonioActivityDrawer(id) /\ UNCHANGED inFlight
  /\ UNCHANGED <<board, flags, db, filter, control, page, cache, table, late,
                 auto, listFaults>>

closeDrawer ==
  /\ Turn /\ drawer # Closed /\ drawer' = Closed
  /\ UNCHANGED <<board, flags, db, filter, control, page, cache, table, inFlight,
                 late, auto, listFaults>>

\* "Retry delivery", offered wherever a row is shown that needs it.
retryForward(id) ==
  /\ Turn /\ board = "requests" /\ CanAsk
  /\ \E r \in Elements(table.rows) \union {drawer.row} :
       r # Nobody /\ r.id = id /\ requestNeedsDelivery(r)
  /\ Ask("retry", "sent", All, 1, id)
  /\ UNCHANGED <<board, flags, db, filter, control, page, cache, table, drawer,
                 late, auto, listFaults>>

-----------------------------------------------------------------------------
(* Answering *)

Sent(id) == [i \in DOMAIN db |-> IF db[i].id = id THEN [db[i] EXCEPT !.sent = TRUE]
                                 ELSE db[i]]

serve(i) ==
  /\ i \in DOMAIN inFlight /\ inFlight[i].at = "sent"
  /\ inFlight' = [inFlight EXCEPT ![i].at = "done",
                ![i].answer = CASE inFlight[i].op = "list" ->
                                     Answer(inFlight[i].filter, inFlight[i].page)
                                [] inFlight[i].op = "detail" ->
                                     Whole(Select(db, {r \in Elements(db) : r.id = inFlight[i].id}))
                                [] OTHER -> inFlight[i].answer]
  /\ db' = IF inFlight[i].op = "retry" /\ inFlight[i].id \in IdsOf(db)
           THEN Sent(inFlight[i].id) ELSE db
  /\ UNCHANGED <<board, flags, filter, control, page, cache, table, drawer,
                 late, auto, turns, listFaults>>

\* A call leaves; the older calls of its kind have been overtaken by it.
Without(i) ==
  LET rest == [j \in 1..(Len(inFlight) - 1) |-> IF j < i THEN j ELSE j + 1]
  IN [j \in DOMAIN rest |->
        IF rest[j] < i /\ inFlight[rest[j]].op = inFlight[i].op
        THEN [inFlight[rest[j]] EXCEPT !.old = TRUE] ELSE inFlight[rest[j]]]

\* An answer that was overtaken is not the last word of its kind.
Heard(i) == IF inFlight[i].old THEN late \union {inFlight[i].op}
            ELSE late \ {inFlight[i].op}

\* The drawer after a new list: requests show the row anew if it is still
\* there, the activity closes the drawer of a row that is gone.
AfterLoad(rows) ==
  IF board \in {"requests", "fonio"} /\ drawer # Closed
  THEN IF drawer.id \in IdsOf(rows)
       THEN [drawer EXCEPT !.row = RowOf(rows, drawer.id)]
       ELSE IF board = "fonio" THEN Closed ELSE drawer
  ELSE drawer

Facets == {r.source : r \in Elements(db)}

\* The source widget falls back to "all" when its source has no rows left.
populateLogsFilterOptions ==
  control' = IF board = "logs" /\ control.tab \notin Facets
             THEN [control EXCEPT !.tab = "all"] ELSE control

\* What the server has paged is drawn as it came, and sets the page.
renderLogsTable(got) == table' = got /\ page' = got.page

showList(i) ==
  /\ i \in DOMAIN inFlight /\ inFlight[i].op = "list" /\ inFlight[i].at = "done"
  /\ LET got == inFlight[i].answer
     IN /\ cache' = got.rows
        /\ IF ClientPaged THEN Render(got.rows, filter, page)
           ELSE renderLogsTable(got)
        /\ drawer' = AfterLoad(got.rows)
  /\ populateLogsFilterOptions
  /\ late' = Heard(i)
  /\ inFlight' = Without(i)
  /\ UNCHANGED <<board, flags, db, filter, auto, turns, listFaults>>

\* An open drawer is filled with the reservation that came last.
renderReservationDrawer(rows) ==
  drawer' = IF drawer = Closed \/ rows = <<>> THEN drawer
            ELSE [drawer EXCEPT !.row = rows[1]]

\* The fetched reservation goes into the drawer, whichever is open by now.
showReservation(i) ==
  /\ i \in DOMAIN inFlight /\ inFlight[i].op = "detail" /\ inFlight[i].at = "done"
  /\ renderReservationDrawer(inFlight[i].answer.rows)
  /\ late' = Heard(i)
  /\ inFlight' = Without(i)
  /\ UNCHANGED <<board, flags, db, filter, control, page, cache, table, auto,
                 turns, listFaults>>

\* After a retry the list is loaded again.
retried(i) ==
  /\ i \in DOMAIN inFlight /\ inFlight[i].op = "retry" /\ inFlight[i].at = "done"
  /\ inFlight' = Append(Without(i), [inFlight[i] EXCEPT !.op = "list", !.at = "sent",
                                                  !.filter = filter, !.old = FALSE])
  /\ UNCHANGED <<board, flags, db, filter, control, page, cache, table, drawer,
                 late, auto, turns, listFaults>>

\* A call fails: an error is shown and nothing else changes.
fail(i) ==
  /\ i \in DOMAIN inFlight /\ inFlight[i].at = "sent" /\ listFaults < MaxListFaults
  /\ listFaults' = listFaults + 1
  /\ late' = late \union ({inFlight[i].op} \ {"retry"})
  /\ inFlight' = Without(i)
  /\ UNCHANGED <<board, flags, db, filter, control, page, cache, table, drawer,
                 auto, turns>>

-----------------------------------------------------------------------------
(* The data changes behind the console *)

Row(id, kind) == [k \in DOMAIN kind \union {"id"} |->
                    IF k = "id" THEN id ELSE kind[k]]

arrive(kind) ==
  /\ Len(db) < MaxRows
  /\ db' = <<Row(CHOOSE n \in 1..MaxRows : n \notin IdsOf(db), kind)>> \o db

change(i, kind) ==
  /\ i \in DOMAIN db /\ board \in {"requests", "reservations"}
  /\ db' = [db EXCEPT ![i] = Row(db[i].id, kind)] /\ db' # db

purge ==
  /\ db # <<>> /\ board \in {"fonio", "logs"}
  /\ db' = SubSeq(db, 1, Len(db) - 1)

dataChanges ==
  /\ Turn
  /\ \/ \E kind \in RowKinds[board] : arrive(kind)
     \/ \E kind \in RowKinds[board], i \in DOMAIN db : change(i, kind)
     \/ purge
  /\ UNCHANGED <<board, flags, filter, control, page, cache, table, drawer,
                 inFlight, late, auto, listFaults>>

-----------------------------------------------------------------------------
ListInit ==
  /\ board \in Boards
  /\ flags \in (IF board = "logs" THEN Flags ELSE {CHOOSE f \in Flags : TRUE})
  /\ \E kinds \in [1..(MaxRows - 1) -> RowKinds[board]] :
       db = [i \in 1..(MaxRows - 1) |-> Row(i, kinds[i])]
  /\ filter = All /\ control = All /\ page = 1
  /\ cache = Answer(All, 1).rows
  /\ table = IF ClientPaged THEN paginateClient(cache, 1) ELSE Answer(All, 1)
  /\ drawer = Closed /\ inFlight = <<>> /\ late = {} /\ auto = TRUE
  /\ turns = 0 /\ listFaults = 0

Filters == [tab : TabsOf[board], sub : SubsOf[board]]

ListNext ==
  \/ \E f \in Filters : setFilter(f)
  \/ clearFilters
  \/ \E p \in 1..MaxRows : goTo(p)
  \/ reload
  \/ manageFonioActivityPoll \/ toggleAutoRefresh
  \/ \E id \in IdsOf(table.rows) : openDrawer(id)
  \/ closeDrawer
  \/ \E id \in IdsOf(db) : retryForward(id)
  \/ \E i \in DOMAIN inFlight : \/ query(i) \/ serve(i) \/ fail(i)
                             \/ showList(i) \/ showReservation(i) \/ retried(i)
  \/ dataChanges

ListFairness ==
  /\ WF_listVars(manageFonioActivityPoll)
  /\ WF_listVars(\E i \in DOMAIN inFlight : serve(i))
  /\ WF_listVars(\E i \in DOMAIN inFlight : showList(i))

ListSpec == ListInit /\ [][ListNext]_listVars /\ ListFairness

-----------------------------------------------------------------------------
\* No call of this kind is under way, and the newest answer was heard last.
Settled(op) ==
  op \notin late /\ \A i \in DOMAIN inFlight : inFlight[i].op # op

\* With no list on its way, and unless the newest answer was overtaken or
\* lost, the table shows only rows the chosen filter admits (the activity
\* leaves the action filter to the server, the cache keeps what it got).
TableMatchesFilter ==
  Settled("list") => \A r \in Elements(table.rows) : Matches(filter, r)

\* Rows that exist are never hidden behind an empty page, however the list
\* shrinks or the filter narrows; reservations are left out, their server
\* answers the page it was asked for.
NoEmptyPage ==
  board # "reservations" => (table.total > 0 => table.rows # <<>>)

\* A drawer shows the row as it was last received: an open request is shown
\* anew by every load that still has it, the activity never keeps a drawer on
\* a row that is gone, a reservation is the one of the title once the newest
\* fetch was heard last.
DrawerIsCurrent ==
  drawer # Closed =>
    /\ board \in {"requests", "fonio"} /\ drawer.id \in IdsOf(cache) =>
         drawer.row = RowOf(cache, drawer.id)
    /\ board = "fonio" => drawer.id \in IdsOf(cache)
    /\ board = "reservations" /\ Settled("detail") /\ drawer.row # Nobody =>
         drawer.row.id = drawer.id

\* The badge of every tab of the requests is the number of rows that tab
\* lists, and what needs attention is what is pending or undelivered.
BadgesCountTabs ==
  board = "requests" =>
    LET n == renderRequestsStats(Elements(cache))
        listed(t) == {r \in Elements(cache) :
                        filterRequestsList([tab |-> t, sub |-> "all"], r)}
    IN /\ \A t \in {"all", "pending", "forwarded", "auto", "failed"} :
            n[t] = Cardinality(listed(t))
       /\ n.attention = n.pending + n.failed

\* A widget never names another filter than the list is filtered by; at most
\* it has fallen back to "all" (the source of the log entries).
WidgetsTellFilter ==
  /\ control.sub = filter.sub
  /\ control.tab \in {filter.tab, "all"}

\* While automatic refresh stays on, an activity list whose last word was
\* overtaken or lost is set right by a later poll.
ActivityHeals ==
  (board = "fonio" /\ "list" \in late) ~> ("list" \notin late \/ ~auto)

\* Table, pager, drawer, badges and controls of a list tell one story.
ListsTellTruth ==
  /\ TableMatchesFilter
  /\ NoEmptyPage
  /\ DrawerIsCurrent
  /\ BadgesCountTabs
  /\ WidgetsTellFilter
=============================================================================
