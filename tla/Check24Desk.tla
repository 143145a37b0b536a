---------------------------- MODULE Check24Desk ----------------------------
(***************************************************************************)
(* The CHECK24 page of the console: the spinner of a running push and its  *)
(* polling, the counts and lists of apartments, and the settings that are  *)
(* shown in two switches, a form and a health card. Silent polls renew     *)
(* what the page knows without drawing it, full loads draw everything.     *)
(***************************************************************************)
EXTENDS Integers, FiniteSets

CONSTANTS Flats,        \* apartments with a mapping
          FlatKinds,    \* what a mapping may look like
          StartPortals, \* what the server may hold when the page is opened
          MaxPolls,     \* polls until the page gives up (48)
          DeskCalls,    \* bound on calls under way
          MaxSteps,     \* bound on clicks and on changes of the data
          MaxErrors     \* bound on failing calls

Kinds == [data : BOOLEAN, availability : BOOLEAN, prices : BOOLEAN,
          lastError : BOOLEAN, offline : BOOLEAN]

\* job: the status of the last push, "none" before the first.
Portals == [job : {"none", "running", "completed", "failed"}, on : BOOLEAN,
            content : BOOLEAN, alerts : BOOLEAN, mappings : [Flats -> FlatKinds]]

ASSUME DeskBounds == /\ MaxPolls \in Nat \ {0} /\ DeskCalls \in Nat \ {0}
                     /\ MaxSteps \in Nat /\ MaxErrors \in Nat
                     /\ IsFiniteSet(Flats) /\ FlatKinds \subseteq Kinds
                     /\ StartPortals \subseteq Portals

VARIABLES portal,    \* the server: last job, settings, alerts, mappings
          seen,      \* check24Cache
          syncing,   \* check24Syncing
          timer,     \* check24SyncPollTimer and the polls of its closure
          header,    \* what the header says
          drawn,     \* the mappings counts and lists were last drawn from
          switches,  \* the widgets of the automatic push
          edited,    \* a switch was moved since it was last set
          deskCalls, \* calls under way
          unsure,    \* the last load failed or was overtaken by a change
          steps,     \* clicks and changes so far
          errors     \* failed calls so far

deskVars == <<portal, seen, syncing, timer, header, drawn, switches, edited,
              deskCalls, unsure, steps, errors>>

Step == steps < MaxSteps /\ steps' = steps + 1

-----------------------------------------------------------------------------
(* Mappings: their state, the counts and the lists *)

\* An archived listing is out, whatever was sent of it; one that is fully
\* synced is ready, whatever a later attempt left behind.
check24MappingState(m) ==
  CASE m.offline -> "archived"
    [] ~m.offline /\ m.data /\ m.availability /\ m.prices -> "ready"
    [] ~m.offline /\ ~(m.data /\ m.availability /\ m.prices) ->
         IF m.lastError THEN "error" ELSE "partial"

In(mappings, states) == {f \in Flats : check24MappingState(mappings[f]) \in states}

filterCheck24Apartments(mappings, status) ==
  CASE status = "all" -> Flats
    [] status = "ready" -> In(mappings, {"ready"})
    [] status = "outdated" -> {f \in Flats :
         check24MappingState(mappings[f]) \notin {"ready", "archived"}}
    [] status = "archived" -> In(mappings, {"archived"})

renderCheck24Kpis(mappings) ==
  LET active == {f \in Flats : check24MappingState(mappings[f]) # "archived"}
      ready == {f \in active : check24MappingState(mappings[f]) = "ready"}
  IN [total |-> Cardinality(active), ready |-> Cardinality(ready),
      attention |-> Cardinality(active \ ready)]

\* The summary above the list counts what is not complete by subtraction.
renderCheck24ApartmentsSummary(mappings) ==
  LET active == Cardinality(Flats) - Cardinality(In(mappings, {"archived"}))
      complete == Cardinality(In(mappings, {"ready"}))
  IN [total |-> active, ready |-> complete, attention |-> active - complete]

\* The badge on the card of an apartment: an error and a gap look the same.
renderCheck24ApartmentCards(m) ==
  LET state == check24MappingState(m)
  IN IF state \in {"ready", "archived"} THEN state ELSE "attention"

check24AttentionReason(m) ==
  CASE m.offline -> "archived"
    [] ~m.offline /\ m.lastError -> "error"
    [] ~m.offline /\ ~m.lastError /\ ~(m.data /\ m.availability /\ m.prices) -> "missing"
    [] OTHER -> "generic"

-----------------------------------------------------------------------------
(* Drawing *)

Running(job) == job = "running"

RenderHeader(job, on) == header' = IF on \/ Running(job) THEN "syncing" ELSE "idle"

NoTimerYet == [armed |-> FALSE, polls |-> 0]

\* Every switch shows the stored settings.
SwitchesOf(s) == [master |-> s.on, enabled |-> s.on, health |-> s.on,
                  content |-> s.content /\ s.on]

DeskSlot(S) == CHOOSE n \in 1..DeskCalls : \A c \in S : c.slot # n

\* "health": sent from, or on behalf of, the switch of the health card.
CallFor(op, set, health, S) ==
  [op |-> op, set |-> set, health |-> health, at |-> "sent", old |-> FALSE,
   polls |-> 0, got |-> portal, slot |-> DeskSlot(S)]

NoSet == [on |-> FALSE, content |-> FALSE]

CanCallPortal == Cardinality(deskCalls) < DeskCalls

Start(op, set, health) ==
  CanCallPortal /\ deskCalls' = deskCalls \union {CallFor(op, set, health, deskCalls)}

\* Polls of a timer that is gone keep the count it had reached.
Orphaned(S) == {IF c.op = "poll" /\ c.polls = 0 THEN [c EXCEPT !.polls = timer.polls]
                ELSE c : c \in S}

StoppedBeforeDrawing ==
  /\ syncing' = FALSE /\ timer' = NoTimerYet
  /\ RenderHeader(seen.job, syncing)

\* setCheck24Syncing(false): the flag, the header and the timer.
stopSyncing ==
  /\ syncing' = FALSE /\ timer' = NoTimerYet
  /\ RenderHeader(seen.job, FALSE)

-----------------------------------------------------------------------------
(* Clicks *)

\* "Send now": the spinner starts before the answer. A timer that runs is
\* replaced; the polls it has under way keep its count.
syncNow ==
  /\ Step /\ CanCallPortal
  /\ syncing' = TRUE /\ timer' = [armed |-> TRUE, polls |-> 0]
  /\ RenderHeader(seen.job, TRUE)
  /\ deskCalls' = Orphaned(deskCalls)
                    \union {CallFor("sync", NoSet, FALSE, deskCalls)}
  /\ UNCHANGED <<portal, seen, drawn, switches, edited, unsure, errors>>

refresh ==
  /\ Step /\ Start("load", NoSet, FALSE)
  /\ UNCHANGED <<portal, seen, syncing, timer, header, drawn, switches, edited,
                 unsure, errors>>

\* Every 2.5 seconds.
pollTick ==
  /\ timer.armed /\ timer.polls < MaxPolls /\ Start("poll", NoSet, FALSE)
  /\ timer' = [timer EXCEPT !.polls = @ + 1]
  /\ UNCHANGED <<portal, seen, syncing, header, drawn, switches, edited, unsure,
                 steps, errors>>

\* Further ticks change the count no more than is needed to be past the end.
lateTick ==
  /\ timer.armed /\ timer.polls = MaxPolls /\ Start("poll", NoSet, FALSE)
  /\ UNCHANGED <<portal, seen, syncing, timer, header, drawn, switches, edited,
                 unsure, steps, errors>>

\* Master switch and box move together; off clears "content" as well.
syncAutoUi(on) ==
  /\ Step /\ edited' = TRUE
  /\ switches' = [switches EXCEPT !.master = on, !.enabled = on,
                                  !.content = @ /\ on]
  /\ UNCHANGED <<portal, seen, syncing, timer, header, drawn, deskCalls, unsure,
                 errors>>

tickContent ==
  /\ Step /\ switches.enabled /\ edited' = TRUE
  /\ switches' = [switches EXCEPT !.content = ~@]
  /\ UNCHANGED <<portal, seen, syncing, timer, header, drawn, deskCalls, unsure,
                 errors>>

submitSettings ==
  /\ Step
  /\ Start("patch", [on |-> switches.master \/ switches.enabled,
                     content |-> switches.content], FALSE)
  /\ UNCHANGED <<portal, seen, syncing, timer, header, drawn, switches, edited,
                 unsure, errors>>

\* The switch of the health card saves at once.
toggleHealth ==
  /\ Step
  /\ switches' = [switches EXCEPT !.health = ~@]
  /\ Start("patch", [on |-> ~switches.health, content |-> switches.content], TRUE)
  /\ UNCHANGED <<portal, seen, syncing, timer, header, drawn, edited, unsure, errors>>

\* Booking alerts are switched to the opposite of what the page knows.
toggleAlerts ==
  /\ Step /\ Start("alerts", [NoSet EXCEPT !.on = ~seen.alerts], FALSE)
  /\ UNCHANGED <<portal, seen, syncing, timer, header, drawn, switches, edited,
                 unsure, errors>>

-----------------------------------------------------------------------------
(* The server *)

\* A change makes answers that were read before it old, and the page as well.
Aged24(S) == {IF c.at = "done" /\ c.op \in {"load", "poll"}
              THEN [c EXCEPT !.old = TRUE] ELSE c : c \in S}

answerLoad(c) ==
  /\ c \in deskCalls /\ c.at = "sent" /\ c.op \in {"load", "poll"}
  /\ deskCalls' = (deskCalls \ {c}) \union {[c EXCEPT !.at = "done", !.got = portal]}
  /\ UNCHANGED <<portal, seen, syncing, timer, header, drawn, switches, edited,
                 unsure, steps, errors>>

\* triggerSync starts a push unless one runs.
answerSync(c) ==
  /\ c \in deskCalls /\ c.at = "sent" /\ c.op = "sync"
  /\ portal' = [portal EXCEPT !.job = "running"]
  /\ deskCalls' = (deskCalls \ {c}) \union
       {[c EXCEPT !.at = IF Running(portal.job) THEN "refused" ELSE "done"]}
  /\ UNCHANGED <<seen, syncing, timer, header, drawn, switches, edited, unsure,
                 steps, errors>>

\* Settings, alerts: the write, with the answers it outdates.
answerWrite(c) ==
  /\ c \in deskCalls /\ c.at = "sent" /\ c.op \in {"patch", "alerts"}
  /\ portal' = IF c.op = "alerts" THEN [portal EXCEPT !.alerts = c.set.on]
               ELSE [portal EXCEPT !.on = c.set.on, !.content = c.set.content]
  /\ deskCalls' = Aged24(deskCalls \ {c}) \union {[c EXCEPT !.at = "done"]}
  /\ UNCHANGED <<seen, syncing, timer, header, drawn, switches, edited, unsure,
                 steps, errors>>

\* A push starts by schedule, ends, or is cut off by a restart.
jobMoves ==
  /\ Step
  /\ \/ ~Running(portal.job) /\ portal' = [portal EXCEPT !.job = "running"]
     \/ /\ Running(portal.job)
        /\ \E job \in {"completed", "failed"}, f \in Flats, kind \in FlatKinds :
             portal' = [portal EXCEPT !.job = job, !.mappings[f] = kind]
  /\ UNCHANGED <<seen, syncing, timer, header, drawn, switches, edited,
                 deskCalls, unsure, errors>>

-----------------------------------------------------------------------------
(* Answers *)

\* The call is over, "next" is sent in its place; older loads are overtaken,
\* and when the timer goes its polls are orphaned.
CallOver(c, next, health, gone) ==
  LET rest == {IF d.op = "load" /\ c.op = "load" THEN [d EXCEPT !.old = TRUE] ELSE d :
                 d \in deskCalls \ {c}}
  IN deskCalls' = (IF gone THEN Orphaned(rest) ELSE rest) \union
       {[CallFor(op, c.set, health, rest) EXCEPT !.slot = c.slot] : op \in next}

\* A finished push that is seen ends the spinner.
SyncEnds(got) == syncing /\ ~Running(got.job) /\ got.job # "none"

NeverGivesUp(c) == FALSE

\* The polls of a closure are over.
GivesUp(c) == (IF c.polls > 0 THEN c.polls ELSE timer.polls) >= MaxPolls

\* A silent poll renews what is known and the header. If the push is over, or
\* the polls are, the page is loaded in full.
pollAnswered(c) ==
  /\ c \in deskCalls /\ c.op = "poll" /\ c.at = "done"
  /\ seen' = c.got
  /\ LET still == syncing /\ ~SyncEnds(c.got)
         over == ~still \/ GivesUp(c)
     IN /\ syncing' = (still /\ ~over)
        /\ timer' = IF over THEN NoTimerYet ELSE timer
        /\ RenderHeader(c.got.job, still)
        /\ CallOver(c, IF over THEN {"load"} ELSE {}, FALSE, over)
  /\ UNCHANGED <<portal, drawn, switches, edited, unsure, steps, errors>>

\* A full load draws everything.
loadCheck24(c) ==
  /\ c \in deskCalls /\ c.op = "load" /\ c.at = "done"
  /\ seen' = c.got
  /\ syncing' = (syncing /\ ~SyncEnds(c.got))
  /\ timer' = IF SyncEnds(c.got) THEN NoTimerYet ELSE timer
  /\ RenderHeader(c.got.job, syncing')
  /\ drawn' = c.got.mappings
  /\ switches' = SwitchesOf(c.got) /\ edited' = FALSE
  /\ unsure' = c.old
  /\ CallOver(c, {}, FALSE, SyncEnds(c.got))
  /\ UNCHANGED <<portal, steps, errors>>

\* A push that was already running takes the spinner back.
syncAnswered(c) ==
  /\ c \in deskCalls /\ c.op = "sync" /\ c.at \in {"done", "refused"}
  /\ IF c.at = "refused"
     THEN stopSyncing /\ CallOver(c, {"load"}, FALSE, TRUE)
     ELSE /\ CallOver(c, {}, FALSE, FALSE)
          /\ UNCHANGED <<syncing, timer, header>>
  /\ UNCHANGED <<portal, seen, drawn, switches, edited, unsure, steps, errors>>

\* After a save the page is loaded; the health card sets only the box itself.
settingsSaved(c) ==
  /\ c \in deskCalls /\ c.op \in {"patch", "alerts"} /\ c.at = "done"
  /\ seen' = IF c.op = "alerts" THEN [seen EXCEPT !.alerts = c.set.on] ELSE seen
  /\ switches' = IF c.health THEN [switches EXCEPT !.enabled = c.set.on]
                 ELSE switches
  /\ CallOver(c, {"load"}, c.health, FALSE)
  /\ UNCHANGED <<portal, syncing, timer, header, drawn, edited, unsure, steps, errors>>

\* A call fails. A poll is tried again by the timer, a push is called off,
\* the health card flips its switch back: also when only the load after the
\* save has failed.
deskCallFails(c) ==
  /\ c \in deskCalls /\ c.at = "sent" /\ errors < MaxErrors
  /\ errors' = errors + 1
  /\ CallOver(c, {}, FALSE, c.op = "sync")
  /\ IF c.op = "sync" THEN stopSyncing ELSE UNCHANGED <<syncing, timer, header>>
  /\ switches' = IF c.health THEN [switches EXCEPT !.health = ~c.set.on] ELSE switches
  /\ unsure' = (unsure \/ c.op = "load" \/ c.health)
  /\ UNCHANGED <<portal, seen, drawn, edited, steps>>

-----------------------------------------------------------------------------
DeskInit ==
  /\ portal \in StartPortals
  /\ seen = portal /\ syncing = FALSE /\ timer = NoTimerYet
  /\ header = IF Running(portal.job) THEN "syncing" ELSE "idle"
  /\ drawn = portal.mappings
  /\ switches = SwitchesOf(portal) /\ edited = FALSE /\ deskCalls = {}
  /\ unsure = FALSE /\ steps = 0 /\ errors = 0

DeskNext ==
  \/ syncNow \/ refresh \/ pollTick \/ lateTick
  \/ \E on \in BOOLEAN : syncAutoUi(on)
  \/ tickContent \/ submitSettings \/ toggleHealth \/ toggleAlerts
  \/ jobMoves
  \/ \E c \in deskCalls :
       \/ answerLoad(c) \/ answerSync(c) \/ answerWrite(c)
       \/ pollAnswered(c) \/ loadCheck24(c) \/ syncAnswered(c)
       \/ settingsSaved(c) \/ deskCallFails(c)

\* The timer fires and calls are answered; a push need not ever end.
DeskFairness ==
  /\ WF_deskVars(pollTick \/ lateTick)
  /\ WF_deskVars(\E c \in deskCalls : answerLoad(c) \/ answerSync(c) \/ answerWrite(c))
  /\ WF_deskVars(\E c \in deskCalls : pollAnswered(c) \/ loadCheck24(c)
                                        \/ syncAnswered(c) \/ settingsSaved(c))

DeskSpec == DeskInit /\ [][DeskNext]_deskVars /\ DeskFairness

-----------------------------------------------------------------------------
\* The spinner of a push ends: because the push is seen to be over, because it
\* was refused, or because the page gives up, even if the push never ends.
SpinnerEnds == syncing ~> ~syncing

\* Between calls the header says "syncing" exactly while the page waits for a
\* push or the last job it knows of runs; failed loads apart.
HeaderTellsJob ==
  deskCalls = {} /\ ~unsure => (header = "syncing") = (syncing \/ Running(seen.job))

\* The counts of the page, the summary and the filtered lists agree on every
\* mapping: each apartment is ready, in need of attention or archived.
CountsAgree ==
  LET n == renderCheck24Kpis(drawn)
      listed(status) == Cardinality(filterCheck24Apartments(drawn, status))
  IN /\ n = renderCheck24ApartmentsSummary(drawn)
     /\ n.ready = listed("ready") /\ n.attention = listed("outdated")
     /\ n.total + listed("archived") = Cardinality(Flats)
     /\ \A f \in filterCheck24Apartments(drawn, "outdated") :
          /\ renderCheck24ApartmentCards(drawn[f]) = "attention"
          /\ check24AttentionReason(drawn[f]) \in {"error", "missing"}

\* Switches nobody has moved since show the stored settings, all of them, when
\* no call is under way and the last load was neither lost nor overtaken.
SwitchesTellSettings ==
  deskCalls = {} /\ ~edited /\ ~unsure => switches = SwitchesOf(portal)

\* Header, counts and switches of the CHECK24 desk tell the portal's state.
DeskInv == HeaderTellsJob /\ CountsAgree /\ SwitchesTellSettings
=============================================================================
