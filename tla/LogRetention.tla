--------------------------- MODULE LogRetention ---------------------------
(***************************************************************************)
(* How long an audit log row lives: the retention settings an admin edits, *)
(* the expiry date that is fixed when a row is written, the nightly purge, *)
(* and the settings form of the console, whose answers may come late.      *)
(* A day is the unit of time; a row is written after the purge of its day, *)
(* and carries its age and the days it has left instead of two dates.      *)
(***************************************************************************)
EXTENDS Integers, FiniteSets

CONSTANTS LogIds,       \* identities of stored rows
          EnvDays,      \* the LOG_RETENTION_* environments of a first start
          FormEdits,    \* values an admin types into the form
          Leaps,        \* stretches of days without any other event
          MaxAge,       \* bound on the age of a row
          MaxCalls,     \* bound on calls of the console in flight
          MaxEdits,     \* bound on edits of the form
          NaN           \* what Number() makes of an unusable value

\* Periods in days, and switches: an environment and a form may hold anything
\* Number() gives, the stored row holds whole numbers.
EnvType == [debug : Int \cup {NaN}, oper : Int \cup {NaN},
            pii : Int \cup {NaN}, max : Int \cup {NaN}]

FormType == [debug : Int \cup {NaN}, oper : Int \cup {NaN},
             pii : Int \cup {NaN}, max : Int \cup {NaN},
             debugOn : BOOLEAN, operOn : BOOLEAN, piiOn : BOOLEAN,
             purgeOn : BOOLEAN]

ASSUME LogBounds == /\ Leaps \subseteq Nat \ {0}
                    /\ MaxAge \in Nat /\ MaxCalls \in Nat /\ MaxEdits \in Nat
                    /\ EnvDays \subseteq EnvType /\ FormEdits \subseteq FormType

VARIABLES settings,  \* the LogSettings row, or NoRow before the first use
          apiLogs,   \* the stored rows, a set of records
          writes,    \* audit.log calls that have read the settings
          skipped,   \* the last nightly purge did not run
          form,      \* what the settings form holds
          dirty,     \* the form says "unsaved changes"
          logCalls,  \* calls of the console in flight
          stale,     \* the form was filled by an answer older than a save
          edits      \* edits made so far

logVars == <<settings, apiLogs, writes, skipped, form, dirty, logCalls,
             stale, edits>>

-----------------------------------------------------------------------------
(* LogSettingsService *)

Least(a, b) == IF a < b THEN a ELSE b

Most(a, b) == IF a > b THEN a ELSE b

\* A number outside its range is pulled to the nearer end.
Clamp(value, min, max) ==
  IF value = NaN THEN min ELSE Least(Most(value, min), max)

NoRow == [debug |-> 0, oper |-> 0, pii |-> 0, max |-> 0,
          debugOn |-> FALSE, operOn |-> FALSE, piiOn |-> FALSE,
          purgeOn |-> FALSE]

\* The row a first start creates from its environment.
Created(env) ==
  [debug |-> Clamp(env.debug, 7, 14), oper |-> Clamp(env.oper, 1, 90),
   pii |-> Clamp(env.pii, 1, 30), max |-> Clamp(env.max, 30, 90),
   debugOn |-> TRUE, operOn |-> TRUE, piiOn |-> TRUE, purgeOn |-> TRUE]

\* The settings the rest of the program sees.
getResolved(row) ==
  LET max == Clamp(row.max, 30, 90)
  IN [row EXCEPT !.debug = Clamp(@, 7, 14), !.max = max,
                 !.oper = Least(Clamp(@, 1, 90), max),
                 !.pii = Least(Clamp(@, 1, 30), max)]

\* What a save stores; the form always sends every field.
update(data) == getResolved(data)

\* The body passes the DTO's ranges; anything else is a 400.
ValidBody(data) == /\ data.debug \in 7..14 /\ data.oper \in 1..90
                   /\ data.pii \in 1..30 /\ data.max \in 30..90

PiiBeforeDebug(row, level, hasPii) ==
  LET s == getResolved(row)
  IN IF hasPii THEN (IF s.piiOn THEN s.pii ELSE s.max)
     ELSE IF level = "DEBUG" THEN (IF s.debugOn THEN s.debug ELSE s.max)
     ELSE IF s.operOn THEN s.oper ELSE s.max

retentionDaysFor(row, level, hasPii) ==
  LET s == getResolved(row)
  IN IF level = "DEBUG" THEN (IF s.debugOn THEN s.debug ELSE s.max)
     ELSE IF hasPii THEN (IF s.piiOn THEN s.pii ELSE s.max)
     ELSE IF s.operOn THEN s.oper ELSE s.max

\* The rule the console names for a row, from the settings of today.
retentionRuleFor(row, level, hasPii) ==
  IF level = "DEBUG" /\ row.debugOn THEN "debug"
  ELSE IF hasPii /\ row.piiOn THEN "pii"
  ELSE IF ~row.operOn THEN "max_cap" ELSE "operational"

-----------------------------------------------------------------------------
(* AuditLogService: a write reads the settings, then inserts *)

FreeIds == LogIds \ ({r.id : r \in apiLogs} \union {w.id : w \in writes})

\* Whether the class of a row is deleted early under these settings.
EarlyDelete(row, level, hasPii) ==
  CASE level = "DEBUG" -> row.debugOn
    [] level # "DEBUG" /\ hasPii -> row.piiOn
    [] OTHER -> row.operOn

\* audit.log up to its first await: the days come from the settings of now.
Written(id, level, hasPii, row) ==
  [id |-> id, level |-> level, pii |-> hasPii,
   days |-> retentionDaysFor(row, level, hasPii),
   early |-> EarlyDelete(row, level, hasPii), current |-> TRUE]

log(level, hasPii) ==
  /\ FreeIds # {} /\ settings # NoRow
  /\ \E id \in {CHOOSE i \in FreeIds : TRUE} :
       writes' = writes \union {Written(id, level, hasPii, settings)}
  /\ UNCHANGED <<settings, apiLogs, skipped, form, dirty, logCalls, stale,
                 edits>>

\* The insert, with the expiry computed from the day it happens.
insert(w) ==
  /\ w \in writes
  /\ writes' = writes \ {w}
  /\ apiLogs' = apiLogs \union
       {[id |-> w.id, level |-> w.level, pii |-> w.pii, early |-> w.early,
         current |-> w.current, age |-> 0, left |-> w.days]}
  /\ UNCHANGED <<settings, skipped, form, dirty, logCalls, stale, edits>>

\* The interceptor writes one row for every changing call of the console:
\* SECURITY when it succeeded, WARN when it failed; neither holds PII.
intercept(ok) ==
  IF FreeIds = {} THEN {}
  ELSE {Written(CHOOSE i \in FreeIds : TRUE,
                IF ok THEN "SECURITY" ELSE "WARN", FALSE, settings')}

\* expiresAt lies before now.
Expired(r) == r.left < 0

purgeExpired(rows) == {r \in rows : ~Expired(r)}

Aged(rows, k) == {[r EXCEPT !.age = @ + k, !.left = @ - k] : r \in rows}

\* 03:00 of the k-th next day. The job runs only if automatic purging is on
\* and the process is up; a night it missed is not made up for. Calls are
\* over by then.
purgeExpiredLogs(k, up) ==
  /\ settings # NoRow /\ writes = {} /\ logCalls = {}
  /\ \A r \in apiLogs : r.age + k <= MaxAge
  /\ skipped' = ~(settings.purgeOn /\ up)
  /\ apiLogs' = IF skipped' THEN Aged(apiLogs, k)
                ELSE purgeExpired(Aged(apiLogs, k))
  /\ UNCHANGED <<settings, writes, form, dirty, logCalls, stale, edits>>

-----------------------------------------------------------------------------
(* The console: calls are answered by the server, later applied in the     *)
(* browser, in any order                                                   *)

Call(op, data) ==
  [op |-> op, at |-> "sent", data |-> data,
   slot |-> CHOOSE n \in 1..MaxCalls : \A c \in logCalls : c.slot # n]

Room == Cardinality(logCalls) < MaxCalls

\* Opening the logs, or a reload of the list, asks for the settings.
loadLogs ==
  /\ settings # NoRow /\ Room
  /\ logCalls' = logCalls \union {Call("get", NoRow)}
  /\ UNCHANGED <<settings, apiLogs, writes, skipped, form, dirty, stale,
                 edits>>

\* Every change of a field marks the form.
markLogSettingsDirty ==
  /\ edits < MaxEdits
  /\ \E f \in FormEdits : f # form /\ form' = f
  /\ dirty' = TRUE /\ edits' = edits + 1
  /\ UNCHANGED <<settings, apiLogs, writes, skipped, logCalls, stale>>

submitLogSettings ==
  /\ settings # NoRow /\ form # NoRow /\ Room
  /\ logCalls' = logCalls \union {Call("patch", form)}
  /\ UNCHANGED <<settings, apiLogs, writes, skipped, form, dirty, stale,
                 edits>>

purgeNow ==
  /\ settings # NoRow /\ Room
  /\ logCalls' = logCalls \union {Call("purge", NoRow)}
  /\ UNCHANGED <<settings, apiLogs, writes, skipped, form, dirty, stale,
                 edits>>

\* The reload a finished call starts takes its place.
Follow(c) == [op |-> "get", at |-> "sent", data |-> NoRow, slot |-> c.slot]

Answered(c, at, data) == (logCalls \ {c}) \union {[c EXCEPT !.at = at, !.data = data]}

\* A settings change makes the label of every row a matter of the past, and
\* an answer read before it old.
Outdated(rows) == {[r EXCEPT !.current = FALSE] : r \in rows}

OldAnswers(cs) == {IF c.at = "ok" THEN [c EXCEPT !.at = "old"] ELSE c : c \in cs}

serveGet(c) ==
  /\ c \in logCalls /\ c.op = "get" /\ c.at = "sent"
  /\ logCalls' = Answered(c, "ok", settings)
  /\ UNCHANGED <<settings, apiLogs, writes, skipped, form, dirty, stale,
                 edits>>

servePatch(c) ==
  /\ c \in logCalls /\ c.op = "patch" /\ c.at = "sent"
  /\ \/ /\ ValidBody(c.data)
        /\ settings' = update(c.data)
        /\ logCalls' = OldAnswers(logCalls \ {c})
                         \union {[c EXCEPT !.at = "ok"]}
        /\ apiLogs' = Outdated(apiLogs)
        /\ writes' = Outdated(writes) \union intercept(TRUE)
     \/ /\ ~ValidBody(c.data)
        /\ logCalls' = Answered(c, "error", c.data)
        /\ UNCHANGED <<settings, apiLogs>>
        /\ writes' = writes \union intercept(FALSE)
  /\ UNCHANGED <<skipped, form, dirty, stale, edits>>

servePurge(c) ==
  /\ c \in logCalls /\ c.op = "purge" /\ c.at = "sent"
  /\ logCalls' = Answered(c, "ok", c.data)
  /\ apiLogs' = purgeExpired(apiLogs)
  /\ settings' = settings
  /\ writes' = writes \union intercept(TRUE)
  /\ UNCHANGED <<skipped, form, dirty, stale, edits>>

\* loadLogSettings: the answer overwrites the form, whatever was typed.
loadLogSettings(c) ==
  /\ c \in logCalls /\ c.op = "get" /\ c.at \in {"ok", "old"}
  /\ form' = c.data /\ dirty' = FALSE /\ stale' = (c.at = "old")
  /\ logCalls' = logCalls \ {c}
  /\ UNCHANGED <<settings, apiLogs, writes, skipped, edits>>

\* A save that succeeded marks the form clean and loads what was stored.
saved(c) ==
  /\ c \in logCalls /\ c.op = "patch" /\ c.at \in {"ok", "old"}
  /\ dirty' = FALSE
  /\ logCalls' = (logCalls \ {c}) \union {Follow(c)}
  /\ UNCHANGED <<settings, apiLogs, writes, skipped, form, stale, edits>>

\* A refused save leaves the form as it is. A finished purge reloads the
\* status and the list, and with the list the settings form.
settled(c) ==
  /\ c \in logCalls
  /\ \/ c.op = "patch" /\ c.at = "error" /\ logCalls' = logCalls \ {c}
     \/ /\ c.op = "purge" /\ c.at \in {"ok", "old"}
        /\ logCalls' = (logCalls \ {c}) \union {Follow(c)}
  /\ UNCHANGED <<settings, apiLogs, writes, skipped, form, dirty, stale,
                 edits>>

\* The first use of the settings creates their row.
getOrCreate(env) ==
  /\ settings = NoRow /\ settings' = Created(env)
  /\ UNCHANGED <<apiLogs, writes, skipped, form, dirty, logCalls, stale,
                 edits>>

-----------------------------------------------------------------------------
LogInit ==
  /\ settings = NoRow /\ apiLogs = {} /\ writes = {}
  /\ skipped = FALSE /\ form = NoRow /\ dirty = FALSE /\ logCalls = {}
  /\ stale = FALSE /\ edits = 0

LogNext ==
  \/ \E env \in EnvDays : getOrCreate(env)
  \/ \E level \in {"DEBUG", "INFO"}, hasPii \in BOOLEAN : log(level, hasPii)
  \/ \E w \in writes : insert(w)
  \/ \E k \in Leaps, up \in BOOLEAN : purgeExpiredLogs(k, up)
  \/ loadLogs \/ markLogSettingsDirty \/ submitLogSettings \/ purgeNow
  \/ \E c \in logCalls : \/ serveGet(c) \/ servePatch(c) \/ servePurge(c)
                         \/ loadLogSettings(c) \/ saved(c) \/ settled(c)

LogSpec == LogInit /\ [][LogNext]_logVars

-----------------------------------------------------------------------------
\* How long a row of this class may be kept at the very most.
HardLimit(r) == IF r.early /\ r.level = "DEBUG" THEN 14
                ELSE IF r.early /\ r.pii THEN 30 ELSE 90

\* No environment, form or settings change stores a row beyond the limit of
\* its class: if last night's purge ran, nothing older than that limit is
\* left (log-settings clamps, expiry fixed by audit.log, nightly purge).
KeptWithinLimit ==
  ~skipped => \A r \in apiLogs : r.age <= HardLimit(r)

\* The rule the console names for a row is the one its expiry was computed
\* from, while the settings it was written under still stand and nothing
\* switches an early deletion off (retentionDaysFor and retentionRuleFor are
\* two separate functions).
RuleExplainsExpiry ==
  LET s == getResolved(settings)
      daysOf == [debug |-> s.debug, pii |-> s.pii, operational |-> s.oper]
  IN s.debugOn /\ s.piiOn /\ s.operOn =>
       \A r \in apiLogs : r.current =>
         r.age + r.left = daysOf[retentionRuleFor(s, r.level, r.pii)]

\* A form that says it is saved, with no call under way, shows what is stored,
\* unless an answer read before the last save arrived after it.
CleanFormIsStored ==
  ~dirty /\ logCalls = {} /\ ~stale /\ form # NoRow => form = settings

\* What the retention form and the stored rows say of each other holds.
RetentionInv == KeptWithinLimit /\ RuleExplainsExpiry /\ CleanFormIsStored
=============================================================================
