--------------------------- MODULE ApprovalRules ---------------------------
(***************************************************************************)
(* Which wishes of a guest are granted by themselves: rules.service.ts and *)
(* approval-conditions.ts as operators.  A rule is for a type of request   *)
(* and one listing or all; times are minutes of the day, None stands for a *)
(* missing or unreadable value.                                            *)
(***************************************************************************)
EXTENDS Integers, FiniteSets

None == -1
AllListings == "all"

RequestTypes ==
    {"ADD_GUEST", "ADD_PET", "CANCELLATION", "MODIFICATION", "EARLY_CHECKIN",
     "LATE_CHECKOUT", "RESERVATION_QUESTION", "OTHER"}
Modes == {"AUTO", "MANUAL", "DENY"}

\* parseTimeToMinutes of hours and minutes.
parseTimeToMinutes(h, m) == IF h \in 0..23 /\ m \in 0..59 THEN h * 60 + m ELSE None

NoConditions == [max |-> None, manualPets |-> FALSE, standard |-> None, limit |-> None]

DefaultStandard == [t \in {"EARLY_CHECKIN", "LATE_CHECKOUT"} |->
                      IF t = "EARLY_CHECKIN" THEN parseTimeToMinutes(16, 0)
                                             ELSE parseTimeToMinutes(11, 0)]
DefaultLimit == [t \in {"EARLY_CHECKIN", "LATE_CHECKOUT"} |->
                      IF t = "EARLY_CHECKIN" THEN parseTimeToMinutes(14, 0)
                                             ELSE parseTimeToMinutes(13, 0)]

OrElse(v, default) == IF v = None THEN default ELSE v

\* sanitizeConditions keeps what the type knows, drops a limit of zero guests
\* or less and fills in missing times.
sanitizeConditions(type, c) ==
    [max |-> IF type = "ADD_GUEST" /\ c.max > 0 THEN c.max ELSE None,
     manualPets |-> type = "ADD_PET" /\ c.manualPets,
     standard |-> IF type \in DOMAIN DefaultStandard THEN OrElse(c.standard, DefaultStandard[type]) ELSE None,
     limit |-> IF type \in DOMAIN DefaultLimit THEN OrElse(c.limit, DefaultLimit[type]) ELSE None]

\* A cancellation is never stored as automatic.
StoredMode(type, mode) == IF type = "CANCELLATION" /\ mode = "AUTO" THEN "MANUAL" ELSE mode

\* Only automatic rules keep conditions, and a cancellation has none.
sanitizeRuleConditions(type, mode, c) ==
    IF mode = "AUTO" /\ type # "CANCELLATION" THEN sanitizeConditions(type, c) ELSE NoConditions

\* seedDefaults, for an empty table.
seedDefaults ==
    {[type |-> t, listing |-> AllListings, mode |-> IF t \in {"ADD_GUEST", "ADD_PET"} THEN "AUTO" ELSE "MANUAL",
      cond |-> NoConditions, active |-> TRUE, priority |-> 0, created |-> 0] : t \in RequestTypes}

\* Highest priority first, then the youngest.
First(S) ==
    CHOOSE r \in S : \A q \in S :
        \/ r.priority > q.priority
        \/ r.priority = q.priority /\ r.created >= q.created

\* The rule for the listing goes before one for all listings.
RuleFor(rules, type, listing) ==
    LET fit == {r \in rules : r.active /\ r.type = type}
        own == {r \in fit : r.listing = listing}
        general == {r \in fit : r.listing = AllListings}
    IN  IF own # {} THEN {First(own)} ELSE IF general # {} THEN {First(general)} ELSE {}

\* The wish lies in the window of an automatic rule.
checkEarlyCheckIn(c, time) ==
    LET standard == OrElse(c.standard, DefaultStandard["EARLY_CHECKIN"])
        earliest == OrElse(c.limit, DefaultLimit["EARLY_CHECKIN"])
    IN  time # None /\ time < standard /\ time >= earliest

checkLateCheckOut(c, time) ==
    LET standard == OrElse(c.standard, DefaultStandard["LATE_CHECKOUT"])
        latest == OrElse(c.limit, DefaultLimit["LATE_CHECKOUT"])
    IN  time # None /\ time > standard /\ time <= latest

\* ctx: the guests there are and the guests asked for, the listing's
\* capacity and whether it takes pets, the time asked for.
checkAutoConditions(type, c, ctx) ==
    CASE type = "CANCELLATION" -> FALSE
      [] type = "ADD_GUEST" ->
             /\ ctx.requested <= ctx.capacity
             /\ c.max = None \/ ctx.requested - ctx.current <= c.max
      [] type = "ADD_PET" -> ctx.pets /\ ~c.manualPets
      [] type = "EARLY_CHECKIN" -> checkEarlyCheckIn(c, ctx.time)
      [] type = "LATE_CHECKOUT" -> checkLateCheckOut(c, ctx.time)
      [] OTHER -> TRUE

\* Without a rule everything is for the team.
evaluate(rules, type, listing, ctx) ==
    LET fit == RuleFor(rules, type, listing)
        rule == CHOOSE r \in fit : TRUE
    IN  CASE fit = {} -> "MANUAL"
          [] fit # {} /\ rule.mode # "AUTO" -> rule.mode
          [] OTHER -> IF checkAutoConditions(type, rule.cond, ctx) THEN "AUTO" ELSE "MANUAL"
=============================================================================
