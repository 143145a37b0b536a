------------------------- MODULE FonioVerification -------------------------
(***************************************************************************)
(* Who is calling: fonio-verification.service.ts and verification-fields.ts*)
(* as operators.  A booking is a record of the five fields a caller can be *)
(* asked for, what a caller says is a function on some of them.            *)
(***************************************************************************)
EXTENDS Integers, FiniteSets

VERIFICATION_FIELD_OPTIONS ==
    {"stayDates", "listingName", "phone", "email", "reservationId"}

\* The two date fields of old configurations count as stayDates, unknown
\* names are dropped, and stayDates is always asked for.
normalizeVerificationConfigFields(fields) ==
    {"stayDates"} \cup (fields \cap VERIFICATION_FIELD_OPTIONS)

\* Plausible slip: the dates, which every caller must give, are not counted
\* among the matches that are needed.
minMatchMut(config) ==
    LET n == Cardinality(normalizeVerificationConfigFields(config.fields))
    IN  (IF config.min < n THEN config.min ELSE n) - 1

minMatch(config) ==
    LET n == Cardinality(normalizeVerificationConfigFields(config.fields))
    IN  IF config.min < n THEN config.min ELSE n

\* What updateVerificationConfig stores.
StoredConfig(fields, min) ==
    [fields |-> normalizeVerificationConfigFields(fields),
     min |-> minMatch([fields |-> fields, min |-> min])]

\* Fields are compared after normalisation (dates, phone numbers, e-mail in
\* lower case, hashes); phone and e-mail also with the copy in Hostaway.
fieldMatches(f, says, b) == f \in DOMAIN says /\ says[f] = b[f]

Matched(config, says, b) ==
    {f \in normalizeVerificationConfigFields(config.fields) : fieldMatches(f, says, b)}

\* A filter that leaves nobody is not applied.
Narrow(pool, f, says, bookings) ==
    LET sub == {r \in pool : fieldMatches(f, says, bookings[r])}
    IN  IF f \in DOMAIN says /\ sub # {} THEN sub ELSE pool

\* Plausible slip: guests of one house are not told apart.
narrowCandidatesMut(pool, says, bookings) == Narrow(pool, "listingName", says, bookings)

narrowCandidates(pool, says, bookings) ==
    Narrow(Narrow(Narrow(pool, "listingName", says, bookings),
                  "phone", says, bookings), "email", says, bookings)

\* The bookings that are looked at, from those known here and those in
\* Hostaway: by number, fetched when it is not known here; else by dates,
\* fetched when no booking on these dates is known here.  Also the bookings
\* known afterwards.
findReservation(says, known, bookings) ==
    LET byId == {r \in DOMAIN bookings : fieldMatches("reservationId", says, bookings[r])}
        onDates == {r \in DOMAIN bookings : fieldMatches("stayDates", says, bookings[r])}
        now == IF onDates \cap known = {} THEN known \cup onDates ELSE known
        pool == onDates \cap now
    IN  IF byId # {}
        THEN [found |-> byId, known |-> known \cup byId]
        ELSE [found |-> IF Cardinality(pool) <= 1 THEN pool
                        ELSE narrowCandidates(pool, says, bookings),
              known |-> now]

\* What verify answers for the bookings found: "missing" dates, "unknown"
\* booking, "ambiguous", "failed" or "verified".
verify(config, says, found, bookings) ==
    IF "stayDates" \notin DOMAIN says THEN "missing"
    ELSE IF found = {} THEN "unknown"
    ELSE IF Cardinality(found) > 1 THEN "ambiguous"
    ELSE IF \A r \in found : Cardinality(Matched(config, says, bookings[r])) < minMatch(config)
    THEN "failed" ELSE "verified"
=============================================================================
