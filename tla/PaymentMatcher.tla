--------------------------- MODULE PaymentMatcher ---------------------------
(***************************************************************************)
(* Which reservation an incoming payment belongs to, and whether that is   *)
(* clear enough to book it without a person looking at it.  Models         *)
(* payment-matcher.service.ts and the combined deposit hint of             *)
(* payment-split-hint.util.ts as functions of a payment and a list of      *)
(* reservations.                                                           *)
(*                                                                         *)
(* What the matcher reads out of names, notes and reference texts is a     *)
(* fact about the stay (its name matches, its dates appear); the scores,   *)
(* the filter, the order and the decision are the code's.  Amounts are in  *)
(* cents.                                                                  *)
(***************************************************************************)
EXTENDS Integers, Sequences, FiniteSets

\* What the reference, the payer and the amount say about one stay.
Facts ==
    {"id",        \* its reservation number is in the reference
     "code",      \* a portal code of the reference is its booking ref
     "codeNote",  \* a portal code of the reference is in its notes
     "ref",       \* its booking ref appears in the reference
     "email", "name", "nameInRef", "listing", "dates",
     "amountInNotes", "keywordInNotes",
     "portal",    \* isPortalCollectedStay
     "payout"}    \* isPayoutStylePortal

\* A stay, as loadCandidateReservations returns it, is
\*   [facts, total, paid, due, guest, unit, from, to]
\* due is nextDueAmount of its plan, 0 without an enabled plan.  A payment is
\*   [amount, says] where says holds what its sender and reference say:
\*   "platform", "settlement", "amount" (repeats the amount), "rest".

Abs(n) == IF n < 0 THEN 0 - n ELSE n
NotNegative(n) == IF n < 0 THEN 0 ELSE n

\* One euro, or half a percent of the amount compared with.
amountsMatch(a, b) == 200 * Abs(a - b) <= (IF b > 20000 THEN b ELSE 20000)

looksLikeDepositShare(a, total) ==
    total > 0 /\ a > 0 /\ 5 * a >= total /\ 5 * a <= 4 * total

balanceDue(s) == NotNegative(s.total - s.paid)

----------------------------------------------------------------------------
(* Scores.  A part is the points it gives and the reason it notes.         *)

Part(points, reason) == [points |-> points, reason |-> reason]
NoPart == Part(0, "none")

\* The first of the code's tests that holds decides.
BalanceTests(p, s) ==
    LET a == p.amount
        bal == balanceDue(s)
        begun == s.paid >= 100                    \* partiallyPaid
        named == "name" \in s.facts
        payoutStyle == "payout" \in s.facts \/ "settlement" \in p.says
    IN  <<[ok |-> s.due > 0 /\ amountsMatch(a, s.due),
           is |-> Part(48, "installment")],
          [ok |-> s.total <= 0,
           is |-> NoPart],
          [ok |-> bal > 0 /\ amountsMatch(a, bal),
           is |-> Part(IF "rest" \in p.says THEN 43 ELSE 35, "balance")],
          [ok |-> payoutStyle /\ ~begun /\ 10 * a >= 7 * s.total /\ 100 * a <= 101 * s.total,
           is |-> Part(42, "netSettlement")],
          [ok |-> named /\ "rest" \in p.says /\ bal > 0 /\ a <= bal + 100
                  /\ 10 * a >= bal /\ 100 * a <= 99 * bal,
           is |-> Part(32, "restFits")],
          [ok |-> named /\ bal > 0 /\ begun /\ looksLikeDepositShare(a, bal),
           is |-> Part(IF "rest" \in p.says THEN 28 ELSE 22, "share")],
          [ok |-> ~begun /\ amountsMatch(a, s.total),
           is |-> Part(28, "total")],
          [ok |-> named /\ \E pct \in {30, 50, 70} : amountsMatch(a, (pct * s.total) \div 100),
           is |-> Part(18, "share")],
          [ok |-> named /\ looksLikeDepositShare(a, s.total),
           is |-> Part(18, "share")],
          [ok |-> TRUE,
           is |-> NoPart]>>

scoreBalanceDue(p, s) ==
    LET tests == BalanceTests(p, s)
    IN  tests[CHOOSE i \in 1..Len(tests) :
                 tests[i].ok /\ \A j \in 1..(i - 1) : ~tests[j].ok].is

scoreReservationNotes(s) ==
    CASE {"amountInNotes", "keywordInNotes"} \subseteq s.facts -> Part(45, "notes")
      [] "amountInNotes" \in s.facts /\ "keywordInNotes" \notin s.facts -> Part(35, "notes")
      [] OTHER -> NoPart

When(cond, points, reason) == IF cond THEN Part(points, reason) ELSE NoPart

\* All parts of a stay's score, in the order of the code.
scoreParts(p, s) ==
    LET f == s.facts
        coded == f \cap {"code", "codeNote"} # {}
        guestMatched == f \cap {"name", "nameInRef"} # {}
    IN  <<When("id" \in f, 55, "id"),
          When(coded, 55, "external"),
          When("ref" \in f /\ ~coded, 55, "external"),
          When("settlement" \in p.says /\ "portal" \in f, 20, "portalPayout"),
          When("email" \in f, 30, "email"),
          When("name" \in f, 25, "name"),
          When("nameInRef" \in f, 15, "nameInRef"),
          When("listing" \in f, IF guestMatched \/ "email" \in f THEN 15 ELSE 6, "listing"),
          When("dates" \in f, 10, "dates"),
          When("amount" \in p.says, 20, "amountAligns"),
          scoreBalanceDue(p, s),
          scoreReservationNotes(s)>>

SumOf(parts) ==
    LET sum[i \in 0..Len(parts)] == IF i = 0 THEN 0 ELSE sum[i - 1] + parts[i].points
    IN  sum[Len(parts)]

scoreReservation(p, s) ==
    LET parts == scoreParts(p, s)
    IN  [score   |-> SumOf(parts),
         reasons |-> {parts[i].reason : i \in DOMAIN parts} \ {"none"}]

----------------------------------------------------------------------------
(* Filter and order.                                                       *)

\* The reservation number or a booking reference names the stay.
strongLink(c) == c.reasons \cap {"id", "external"} # {}

\* Plausible slip: a stay that is fully paid stays in the list.
KeptMut(p, s, c) ==
    /\ c.score > 0
    /\ IF "settlement" \in p.says THEN "portal" \in s.facts \/ strongLink(c)
                                  ELSE "portal" \in s.facts => strongLink(c)

\* The filter of match.
Kept(p, s, c) ==
    /\ c.score > 0
    /\ balanceDue(s) <= 1 /\ s.total > 0 => strongLink(c)
    /\ IF "settlement" \in p.says THEN "portal" \in s.facts \/ strongLink(c)
                                  ELSE "portal" \in s.facts => strongLink(c)

\* A stay with its place in the list and its score.
Scored(p, stays, i) ==
    LET c == scoreReservation(p, stays[i])
    IN  [at |-> i, stay |-> stays[i], score |-> c.score, reasons |-> c.reasons]

candidates(p, stays) ==
    {c \in {Scored(p, stays, i) : i \in DOMAIN stays} : Kept(p, c.stay, c)}

\* Portal payouts prefer portal stays, guest payments direct ones; a tie
\* keeps the order of the list, which is by arrival.
Preferred(p, c) == ("portal" \in c.stay.facts) = ("settlement" \in p.says)

Before(p, c, d) ==
    \/ c.score > d.score
    \/ c.score = d.score /\ Preferred(p, c) /\ ~Preferred(p, d)
    \/ c.score = d.score /\ Preferred(p, c) = Preferred(p, d) /\ c.at < d.at

First(p, cs) == CHOOSE c \in cs : \A d \in cs \ {c} : Before(p, c, d)

\* candidates.slice(0, n)
Top(p, cs, n) == {c \in cs : Cardinality({d \in cs : Before(p, d, c)}) < n}

----------------------------------------------------------------------------
(* Two apartments paid for in one transfer.                                *)

Rounded(n, d) == (2 * n + d) \div (2 * d)

\* The two shares of a combined transfer, or none when one would be empty.
suggestSplitAmounts(amount, s, t) ==
    LET priced == s.total > 0 /\ t.total > 0
        deposits == <<Rounded(s.total, 4), Rounded(t.total, 4)>>
        balances == <<balanceDue(s), balanceDue(t)>>
        share == Rounded(amount * s.total, s.total + t.total)
        half == Rounded(amount, 2)
    IN  IF priced /\ Abs(deposits[1] + deposits[2] - amount) <= 201
        THEN deposits
        ELSE IF /\ balances[1] > 0 /\ balances[2] > 0
                /\ Abs(balances[1] + balances[2] - amount) <= 101
        THEN balances
        ELSE IF priced /\ share >= 1 /\ amount - share >= 1
        THEN <<share, amount - share>>
        ELSE IF half >= 1 /\ amount - half >= 1
        THEN <<half, amount - half>>
        ELSE << >>

staysOverlapOrSame(s, t) == s.from <= t.to /\ t.from <= s.to

detectCombinedDepositHint(amount, cs) ==
    \E c \in cs : \E d \in cs :
        /\ c.at # d.at
        /\ c.stay.guest = d.stay.guest
        /\ staysOverlapOrSame(c.stay, d.stay)
        /\ c.stay.unit # d.stay.unit
        /\ suggestSplitAmounts(amount, c.stay, d.stay) # << >>

----------------------------------------------------------------------------
(* The decision.                                                           *)

PAYMENT_AUTO_MATCH_MIN_SCORE == 85
PAYMENT_AMBIGUITY_SCORE_GAP == 10
PAYMENT_SUGGEST_MIN_SCORE == 10

strongGuest(c) == c.reasons \cap {"name", "email"} # {}

hasStrongInstallmentPlanMatch(c) == strongGuest(c) /\ "installment" \in c.reasons

\* The gap to the next candidate, if there is one.
Clear(p, c, cs) ==
    \/ cs = {c}
    \/ c.score - First(p, cs \ {c}).score >= PAYMENT_AMBIGUITY_SCORE_GAP

canAutoApply(p, c, cs) ==
    \/ strongLink(c)
    \/ hasStrongInstallmentPlanMatch(c)
    \/ c.score >= PAYMENT_AUTO_MATCH_MIN_SCORE
    \/ /\ Clear(p, c, cs)
       /\ c.score >= 55
       /\ \/ {"portalPayout", "netSettlement"} \subseteq c.reasons
          \/ /\ strongGuest(c)
             /\ c.reasons \cap {"balance", "total", "installment", "share", "notes",
                                "amountAligns", "netSettlement"} # {}

\* A decision, the chosen stay (0 for none) and the stays offered for review.
Outcome(decision, best, offered) ==
    [decision |-> decision, best |-> best, offered |-> {c.at : c \in offered}]

\* match for the candidates cs, at least one.
Decide(p, cs) ==
    LET best   == First(p, cs)
        others == cs \ {best}
        second == First(p, others)
        sure   == strongLink(best) \/ hasStrongInstallmentPlanMatch(best)
    IN  IF \/ ~Clear(p, best, cs) /\ ~sure
           \/ others # {} /\ "id" \in best.reasons /\ "id" \in second.reasons
           \/ ~sure /\ detectCombinedDepositHint(p.amount, Top(p, cs, 5))
        THEN Outcome("AMBIGUOUS", best.at, Top(p, cs, 5))
        ELSE IF canAutoApply(p, best, cs)
        THEN Outcome("UNAMBIGUOUS", best.at, {best})
        ELSE IF best.score <= PAYMENT_SUGGEST_MIN_SCORE /\ ~sure
        THEN Outcome("PARTIAL_UNCLEAR", 0, {})
        ELSE Outcome("PARTIAL_UNCLEAR", best.at, Top(p, cs, 5))

match(p, stays) ==
    LET cs == candidates(p, stays)
    IN  IF "platform" \in p.says THEN Outcome("PLATFORM_PAYOUT", 0, {})
        ELSE IF p.amount <= 0 THEN Outcome("REFUND", 0, {})
        ELSE IF p.amount > 5000000 THEN Outcome("BULK_PAYMENT", 0, {})
        ELSE IF cs = {} THEN Outcome("NO_MATCH", 0, {})
        ELSE Decide(p, cs)
=============================================================================
