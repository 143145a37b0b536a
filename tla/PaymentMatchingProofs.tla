----------------------- MODULE PaymentMatchingProofs -----------------------
(***************************************************************************)
(* MatchingInv for every list of stays, every evidence, every plan and any *)
(* finite number of handlers: where a payment is booked by itself while    *)
(* staff, polls and plans come in between, and that the charges of a stay  *)
(* never fall below zero.  The matcher's part follows from what match      *)
(* returns for any list; the charges need MatchingIInv: they cover what is *)
(* booked and what the handlers have booked so far.  The sums are those of *)
(* recursive functions; that they exist, and what a change of one term     *)
(* does to them, is shown by looking at the least number that fails.       *)
(* PlanFollows rests on FollowInv: what a handler is about to write into a *)
(* plan fits the plan it read and the balance.                             *)
(***************************************************************************)
EXTENDS PaymentMatching, FiniteSetTheorems, SequenceTheorems, WellFoundedInduction,
        TLAPS

----------------------------------------------------------------------------
(* Sums.                                                                   *)

LEMMA LeastNumber ==
    ASSUME NEW S \in SUBSET Nat, S # {}
    PROVE  \E x \in S : \A y \in S : x <= y
<1>1. IsWellFoundedOn(OpToRel(<, Nat), Nat)
    BY NatLessThanWellFounded
<1>2. PICK x \in S : \A y \in S : ~ (<<y, x>> \in OpToRel(<, Nat))
    BY <1>1, WFMin
<1>3. \A y \in S : ~(y < x)
    BY <1>2 DEF OpToRel
<1>. QED
    BY <1>3

\* s adds up the first n values of f.
Adds(s, f, n) ==
    /\ s \in [0..n -> Int] /\ s[0] = 0
    /\ \A k \in 1..n : s[k] = s[k - 1] + f[k]

LEMMA SumExists ==
    ASSUME NEW n \in Nat, NEW f \in [1..n -> Int]
    PROVE  \E s : Adds(s, f, n)
<1>. DEFINE Bad == {m \in 0..n : ~\E s : Adds(s, f, m)}
<1>1. SUFFICES ASSUME Bad # {}
               PROVE  FALSE
  <2>1. n \in 0..n
      OBVIOUS
  <2>. QED
      BY <2>1
<1>2. PICK m \in Bad : \A k \in Bad : m <= k
  <2>1. Bad \in SUBSET Nat
      OBVIOUS
  <2>. HIDE DEF Bad
  <2>. QED
      BY <1>1, <2>1, LeastNumber
<1>3. m # 0
  <2>. SUFFICES ASSUME m = 0
                PROVE  FALSE
      OBVIOUS
  <2>. DEFINE s == [k \in 0..0 |-> 0]
  <2>1. Adds(s, f, 0)
      BY DEF Adds
  <2>. QED
      BY <1>2, <2>1
<1>4. m - 1 \in 0..n /\ m - 1 \notin Bad
    BY <1>2, <1>3
<1>5. PICK s : Adds(s, f, m - 1)
    BY <1>4
<1>. DEFINE t == [k \in 0..m |-> IF k = m THEN s[m - 1] + f[m] ELSE s[k]]
<1>6. Adds(t, f, m)
  <2>1. m \in 1..n /\ f[m] \in Int /\ s[m - 1] \in Int
      BY <1>2, <1>3, <1>5 DEF Adds
  <2>2. t \in [0..m -> Int] /\ t[0] = 0
      BY <1>5, <2>1 DEF Adds
  <2>3. ASSUME NEW k \in 1..m
        PROVE  t[k] = t[k - 1] + f[k]
    <3>1. m \in Int /\ k \in Int /\ 1 <= k /\ k <= m /\ k \in 0..m /\ k - 1 \in 0..m /\ k - 1 # m
        BY <2>1
    <3>2. t[k - 1] = s[k - 1]
        BY <3>1
    <3>3. CASE k = m
        BY <3>1, <3>2, <3>3
    <3>4. CASE k # m
      <4>1. t[k] = s[k]
          BY <3>1, <3>4
      <4>2. k \in 1..(m - 1)
          BY <3>1, <3>4
      <4>3. s[k] = s[k - 1] + f[k]
          BY <1>5, <4>2 DEF Adds
      <4>. QED
          BY <3>2, <4>1, <4>3
    <3>. QED
        BY <3>3, <3>4
  <2>. QED
      BY <2>2, <2>3 DEF Adds
<1>. QED
    BY <1>2, <1>6

\* What obeys the recursion adds up.
LEMMA SumObeys ==
    ASSUME NEW n \in Nat, NEW f \in [1..n -> Int], NEW s,
           DOMAIN s = 0..n, s = [i \in 0..n |-> s[i]],
           \A i \in 0..n : s[i] = IF i = 0 THEN 0 ELSE s[i - 1] + f[i]
    PROVE  Adds(s, f, n)
<1>1. PICK t : Adds(t, f, n)
    BY SumExists
<1>2. s[0] = 0 /\ \A k \in 1..n : s[k] = s[k - 1] + f[k]
  <2>1. s[0] = 0
    <3>1. 0 \in 0..n
        OBVIOUS
    <3>. QED
        BY <3>1
  <2>2. ASSUME NEW k \in 1..n
        PROVE  s[k] = s[k - 1] + f[k]
    <3>1. k \in 0..n /\ k # 0
        OBVIOUS
    <3>. QED
        BY <3>1
  <2>. QED
      BY <2>1, <2>2
<1>. DEFINE Off == {k \in 0..n : s[k] # t[k]}
<1>3. Off = {}
  <2>. SUFFICES ASSUME Off # {}
                PROVE  FALSE
      OBVIOUS
  <2>1. PICK m \in Off : \A k \in Off : m <= k
    <3>1. Off \in SUBSET Nat
        OBVIOUS
    <3>. HIDE DEF Off
    <3>. QED
        BY <3>1, LeastNumber
  <2>2. m # 0 /\ m \in 1..n
      BY <1>1, <1>2, <2>1 DEF Adds
  <2>3. m - 1 \in 0..n /\ m - 1 \notin Off
      BY <2>1, <2>2
  <2>. QED
      BY <1>1, <1>2, <2>1, <2>2, <2>3 DEF Adds
<1>4. \A i \in 0..n : s[i] \in Int
    BY <1>1, <1>3 DEF Adds
<1>. HIDE DEF Off
<1>. QED
    BY <1>2, <1>4 DEF Adds

\* The recursion of the sums has a solution.
LEMMA SumDefined ==
    ASSUME NEW n \in Nat, NEW f \in [1..n -> Int]
    PROVE  Adds(CHOOSE g : g = [i \in 0..n |-> IF i = 0 THEN 0 ELSE g[i - 1] + f[i]], f, n)
<1>. DEFINE Sums(g) == [i \in 0..n |-> IF i = 0 THEN 0 ELSE g[i - 1] + f[i]]
            s == CHOOSE g : g = Sums(g)
<1>1. PICK t : Adds(t, f, n)
    BY SumExists
<1>2. t = Sums(t)
  <2>1. t = [i \in 0..n |-> t[i]]
      BY <1>1 DEF Adds
  <2>2. \A i \in 0..n : t[i] = IF i = 0 THEN 0 ELSE t[i - 1] + f[i]
      BY <1>1 DEF Adds
  <2>. QED
      BY <2>1, <2>2
<1>3. s = Sums(s)
  <2>. HIDE DEF Sums
  <2>. QED
      BY <1>2
<1>. HIDE DEF s
<1>4. /\ DOMAIN s = 0..n /\ s = [i \in 0..n |-> s[i]]
      /\ \A i \in 0..n : s[i] = IF i = 0 THEN 0 ELSE s[i - 1] + f[i]
    BY <1>3
<1>5. Adds(s, f, n)
    BY <1>4, SumObeys
<1>. QED
    BY <1>5 DEF s

\* Terms of at most 55 add up to at most 55 each.
LEMMA SumWithin ==
    ASSUME NEW n \in Nat, NEW f, NEW s, Adds(s, f, n), \A i \in 1..n : f[i] \in 0..55
    PROVE  s[n] \in 0..(55 * n)
<1>. DEFINE Off == {k \in 0..n : ~(s[k] \in 0..(55 * k))}
<1>1. SUFFICES ASSUME Off # {}
               PROVE  FALSE
  <2>1. n \in 0..n
      OBVIOUS
  <2>. QED
      BY <2>1
<1>2. PICK m \in Off : \A k \in Off : m <= k
  <2>1. Off \in SUBSET Nat
      OBVIOUS
  <2>. HIDE DEF Off
  <2>. QED
      BY <1>1, <2>1, LeastNumber
<1>3. m # 0 /\ m \in 1..n
    BY <1>2 DEF Adds
<1>4. m - 1 \in 0..n /\ m - 1 \notin Off
    BY <1>2, <1>3
<1>5. s[m - 1] \in 0..(55 * (m - 1)) /\ f[m] \in 0..55 /\ s[m] = s[m - 1] + f[m]
    BY <1>3, <1>4 DEF Adds
<1>6. s[m] \in 0..(55 * m)
  <2>. DEFINE t == s[m - 1]
  <2>1. m \in Int /\ 55 * (m - 1) \in Int
      BY <1>3
  <2>2. t \in 0..(55 * (m - 1)) /\ f[m] \in 0..55 /\ s[m] = t + f[m]
      BY <1>5
  <2>. HIDE DEF t, Off
  <2>3. 55 * (m - 1) = 55 * m - 55 /\ 55 * m \in Int
      BY <2>1
  <2>4. t \in Int /\ 0 <= t /\ t <= 55 * m - 55
      BY <2>1, <2>2, <2>3
  <2>5. f[m] \in Int /\ 0 <= f[m] /\ f[m] <= 55
      BY <2>2
  <2>. QED
      BY <2>2, <2>3, <2>4, <2>5
<1>. QED
    BY <1>2, <1>6

\* The points of the parts are summed up.
LEMMA SumOfWithin ==
    ASSUME NEW parts, NEW n \in Nat, \A i \in 1..n : parts[i].points \in 0..55
    PROVE  Len(parts) = n => SumOf(parts) \in 0..(55 * n)
<1>. DEFINE P == [i \in 1..n |-> parts[i].points]
            s == CHOOSE g : g = [i \in 0..n |-> IF i = 0 THEN 0 ELSE g[i - 1] + P[i]]
            r == CHOOSE g : g = [i \in 0..n |-> IF i = 0 THEN 0 ELSE g[i - 1] + parts[i].points]
<1>1. ASSUME Len(parts) = n
      PROVE  SumOf(parts) = r[n]
    BY <1>1 DEF SumOf
<1>2. ASSUME NEW g
      PROVE  [i \in 0..n |-> IF i = 0 THEN 0 ELSE g[i - 1] + parts[i].points]
             = [i \in 0..n |-> IF i = 0 THEN 0 ELSE g[i - 1] + P[i]]
    OBVIOUS
<1>3. r = s
    BY <1>2
<1>4. P \in [1..n -> Int] /\ \A i \in 1..n : P[i] \in 0..55
  <2>1. ASSUME NEW i \in 1..n
        PROVE  parts[i].points \in 0..55 /\ parts[i].points \in Int
    <3>. HIDE DEF P, s, r
    <3>1. parts[i].points \in 0..55
        OBVIOUS
    <3>. QED
        BY <3>1
  <2>. QED
      BY <2>1
<1>5. Adds(s, P, n)
  <2>. HIDE DEF P
  <2>. QED
      BY <1>4, SumDefined
<1>6. s[n] \in 0..(55 * n)
  <2>. HIDE DEF P, s
  <2>. QED
      BY <1>4, <1>5, SumWithin
<1>. HIDE DEF s, P, r
<1>. QED
    BY <1>1, <1>3, <1>6

----------------------------------------------------------------------------
(* Scores.                                                                 *)

BalanceReasons == {"installment", "balance", "netSettlement", "restFits", "share", "total", "none"}

IsPart(x, reasons) == x.points \in 0..55 /\ x.reason \in reasons

LEMMA BalancePart ==
    ASSUME NEW p, NEW s
    PROVE  IsPart(scoreBalanceDue(p, s), BalanceReasons)
<1>. DEFINE tests == BalanceTests(p, s)
            First10 == {i \in 1..10 : tests[i].ok}
<1>0. \A points \in 0..55, reason \in BalanceReasons : IsPart(Part(points, reason), BalanceReasons)
    BY DEF IsPart, Part
<1>00. /\ {18, 22, 28, 32, 35, 42, 43, 48, 0} \subseteq 0..55
       /\ IsPart(NoPart, BalanceReasons)
    BY DEF NoPart, IsPart, Part, BalanceReasons
<1>1. /\ Len(tests) = 10 /\ tests[10].ok
      /\ IsPart(tests[1].is, BalanceReasons) /\ IsPart(tests[2].is, BalanceReasons)
      /\ IsPart(tests[3].is, BalanceReasons) /\ IsPart(tests[4].is, BalanceReasons)
      /\ IsPart(tests[5].is, BalanceReasons) /\ IsPart(tests[6].is, BalanceReasons)
      /\ IsPart(tests[7].is, BalanceReasons) /\ IsPart(tests[8].is, BalanceReasons)
      /\ IsPart(tests[9].is, BalanceReasons) /\ IsPart(tests[10].is, BalanceReasons)
  <2>1. Len(tests) = 10 /\ tests[10].ok
      BY DEF BalanceTests
  <2>2. /\ IsPart(tests[1].is, BalanceReasons) /\ IsPart(tests[2].is, BalanceReasons)
        /\ IsPart(tests[3].is, BalanceReasons) /\ IsPart(tests[4].is, BalanceReasons)
      BY <1>0, <1>00 DEF BalanceTests, BalanceReasons
  <2>3. /\ IsPart(tests[5].is, BalanceReasons) /\ IsPart(tests[6].is, BalanceReasons)
        /\ IsPart(tests[7].is, BalanceReasons)
      BY <1>0, <1>00 DEF BalanceTests, BalanceReasons
  <2>4. /\ IsPart(tests[8].is, BalanceReasons) /\ IsPart(tests[9].is, BalanceReasons)
        /\ IsPart(tests[10].is, BalanceReasons)
      BY <1>0, <1>00 DEF BalanceTests, BalanceReasons
  <2>. HIDE DEF tests
  <2>. QED
      BY <2>1, <2>2, <2>3, <2>4
<1>. HIDE DEF tests
<1>2. PICK i \in First10 : \A j \in First10 : i <= j
  <2>1. First10 \in SUBSET Nat /\ First10 # {}
      BY <1>1
  <2>. HIDE DEF First10
  <2>. QED
      BY <2>1, LeastNumber
<1>3. i \in 1..Len(tests) /\ tests[i].ok /\ \A j \in 1..(i - 1) : ~tests[j].ok
    BY <1>1, <1>2
<1>. DEFINE k == CHOOSE n \in 1..Len(tests) : tests[n].ok /\ \A j \in 1..(n - 1) : ~tests[j].ok
<1>4. k \in 1..10
    BY <1>1, <1>3
<1>5. scoreBalanceDue(p, s) = tests[k].is
    BY DEF scoreBalanceDue, tests
<1>. HIDE DEF k
<1>6. \A n \in 1..10 : IsPart(tests[n].is, BalanceReasons)
    BY <1>1
<1>. QED
    BY <1>4, <1>5, <1>6

\* The points are few, and a reason that names the stay has its fact.
LEMMA ScoreFacts ==
    ASSUME NEW p, NEW s
    PROVE  LET c == scoreReservation(p, s) IN
           /\ c.score \in Int /\ 0 <= c.score /\ c.score <= 660
           /\ "id" \in c.reasons => "id" \in s.facts
           /\ "external" \in c.reasons => s.facts \cap {"code", "codeNote", "ref"} # {}
<1>. DEFINE parts == scoreParts(p, s)
            Others == BalanceReasons \cup {"portalPayout", "email", "name", "nameInRef", "listing",
                                          "dates", "amountAligns", "notes"}
<1>1. /\ DOMAIN parts = 1..12 /\ Len(parts) = 12
      /\ IsPart(parts[1], {"id", "none"}) /\ (parts[1].reason = "id" => "id" \in s.facts)
      /\ IsPart(parts[2], {"external", "none"}) /\ IsPart(parts[3], {"external", "none"})
      /\ (parts[2].reason = "external" => s.facts \cap {"code", "codeNote"} # {})
      /\ (parts[3].reason = "external" => "ref" \in s.facts)
      /\ parts[11] = scoreBalanceDue(p, s)
    BY DEF scoreParts, When, Part, NoPart, IsPart
<1>2. /\ IsPart(parts[4], Others) /\ IsPart(parts[5], Others) /\ IsPart(parts[6], Others)
      /\ IsPart(parts[7], Others) /\ IsPart(parts[8], Others) /\ IsPart(parts[9], Others)
      /\ IsPart(parts[10], Others)
    BY DEF scoreParts, When, Part, NoPart, IsPart, BalanceReasons
<1>3. IsPart(parts[12], Others)
  <2>1. IsPart(scoreReservationNotes(s), Others)
      BY DEF scoreReservationNotes, Part, NoPart, IsPart, BalanceReasons
  <2>2. parts[12] = scoreReservationNotes(s)
      BY DEF scoreParts
  <2>. QED
      BY <2>1, <2>2
<1>4. IsPart(parts[11], Others)
    BY <1>1, BalancePart DEF IsPart
<1>5. scoreReservation(p, s) = [score |-> SumOf(parts),
                                reasons |-> {parts[i].reason : i \in DOMAIN parts} \ {"none"}]
    BY DEF scoreReservation
<1>. HIDE DEF parts
<1>6. \A i \in 1..12 : parts[i].points \in 0..55
    BY <1>1, <1>2, <1>3, <1>4 DEF IsPart
<1>7. SumOf(parts) \in Int /\ 0 <= SumOf(parts) /\ SumOf(parts) <= 660
  <2>1. SumOf(parts) \in 0..(55 * 12)
      BY <1>1, <1>6, SumOfWithin
  <2>. DEFINE x == SumOf(parts)
  <2>2. x \in Int /\ 0 <= x /\ x <= 660
    <3>. HIDE DEF x
    <3>1. x \in 0..(55 * 12)
        BY <2>1 DEF x
    <3>. QED
        BY <3>1
  <2>. QED
      BY <2>2
<1>8. \A i \in 4..12 : parts[i].reason \in Others
    BY <1>2, <1>3, <1>4 DEF IsPart
<1>9. "id" \notin Others /\ "external" \notin Others
    BY DEF BalanceReasons
<1>. HIDE DEF Others
<1>10. ASSUME NEW i \in 1..12, parts[i].reason = "id"
       PROVE  "id" \in s.facts
  <2>1. i \notin 4..12 /\ i # 2 /\ i # 3
      BY <1>1, <1>8, <1>9, <1>10 DEF IsPart
  <2>. QED
      BY <1>1, <1>10, <2>1
<1>11. ASSUME NEW i \in 1..12, parts[i].reason = "external"
       PROVE  s.facts \cap {"code", "codeNote", "ref"} # {}
  <2>1. i \notin 4..12 /\ i # 1
      BY <1>1, <1>8, <1>9, <1>11 DEF IsPart
  <2>. QED
      BY <1>1, <1>11, <2>1
<1>. QED
    BY <1>1, <1>5, <1>7, <1>10, <1>11

----------------------------------------------------------------------------
(* The best candidate.                                                     *)

\* Candidates are told apart by their place in the list.
AreCandidates(p, cs, n) ==
    /\ \A c \in cs : c.at \in 1..n /\ c.score \in Int /\ 0 <= c.score /\ c.score <= 660
    /\ \A c, d \in cs : c.at = d.at => c = d

LEMMA CandidatesFit ==
    ASSUME NEW p, NEW n \in Nat, NEW stays, DOMAIN stays = 1..n
    PROVE  /\ AreCandidates(p, candidates(p, stays), n)
           /\ \A c \in candidates(p, stays) :
                 /\ c.at \in 1..n /\ c = Scored(p, stays, c.at) /\ c.stay = stays[c.at]
                 /\ Kept(p, c.stay, c)
                 /\ c.score = scoreReservation(p, stays[c.at]).score
                 /\ c.reasons = scoreReservation(p, stays[c.at]).reasons
<1>1. ASSUME NEW i \in 1..n
      PROVE  LET c == Scored(p, stays, i) IN
             /\ c.at = i /\ c.stay = stays[i]
             /\ c.score = scoreReservation(p, stays[i]).score
             /\ c.score \in Int /\ 0 <= c.score /\ c.score <= 660
             /\ c.reasons = scoreReservation(p, stays[i]).reasons
  <2>. DEFINE r == scoreReservation(p, stays[i])
  <2>2. r.score \in Int /\ 0 <= r.score /\ r.score <= 660
      BY ScoreFacts
  <2>. DEFINE c == Scored(p, stays, i)
  <2>3. c.at = i /\ c.stay = stays[i] /\ c.score = r.score /\ c.reasons = r.reasons
      BY DEF Scored, r
  <2>. HIDE DEF c
  <2>. QED
      BY <2>2, <2>3 DEF r, c
<1>2. ASSUME NEW c \in candidates(p, stays)
      PROVE  /\ c.at \in 1..n /\ c = Scored(p, stays, c.at) /\ c.stay = stays[c.at]
             /\ Kept(p, c.stay, c) /\ c.score \in Int /\ 0 <= c.score /\ c.score <= 660
             /\ c.score = scoreReservation(p, stays[c.at]).score
             /\ c.reasons = scoreReservation(p, stays[c.at]).reasons
  <2>1. PICK i \in 1..n : c = Scored(p, stays, i)
      BY DEF candidates
  <2>2. Kept(p, c.stay, c)
      BY DEF candidates
  <2>3. /\ c.at = i /\ c.stay = stays[i]
        /\ c.score = scoreReservation(p, stays[i]).score
        /\ c.score \in Int /\ 0 <= c.score /\ c.score <= 660
        /\ c.reasons = scoreReservation(p, stays[i]).reasons
      BY <1>1, <2>1
  <2>. QED
      BY <2>1, <2>2, <2>3
<1>3. \A c, d \in candidates(p, stays) : c.at = d.at => c = d
    BY <1>2
<1>4. \A c \in candidates(p, stays) :
         c.at \in 1..n /\ c.score \in Int /\ 0 <= c.score /\ c.score <= 660
    BY <1>2
<1>5. AreCandidates(p, candidates(p, stays), n)
    BY <1>3, <1>4 DEF AreCandidates
<1>. QED
    BY <1>2, <1>5

\* c is the stay at its place with its score, and the filter keeps it.
Fits(p, stays, n, c) ==
    /\ c.at \in 1..n /\ c.stay = stays[c.at] /\ Kept(p, c.stay, c) /\ c.score \in Int
    /\ c.score = scoreReservation(p, stays[c.at]).score
    /\ c.reasons = scoreReservation(p, stays[c.at]).reasons

LEMMA CandidateIs ==
    ASSUME NEW p, NEW n \in Nat, NEW stays, DOMAIN stays = 1..n, NEW c \in candidates(p, stays)
    PROVE  Fits(p, stays, n, c)
<1>1. /\ c.at \in 1..n /\ c.stay = stays[c.at] /\ Kept(p, c.stay, c)
      /\ c.score = scoreReservation(p, stays[c.at]).score
      /\ c.reasons = scoreReservation(p, stays[c.at]).reasons
    BY CandidatesFit
<1>2. c.score \in Int
  <2>1. AreCandidates(p, candidates(p, stays), n)
      BY CandidatesFit, Zenon
  <2>. QED
      BY <2>1 DEF AreCandidates
<1>. QED
    BY <1>1, <1>2 DEF Fits

\* The order of the candidates is strict, and its first element exists.
LEMMA FirstOf ==
    ASSUME NEW p, NEW n \in Nat, NEW cs, AreCandidates(p, cs, n), cs # {}
    PROVE  /\ First(p, cs) \in cs
           /\ \A d \in cs \ {First(p, cs)} : Before(p, First(p, cs), d)
<1>1. PICK a \in cs : \A d \in cs : a.score >= d.score
  <2>. DEFINE L == {660 - c.score : c \in cs}
  <2>1. L \in SUBSET Nat /\ L # {}
      BY DEF AreCandidates
  <2>2. PICK x \in L : \A y \in L : x <= y
    <3>. HIDE DEF L
    <3>. QED
        BY <2>1, LeastNumber
  <2>3. PICK a \in cs : x = 660 - a.score
      OBVIOUS
  <2>4. ASSUME NEW d \in cs
        PROVE  a.score >= d.score
    <3>1. 660 - d.score \in L
        OBVIOUS
    <3>2. 660 - a.score <= 660 - d.score
        BY <2>2, <2>3, <3>1
    <3>3. a.score \in Int /\ d.score \in Int
        BY DEF AreCandidates
    <3>. HIDE DEF L
    <3>. QED
        BY <3>2, <3>3
  <2>. QED
      BY <2>4
<1>. DEFINE best == {c \in cs : c.score = a.score}
            good == {c \in best : Preferred(p, c)}
            final == IF good = {} THEN best ELSE good
            places == {c.at : c \in final}
<1>2. final # {} /\ final \subseteq cs
    OBVIOUS
<1>3. places \in SUBSET Nat /\ places # {}
    BY <1>2 DEF AreCandidates
<1>4. PICK k \in places : \A m \in places : k <= m
  <2>. HIDE DEF places
  <2>. QED
      BY <1>3, LeastNumber
<1>5. PICK b \in final : k = b.at
    OBVIOUS
<1>6. ASSUME NEW d \in cs \ {b}
      PROVE  Before(p, b, d)
  <2>1. b \in cs /\ b.score = a.score /\ b.score >= d.score /\ b.at # d.at
      BY <1>1, <1>2 DEF AreCandidates
  <2>2. b.score \in Int /\ d.score \in Int /\ b.at \in Int /\ d.at \in Int
      BY <2>1 DEF AreCandidates
  <2>3. CASE b.score # d.score
      BY <2>1, <2>2, <2>3 DEF Before
  <2>4. CASE b.score = d.score
    <3>1. d \in best
        BY <2>1, <2>4
    <3>2. CASE d \in final
      <4>1. b.at < d.at
          BY <1>4, <1>5, <2>1, <2>2, <3>2
      <4>2. Preferred(p, b) = Preferred(p, d)
          BY <3>2 DEF Preferred
      <4>. QED
          BY <2>4, <4>1, <4>2 DEF Before
    <3>3. CASE d \notin final
      <4>1. Preferred(p, b) /\ ~Preferred(p, d)
          BY <3>1, <3>3
      <4>. QED
          BY <2>4, <4>1 DEF Before
    <3>. QED
        BY <3>2, <3>3
  <2>. QED
      BY <2>3, <2>4
<1>7. b \in cs /\ \A d \in cs \ {b} : Before(p, b, d)
    BY <1>2, <1>6
<1>. HIDE DEF final
<1>. QED
    BY <1>7 DEF First

LEMMA BeforeStrict ==
    ASSUME NEW p, NEW n \in Nat, NEW cs, AreCandidates(p, cs, n),
           NEW c \in cs, NEW d \in cs, Before(p, c, d)
    PROVE  ~Before(p, d, c) /\ c.score >= d.score
<1>1. c.score \in Int /\ d.score \in Int /\ c.at \in Int /\ d.at \in Int
    BY DEF AreCandidates
<1>. QED
    BY <1>1 DEF Before, Preferred

----------------------------------------------------------------------------
(* What an automatic booking rests on.                                     *)

\* A stay the transfer links by itself, and the same with an installment.
SureOne(c) == strongLink(c) \/ hasStrongInstallmentPlanMatch(c)

\* An automatic match is the first of the candidates, and the next one is
\* far behind or the stay is a sure match.
LEMMA Unambiguous ==
    ASSUME NEW p, NEW n \in Nat, NEW stays, DOMAIN stays = 1..n,
           match(p, stays).decision = "UNAMBIGUOUS"
    PROVE  LET cs == candidates(p, stays)
               c  == First(p, cs)
           IN  /\ ~(p.amount <= 0) /\ c \in cs /\ match(p, stays).best = c.at
               /\ Clear(p, c, cs) \/ SureOne(c)
<1>. DEFINE cs == candidates(p, stays)
            c  == First(p, cs)
<1>1. cs # {} /\ match(p, stays) = Decide(p, cs) /\ ~(p.amount <= 0)
    BY DEF match, Outcome
<1>2. c \in cs
    BY <1>1, CandidatesFit, FirstOf
<1>3. match(p, stays).best = c.at /\ (Clear(p, c, cs) \/ SureOne(c))
  <2>. HIDE DEF cs
  <2>. QED
      BY <1>1 DEF Decide, Outcome, SureOne
<1>. QED
    BY <1>1, <1>2, <1>3

\* A candidate is far enough ahead of another only with a higher score.
LEMMA ClearIsAhead ==
    ASSUME NEW p, NEW n \in Nat, NEW cs, AreCandidates(p, cs, n),
           NEW c \in cs, NEW d \in cs, d # c, Clear(p, c, cs)
    PROVE  d.score < c.score
<1>. DEFINE rest == cs \ {c}
            f == First(p, rest)
<1>1. AreCandidates(p, rest, n) /\ rest # {}
    BY DEF AreCandidates
<1>2. f \in rest /\ \A e \in rest \ {f} : Before(p, f, e)
  <2>. HIDE DEF rest
  <2>. QED
      BY <1>1, FirstOf
<1>3. c.score - f.score >= 10
    BY DEF Clear, PAYMENT_AMBIGUITY_SCORE_GAP
<1>. HIDE DEF f
<1>4. f.score >= d.score
  <2>1. CASE d = f
    <3>1. d.score \in Int
        BY DEF AreCandidates
    <3>. QED
        BY <2>1, <3>1
  <2>2. CASE d # f
    <3>1. d \in rest /\ f \in rest /\ Before(p, f, d)
        BY <1>2, <2>2
    <3>. HIDE DEF rest
    <3>. QED
        BY <1>1, <3>1, BeforeStrict
  <2>. QED
      BY <2>1, <2>2
<1>5. c.score \in Int /\ d.score \in Int /\ f.score \in Int
  <2>1. f \in cs
      BY <1>2
  <2>2. \A e \in cs : e.score \in Int
      BY DEF AreCandidates
  <2>. QED
      BY <2>1, <2>2
<1>. HIDE DEF rest
<1>. QED
    BY <1>3, <1>4, <1>5

\* A link to the stay is one of its facts.
LEMMA LinkIsFact ==
    ASSUME NEW p, NEW s, NEW c, c.reasons = scoreReservation(p, s).reasons, strongLink(c)
    PROVE  s.facts \cap {"id", "code", "codeNote", "ref"} # {}
<1>1. "id" \in c.reasons \/ "external" \in c.reasons
    BY DEF strongLink
<1>. QED
    BY <1>1, ScoreFacts

\* What the filter keeps apart.
LEMMA KeptApart ==
    ASSUME NEW p, NEW n \in Nat, NEW stays, DOMAIN stays = 1..n,
           \A i \in 1..n : stays[i].total \in Int /\ stays[i].paid \in Int,
           match(p, stays).decision = "UNAMBIGUOUS"
    PROVE  LET s == stays[match(p, stays).best]
               linked == s.facts \cap {"id", "code", "codeNote", "ref"} # {}
           IN  /\ match(p, stays).best \in 1..n
               /\ ("settlement" \in p.says) # ("portal" \in s.facts) => linked
               /\ s.total > 0 /\ s.total - s.paid <= 1 => linked
<1>. DEFINE cs == candidates(p, stays)
            c  == First(p, cs)
<1>1. c \in cs /\ match(p, stays).best = c.at
    BY Unambiguous
<1>2. /\ c.at \in 1..n /\ c.stay = stays[c.at] /\ Kept(p, c.stay, c)
      /\ c.reasons = scoreReservation(p, stays[c.at]).reasons
  <2>. HIDE DEF c
  <2>. QED
      BY <1>1, CandidatesFit
<1>. DEFINE s == stays[c.at]
            linked == s.facts \cap {"id", "code", "codeNote", "ref"} # {}
<1>. HIDE DEF c, cs
<1>3. strongLink(c) => linked
    BY <1>2, LinkIsFact
<1>4. ("settlement" \in p.says) # ("portal" \in s.facts) => strongLink(c)
    BY <1>2 DEF Kept
<1>5. s.total > 0 /\ s.total - s.paid <= 1 => strongLink(c)
  <2>1. s.total \in Int /\ s.paid \in Int
      BY <1>2
  <2>2. s.total - s.paid <= 1 => balanceDue(s) <= 1
      BY <2>1 DEF balanceDue, NotNegative
  <2>. QED
      BY <1>2, <2>2 DEF Kept
<1>. QED
    BY <1>1, <1>2, <1>3, <1>4, <1>5

LEMMA SureReasons ==
    ASSUME NEW p, NEW s, NEW c, c.reasons = scoreReservation(p, s).reasons
    PROVE  SureOne(c) = Sure(p, s)
BY DEF SureOne, Sure, strongLink, hasStrongInstallmentPlanMatch, strongGuest

\* The same stay at another place of another list.
LEMMA Placed ==
    ASSUME NEW p, NEW n \in Nat, NEW m \in Nat, NEW stays, NEW other,
           DOMAIN stays = 1..n, DOMAIN other = 1..m,
           NEW i \in 1..n, NEW k \in 1..m, other[k] = stays[i],
           NEW c \in candidates(p, stays), c.at = i
    PROVE  LET d == Scored(p, other, k) IN
           /\ d \in candidates(p, other) /\ d.at = k /\ d.stay = c.stay
           /\ d.score = c.score /\ d.reasons = c.reasons
<1>. DEFINE d == Scored(p, other, k)
<1>1. /\ c.stay = stays[i] /\ Kept(p, c.stay, c)
      /\ c.score = scoreReservation(p, stays[i]).score
      /\ c.reasons = scoreReservation(p, stays[i]).reasons
    BY CandidateIs DEF Fits
<1>2. /\ d.at = k /\ d.stay = other[k]
      /\ d.score = scoreReservation(p, other[k]).score
      /\ d.reasons = scoreReservation(p, other[k]).reasons
    BY DEF Scored
<1>. HIDE DEF d
<1>3. d.stay = c.stay /\ d.score = c.score /\ d.reasons = c.reasons
    BY <1>1, <1>2
<1>4. Kept(p, d.stay, d)
    BY <1>1, <1>3 DEF Kept, strongLink
<1>5. d \in candidates(p, other)
    BY <1>4 DEF candidates, d
<1>. QED
    BY <1>2, <1>3, <1>5 DEF d

\* Two stays are a sure match for the payment.
TwoSure(p, stays) == Cardinality({i \in DOMAIN stays : Sure(p, stays[i])}) >= 2

LEMMA TwoAreSure ==
    ASSUME NEW p, NEW n \in Nat, NEW stays, DOMAIN stays = 1..n,
           NEW i \in 1..n, NEW k \in 1..n, i # k, Sure(p, stays[i]), Sure(p, stays[k])
    PROVE  TwoSure(p, stays)
<1>. DEFINE S == {j \in DOMAIN stays : Sure(p, stays[j])}
<1>1. {i, k} \in SUBSET S
    OBVIOUS
<1>2. IsFiniteSet(S)
  <2>1. IsFiniteSet(1..n)
      BY FS_Interval, 1 \in Int, n \in Int
  <2>. QED
      BY <2>1, FS_Subset
<1>3. Cardinality({i, k}) = 2
  <2>1. IsFiniteSet({i}) /\ Cardinality({i}) = 1 /\ k \notin {i}
      BY FS_Singleton
  <2>2. {i, k} = {i} \cup {k}
      OBVIOUS
  <2>3. Cardinality({i} \cup {k}) = 1 + 1
      BY <2>1, FS_AddElement
  <2>4. 1 + 1 = 2
      OBVIOUS
  <2>. HIDE DEF S
  <2>. QED
      BY <2>2, <2>3, <2>4, Zenon
<1>. HIDE DEF S
<1>4. Cardinality({i, k}) <= Cardinality(S) /\ Cardinality(S) \in Nat
    BY <1>1, <1>2, FS_Subset, FS_CardinalityType
<1>. QED
    BY <1>3, <1>4 DEF TwoSure, S

\* back is the list in the opposite order.
Mirrored(back, stays, n) ==
    /\ DOMAIN stays = 1..n /\ DOMAIN back = 1..n
    /\ \A i \in 1..n : back[i] = stays[n + 1 - i]

\* A candidate at the other end of the opposite list.
LEMMA MirrorPlace ==
    ASSUME NEW p, NEW n \in Nat, NEW stays, NEW back, Mirrored(back, stays, n),
           NEW c \in candidates(p, stays)
    PROVE  /\ n + 1 - c.at \in 1..n
           /\ \E d \in candidates(p, back) :
                 d.at = n + 1 - c.at /\ d.score = c.score /\ d.reasons = c.reasons
<1>. DEFINE k == n + 1 - c.at
<1>1. c.at \in 1..n
    BY CandidateIs DEF Mirrored, Fits
<1>2. k \in 1..n /\ back[k] = stays[c.at]
    BY <1>1 DEF Mirrored
<1>. DEFINE d == Scored(p, back, k)
<1>3. d \in candidates(p, back) /\ d.at = k /\ d.score = c.score /\ d.reasons = c.reasons
    BY <1>1, <1>2, Placed DEF Mirrored
<1>. HIDE DEF d
<1>. QED
    BY <1>2, <1>3

\* For a list of any length: the order of the stays decides nothing between
\* stays of which at most one is a sure match (the sort and the decision of
\* match; where both orders book, they book the same stay).
THEOREM OrderFree ==
    ASSUME NEW p, NEW n \in Nat, NEW stays, NEW back, Mirrored(back, stays, n),
           match(p, stays).decision = "UNAMBIGUOUS",
           match(p, back).decision = "UNAMBIGUOUS"
    PROVE  \/ match(p, back).best = n + 1 - match(p, stays).best
           \/ TwoSure(p, stays)
<1>. DEFINE cs == candidates(p, stays)
            ds == candidates(p, back)
            c  == First(p, cs)
            d  == First(p, ds)
<1>0. Mirrored(stays, back, n)
    BY DEF Mirrored
<1>2. /\ c \in cs /\ match(p, stays).best = c.at /\ (Clear(p, c, cs) \/ SureOne(c))
      /\ d \in ds /\ match(p, back).best = d.at /\ (Clear(p, d, ds) \/ SureOne(d))
    BY Unambiguous DEF Mirrored
<1>3. /\ AreCandidates(p, cs, n) /\ AreCandidates(p, ds, n)
      /\ \A e \in cs \ {c} : Before(p, c, e)
      /\ \A e \in ds \ {d} : Before(p, d, e)
    BY <1>2, CandidatesFit, FirstOf DEF Mirrored
<1>4. /\ c.at \in 1..n /\ c.reasons = scoreReservation(p, stays[c.at]).reasons
      /\ d.at \in 1..n /\ d.reasons = scoreReservation(p, back[d.at]).reasons
  <2>. HIDE DEF cs, ds, c, d
  <2>1. c \in candidates(p, stays) /\ d \in candidates(p, back)
      BY <1>2 DEF cs, ds
  <2>2. DOMAIN stays = 1..n /\ DOMAIN back = 1..n
      BY DEF Mirrored
  <2>3. Fits(p, stays, n, c) /\ Fits(p, back, n, d)
      BY <2>1, <2>2, CandidateIs
  <2>. QED
      BY <2>3 DEF Fits
<1>. HIDE DEF cs, ds, c, d
<1>5. SUFFICES ASSUME d.at # n + 1 - c.at
               PROVE  TwoSure(p, stays)
    BY <1>2
<1>. DEFINE i == n + 1 - d.at
            k == n + 1 - c.at
<1>6. i \in 1..n /\ k \in 1..n /\ stays[i] = back[d.at]
    BY <1>4 DEF Mirrored
<1>7. PICK x \in cs : x.at = i /\ x.score = d.score
    BY <1>2, <1>0, MirrorPlace DEF cs, ds
<1>8. PICK y \in ds : y.at = k /\ y.score = c.score
    BY <1>2, MirrorPlace DEF cs, ds
<1>. HIDE DEF i, k
<1>9. c # x /\ d # y
    BY <1>4, <1>5, <1>7, <1>8 DEF i, k
<1>10. c.score >= x.score /\ d.score >= y.score
    BY <1>2, <1>3, <1>7, <1>8, <1>9, BeforeStrict
<1>11. c.score \in Int /\ d.score \in Int /\ x.score \in Int /\ y.score \in Int
  <2>1. \A e \in cs : e.score \in Int
      BY <1>3 DEF AreCandidates
  <2>2. \A e \in ds : e.score \in Int
      BY <1>3 DEF AreCandidates
  <2>. QED
      BY <1>2, <1>7, <1>8, <2>1, <2>2
<1>12. c.score = x.score /\ d.score = y.score
    BY <1>7, <1>8, <1>10, <1>11
<1>13. ~Clear(p, c, cs) /\ ~Clear(p, d, ds)
  <2>1. ~(x.score < c.score) /\ ~(y.score < d.score)
      BY <1>11, <1>12
  <2>2. ~Clear(p, c, cs)
      BY <1>2, <1>3, <1>7, <1>9, <2>1, ClearIsAhead
  <2>3. ~Clear(p, d, ds)
      BY <1>2, <1>3, <1>8, <1>9, <2>1, ClearIsAhead
  <2>. QED
      BY <2>2, <2>3
<1>14. Sure(p, stays[c.at]) /\ Sure(p, stays[i])
    BY <1>2, <1>4, <1>6, <1>13, SureReasons
<1>15. c.at \in 1..n /\ i \in 1..n /\ c.at # i /\ DOMAIN stays = 1..n
    BY <1>4, <1>5, <1>6 DEF i, Mirrored
<1>. QED
    BY <1>14, <1>15, TwoAreSure

\* more is the list with its b-th stay a second time at the end.
WithTwin(more, stays, n, b) ==
    /\ DOMAIN stays = 1..n /\ DOMAIN more = 1..(n + 1) /\ b \in 1..n
    /\ more[n + 1] = stays[b] /\ \A i \in 1..n : more[i] = stays[i]

\* For a list of any length: next to a twin of the chosen stay, only a sure
\* match is booked (canAutoApply and the gap to the next candidate).
THEOREM TwinIsSure ==
    ASSUME NEW p, NEW n \in Nat, NEW stays, NEW more,
           WithTwin(more, stays, n, match(p, stays).best),
           match(p, stays).decision = "UNAMBIGUOUS",
           match(p, more).decision = "UNAMBIGUOUS"
    PROVE  Sure(p, stays[match(p, stays).best])
<1>. DEFINE cs == candidates(p, stays)
            ds == candidates(p, more)
            c  == First(p, cs)
            d  == First(p, ds)
            b  == match(p, stays).best
<1>0. DOMAIN stays = 1..n /\ DOMAIN more = 1..(n + 1) /\ n + 1 \in Nat
    BY DEF WithTwin
<1>1. c \in cs /\ b = c.at /\ d \in ds /\ (Clear(p, d, ds) \/ SureOne(d))
    BY <1>0, Unambiguous
<1>2. /\ AreCandidates(p, cs, n) /\ AreCandidates(p, ds, n + 1)
      /\ \A e \in cs \ {c} : Before(p, c, e)
      /\ \A e \in ds \ {d} : Before(p, d, e)
    BY <1>0, <1>1, CandidatesFit, FirstOf
<1>3. /\ c.at \in 1..n /\ c.stay = stays[b] /\ c.reasons = scoreReservation(p, stays[b]).reasons
  <2>. HIDE DEF cs, c, b
  <2>1. Fits(p, stays, n, c)
      BY <1>0, <1>1, CandidateIs DEF cs
  <2>. QED
      BY <1>1, <2>1 DEF Fits
<1>4. /\ d.at \in 1..(n + 1) /\ d.reasons = scoreReservation(p, more[d.at]).reasons
      /\ d.stay = more[d.at]
  <2>. HIDE DEF ds, d
  <2>1. Fits(p, more, n + 1, d)
      BY <1>0, <1>1, CandidateIs DEF ds
  <2>. QED
      BY <2>1 DEF Fits
<1>. HIDE DEF cs, ds, c, d, b
<1>5. more[b] = stays[b] /\ more[n + 1] = stays[b] /\ b \in 1..(n + 1)
    BY <1>1, <1>3 DEF WithTwin, b
\* The chosen stay and its twin in the longer list.
<1>6. PICK x \in ds : x.at = b /\ x.score = c.score /\ x.stay = c.stay
  <2>. DEFINE x == Scored(p, more, b)
  <2>1. x \in ds /\ x.at = b /\ x.score = c.score /\ x.stay = c.stay
      BY <1>0, <1>1, <1>3, <1>5, Placed DEF cs, ds
  <2>. HIDE DEF x
  <2>. QED
      BY <2>1
<1>7. PICK y \in ds : y.at = n + 1 /\ y.score = c.score
  <2>. DEFINE y == Scored(p, more, n + 1)
  <2>1. n + 1 \in 1..(n + 1)
      OBVIOUS
  <2>2. y \in ds /\ y.at = n + 1 /\ y.score = c.score
      BY <1>0, <1>1, <1>3, <1>5, <2>1, Placed DEF cs, ds
  <2>. HIDE DEF y
  <2>. QED
      BY <2>2
<1>8. x # y
    BY <1>1, <1>3, <1>6, <1>7
<1>9. d = x \/ d = y
  <2>. SUFFICES ASSUME d # x, d # y
                PROVE  FALSE
      OBVIOUS
  <2>1. d.at # b /\ d.at # n + 1
      BY <1>1, <1>2, <1>6, <1>7 DEF AreCandidates
  <2>2. d.at \in 1..n
      BY <1>4, <2>1
  <2>3. stays[d.at] = more[d.at]
      BY <2>2 DEF WithTwin
  <2>4. PICK z \in cs : z.at = d.at /\ z.score = d.score /\ z.stay = d.stay
    <3>. DEFINE z == Scored(p, stays, d.at)
    <3>1. z \in cs /\ z.at = d.at /\ z.score = d.score /\ z.stay = d.stay
        BY <1>0, <1>1, <1>4, <2>2, <2>3, Placed DEF cs, ds
    <3>. HIDE DEF z
    <3>. QED
        BY <3>1
  <2>5. z # c
      BY <1>1, <2>1, <2>4
  <2>6. Before(p, c, z) /\ Before(p, d, x)
      BY <1>1, <1>2, <2>4, <2>5
  <2>7. Before(p, x, d)
      BY <1>1, <1>6, <2>4, <2>6 DEF Before, Preferred
  <2>. QED
      BY <1>0, <1>1, <1>2, <2>6, <2>7, BeforeStrict
<1>10. SureOne(d)
  <2>1. \A e \in ds : e.score \in Int
      BY <1>2 DEF AreCandidates
  <2>2. PICK e \in ds : e # d /\ e.score = d.score
      BY <1>6, <1>7, <1>8, <1>9
  <2>3. ~(e.score < d.score)
      BY <1>1, <2>1, <2>2
  <2>4. ~Clear(p, d, ds)
      BY <1>0, <1>1, <1>2, <2>2, <2>3, ClearIsAhead
  <2>. QED
      BY <1>1, <2>4
<1>11. more[d.at] = stays[b]
    BY <1>5, <1>6, <1>7, <1>9
<1>. QED
    BY <1>4, <1>10, <1>11, SureReasons DEF b

----------------------------------------------------------------------------
(* Totals.                                                                 *)

\* Induction up to a number, over a set of numbers.
LEMMA UpTo ==
    ASSUME NEW n \in Nat, NEW Good, 0 \in Good,
           \A k \in 0..n : k \in Good /\ k # n => k + 1 \in Good
    PROVE  n \in Good
<1>. DEFINE Bad == {k \in 0..n : k \notin Good}
<1>1. SUFFICES ASSUME Bad # {}
               PROVE  FALSE
  <2>1. n \in 0..n
      OBVIOUS
  <2>. QED
      BY <2>1
<1>2. PICK m \in Bad : \A k \in Bad : m <= k
  <2>1. Bad \in SUBSET Nat
      OBVIOUS
  <2>. HIDE DEF Bad
  <2>. QED
      BY <1>1, <2>1, LeastNumber
<1>3. m \in 0..n /\ m \notin Good /\ m # 0
    BY <1>2
<1>4. m - 1 \in 0..n /\ m - 1 # n /\ ~(m <= m - 1) /\ (m - 1) + 1 = m
    BY <1>3
<1>5. m - 1 \in Good
    BY <1>2, <1>4
<1>. HIDE DEF Bad
<1>. QED
    BY <1>3, <1>4, <1>5

\* The first n values of f are numbers.
Terms(f, n) == \A k \in 1..n : f[k] \in Int

\* Their sum.
Total(f, n) == (CHOOSE s : Adds(s, f, n))[n]

LEMMA AddsExists ==
    ASSUME NEW n \in Nat, NEW f, Terms(f, n)
    PROVE  \E s : Adds(s, f, n)
<1>. DEFINE g == [k \in 1..n |-> f[k]]
<1>1. g \in [1..n -> Int] /\ \A k \in 1..n : g[k] = f[k]
    BY DEF Terms
<1>. HIDE DEF g
<1>2. PICK s : Adds(s, g, n)
    BY <1>1, SumExists
<1>3. Adds(s, f, n)
    BY <1>1, <1>2 DEF Adds
<1>. QED
    BY <1>3

\* Sums of the same terms are the same, all the way.
LEMMA AddsSame ==
    ASSUME NEW n \in Nat, NEW m \in Nat, m <= n, NEW f, NEW g, NEW s, NEW t,
           Adds(s, f, n), Adds(t, g, m), \A k \in 1..m : f[k] = g[k]
    PROVE  s[m] = t[m]
<1>. DEFINE Good == {k \in 0..m : s[k] = t[k]}
<1>1. 0 \in Good
  <2>1. 0 \in 0..m /\ s[0] = t[0]
      BY DEF Adds
  <2>. QED
      BY <2>1
<1>2. ASSUME NEW k \in 0..m, k \in Good, k # m
      PROVE  k + 1 \in Good
  <2>1. k + 1 \in 1..m /\ k + 1 \in 1..n /\ k + 1 \in 0..m /\ (k + 1) - 1 = k
      BY <1>2
  <2>2. s[k + 1] = s[k] + f[k + 1]
      BY <2>1 DEF Adds
  <2>3. t[k + 1] = t[k] + g[k + 1]
      BY <2>1 DEF Adds
  <2>4. s[k] = t[k] /\ f[k + 1] = g[k + 1]
      BY <1>2, <2>1
  <2>. QED
      BY <2>1, <2>2, <2>3, <2>4
<1>3. m \in Good
  <2>. HIDE DEF Good
  <2>. QED
      BY <1>1, <1>2, UpTo
<1>. QED
    BY <1>3

LEMMA TotalIs ==
    ASSUME NEW n \in Nat, NEW f, Terms(f, n), NEW s, Adds(s, f, n)
    PROVE  Total(f, n) = s[n] /\ Total(f, n) \in Int
<1>. DEFINE t == CHOOSE x : Adds(x, f, n)
<1>1. Adds(t, f, n)
    OBVIOUS
<1>2. Total(f, n) = t[n]
    BY DEF Total
<1>. HIDE DEF t
<1>3. n <= n
    OBVIOUS
<1>4. t[n] = s[n]
    BY <1>1, <1>3, AddsSame
<1>5. s[n] \in Int
    BY DEF Adds
<1>. QED
    BY <1>2, <1>4, <1>5

LEMMA TotalNone ==
    ASSUME NEW f
    PROVE  Total(f, 0) = 0
<1>1. Terms(f, 0)
    BY DEF Terms
<1>2. PICK s : Adds(s, f, 0)
    BY <1>1, AddsExists, 0 \in Nat
<1>3. s[0] = 0
    BY <1>2 DEF Adds
<1>. QED
    BY <1>1, <1>2, <1>3, TotalIs, 0 \in Nat

LEMMA TotalSame ==
    ASSUME NEW n \in Nat, NEW f, NEW g, Terms(f, n), \A k \in 1..n : g[k] = f[k]
    PROVE  Total(g, n) = Total(f, n) /\ Total(g, n) \in Int /\ Terms(g, n)
<1>1. PICK s : Adds(s, f, n)
    BY AddsExists
<1>2. Adds(s, g, n)
    BY <1>1 DEF Adds
<1>3. Terms(g, n)
    BY DEF Terms
<1>. QED
    BY <1>1, <1>2, <1>3, TotalIs

LEMMA TotalStep ==
    ASSUME NEW n \in Nat, NEW f, Terms(f, n + 1)
    PROVE  /\ Total(f, n + 1) = Total(f, n) + f[n + 1]
           /\ Total(f, n) \in Int /\ f[n + 1] \in Int /\ Terms(f, n)
<1>1. n + 1 \in Nat /\ n + 1 \in 1..(n + 1) /\ n <= n + 1 /\ (n + 1) - 1 = n
    OBVIOUS
<1>2. Terms(f, n) /\ f[n + 1] \in Int
    BY <1>1 DEF Terms
<1>3. PICK s : Adds(s, f, n + 1)
    BY <1>1, AddsExists
<1>4. PICK t : Adds(t, f, n)
    BY <1>2, AddsExists
<1>5. s[n] = t[n]
    BY <1>1, <1>3, <1>4, AddsSame
<1>6. s[n + 1] = s[n] + f[n + 1]
    BY <1>1, <1>3 DEF Adds
<1>7. Total(f, n + 1) = s[n + 1]
    BY <1>1, <1>3, TotalIs
<1>8. Total(f, n) = t[n] /\ Total(f, n) \in Int
    BY <1>2, <1>4, TotalIs
<1>. QED
    BY <1>2, <1>5, <1>6, <1>7, <1>8

\* One term changes.
LEMMA TotalChange ==
    ASSUME NEW n \in Nat, NEW f, NEW g, Terms(f, n), Terms(g, n), NEW i \in 1..n,
           \A k \in 1..n : k # i => g[k] = f[k]
    PROVE  Total(g, n) = Total(f, n) + g[i] - f[i]
<1>. DEFINE Good == {k \in 0..n : k >= i => Total(g, k) = Total(f, k) + g[i] - f[i]}
<1>1. 0 \in Good
    OBVIOUS
<1>2. ASSUME NEW k \in 0..n, k \in Good, k # n
      PROVE  k + 1 \in Good
  <2>1. k \in Nat /\ k + 1 \in 1..n /\ k + 1 \in 0..n
      BY <1>2
  <2>2. Terms(f, k + 1) /\ Terms(g, k + 1)
      BY <2>1 DEF Terms
  <2>3. /\ Total(f, k + 1) = Total(f, k) + f[k + 1] /\ Total(f, k) \in Int
        /\ Total(g, k + 1) = Total(g, k) + g[k + 1] /\ Total(g, k) \in Int
        /\ Terms(f, k)
      BY <2>1, <2>2, TotalStep
  <2>4. f[k + 1] \in Int /\ g[k + 1] \in Int /\ f[i] \in Int /\ g[i] \in Int
      BY <2>1 DEF Terms
  <2>5. CASE k + 1 < i
      BY <2>1, <2>5
  <2>6. CASE k + 1 = i
    <3>1. \A j \in 1..k : g[j] = f[j]
        BY <2>1, <2>6
    <3>2. Total(g, k) = Total(f, k)
        BY <2>1, <2>3, <3>1, TotalSame
    <3>3. Total(g, k + 1) = Total(f, k + 1) + g[i] - f[i]
        BY <2>3, <2>4, <2>6, <3>2
    <3>. QED
        BY <2>1, <3>3
  <2>7. CASE k + 1 > i
    <3>1. k >= i /\ g[k + 1] = f[k + 1]
        BY <2>1, <2>7
    <3>2. Total(g, k) = Total(f, k) + g[i] - f[i]
        BY <1>2, <3>1
    <3>3. Total(g, k + 1) = Total(f, k + 1) + g[i] - f[i]
        BY <2>3, <2>4, <3>1, <3>2
    <3>. QED
        BY <2>1, <3>3
  <2>. QED
      BY <2>1, <2>5, <2>6, <2>7
<1>3. n \in Good
  <2>. HIDE DEF Good
  <2>. QED
      BY <1>1, <1>2, UpTo
<1>. QED
    BY <1>3

\* One term is taken out.
LEMMA TotalTakenOut ==
    ASSUME NEW n \in Nat, NEW f, NEW g, Terms(f, n + 1), NEW i \in 1..(n + 1),
           \A k \in 1..n : g[k] = IF k < i THEN f[k] ELSE f[k + 1]
    PROVE  Total(g, n) = Total(f, n + 1) - f[i] /\ Terms(g, n)
<1>0. Terms(g, n)
  <2>1. ASSUME NEW k \in 1..n
        PROVE  g[k] \in Int
    <3>1. k \in 1..(n + 1) /\ k + 1 \in 1..(n + 1)
        OBVIOUS
    <3>2. f[k] \in Int /\ f[k + 1] \in Int
        BY <3>1 DEF Terms
    <3>. QED
        BY <3>2
  <2>. QED
      BY <2>1 DEF Terms
<1>. DEFINE Good == {k \in 0..n : k + 1 >= i => Total(g, k) = Total(f, k + 1) - f[i]}
<1>1. \A k \in 0..n : k + 1 = i => Total(g, k) = Total(f, k + 1) - f[i]
  <2>. SUFFICES ASSUME NEW k \in 0..n, k + 1 = i
                PROVE  Total(g, k) = Total(f, k + 1) - f[i]
      OBVIOUS
  <2>1. Terms(f, k + 1) /\ \A j \in 1..k : g[j] = f[j]
      BY DEF Terms
  <2>2. Total(f, k + 1) = Total(f, k) + f[i] /\ Total(f, k) \in Int /\ f[i] \in Int /\ Terms(f, k)
      BY <2>1, TotalStep
  <2>3. Total(g, k) = Total(f, k)
      BY <2>1, <2>2, TotalSame
  <2>. QED
      BY <2>2, <2>3
<1>2. 0 \in Good
  <2>1. 0 \in 0..n /\ (0 + 1 >= i => 0 + 1 = i)
      OBVIOUS
  <2>. QED
      BY <1>1, <2>1
<1>3. ASSUME NEW k \in 0..n, k \in Good, k # n
      PROVE  k + 1 \in Good
  <2>1. k \in Nat /\ k + 1 \in Nat /\ k + 1 \in 1..n /\ k + 1 \in 0..n /\ k + 2 \in 1..(n + 1)
        /\ (k + 1) + 1 = k + 2
      BY <1>3
  <2>2. Terms(g, k + 1) /\ Terms(f, (k + 1) + 1)
      BY <1>0, <2>1 DEF Terms
  <2>3. Total(g, k + 1) = Total(g, k) + g[k + 1] /\ Total(g, k) \in Int
      BY <2>1, <2>2, TotalStep
  <2>4. Total(f, k + 2) = Total(f, k + 1) + f[k + 2] /\ Total(f, k + 1) \in Int
      BY <2>1, <2>2, TotalStep
  <2>5. f[i] \in Int /\ f[k + 2] \in Int
      BY <2>1 DEF Terms
  <2>6. CASE k + 1 >= i
    <3>1. g[k + 1] = f[k + 2] /\ Total(g, k) = Total(f, k + 1) - f[i]
        BY <1>3, <2>1, <2>6
    <3>2. Total(g, k + 1) = Total(f, (k + 1) + 1) - f[i]
        BY <2>1, <2>3, <2>4, <2>5, <3>1
    <3>. QED
        BY <2>1, <3>2
  <2>7. CASE k + 2 = i
      BY <1>1, <2>1, <2>7
  <2>8. CASE k + 2 < i
      BY <2>1, <2>8
  <2>. QED
      BY <2>1, <2>6, <2>7, <2>8
<1>4. n \in Good
  <2>. HIDE DEF Good
  <2>. QED
      BY <1>2, <1>3, UpTo
<1>. QED
    BY <1>0, <1>4

LEMMA TotalNat ==
    ASSUME NEW n \in Nat, NEW f, \A k \in 1..n : f[k] \in Nat
    PROVE  Total(f, n) \in Nat /\ Terms(f, n)
<1>1. Terms(f, n)
    BY DEF Terms
<1>. DEFINE Good == {k \in 0..n : Total(f, k) \in Nat}
<1>2. 0 \in Good
    BY TotalNone
<1>3. ASSUME NEW k \in 0..n, k \in Good, k # n
      PROVE  k + 1 \in Good
  <2>1. k \in Nat /\ k + 1 \in 1..n /\ k + 1 \in 0..n /\ Terms(f, k + 1)
      BY <1>1, <1>3 DEF Terms
  <2>2. Total(f, k + 1) = Total(f, k) + f[k + 1]
      BY <2>1, TotalStep
  <2>3. f[k + 1] \in Nat /\ Total(f, k) \in Nat
      BY <1>3, <2>1
  <2>. QED
      BY <2>1, <2>2, <2>3
<1>4. n \in Good
  <2>. HIDE DEF Good
  <2>. QED
      BY <1>2, <1>3, UpTo
<1>. QED
    BY <1>1, <1>4

LEMMA TotalZero ==
    ASSUME NEW n \in Nat, NEW f, \A k \in 1..n : f[k] = 0
    PROVE  Total(f, n) = 0
<1>1. Terms(f, n)
    BY DEF Terms
<1>. DEFINE Good == {k \in 0..n : Total(f, k) = 0}
<1>2. 0 \in Good
    BY TotalNone
<1>3. ASSUME NEW k \in 0..n, k \in Good, k # n
      PROVE  k + 1 \in Good
  <2>1. k \in Nat /\ k + 1 \in 1..n /\ k + 1 \in 0..n /\ Terms(f, k + 1)
      BY <1>1, <1>3 DEF Terms
  <2>2. Total(f, k + 1) = Total(f, k) + f[k + 1]
      BY <2>1, TotalStep
  <2>3. f[k + 1] = 0 /\ Total(f, k) = 0
      BY <1>3, <2>1
  <2>. QED
      BY <2>1, <2>2, <2>3
<1>4. n \in Good
  <2>. HIDE DEF Good
  <2>. QED
      BY <1>2, <1>3, UpTo
<1>. QED
    BY <1>4

----------------------------------------------------------------------------
(* The inductive invariant.                                                *)

N == Len(Stays)
Payments == {e[1] : e \in Evidence}
FactLists == [Ids -> SUBSET Facts]
StayRows == [facts : SUBSET Facts, total : Int, paid : Int, due : Int,
             guest : STRING, unit : STRING, from : Int, to : Int]
PlanRows == {u \in PlanInputs : Valid(u)}
Plans == PlanRows \cup {NoPlan}
Lines == [stay : Ids, amount : Nat]

\* A payment that can be booked.
Receipts == {p \in Payments : p.amount > 0}
Pendings == [n : Nat, payment : Receipts, facts : FactLists, held : BOOLEAN]
Posts == [q : Pendings, lines : Seq(Lines)]

MatchedJob(j) ==
    /\ j.at = "matched"
    /\ j.n \in Nat /\ j.payment \in Payments /\ j.facts \in FactLists
    /\ j.stays \in [Ids -> StayRows] /\ j.held \in BOOLEAN
    /\ j.result = match(j.payment, j.stays)

Chargings == [at : {"advance"}, q : Pendings, line : Lines, done : Seq(Lines), rest : Seq(Lines)]
Advancings == [at : {"advanceWrite"}, q : Pendings, line : Lines, done : Seq(Lines),
               rest : Seq(Lines), read : PlanRows, next : Plans]
Nexts == [at : {"next"}, q : Pendings, done : Seq(Lines), rest : Seq(Lines)]
Reverses == [at : {"reverse"}, q : Pendings, rest : Seq(Lines)]
Reversings == [at : {"reverseWrite"}, q : Pendings, line : Lines, rest : Seq(Lines),
               read : PlanRows, next : Plans]

JobTypes(j) ==
    \/ j = Idle
    \/ MatchedJob(j)
    \/ j \in Chargings /\ Len(j.done) + Len(j.rest) <= 1
    \/ j \in Advancings /\ Len(j.done) + Len(j.rest) <= 1
    \/ j \in Nexts /\ Len(j.done) + Len(j.rest) <= 2 /\ j.done # << >>
    \/ j \in Reverses /\ j.rest # << >>
    \/ j \in Reversings

StoresOK ==
    /\ plan \in [Ids -> Plans] /\ paid \in [Ids -> Int]
    /\ ref \in [Ids -> Nat] /\ queue \subseteq Pendings
    /\ applied \in Seq(Posts) /\ \A n \in DOMAIN applied : applied[n].lines # << >>
    /\ count \in 0..MaxPayments

\* What a handler writes into a plan, there is a plan to write it into.
RowThere ==
    \A h \in Handlers :
        job[h].at \in {"advanceWrite", "reverseWrite"} /\ job[h].next # NoPlan
            => plan[job[h].line.stay] # NoPlan

JobsOK == DOMAIN job = Handlers /\ \A h \in Handlers : JobTypes(job[h])

\* What a line books on a stay, and what a handler has booked so far.
Share(line, i) == IF line.stay = i THEN line.amount ELSE 0
Hand(j, i) ==
    IF j.at \in {"advance", "advanceWrite"} THEN BookedOn(j.done, i) + Share(j.line, i)
    ELSE IF j.at = "next" THEN BookedOn(j.done, i)
    ELSE 0

Books(a, i) == [n \in 1..Len(a) |-> BookedOn(a[n].lines, i)]
Booked(a, i) == Total(Books(a, i), Len(a))

\* The handlers one after the other.
Hands(e, H, jobs, i) == [k \in 1..H |-> Hand(jobs[e[k]], i)]
InHands(e, H, jobs, i) == Total(Hands(e, H, jobs, i), H)

\* The charges of a stay are those of the booked payments, of the bookings
\* under way, and what was there before.
Covered(e, H) == \A i \in Ids : paid[i] >= Booked(applied, i) + InHands(e, H, job, i)

MatchingIInv(e, H) == StoresOK /\ JobsOK /\ RowThere /\ Covered(e, H)

----------------------------------------------------------------------------
(* Dates and plans.                                                        *)

LEMMA DaysInMonth ==
    ASSUME NEW m \in Int
    PROVE  /\ MonthOfYear(m) \in 1..12 /\ DaysIn(m) \in Int /\ DaysIn(m) >= 28 /\ DaysIn(m) <= 31
<1>. DEFINE k == MonthOfYear(m)
<1>1. k \in 1..12
    BY DEF MonthOfYear
<1>2. DaysIn(m) = DaysBefore[k + 1] - DaysBefore[k]
    BY DEF DaysIn
<1>. HIDE DEF k
<1>3. k = 1 \/ k = 2 \/ k = 3 \/ k = 4 \/ k = 5 \/ k = 6 \/ k = 7 \/ k = 8 \/ k = 9
      \/ k = 10 \/ k = 11 \/ k = 12
    BY <1>1
<1>4. DaysIn(m) = 31 \/ DaysIn(m) = 30 \/ DaysIn(m) = 28
    BY <1>2, <1>3 DEF DaysBefore
<1>. QED
    BY <1>1, <1>4 DEF k

LEMMA MonthsAdded ==
    ASSUME NEW date \in Dates, NEW k \in Int
    PROVE  addMonths(date, k) \in Dates
<1>. DEFINE m == date.m + k
            d == IF date.d < DaysIn(m) THEN date.d ELSE DaysIn(m)
<1>1. date.m \in Int /\ date.d \in Int /\ date.d >= 1 /\ date.d <= 31
    BY DEF Dates
<1>2. m \in Int /\ DaysIn(m) \in Int /\ DaysIn(m) >= 28 /\ DaysIn(m) <= 31
    BY <1>1, DaysInMonth
<1>3. addMonths(date, k) = [m |-> m, d |-> d]
    BY DEF addMonths, Lesser
<1>. HIDE DEF m
<1>4. d \in 1..31 /\ d <= DaysIn(m)
    BY <1>1, <1>2
<1>. HIDE DEF d
<1>. QED
    BY <1>2, <1>3, <1>4 DEF Dates

LEMMA DayIsDate ==
    ASSUME NEW n \in Int
    PROVE  DateOf(n) \in Dates
<1>. DEFINE year == (n - 1) \div 365
            day  == (n - 1) % 365
            InMonth(k) == DaysBefore[k] <= day /\ day < DaysBefore[k + 1]
            m == CHOOSE k \in 1..12 : InMonth(k)
<1>1. year \in Int /\ day \in Int /\ 0 <= day /\ day < 365
    OBVIOUS
<1>2. DateOf(n) = [m |-> 12 * year + m, d |-> day - DaysBefore[m] + 1]
    BY DEF DateOf
<1>. HIDE DEF year, day
<1>3. \E k \in 1..12 : InMonth(k)
  <2>1. \/ InMonth(1) \/ InMonth(2) \/ InMonth(3) \/ InMonth(4) \/ InMonth(5) \/ InMonth(6)
        \/ InMonth(7) \/ InMonth(8) \/ InMonth(9) \/ InMonth(10) \/ InMonth(11) \/ InMonth(12)
      BY <1>1 DEF DaysBefore
  <2>. HIDE DEF InMonth
  <2>. QED
      BY <2>1
<1>4. m \in 1..12 /\ InMonth(m)
  <2>. HIDE DEF InMonth
  <2>. QED
      BY <1>3
<1>. HIDE DEF m
<1>5. MonthOfYear(12 * year + m) = m
  <2>1. m - 1 \in Int /\ 0 <= m - 1 /\ m - 1 < 12
      BY <1>4
  <2>2. ((12 * year + m) - 1) % 12 = m - 1
      BY <1>1, <1>4, <2>1
  <2>. DEFINE x == 12 * year + m
  <2>3. (x - 1) % 12 = m - 1
      BY <2>2, Zenon
  <2>. HIDE DEF x
  <2>4. MonthOfYear(x) = (m - 1) + 1
      BY <2>3 DEF MonthOfYear
  <2>5. (m - 1) + 1 = m
      BY <1>4
  <2>. QED
      BY <2>4, <2>5 DEF x
<1>6. DaysIn(12 * year + m) = DaysBefore[m + 1] - DaysBefore[m]
    BY <1>5 DEF DaysIn
<1>7. DaysBefore[m] \in Int /\ DaysBefore[m + 1] \in Int /\ DaysBefore[m + 1] - DaysBefore[m] <= 31
  <2>1. m = 1 \/ m = 2 \/ m = 3 \/ m = 4 \/ m = 5 \/ m = 6 \/ m = 7 \/ m = 8 \/ m = 9
        \/ m = 10 \/ m = 11 \/ m = 12
      BY <1>4
  <2>. QED
      BY <2>1 DEF DaysBefore
<1>. DEFINE d == day - DaysBefore[m] + 1
<1>8. d \in 1..31 /\ d <= DaysIn(12 * year + m)
    BY <1>1, <1>4, <1>6, <1>7
<1>9. 12 * year + m \in Int
    BY <1>1, <1>4
<1>. HIDE DEF d
<1>10. [m |-> 12 * year + m, d |-> d] \in Dates
    BY <1>8, <1>9 DEF Dates
<1>. QED
    BY <1>2, <1>10 DEF d

LEMMA DayNumberType ==
    ASSUME NEW date \in Dates
    PROVE  DayNumber(date) \in Int
<1>1. date.m \in Int /\ date.d \in Int
    BY DEF Dates
<1>. DEFINE k == MonthOfYear(date.m)
<1>2. k \in 1..12
    BY <1>1, DaysInMonth
<1>. HIDE DEF k
<1>3. DaysBefore[k] \in Int
  <2>1. k = 1 \/ k = 2 \/ k = 3 \/ k = 4 \/ k = 5 \/ k = 6 \/ k = 7 \/ k = 8 \/ k = 9
        \/ k = 10 \/ k = 11 \/ k = 12
      BY <1>2
  <2>. QED
      BY <2>1 DEF DaysBefore
<1>4. (date.m - 1) \div 12 \in Int
    BY <1>1
<1>. QED
    BY <1>1, <1>3, <1>4 DEF DayNumber, k

\* A date of a plan moves to a date.
LEMMA DueDates ==
    ASSUME NEW u \in PlanRows, NEW date \in Dates
    PROVE  advanceDueDate(date, u) \in Dates /\ rewindDueDate(date, u) \in Dates
<1>1. /\ u.freq = "WEEKLY" \/ u.freq = "SEMI_MONTHLY" \/ u.freq = "MONTHLY" \/ u.freq = "CUSTOM"
      /\ u.custom \in Int
    BY DEF PlanRows, PlanInputs, Valid, Frequencies
<1>2. CASE u.freq = "MONTHLY"
    BY <1>2, MonthsAdded DEF advanceDueDate, rewindDueDate
<1>3. CASE u.freq # "MONTHLY"
  <2>1. Period(u) \in Int
      BY <1>1, <1>3 DEF Period
  <2>2. DayNumber(date) + Period(u) \in Int /\ DayNumber(date) + (0 - Period(u)) \in Int
        /\ 0 - Period(u) \in Int
      BY <2>1, DayNumberType
  <2>3. addDays(date, Period(u)) \in Dates /\ addDays(date, 0 - Period(u)) \in Dates
      BY <2>2, DayIsDate DEF addDays
  <2>. QED
      BY <1>3, <2>3 DEF advanceDueDate, rewindDueDate
<1>. QED
    BY <1>2, <1>3

\* What is written after a payment or its reversal is a plan again.
LEMMA PlanApplied ==
    ASSUME NEW u \in PlanRows, NEW amount \in Nat, NEW remaining \in Int
    PROVE  applyPaymentToPlan(u, amount, remaining, Today) \in PlanRows
<1>1. /\ u \in PlanInputs /\ u.inst \in Int /\ u.inst >= 1 /\ u.due \in Int /\ u.due >= 0
      /\ u.toward \in Int /\ u.toward >= 0 /\ u.next \in Dates \cup {NoDate}
    BY DEF PlanRows, PlanInputs, Valid
<1>. DEFINE covers == amountsClose(amount, u.due) \/ amount + 50 >= u.due
            left == IF covers THEN u.inst ELSE u.due - amount
            due  == IF remaining <= 50 THEN 0 ELSE Lesser(left, remaining)
            next == IF covers THEN advanceDueDate(IF u.next = NoDate THEN Today ELSE u.next, u)
                              ELSE u.next
<1>2. due \in Int /\ due >= 0
    BY <1>1 DEF Lesser
<1>3. next \in Dates \cup {NoDate}
  <2>1. (IF u.next = NoDate THEN Today ELSE u.next) \in Dates
      BY <1>1, MatchingAssumption
  <2>. QED
      BY <1>1, <2>1, DueDates
<1>4. applyPaymentToPlan(u, amount, remaining, Today)
      = [u EXCEPT !.toward = u.toward + amount, !.next = next, !.due = due]
    BY <1>1 DEF applyPaymentToPlan, PlanInputs
<1>5. u.toward + amount \in Int /\ u.toward + amount >= 0
    BY <1>1
<1>. HIDE DEF due, next
<1>. QED
    BY <1>1, <1>2, <1>3, <1>4, <1>5 DEF PlanRows, PlanInputs, Valid

LEMMA PlanReversed ==
    ASSUME NEW u \in PlanRows, NEW amount \in Nat, NEW remaining \in Int
    PROVE  reversePaymentOnPlan(u, amount, remaining) \in PlanRows
<1>1. /\ u \in PlanInputs /\ u.inst \in Int /\ u.inst >= 1 /\ u.due \in Int /\ u.due >= 0
      /\ u.toward \in Int /\ u.toward >= 0 /\ u.next \in Dates \cup {NoDate}
    BY DEF PlanRows, PlanInputs, Valid
<1>. DEFINE whole == amountsClose(amount, u.inst) \/ amountsClose(amount, u.due)
                     \/ amount + 50 >= u.inst
            more == IF whole THEN u.inst ELSE u.due + amount
            due  == IF remaining > 0 THEN Lesser(Greater(more, amount), remaining) ELSE more
            next == IF whole /\ u.next # NoDate THEN rewindDueDate(u.next, u) ELSE u.next
            toward == Greater(0, u.toward - amount)
<1>2. due \in Int /\ due >= 0
    BY <1>1 DEF Lesser, Greater
<1>3. next \in Dates \cup {NoDate}
  <2>1. u.next # NoDate => u.next \in Dates
      BY <1>1
  <2>. QED
      BY <1>1, <2>1, DueDates
<1>4. reversePaymentOnPlan(u, amount, remaining)
      = [u EXCEPT !.toward = toward, !.next = next, !.due = due]
    BY <1>1 DEF reversePaymentOnPlan, PlanInputs
<1>5. toward \in Int /\ toward >= 0
    BY <1>1 DEF Greater
<1>. HIDE DEF due, next, toward
<1>. QED
    BY <1>1, <1>2, <1>3, <1>4, <1>5 DEF PlanRows, PlanInputs, Valid

\* The three fields of the ledger are written into a plan.
LEMMA PlanWritten ==
    ASSUME NEW u \in PlanRows, NEW v \in PlanRows
    PROVE  [u EXCEPT !.toward = v.toward, !.due = v.due, !.next = v.next] \in PlanRows
BY DEF PlanRows, PlanInputs, Valid

----------------------------------------------------------------------------
(* What is booked.                                                         *)

Shares(lines, i) == [k \in 1..Len(lines) |-> Share(lines[k], i)]

LEMMA BookedIsTotal ==
    ASSUME NEW lines \in Seq(Lines), NEW i
    PROVE  /\ BookedOn(lines, i) = Total(Shares(lines, i), Len(lines))
           /\ BookedOn(lines, i) \in Nat /\ Terms(Shares(lines, i), Len(lines))
<1>. DEFINE n == Len(lines)
            f == Shares(lines, i)
<1>1. n \in Nat /\ \A k \in 1..n : lines[k].amount \in Nat
  <2>1. n \in Nat /\ \A k \in 1..n : lines[k] \in Lines
      OBVIOUS
  <2>2. \A x \in Lines : x.amount \in Nat
      BY DEF Lines
  <2>. QED
      BY <2>1, <2>2
<1>2. /\ f = [k \in 1..n |-> f[k]]
      /\ \A k \in 1..n : /\ f[k] = IF lines[k].stay = i THEN lines[k].amount ELSE 0
                         /\ f[k] \in Nat /\ f[k] \in Int
    BY <1>1 DEF Shares, Share
<1>. DEFINE s == CHOOSE g : g = [k \in 0..n |-> IF k = 0 THEN 0 ELSE g[k - 1] + f[k]]
            r == CHOOSE g : g = [k \in 0..n |-> IF k = 0 THEN 0
                                 ELSE g[k - 1] + IF lines[k].stay = i THEN lines[k].amount ELSE 0]
<1>3. BookedOn(lines, i) = r[n]
    BY DEF BookedOn
<1>4. ASSUME NEW g
      PROVE  [k \in 0..n |-> IF k = 0 THEN 0
                             ELSE g[k - 1] + IF lines[k].stay = i THEN lines[k].amount ELSE 0]
             = [k \in 0..n |-> IF k = 0 THEN 0 ELSE g[k - 1] + f[k]]
  <2>. HIDE DEF f, n
  <2>1. \A k \in 0..n : k # 0 => k \in 1..n
      BY <1>1
  <2>. QED
      BY <1>2, <2>1
<1>5. r = s
    BY <1>4
<1>6. Adds(s, f, n)
  <2>. HIDE DEF f, n
  <2>1. f \in [1..n -> Int]
      BY <1>2
  <2>. QED
      BY <1>1, <2>1, SumDefined
<1>. HIDE DEF s, r, f, n
<1>7. Total(f, n) \in Nat /\ Terms(f, n)
    BY <1>1, <1>2, TotalNat
<1>8. Total(f, n) = s[n]
    BY <1>1, <1>6, <1>7, TotalIs
<1>. QED
    BY <1>3, <1>5, <1>7, <1>8 DEF f, n

LEMMA BookedNone ==
    ASSUME NEW i
    PROVE  BookedOn(<< >>, i) = 0
<1>1. << >> \in Seq(Lines) /\ Len(<< >>) = 0
    OBVIOUS
<1>2. BookedOn(<< >>, i) = Total(Shares(<< >>, i), 0)
    BY <1>1, BookedIsTotal
<1>. QED
    BY <1>2, TotalNone

LEMMA BookedMore ==
    ASSUME NEW lines \in Seq(Lines), NEW line \in Lines, NEW i
    PROVE  /\ BookedOn(Append(lines, line), i) = BookedOn(lines, i) + Share(line, i)
           /\ BookedOn(lines, i) \in Nat /\ Share(line, i) \in Nat
<1>. DEFINE n == Len(lines)
            more == Append(lines, line)
            f == Shares(lines, i)
            g == Shares(more, i)
<1>1. n \in Nat /\ more \in Seq(Lines) /\ Len(more) = n + 1
      /\ more[n + 1] = line /\ \A k \in 1..n : more[k] = lines[k]
    OBVIOUS
<1>2. /\ g[n + 1] = Share(line, i)
      /\ \A k \in 1..n : f[k] = Share(lines[k], i) /\ g[k] = Share(lines[k], i)
  <2>1. n + 1 \in 1..(n + 1) /\ \A k \in 1..n : k \in 1..(n + 1)
      BY <1>1
  <2>2. \A k \in 1..(n + 1) : g[k] = Share(more[k], i)
      BY <1>1 DEF Shares
  <2>3. \A k \in 1..n : f[k] = Share(lines[k], i)
      BY DEF Shares
  <2>. HIDE DEF f, g, more, n
  <2>. QED
      BY <1>1, <2>1, <2>2, <2>3
<1>3. /\ BookedOn(lines, i) = Total(f, n) /\ Terms(f, n) /\ BookedOn(lines, i) \in Nat
      /\ BookedOn(more, i) = Total(g, n + 1) /\ Terms(g, n + 1)
    BY <1>1, BookedIsTotal
<1>. HIDE DEF f, g, more, n
<1>4. Total(g, n + 1) = Total(g, n) + g[n + 1]
    BY <1>1, <1>3, TotalStep
<1>5. Total(g, n) = Total(f, n)
    BY <1>1, <1>2, <1>3, TotalSame
<1>6. Share(line, i) \in Nat
    BY DEF Share, Lines
<1>. QED
    BY <1>2, <1>3, <1>4, <1>5, <1>6 DEF more

LEMMA BookedOne ==
    ASSUME NEW line \in Lines, NEW i
    PROVE  BookedOn(<<line>>, i) = Share(line, i) /\ Share(line, i) \in Nat
<1>1. << >> \in Seq(Lines) /\ Append(<< >>, line) = <<line>>
    OBVIOUS
<1>2. BookedOn(Append(<< >>, line), i) = BookedOn(<< >>, i) + Share(line, i)
      /\ Share(line, i) \in Nat
    BY <1>1, BookedMore
<1>. QED
    BY <1>1, <1>2, BookedNone

\* One more payment is booked, or one is taken out.
LEMMA BooksMore ==
    ASSUME NEW a \in Seq(Posts), NEW post \in Posts, NEW i
    PROVE  Booked(Append(a, post), i) = Booked(a, i) + BookedOn(post.lines, i)
           /\ Booked(a, i) \in Nat /\ BookedOn(post.lines, i) \in Nat
<1>. DEFINE n == Len(a)
            more == Append(a, post)
            f == Books(a, i)
            g == Books(more, i)
<1>1. n \in Nat /\ more \in Seq(Posts) /\ Len(more) = n + 1
      /\ more[n + 1] = post /\ \A k \in 1..n : more[k] = a[k] /\ a[k] \in Posts
    OBVIOUS
<1>2. /\ g[n + 1] = BookedOn(post.lines, i)
      /\ \A k \in 1..n : f[k] = BookedOn(a[k].lines, i) /\ g[k] = BookedOn(a[k].lines, i)
  <2>1. n + 1 \in 1..(n + 1) /\ \A k \in 1..n : k \in 1..(n + 1)
      BY <1>1
  <2>2. \A k \in 1..(n + 1) : g[k] = BookedOn(more[k].lines, i)
      BY <1>1 DEF Books
  <2>3. \A k \in 1..n : f[k] = BookedOn(a[k].lines, i)
      BY DEF Books
  <2>. HIDE DEF f, g, more, n
  <2>. QED
      BY <1>1, <2>1, <2>2, <2>3
<1>3. Booked(a, i) = Total(f, n) /\ Booked(more, i) = Total(g, n + 1)
    BY <1>1 DEF Booked
<1>. HIDE DEF f, g, more, n
<1>4. ASSUME NEW p \in Posts
      PROVE  BookedOn(p.lines, i) \in Nat
  <2>1. p.lines \in Seq(Lines)
      BY DEF Posts
  <2>. QED
      BY <2>1, BookedIsTotal
<1>5. Total(f, n) \in Nat /\ Terms(f, n)
  <2>1. \A k \in 1..n : f[k] \in Nat
      BY <1>1, <1>2, <1>4
  <2>. QED
      BY <1>1, <2>1, TotalNat
<1>6. Terms(g, n + 1)
  <2>1. ASSUME NEW k \in 1..(n + 1)
        PROVE  g[k] \in Int
    <3>1. k \in 1..n \/ k = n + 1
        BY <1>1
    <3>. QED
        BY <1>1, <1>2, <1>4, <3>1
  <2>. QED
      BY <2>1 DEF Terms
<1>7. Total(g, n + 1) = Total(g, n) + g[n + 1]
    BY <1>1, <1>6, TotalStep
<1>8. Total(g, n) = Total(f, n)
    BY <1>1, <1>2, <1>5, TotalSame
<1>. QED
    BY <1>2, <1>3, <1>4, <1>5, <1>7, <1>8 DEF more

\* The sequence a without its m-th element.
Without(a, m) == SubSeq(a, 1, m - 1) \o SubSeq(a, m + 1, Len(a))

LEMMA WithoutOne ==
    ASSUME NEW T, NEW a \in Seq(T), NEW m \in 1..Len(a)
    PROVE  /\ Without(a, m) \in Seq(T) /\ Len(Without(a, m)) = Len(a) - 1
           /\ \A k \in 1..(Len(a) - 1) : Without(a, m)[k] = IF k < m THEN a[k] ELSE a[k + 1]
<1>. DEFINE x == SubSeq(a, 1, m - 1)
            y == SubSeq(a, m + 1, Len(a))
<1>1. x \in Seq(T) /\ Len(x) = m - 1 /\ \A k \in 1..(m - 1) : x[k] = a[k]
    OBVIOUS
<1>2. y \in Seq(T) /\ Len(y) = Len(a) - m /\ \A k \in 1..(Len(a) - m) : y[k] = a[k + m]
    OBVIOUS
<1>3. Without(a, m) = x \o y
    BY DEF Without
<1>. HIDE DEF x, y
<1>4. x \o y \in Seq(T) /\ Len(x \o y) = Len(x) + Len(y)
  <2>1. x \in Seq(T) /\ y \in Seq(T)
      BY <1>1, <1>2
  <2>. QED
      BY <2>1, ConcatProperties
<1>5. Len(x \o y) = Len(a) - 1
    BY <1>1, <1>2, <1>4
<1>6. ASSUME NEW k \in 1..(Len(a) - 1)
      PROVE  (x \o y)[k] = IF k < m THEN a[k] ELSE a[k + 1]
  <2>1. CASE k < m
    <3>1. k \in 1..Len(x)
        BY <1>1, <2>1
    <3>2. (x \o y)[k] = x[k]
        BY <1>1, <1>2, <3>1
    <3>. QED
        BY <1>1, <2>1, <3>1, <3>2
  <2>2. CASE k >= m
    <3>1. k \in (Len(x) + 1)..(Len(x) + Len(y)) /\ k - Len(x) \in 1..(Len(a) - m)
          /\ (k - Len(x)) + m = k + 1
        BY <1>1, <1>2, <2>2
    <3>2. (x \o y)[k] = y[k - Len(x)]
        BY <1>1, <1>2, <3>1
    <3>3. y[k - Len(x)] = a[k + 1]
        BY <1>2, <3>1
    <3>4. ~(k < m)
        BY <2>2
    <3>. QED
        BY <3>2, <3>3, <3>4
  <2>3. k < m \/ k >= m
    <3>1. k \in Int /\ m \in Int
        OBVIOUS
    <3>. QED
        BY <3>1
  <2>. QED
      BY <2>1, <2>2, <2>3, Zenon
<1>. QED
    BY <1>3, <1>4, <1>5, <1>6

LEMMA BooksLess ==
    ASSUME NEW a \in Seq(Posts), NEW m \in 1..Len(a), NEW i
    PROVE  /\ Booked(Without(a, m), i) = Booked(a, i) - BookedOn(a[m].lines, i)
           /\ Booked(a, i) \in Int /\ BookedOn(a[m].lines, i) \in Int
<1>. DEFINE n == Len(a) - 1
            b == Without(a, m)
            f == Books(a, i)
            g == Books(b, i)
<1>1. n \in Nat /\ Len(a) = n + 1 /\ m \in 1..(n + 1)
    OBVIOUS
<1>4. /\ b \in Seq(Posts) /\ Len(b) = n
      /\ \A k \in 1..n : b[k] = IF k < m THEN a[k] ELSE a[k + 1]
    BY WithoutOne
<1>5. \A k \in 1..(n + 1) : a[k] \in Posts
    BY <1>1
<1>6. \A k \in 1..(n + 1) : f[k] = BookedOn(a[k].lines, i) /\ f[k] \in Nat
  <2>1. \A p \in Posts : BookedOn(p.lines, i) \in Nat
      BY BookedIsTotal DEF Posts
  <2>2. \A k \in 1..(n + 1) : f[k] = BookedOn(a[k].lines, i)
      BY <1>1 DEF Books
  <2>. HIDE DEF f, n
  <2>. QED
      BY <1>5, <2>1, <2>2
<1>7. \A k \in 1..n : g[k] = IF k < m THEN f[k] ELSE f[k + 1]
  <2>1. \A k \in 1..n : g[k] = BookedOn(b[k].lines, i)
      BY <1>4 DEF Books
  <2>2. \A k \in 1..n : k \in 1..(n + 1) /\ k + 1 \in 1..(n + 1)
      BY <1>1
  <2>. HIDE DEF f, g, n, b
  <2>. QED
      BY <1>4, <1>6, <2>1, <2>2
<1>8. Booked(a, i) = Total(f, n + 1) /\ Booked(b, i) = Total(g, n)
    BY <1>1, <1>4 DEF Booked
<1>. HIDE DEF f, g, n, b
<1>9. Total(f, n + 1) \in Nat /\ Terms(f, n + 1)
    BY <1>1, <1>6, TotalNat
<1>10. Total(g, n) = Total(f, n + 1) - f[m]
    BY <1>1, <1>7, <1>9, TotalTakenOut
<1>11. f[m] = BookedOn(a[m].lines, i) /\ f[m] \in Int
    BY <1>1, <1>6
<1>. QED
    BY <1>8, <1>9, <1>10, <1>11 DEF b

Enumerates(e, H) ==
    /\ H \in Nat /\ e \in [1..H -> Handlers]
    /\ \A h \in Handlers : \E k \in 1..H : e[k] = h
    /\ \A k, m \in 1..H : e[k] = e[m] => k = m

\* Only the charges handler h made for stay i change.
OneMoves(jobs, more, h, i) ==
    /\ \A g \in Handlers : Hand(jobs[g], i) \in Nat
    /\ Hand(more[h], i) \in Nat
    /\ \A g \in Handlers : g # h => Hand(more[g], i) = Hand(jobs[g], i)

LEMMA HandsMoved ==
    ASSUME NEW e, NEW H, Enumerates(e, H), NEW jobs, NEW more, NEW i, NEW h \in Handlers,
           OneMoves(jobs, more, h, i)
    PROVE  /\ InHands(e, H, more, i) = InHands(e, H, jobs, i) + Hand(more[h], i) - Hand(jobs[h], i)
           /\ InHands(e, H, jobs, i) \in Nat
<1>. DEFINE f == Hands(e, H, jobs, i)
            g == Hands(e, H, more, i)
<1>1. PICK k \in 1..H : e[k] = h
    BY DEF Enumerates
<1>2. H \in Nat /\ \A m \in 1..H : e[m] \in Handlers /\ (m # k => e[m] # h)
    BY <1>1 DEF Enumerates
<1>3. \A m \in 1..H : f[m] = Hand(jobs[e[m]], i) /\ g[m] = Hand(more[e[m]], i)
    BY DEF Hands
<1>. HIDE DEF f, g
<1>4. (\A m \in 1..H : f[m] \in Nat) /\ (\A m \in 1..H : g[m] \in Nat)
  <2>1. /\ \A d \in Handlers : Hand(jobs[d], i) \in Nat
        /\ \A d \in Handlers : Hand(more[d], i) \in Nat
    <3>1. \A d \in Handlers : d = h \/ Hand(more[d], i) = Hand(jobs[d], i)
        BY DEF OneMoves
    <3>. QED
        BY <3>1 DEF OneMoves
  <2>. QED
      BY <1>2, <1>3, <2>1
<1>5. Total(f, H) \in Nat /\ Terms(f, H) /\ Terms(g, H)
    BY <1>2, <1>4, TotalNat
<1>6. \A m \in 1..H : m # k => g[m] = f[m]
    BY <1>2, <1>3 DEF OneMoves
<1>7. Total(g, H) = Total(f, H) + g[k] - f[k]
    BY <1>2, <1>5, <1>6, TotalChange
<1>. QED
    BY <1>1, <1>3, <1>5, <1>7 DEF InHands, f, g

\* Nobody's charges change.
NoneMoves(jobs, more, i) ==
    /\ \A g \in Handlers : Hand(jobs[g], i) \in Nat
    /\ \A g \in Handlers : Hand(more[g], i) = Hand(jobs[g], i)

LEMMA HandsSame ==
    ASSUME NEW e, NEW H, Enumerates(e, H), NEW jobs, NEW more, NEW i, NoneMoves(jobs, more, i)
    PROVE  /\ InHands(e, H, more, i) = InHands(e, H, jobs, i)
           /\ InHands(e, H, jobs, i) \in Nat
<1>. DEFINE f == Hands(e, H, jobs, i)
            g == Hands(e, H, more, i)
<1>1. H \in Nat /\ \A m \in 1..H : e[m] \in Handlers
    BY DEF Enumerates
<1>2. \A m \in 1..H : f[m] = Hand(jobs[e[m]], i) /\ g[m] = Hand(more[e[m]], i)
    BY DEF Hands
<1>. HIDE DEF f, g
<1>3. (\A m \in 1..H : f[m] \in Nat) /\ (\A m \in 1..H : g[m] = f[m])
    BY <1>1, <1>2 DEF NoneMoves
<1>4. Total(f, H) \in Nat /\ Terms(f, H)
    BY <1>1, <1>3, TotalNat
<1>5. Total(g, H) = Total(f, H)
    BY <1>1, <1>3, <1>4, TotalSame
<1>. QED
    BY <1>4, <1>5 DEF InHands, f, g

----------------------------------------------------------------------------
(* Handlers.                                                               *)

LEMMA StayIds == N \in Nat /\ Ids = 1..N
BY MatchingAssumption DEF N, Ids

LEMMA PaymentAmounts ==
    ASSUME NEW p \in Payments
    PROVE  p.amount \in Int
BY MatchingAssumption DEF Payments

\* The decision names a stay of the list, and money that is no refund.
LEMMA MatchOutcome ==
    ASSUME NEW p, NEW stays, DOMAIN stays = Ids
    PROVE  /\ match(p, stays).best \in Ids \cup {0}
           /\ match(p, stays).decision = "UNAMBIGUOUS" =>
                 match(p, stays).best \in Ids /\ ~(p.amount <= 0)
           /\ match(p, stays).decision \notin {"BULK_PAYMENT", "REFUND", "PLATFORM_PAYOUT"} =>
                 ~(p.amount <= 0)
<1>. DEFINE cs == candidates(p, stays)
            c  == First(p, cs)
<1>1. ASSUME cs # {}
      PROVE  c.at \in Ids
  <2>1. AreCandidates(p, cs, N)
      BY StayIds, CandidatesFit
  <2>2. c \in cs
    <3>. HIDE DEF cs
    <3>. QED
        BY <1>1, <2>1, StayIds, FirstOf
  <2>3. \A d \in cs : d.at \in 1..N
      BY <2>1 DEF AreCandidates
  <2>. HIDE DEF c, cs
  <2>. QED
      BY <2>2, <2>3, StayIds
<1>. HIDE DEF cs
<1>2. ASSUME cs # {}
      PROVE  Decide(p, cs).best \in Ids \cup {0}
             /\ (Decide(p, cs).decision = "UNAMBIGUOUS" => Decide(p, cs).best \in Ids)
  <2>1. \/ Decide(p, cs).best = c.at
        \/ Decide(p, cs).best = 0 /\ Decide(p, cs).decision # "UNAMBIGUOUS"
    <3>1. \/ Decide(p, cs) = Outcome("AMBIGUOUS", c.at, Top(p, cs, 5))
          \/ Decide(p, cs) = Outcome("UNAMBIGUOUS", c.at, {c})
          \/ Decide(p, cs) = Outcome("PARTIAL_UNCLEAR", 0, {})
          \/ Decide(p, cs) = Outcome("PARTIAL_UNCLEAR", c.at, Top(p, cs, 5))
        BY Zenon DEF Decide
    <3>. HIDE DEF c
    <3>. QED
        BY <3>1 DEF Outcome
  <2>. HIDE DEF c
  <2>. QED
      BY <1>1, <1>2, <2>1 DEF c
<1>. QED
    BY <1>2 DEF match, Outcome, cs

LEMMA HandNat ==
    ASSUME NEW j, JobTypes(j), NEW i
    PROVE  Hand(j, i) \in Nat
<1>1. CASE j \in Chargings \/ j \in Advancings
  <2>1. j.done \in Seq(Lines) /\ j.line \in Lines
      BY <1>1 DEF Chargings, Advancings
  <2>2. BookedOn(j.done, i) \in Nat /\ Share(j.line, i) \in Nat
      BY <2>1, BookedMore
  <2>. QED
      BY <1>1, <2>2 DEF Hand, Chargings, Advancings
<1>2. CASE j \in Nexts
  <2>1. j.done \in Seq(Lines) /\ j.at = "next"
      BY <1>2 DEF Nexts
  <2>. QED
      BY <2>1, BookedIsTotal DEF Hand
<1>3. CASE j = Idle \/ MatchedJob(j) \/ j \in Reverses \/ j \in Reversings
  <2>1. j.at \notin {"advance", "advanceWrite"} /\ j.at # "next"
    <3>1. CASE j = Idle
        BY <3>1 DEF Idle
    <3>2. CASE MatchedJob(j)
        BY <3>2 DEF MatchedJob
    <3>3. CASE j \in Reverses \/ j \in Reversings
        BY <3>3 DEF Reverses, Reversings
    <3>. QED
        BY <1>3, <3>1, <3>2, <3>3
  <2>. QED
      BY <2>1 DEF Hand
<1>4. \/ j \in Chargings \/ j \in Advancings \/ j \in Nexts
      \/ j = Idle \/ MatchedJob(j) \/ j \in Reverses \/ j \in Reversings
    BY DEF JobTypes
<1>. QED
    BY <1>1, <1>2, <1>3, <1>4, Zenon

\* The payment is matched against what is stored.
LEMMA MatchedLoaded ==
    ASSUME StoresOK, NEW q, q.n \in Nat, q.payment \in Payments, q.facts \in FactLists,
           q.held \in BOOLEAN, NEW auto \in BOOLEAN
    PROVE  JobTypes(Matching(q, auto)) /\ \A i : Hand(Matching(q, auto), i) = 0
<1>. DEFINE stays == loadCandidateReservations(q.n, q.facts)
<1>1. stays \in [Ids -> StayRows]
  <2>1. ASSUME NEW i \in Ids
        PROVE  /\ Stays[i].facts \subseteq Facts /\ Stays[i].total \in Int
               /\ Stays[i].guest \in STRING /\ Stays[i].unit \in STRING
               /\ Stays[i].from \in Int /\ Stays[i].to \in Int /\ paid[i] \in Int
               /\ q.facts[i] \subseteq Facts
    <3>1. Stays[i] \in [total : Int, guest : STRING, unit : STRING, from : Int, to : Int,
                        facts : SUBSET Facts]
      <4>. DEFINE T == [total : Int, guest : STRING, unit : STRING, from : Int, to : Int,
                        facts : SUBSET Facts]
      <4>1. Stays \in Seq(T) /\ i \in 1..Len(Stays)
          BY MatchingAssumption, StayIds DEF N
      <4>. HIDE DEF T
      <4>2. Stays[i] \in T
          BY <4>1
      <4>. QED
          BY <4>2 DEF T
    <3>. QED
        BY <3>1 DEF StoresOK, FactLists
  <2>2. ASSUME NEW i \in Ids
        PROVE  (IF plan[i] # NoPlan /\ plan[i].enabled THEN plan[i].due ELSE 0) \in Int
    <3>1. plan[i] \in PlanRows \cup {NoPlan}
        BY DEF StoresOK, Plans
    <3>. QED
        BY <3>1 DEF PlanRows, PlanInputs
  <2>3. ASSUME NEW i \in Ids
        PROVE  Stays[i].facts \cup
                 (IF ref[i] = 0 THEN q.facts[i]
                  ELSE (q.facts[i] \ {"ref"}) \cup (IF ref[i] = q.n THEN {"code"} ELSE {}))
               \in SUBSET Facts
    <3>1. "code" \in Facts
        BY DEF Facts
    <3>. QED
        BY <2>1, <3>1
  <2>. QED
      BY <2>1, <2>2, <2>3 DEF loadCandidateReservations, StayRows
<1>2. Matching(q, auto) =
        [at |-> "matched", n |-> q.n, payment |-> q.payment, facts |-> q.facts, stays |-> stays,
         held |-> q.held, auto |-> auto, result |-> match(q.payment, stays)]
    BY DEF Matching
<1>. HIDE DEF stays
<1>. DEFINE x == Matching(q, auto)
<1>3. MatchedJob(x)
    BY <1>1, <1>2 DEF MatchedJob
<1>4. x.at = "matched"
    BY <1>2
<1>. HIDE DEF x
<1>. QED
    BY <1>3, <1>4 DEF JobTypes, Hand, x

\* One handler has something else to do.
LEMMA JobSet ==
    ASSUME JobsOK, NEW h \in Handlers, NEW x, JobTypes(x), job' = [job EXCEPT ![h] = x]
    PROVE  JobsOK' /\ job'[h] = x /\ \A g \in Handlers : g # h => job'[g] = job[g]
BY DEF JobsOK

\* The charges stay covered when a stay gains what the booked payments and
\* the handler gain.
LEMMA CoveredStep ==
    ASSUME NEW e, NEW H, Enumerates(e, H), JobsOK, StoresOK, Covered(e, H),
           NEW h \in Handlers, NEW x, JobTypes(x), job' = [job EXCEPT ![h] = x],
           \A i \in Ids : /\ Booked(applied, i) \in Int /\ Booked(applied, i)' \in Int
                          /\ paid'[i] \in Int
                          /\ paid'[i] - Booked(applied, i)' - Hand(x, i)
                                >= paid[i] - Booked(applied, i) - Hand(job[h], i)
    PROVE  Covered(e, H)'
<1>1. job'[h] = x /\ \A g \in Handlers : g # h => job'[g] = job[g]
    BY JobSet
<1>2. SUFFICES ASSUME NEW i \in Ids
               PROVE  paid'[i] >= Booked(applied', i) + InHands(e, H, job', i)
    BY DEF Covered
<1>3. (\A g \in Handlers : Hand(job[g], i) \in Nat) /\ Hand(x, i) \in Nat
    BY HandNat DEF JobsOK
<1>4. /\ InHands(e, H, job', i) = InHands(e, H, job, i) + Hand(x, i) - Hand(job[h], i)
      /\ InHands(e, H, job, i) \in Nat
  <2>. DEFINE jobs == job
              more == job'
  <2>1. more[h] = x /\ OneMoves(jobs, more, h, i)
      BY <1>1, <1>3 DEF OneMoves
  <2>. HIDE DEF jobs, more
  <2>2. /\ InHands(e, H, more, i) = InHands(e, H, jobs, i) + Hand(more[h], i) - Hand(jobs[h], i)
        /\ InHands(e, H, jobs, i) \in Nat
      BY <2>1, HandsMoved
  <2>. QED
      BY <2>1, <2>2 DEF jobs, more
<1>5. paid[i] >= Booked(applied, i) + InHands(e, H, job, i) /\ paid[i] \in Int
    BY DEF Covered, StoresOK
<1>6. Booked(applied, i)' = Booked(applied', i)
    OBVIOUS
<1>. DEFINE P == paid'[i]
            B == Booked(applied', i)
<1>7. /\ B \in Int /\ P \in Int /\ Booked(applied, i) \in Int /\ Hand(job[h], i) \in Int
      /\ P - B - Hand(x, i) >= paid[i] - Booked(applied, i) - Hand(job[h], i)
    BY <1>3, <1>6
<1>. HIDE DEF P, B
<1>8. P >= B + InHands(e, H, job', i)
    BY <1>3, <1>4, <1>5, <1>7
<1>. QED
    BY <1>8 DEF P, B

LEMMA JobAt ==
    ASSUME NEW j, JobTypes(j)
    PROVE  /\ j.at = "matched" => MatchedJob(j)
           /\ j.at = "advance" => j \in Chargings /\ Len(j.done) + Len(j.rest) <= 1
           /\ j.at = "advanceWrite" => j \in Advancings /\ Len(j.done) + Len(j.rest) <= 1
           /\ j.at = "next" => j \in Nexts /\ Len(j.done) + Len(j.rest) <= 2 /\ j.done # << >>
           /\ j.at = "reverse" => j \in Reverses /\ j.rest # << >>
           /\ j.at = "reverseWrite" => j \in Reversings
<1>1. CASE j = Idle
    BY <1>1 DEF Idle
<1>2. CASE MatchedJob(j)
    BY <1>2 DEF MatchedJob
<1>3. CASE j \in Chargings /\ Len(j.done) + Len(j.rest) <= 1
  <2>1. j.at = "advance"
      BY <1>3 DEF Chargings
  <2>. QED
      BY <1>3, <2>1
<1>4. CASE j \in Advancings /\ Len(j.done) + Len(j.rest) <= 1
  <2>1. j.at = "advanceWrite"
      BY <1>4 DEF Advancings
  <2>. QED
      BY <1>4, <2>1
<1>5. CASE j \in Nexts /\ Len(j.done) + Len(j.rest) <= 2 /\ j.done # << >>
  <2>1. j.at = "next"
      BY <1>5 DEF Nexts
  <2>. QED
      BY <1>5, <2>1
<1>6. CASE j \in Reverses /\ j.rest # << >>
  <2>1. j.at = "reverse"
      BY <1>6 DEF Reverses
  <2>. QED
      BY <1>6, <2>1
<1>7. CASE j \in Reversings
  <2>1. j.at = "reverseWrite"
      BY <1>7 DEF Reversings
  <2>. QED
      BY <1>7, <2>1
<1>8. \/ j = Idle \/ MatchedJob(j)
      \/ j \in Chargings /\ Len(j.done) + Len(j.rest) <= 1
      \/ j \in Advancings /\ Len(j.done) + Len(j.rest) <= 1
      \/ j \in Nexts /\ Len(j.done) + Len(j.rest) <= 2 /\ j.done # << >>
      \/ j \in Reverses /\ j.rest # << >>
      \/ j \in Reversings
    BY Zenon DEF JobTypes
<1>. QED
    BY <1>1, <1>2, <1>3, <1>4, <1>5, <1>6, <1>7, <1>8, Zenon

\* Who writes a plan has a line of a stay there is.
LEMMA WriterLine ==
    ASSUME NEW j, JobTypes(j), j.at \in {"advanceWrite", "reverseWrite"}
    PROVE  j.line \in Lines /\ j.line.stay \in Ids /\ j.next \in Plans /\ j.q \in Pendings
<1>1. j \in Advancings \/ j \in Reversings
    BY JobAt
<1>2. j.line \in Lines /\ j.next \in Plans /\ j.q \in Pendings
    BY <1>1 DEF Advancings, Reversings
<1>. QED
    BY <1>2 DEF Lines

\* No plan is deleted: what is to be written still has its row.
LEMMA RowsKept ==
    ASSUME JobsOK, RowThere, NEW h \in Handlers, NEW x, JobTypes(x), job' = [job EXCEPT ![h] = x],
           \A i \in Ids : plan[i] # NoPlan => plan'[i] # NoPlan,
           x.at \in {"advanceWrite", "reverseWrite"} /\ x.next # NoPlan => plan'[x.line.stay] # NoPlan
    PROVE  RowThere'
<1>1. job'[h] = x /\ \A g \in Handlers : g # h => job'[g] = job[g]
    BY JobSet
<1>2. SUFFICES ASSUME NEW g \in Handlers, job'[g].at \in {"advanceWrite", "reverseWrite"},
                      job'[g].next # NoPlan
               PROVE  plan'[job'[g].line.stay] # NoPlan
    BY DEF RowThere
<1>3. CASE g = h
    BY <1>1, <1>2, <1>3
<1>4. CASE g # h
  <2>1. job'[g] = job[g]
      BY <1>1, <1>4
  <2>2. job[g].line.stay \in Ids
      BY <1>2, <2>1, WriterLine DEF JobsOK
  <2>3. plan[job[g].line.stay] # NoPlan
      BY <1>2, <2>1 DEF RowThere
  <2>. QED
      BY <2>1, <2>2, <2>3
<1>. QED
    BY <1>3, <1>4

LEMMA BookedNat ==
    ASSUME StoresOK, NEW i
    PROVE  Booked(applied, i) \in Nat /\ Booked(applied, i) \in Int
<1>. DEFINE f == Books(applied, i)
            n == Len(applied)
<1>1. n \in Nat /\ \A k \in 1..n : applied[k] \in Posts
    BY DEF StoresOK
<1>2. \A p \in Posts : BookedOn(p.lines, i) \in Nat
    BY BookedIsTotal DEF Posts
<1>3. \A k \in 1..n : f[k] = BookedOn(applied[k].lines, i)
    BY DEF Books
<1>. HIDE DEF f, n
<1>4. \A k \in 1..n : f[k] \in Nat
    BY <1>1, <1>2, <1>3
<1>5. Total(f, n) \in Nat
    BY <1>1, <1>4, TotalNat
<1>. QED
    BY <1>5 DEF Booked, f, n

\* A step in which a handler books nothing and takes nothing back.
LEMMA QuietStep ==
    ASSUME NEW e, NEW H, Enumerates(e, H), MatchingIInv(e, H), StoresOK',
           NEW h \in Handlers, NEW x, JobTypes(x), job' = [job EXCEPT ![h] = x],
           \A i \in Ids : Hand(x, i) = Hand(job[h], i),
           \A i \in Ids : plan[i] # NoPlan => plan'[i] # NoPlan,
           x.at \in {"advanceWrite", "reverseWrite"} /\ x.next # NoPlan => plan'[x.line.stay] # NoPlan,
           paid' = paid, applied' = applied
    PROVE  MatchingIInv(e, H)'
<1>1. JobsOK /\ StoresOK /\ RowThere /\ Covered(e, H)
    BY DEF MatchingIInv
<1>2. JobsOK'
    BY <1>1, JobSet
<1>3. RowThere'
    BY <1>1, RowsKept
<1>4. Covered(e, H)'
  <2>1. ASSUME NEW i \in Ids
        PROVE  /\ Booked(applied, i) \in Int /\ Booked(applied, i)' \in Int
               /\ paid'[i] \in Int
               /\ paid'[i] - Booked(applied, i)' - Hand(x, i)
                     >= paid[i] - Booked(applied, i) - Hand(job[h], i)
    <3>1. Booked(applied, i) \in Int /\ paid[i] \in Int
        BY <1>1, BookedNat DEF StoresOK
    <3>2. Hand(job[h], i) \in Nat
        BY <1>1, HandNat DEF JobsOK
    <3>3. Booked(applied, i)' = Booked(applied, i)
        OBVIOUS
    <3>. QED
        BY <3>1, <3>2, <3>3
  <2>. QED
      BY <1>1, <2>1, CoveredStep
<1>. QED
    BY <1>2, <1>3, <1>4 DEF MatchingIInv

\* A charge is made and recorded.
LEMMA ChargeStep ==
    ASSUME NEW e, NEW H, Enumerates(e, H), MatchingIInv(e, H),
           NEW h \in Handlers, NEW q \in Pendings, NEW done \in Seq(Lines), NEW lines \in Seq(Lines),
           lines # << >>, Len(done) + Len(lines) <= 2,
           \A i \in Ids : Hand(job[h], i) = BookedOn(done, i),
           Charge(h, q, done, lines), queue' \subseteq Pendings, ref' \in [Ids -> Nat]
    PROVE  MatchingIInv(e, H)'
<1>1. JobsOK /\ StoresOK /\ RowThere /\ Covered(e, H)
    BY DEF MatchingIInv
<1>. DEFINE line == Head(lines)
            x == [at |-> "advance", q |-> q, line |-> line, done |-> done, rest |-> Tail(lines)]
<1>2. line \in Lines /\ Tail(lines) \in Seq(Lines) /\ Len(done) + Len(Tail(lines)) <= 1
    OBVIOUS
<1>3. /\ paid' = [paid EXCEPT ![line.stay] = @ + line.amount] /\ job' = [job EXCEPT ![h] = x]
      /\ plan' = plan /\ applied' = applied /\ count' = count
    BY DEF Charge
<1>. HIDE DEF line
<1>4. JobTypes(x)
  <2>1. x \in Chargings /\ Len(x.done) + Len(x.rest) <= 1
      BY <1>2 DEF Chargings
  <2>. QED
      BY <2>1 DEF JobTypes
<1>5. x.at = "advance" /\ \A i : Hand(x, i) = BookedOn(done, i) + Share(line, i)
    BY DEF Hand
<1>. HIDE DEF x
<1>6. line.stay \in Ids /\ line.amount \in Nat
    BY <1>2 DEF Lines
<1>7. \A i \in Ids : paid'[i] = paid[i] + Share(line, i) /\ paid[i] \in Int /\ Share(line, i) \in Nat
    BY <1>1, <1>3, <1>6 DEF StoresOK, Share
<1>8. StoresOK'
  <2>1. paid' \in [Ids -> Int]
      BY <1>1, <1>3, <1>6, <1>7 DEF StoresOK
  <2>. QED
      BY <1>1, <1>3, <2>1 DEF StoresOK
<1>9. JobsOK'
    BY <1>1, <1>3, <1>4, JobSet
<1>10. RowThere'
    BY <1>1, <1>3, <1>4, <1>5, RowsKept
<1>11. Covered(e, H)'
  <2>1. ASSUME NEW i \in Ids
        PROVE  /\ Booked(applied, i) \in Int /\ Booked(applied, i)' \in Int
               /\ paid'[i] \in Int
               /\ paid'[i] - Booked(applied, i)' - Hand(x, i)
                     >= paid[i] - Booked(applied, i) - Hand(job[h], i)
    <3>1. Booked(applied, i) \in Int
        BY <1>1, BookedNat
    <3>2. Hand(x, i) = Hand(job[h], i) + Share(line, i) /\ Hand(job[h], i) \in Nat
        BY <1>1, <1>5, HandNat DEF JobsOK
    <3>3. Booked(applied, i)' = Booked(applied, i)
        BY <1>3
    <3>. QED
        BY <1>7, <3>1, <3>2, <3>3
  <2>. QED
      BY <1>1, <1>3, <1>4, <2>1, CoveredStep
<1>. QED
    BY <1>8, <1>9, <1>10, <1>11 DEF MatchingIInv

----------------------------------------------------------------------------
(* A payment comes in and is booked.                                       *)

LEMMA MatchStep ==
    ASSUME NEW e, NEW H, Enumerates(e, H), MatchingIInv(e, H),
           NEW h \in Handlers, NEW r \in Evidence, Match(h, r)
    PROVE  MatchingIInv(e, H)'
<1>1. JobsOK /\ StoresOK
    BY DEF MatchingIInv
<1>. DEFINE q == [n |-> count + 1, payment |-> r[1], facts |-> r[2], held |-> FALSE]
            x == Matching(q, TRUE)
<1>2. q.n \in Nat /\ q.payment \in Payments /\ q.facts \in FactLists /\ q.held \in BOOLEAN
    BY <1>1, MatchingAssumption DEF StoresOK, Payments, FactLists, Ids
<1>3. job[h] = Idle /\ job' = [job EXCEPT ![h] = x] /\ count < MaxPayments /\ count' = count + 1
      /\ UNCHANGED <<plan, paid, ref, queue, applied, bookings>>
    BY DEF Match
<1>. HIDE DEF q
<1>4. JobTypes(x) /\ \A i : Hand(x, i) = 0
    BY <1>1, <1>2, MatchedLoaded
<1>5. x.at = "matched"
    BY DEF Matching
<1>6. \A i \in Ids : Hand(job[h], i) = 0
    BY <1>3 DEF Hand, Idle
<1>. HIDE DEF x
<1>7. StoresOK'
    BY <1>1, <1>3, MatchingAssumption DEF StoresOK
<1>. QED
    BY <1>3, <1>4, <1>5, <1>6, <1>7, QuietStep

LEMMA RematchStep ==
    ASSUME NEW e, NEW H, Enumerates(e, H), MatchingIInv(e, H),
           NEW h \in Handlers, NEW q \in queue, Rematch(h, q)
    PROVE  MatchingIInv(e, H)'
<1>1. JobsOK /\ StoresOK
    BY DEF MatchingIInv
<1>. DEFINE x == Matching(q, TRUE)
<1>2. q.n \in Nat /\ q.payment \in Payments /\ q.facts \in FactLists /\ q.held \in BOOLEAN
    BY <1>1 DEF StoresOK, Pendings, Receipts
<1>3. job[h] = Idle /\ job' = [job EXCEPT ![h] = x] /\ queue' = queue \ {q}
      /\ UNCHANGED <<plan, paid, ref, applied, count, bookings>>
    BY DEF Rematch
<1>4. JobTypes(x) /\ \A i : Hand(x, i) = 0
    BY <1>1, <1>2, MatchedLoaded
<1>5. x.at = "matched"
    BY DEF Matching
<1>6. \A i \in Ids : Hand(job[h], i) = 0
    BY <1>3 DEF Hand, Idle
<1>. HIDE DEF x
<1>7. StoresOK'
    BY <1>1, <1>3 DEF StoresOK
<1>. QED
    BY <1>3, <1>4, <1>5, <1>6, <1>7, QuietStep

\* A matched payment that may be booked is a receipt, and its stay exists.
LEMMA MatchedReceipt ==
    ASSUME NEW j, MatchedJob(j)
    PROVE  /\ j.result.best \in Ids \cup {0}
           /\ BooksItself(j) => j.result.best \in Ids /\ j.payment \in Receipts
           /\ j.result.decision \notin {"BULK_PAYMENT", "REFUND", "PLATFORM_PAYOUT"} =>
                 j.payment \in Receipts
<1>1. j.payment \in Payments /\ j.payment.amount \in Int
    BY PaymentAmounts DEF MatchedJob
<1>2. DOMAIN j.stays = Ids /\ j.result = match(j.payment, j.stays)
    BY DEF MatchedJob
<1>3. ~(j.payment.amount <= 0) => j.payment \in Receipts
    BY <1>1 DEF Receipts
<1>. DEFINE p == j.payment
            s == j.stays
            r == j.result
<1>4. /\ r.best \in Ids \cup {0}
      /\ r.decision = "UNAMBIGUOUS" => r.best \in Ids /\ ~(p.amount <= 0)
      /\ r.decision \notin {"BULK_PAYMENT", "REFUND", "PLATFORM_PAYOUT"} => ~(p.amount <= 0)
  <2>1. DOMAIN s = Ids /\ r = match(p, s)
      BY <1>2
  <2>. HIDE DEF p, s, r
  <2>2. /\ match(p, s).best \in Ids \cup {0}
        /\ match(p, s).decision = "UNAMBIGUOUS" => match(p, s).best \in Ids /\ ~(p.amount <= 0)
        /\ match(p, s).decision \notin {"BULK_PAYMENT", "REFUND", "PLATFORM_PAYOUT"} =>
              ~(p.amount <= 0)
      BY <2>1, MatchOutcome
  <2>. QED
      BY <2>1, <2>2, Zenon
<1>. QED
    BY <1>3, <1>4 DEF BooksItself

LEMMA PendingType ==
    ASSUME NEW j, MatchedJob(j), j.payment \in Receipts, NEW held \in BOOLEAN
    PROVE  Pending(j, held) \in Pendings
BY DEF Pending, Pendings, MatchedJob

LEMMA CodeStored ==
    ASSUME StoresOK, NEW n \in Nat, NEW p, NEW i \in Ids \cup {0},
           persistPortalBookingCodeFromPayment(n, p, i)
    PROVE  ref' \in [Ids -> Nat]
<1>1. ref \in [Ids -> Nat]
    BY DEF StoresOK
<1>2. ref' = ref \/ ref' = [ref EXCEPT ![i] = n]
    BY DEF persistPortalBookingCodeFromPayment
<1>. QED
    BY <1>1, <1>2

LEMMA IdleAgain ==
    ASSUME NEW h \in Handlers, job[h].at = "matched"
    PROVE  /\ JobTypes(Idle) /\ Idle.at = "idle"
           /\ \A i : Hand(Idle, i) = 0 /\ Hand(job[h], i) = 0
BY DEF JobTypes, Idle, Hand

LEMMA ToReviewStep ==
    ASSUME NEW e, NEW H, Enumerates(e, H), MatchingIInv(e, H), NEW h \in Handlers, ToReview(h)
    PROVE  MatchingIInv(e, H)'
<1>. DEFINE j == job[h]
<1>1. JobsOK /\ StoresOK
    BY DEF MatchingIInv
<1>2. j.at = "matched" /\ job' = [job EXCEPT ![h] = Idle]
      /\ UNCHANGED <<plan, paid, applied, count, bookings>>
    BY DEF ToReview
<1>3. MatchedJob(j)
    BY <1>1, <1>2, JobAt DEF JobsOK
<1>4. queue' \subseteq Pendings
  <2>1. \/ queue' = queue
        \/ /\ j.result.decision \notin {"BULK_PAYMENT", "REFUND", "PLATFORM_PAYOUT"}
           /\ queue' = queue \cup {Pending(j, j.held)}
      BY DEF ToReview
  <2>2. j.held \in BOOLEAN
      BY <1>3 DEF MatchedJob
  <2>. HIDE DEF j
  <2>3. j.result.decision \notin {"BULK_PAYMENT", "REFUND", "PLATFORM_PAYOUT"} =>
           Pending(j, j.held) \in Pendings
      BY <1>3, <2>2, MatchedReceipt, PendingType
  <2>. QED
      BY <1>1, <2>1, <2>3 DEF StoresOK
<1>5. ref' \in [Ids -> Nat]
  <2>1. persistPortalBookingCodeFromPayment(j.n, j.payment, j.result.best) /\ j.n \in Nat
      BY <1>3 DEF ToReview, MatchedJob
  <2>. HIDE DEF j
  <2>. QED
      BY <1>1, <1>3, <2>1, MatchedReceipt, CodeStored
<1>6. StoresOK'
    BY <1>1, <1>2, <1>4, <1>5 DEF StoresOK
<1>7. /\ JobTypes(Idle) /\ Idle.at = "idle"
      /\ \A i \in Ids : Hand(Idle, i) = Hand(job[h], i)
    BY <1>2, IdleAgain
<1>. HIDE DEF j
<1>. QED
    BY <1>2, <1>6, <1>7, QuietStep

LEMMA ApplyFailsStep ==
    ASSUME NEW e, NEW H, Enumerates(e, H), MatchingIInv(e, H), NEW h \in Handlers, ApplyFails(h)
    PROVE  MatchingIInv(e, H)'
<1>. DEFINE j == job[h]
<1>1. JobsOK /\ StoresOK
    BY DEF MatchingIInv
<1>2. j.at = "matched" /\ BooksItself(j) /\ job' = [job EXCEPT ![h] = Idle]
      /\ queue' = queue \cup {Pending(j, TRUE)}
      /\ UNCHANGED <<plan, paid, ref, applied, count, bookings>>
    BY DEF ApplyFails
<1>3. MatchedJob(j)
    BY <1>1, <1>2, JobAt DEF JobsOK
<1>4. Pending(j, TRUE) \in Pendings
  <2>. HIDE DEF j
  <2>. QED
      BY <1>2, <1>3, MatchedReceipt, PendingType
<1>5. StoresOK'
    BY <1>1, <1>2, <1>4 DEF StoresOK
<1>6. /\ JobTypes(Idle) /\ Idle.at = "idle"
      /\ \A i \in Ids : Hand(Idle, i) = Hand(job[h], i)
    BY <1>2, IdleAgain
<1>. HIDE DEF j
<1>. QED
    BY <1>2, <1>5, <1>6, QuietStep

LEMMA AutoApplyStep ==
    ASSUME NEW e, NEW H, Enumerates(e, H), MatchingIInv(e, H), NEW h \in Handlers, AutoApply(h)
    PROVE  MatchingIInv(e, H)'
<1>. DEFINE j == job[h]
            q == Pending(j, FALSE)
            line == Line(j.result.best, j.payment.amount)
<1>1. JobsOK /\ StoresOK
    BY DEF MatchingIInv
<1>2. j.at = "matched" /\ BooksItself(j) /\ Charge(h, q, << >>, <<line>>) /\ queue' = queue
      /\ persistPortalBookingCodeFromPayment(j.n, j.payment, j.result.best)
    BY DEF AutoApply, Begin
<1>3. MatchedJob(j)
    BY <1>1, <1>2, JobAt DEF JobsOK
<1>4. \A i \in Ids : Hand(j, i) = BookedOn(<< >>, i)
    BY <1>2, BookedNone DEF Hand
<1>. HIDE DEF j
<1>5. j.result.best \in Ids /\ j.payment \in Receipts /\ q \in Pendings /\ j.n \in Nat
  <2>1. j.result.best \in Ids /\ j.payment \in Receipts
      BY <1>2, <1>3, MatchedReceipt
  <2>. QED
      BY <1>3, <2>1, PendingType DEF MatchedJob
<1>. HIDE DEF q
<1>6. line \in Lines
  <2>1. j.payment.amount \in Int /\ j.payment.amount > 0
      BY <1>5, PaymentAmounts DEF Receipts
  <2>. QED
      BY <1>5, <2>1 DEF Line, Lines
<1>. HIDE DEF line
<1>7. << >> \in Seq(Lines) /\ <<line>> \in Seq(Lines) /\ <<line>> # << >>
      /\ Len(<< >>) + Len(<<line>>) <= 2
    BY <1>6
<1>8. ref' \in [Ids -> Nat]
    BY <1>1, <1>2, <1>5, CodeStored
<1>9. queue' \subseteq Pendings
    BY <1>1, <1>2 DEF StoresOK
<1>. QED
    BY <1>2, <1>4, <1>5, <1>7, <1>8, <1>9, ChargeStep DEF j

LEMMA ConfirmStep ==
    ASSUME NEW e, NEW H, Enumerates(e, H), MatchingIInv(e, H), NEW h \in Handlers,
           NEW q \in queue, NEW i \in Ids, NEW k \in Ids, confirmReview(h, q, i, k)
    PROVE  MatchingIInv(e, H)'
<1>1. JobsOK /\ StoresOK
    BY DEF MatchingIInv
<1>2. q \in Pendings
    BY <1>1 DEF StoresOK
<1>3. q.payment.amount \in Nat
  <2>1. q.payment \in Receipts
      BY <1>2 DEF Pendings
  <2>2. q.payment.amount \in Int /\ q.payment.amount > 0
      BY <2>1, PaymentAmounts DEF Receipts
  <2>. QED
      BY <2>2
<1>. DEFINE amount == q.payment.amount
            half   == amount \div 2
            lines  == IF i = k THEN <<Line(i, amount)>>
                      ELSE <<Line(i, half), Line(k, amount - half)>>
<1>4. job[h] = Idle /\ Charge(h, q, << >>, lines) /\ queue' = queue \ {q} /\ ref' = ref
    BY DEF confirmReview, Begin
<1>5. half \in Nat /\ amount - half \in Nat
    BY <1>3
<1>6. Line(i, amount) \in Lines /\ Line(i, half) \in Lines /\ Line(k, amount - half) \in Lines
    BY <1>3, <1>5 DEF Line, Lines
<1>7. << >> \in Seq(Lines) /\ lines \in Seq(Lines) /\ lines # << >> /\ Len(<< >>) + Len(lines) <= 2
    BY <1>6
<1>. HIDE DEF lines
<1>8. \A n \in Ids : Hand(job[h], n) = BookedOn(<< >>, n)
    BY <1>4, BookedNone DEF Hand, Idle
<1>9. ref' \in [Ids -> Nat] /\ queue' \subseteq Pendings
    BY <1>1, <1>4 DEF StoresOK
<1>. QED
    BY <1>2, <1>4, <1>7, <1>8, <1>9, ChargeStep

LEMMA SkipStep ==
    ASSUME NEW e, NEW H, Enumerates(e, H), MatchingIInv(e, H), NEW q \in queue, skipReview(q)
    PROVE  MatchingIInv(e, H)'
BY DEF skipReview, MatchingIInv, StoresOK, JobsOK, RowThere, Covered, InHands, Hands, Booked, Books

----------------------------------------------------------------------------
(* A booking goes on, ends or is taken back.                               *)

LEMMA BalanceType ==
    ASSUME StoresOK, NEW i \in Ids
    PROVE  remainingBalance(i) \in Int
<1>. DEFINE T == [total : Int, guest : STRING, unit : STRING, from : Int, to : Int,
                  facts : SUBSET Facts]
<1>1. Stays \in Seq(T) /\ i \in 1..Len(Stays)
    BY MatchingAssumption, StayIds DEF N
<1>2. \A s \in T : s.total \in Int
    OBVIOUS
<1>. HIDE DEF T
<1>3. Stays[i] \in T
    BY <1>1
<1>4. Stays[i].total \in Int /\ paid[i] \in Int
    BY <1>2, <1>3 DEF StoresOK
<1>. QED
    BY <1>4 DEF remainingBalance, NotNegative

\* The line in hand is done.
HasLine(j) ==
    /\ j.at \in {"advance", "advanceWrite"} /\ j.q \in Pendings /\ j.line \in Lines
    /\ j.done \in Seq(Lines) /\ j.rest \in Seq(Lines) /\ Len(j.done) + Len(j.rest) <= 1

LEMMA LineDone ==
    ASSUME NEW j, HasLine(j)
    PROVE  /\ JobTypes(Done(j)) /\ Done(j).at = "next"
           /\ \A i : Hand(Done(j), i) = Hand(j, i)
<1>. DEFINE d == j.done
            r == j.rest
            l == j.line
            x == Done(j)
            more == Append(d, l)
<1>1. x = [at |-> "next", q |-> j.q, done |-> more, rest |-> r]
    BY DEF Done
<1>2. d \in Seq(Lines) /\ r \in Seq(Lines) /\ l \in Lines /\ Len(d) + Len(r) <= 1
      /\ j.q \in Pendings
    BY DEF HasLine
<1>3. \A i : Hand(j, i) = BookedOn(d, i) + Share(l, i)
    BY DEF Hand, HasLine
<1>. HIDE DEF d, r, l, x
<1>4. more \in Seq(Lines) /\ more # << >> /\ Len(more) + Len(r) <= 2
  <2>1. Len(d) \in Nat /\ Len(r) \in Nat
      BY <1>2
  <2>2. more \in Seq(Lines) /\ Len(more) = Len(d) + 1 /\ more[Len(d) + 1] = l
      BY <1>2
  <2>3. more # << >>
      BY <2>1, <2>2, EmptySeq
  <2>. HIDE DEF more
  <2>. QED
      BY <1>2, <2>1, <2>2, <2>3
<1>5. \A i : BookedOn(more, i) = BookedOn(d, i) + Share(l, i)
    BY <1>2, BookedMore
<1>. HIDE DEF more
<1>6. x.at = "next" /\ x.done = more /\ x.rest = r
    BY <1>1
<1>7. x \in Nexts
    BY <1>1, <1>2, <1>4 DEF Nexts
<1>8. JobTypes(x)
    BY <1>4, <1>6, <1>7 DEF JobTypes
<1>9. \A i : Hand(x, i) = BookedOn(more, i)
    BY <1>6 DEF Hand
<1>10. \A i : Hand(x, i) = Hand(j, i)
    BY <1>3, <1>5, <1>9, Zenon
<1>. QED
    BY <1>6, <1>8, <1>10 DEF x

LEMMA ReadForApplyStep ==
    ASSUME NEW e, NEW H, Enumerates(e, H), MatchingIInv(e, H), NEW h \in Handlers, ReadForApply(h)
    PROVE  MatchingIInv(e, H)'
<1>. DEFINE j == job[h]
            i == j.line.stay
            y == [at |-> "advanceWrite", q |-> j.q, line |-> j.line, done |-> j.done, rest |-> j.rest,
                  read |-> plan[i], next |-> applyPaymentToPlan(plan[i], j.line.amount, remainingBalance(i), Today)]
            asks == plan[i] # NoPlan /\ plan[i].enabled
            x == IF asks THEN y ELSE Done(j)
<1>1. JobsOK /\ StoresOK
    BY DEF MatchingIInv
<1>2. j.at = "advance" /\ job' = [job EXCEPT ![h] = x]
      /\ UNCHANGED <<plan, paid, ref, queue, applied, count, bookings>>
    BY DEF ReadForApply
<1>3. j \in Chargings /\ Len(j.done) + Len(j.rest) <= 1
    BY <1>1, <1>2, JobAt DEF JobsOK
<1>. HIDE DEF j
<1>4. j.q \in Pendings /\ j.line \in Lines /\ j.done \in Seq(Lines) /\ j.rest \in Seq(Lines)
    BY <1>3 DEF Chargings
<1>5. i \in Ids /\ j.line.amount \in Nat
    BY <1>4 DEF Lines
<1>. HIDE DEF i
<1>6. ASSUME asks
      PROVE  y.next \in PlanRows /\ y \in Advancings
  <2>1. plan[i] \in PlanRows /\ remainingBalance(i) \in Int
      BY <1>1, <1>5, <1>6, BalanceType DEF StoresOK, Plans
  <2>2. applyPaymentToPlan(plan[i], j.line.amount, remainingBalance(i), Today) \in PlanRows
      BY <1>5, <2>1, PlanApplied
  <2>. QED
      BY <1>4, <2>1, <2>2 DEF Advancings, Plans
<1>7. /\ y.at = "advanceWrite" /\ y.line = j.line /\ y.done = j.done /\ y.rest = j.rest
      /\ \A k : Hand(y, k) = Hand(j, k)
    BY <1>2 DEF Hand
<1>. HIDE DEF y
<1>8. JobTypes(Done(j)) /\ Done(j).at = "next" /\ \A k : Hand(Done(j), k) = Hand(j, k)
  <2>1. HasLine(j)
      BY <1>2, <1>3, <1>4 DEF HasLine
  <2>. QED
      BY <2>1, LineDone, Zenon
<1>9. /\ JobTypes(x) /\ \A k \in Ids : Hand(x, k) = Hand(job[h], k)
      /\ x.at \in {"advanceWrite", "reverseWrite"} => plan[x.line.stay] # NoPlan
  <2>1. CASE asks
    <3>1. x = y /\ JobTypes(y) /\ plan[i] # NoPlan
        BY <1>3, <1>6, <1>7, <2>1 DEF JobTypes
    <3>. HIDE DEF x
    <3>. QED
        BY <1>7, <3>1 DEF j, i
  <2>2. CASE ~asks
    <3>1. x = Done(j)
        BY <2>2
    <3>. HIDE DEF x
    <3>. QED
        BY <1>8, <3>1 DEF j
  <2>. QED
      BY <2>1, <2>2
<1>. HIDE DEF x
<1>10. StoresOK'
    BY <1>1, <1>2 DEF StoresOK
<1>. QED
    BY <1>2, <1>9, <1>10, QuietStep

\* A plan is written by who has read it.
LEMMA PlanStays ==
    ASSUME StoresOK, RowThere, NEW h \in Handlers, JobTypes(job[h]),
           job[h].at \in {"advanceWrite", "reverseWrite"}, Write(job[h])
    PROVE  /\ plan' \in [Ids -> Plans]
           /\ \A i \in Ids : plan[i] # NoPlan => plan'[i] # NoPlan
<1>. DEFINE j == job[h]
            i == j.line.stay
            v == j.next
<1>1. plan \in [Ids -> Plans] /\ NoPlan \notin PlanRows
    BY MatchingAssumption DEF StoresOK, PlanRows
<1>2. i \in Ids /\ v \in Plans
    BY WriterLine
<1>3. plan' = IF v = NoPlan THEN plan
              ELSE [plan EXCEPT ![i].toward = v.toward, ![i].due = v.due, ![i].next = v.next]
    BY DEF Write
<1>4. v # NoPlan => plan[i] # NoPlan
    BY DEF RowThere
<1>. HIDE DEF j, i, v
<1>5. CASE v = NoPlan
    BY <1>1, <1>3, <1>5
<1>6. CASE v # NoPlan
  <2>. DEFINE w == [plan[i] EXCEPT !.toward = v.toward, !.due = v.due, !.next = v.next]
  <2>1. plan[i] \in PlanRows /\ v \in PlanRows
      BY <1>1, <1>2, <1>4, <1>6 DEF Plans
  <2>2. w \in PlanRows
      BY <2>1, PlanWritten
  <2>3. plan' = [plan EXCEPT ![i] = w]
      BY <1>1, <1>2, <1>3, <1>6
  <2>. HIDE DEF w
  <2>. QED
      BY <1>1, <1>2, <2>2, <2>3 DEF Plans
<1>. QED
    BY <1>5, <1>6

LEMMA WriteAppliedStep ==
    ASSUME NEW e, NEW H, Enumerates(e, H), MatchingIInv(e, H), NEW h \in Handlers, WriteApplied(h)
    PROVE  MatchingIInv(e, H)'
<1>. DEFINE j == job[h]
            x == Done(j)
<1>1. JobsOK /\ StoresOK /\ RowThere
    BY DEF MatchingIInv
<1>2. j.at = "advanceWrite" /\ Write(j) /\ job' = [job EXCEPT ![h] = x]
      /\ UNCHANGED <<paid, ref, queue, applied, count, bookings>>
    BY DEF WriteApplied
<1>3. JobTypes(j) /\ j \in Advancings /\ Len(j.done) + Len(j.rest) <= 1
    BY <1>1, <1>2, JobAt DEF JobsOK
<1>4. plan' \in [Ids -> Plans] /\ \A i \in Ids : plan[i] # NoPlan => plan'[i] # NoPlan
    BY <1>1, <1>2, <1>3, PlanStays
<1>. HIDE DEF j
<1>5. j.q \in Pendings /\ j.line \in Lines /\ j.done \in Seq(Lines) /\ j.rest \in Seq(Lines)
    BY <1>3 DEF Advancings
<1>6. JobTypes(x) /\ x.at = "next" /\ \A i : Hand(x, i) = Hand(j, i)
  <2>1. HasLine(j)
      BY <1>2, <1>3, <1>5 DEF HasLine
  <2>. QED
      BY <2>1, LineDone, Zenon
<1>. HIDE DEF x
<1>7. StoresOK'
    BY <1>1, <1>2, <1>4 DEF StoresOK
<1>. QED
    BY <1>2, <1>4, <1>6, <1>7, QuietStep DEF j

\* The job of a handler between two lines.
LEMMA BetweenLines ==
    ASSUME NEW j, JobTypes(j), j.at = "next"
    PROVE  /\ j.q \in Pendings /\ j.done \in Seq(Lines) /\ j.rest \in Seq(Lines)
           /\ Len(j.done) + Len(j.rest) <= 2 /\ j.done # << >>
           /\ \A i : Hand(j, i) = BookedOn(j.done, i)
<1>1. j \in Nexts /\ Len(j.done) + Len(j.rest) <= 2 /\ j.done # << >>
    BY JobAt
<1>. QED
    BY <1>1 DEF Nexts, Hand

LEMMA NextLineStep ==
    ASSUME NEW e, NEW H, Enumerates(e, H), MatchingIInv(e, H), NEW h \in Handlers, NextLine(h)
    PROVE  MatchingIInv(e, H)'
<1>. DEFINE j == job[h]
<1>1. JobsOK /\ StoresOK
    BY DEF MatchingIInv
<1>2. j.at = "next" /\ j.rest # << >> /\ Charge(h, j.q, j.done, j.rest)
      /\ ref' = ref /\ queue' = queue
    BY DEF NextLine
<1>3. /\ j.q \in Pendings /\ j.done \in Seq(Lines) /\ j.rest \in Seq(Lines)
      /\ Len(j.done) + Len(j.rest) <= 2
      /\ \A i : Hand(j, i) = BookedOn(j.done, i)
    BY <1>1, <1>2, BetweenLines DEF JobsOK
<1>4. ref' \in [Ids -> Nat] /\ queue' \subseteq Pendings
    BY <1>1, <1>2 DEF StoresOK
<1>. QED
    BY <1>2, <1>3, <1>4, ChargeStep

LEMMA IdleHand ==
    JobTypes(Idle) /\ Idle.at = "idle" /\ \A i : Hand(Idle, i) = 0
BY DEF JobTypes, Idle, Hand

LEMMA SplitFailsStep ==
    ASSUME NEW e, NEW H, Enumerates(e, H), MatchingIInv(e, H), NEW h \in Handlers, SplitFails(h)
    PROVE  MatchingIInv(e, H)'
<1>. DEFINE j == job[h]
            d == j.done[1]
<1>1. JobsOK /\ StoresOK /\ RowThere /\ Covered(e, H)
    BY DEF MatchingIInv
<1>2. j.at = "next" /\ j.rest # << >> /\ job' = [job EXCEPT ![h] = Idle]
      /\ paid' = [paid EXCEPT ![d.stay] = @ - d.amount] /\ queue' = queue \cup {j.q}
      /\ UNCHANGED <<plan, ref, applied, count, bookings>>
    BY DEF SplitFails
<1>3. /\ j.q \in Pendings /\ j.done \in Seq(Lines) /\ j.rest \in Seq(Lines)
      /\ Len(j.done) + Len(j.rest) <= 2 /\ j.done # << >>
      /\ \A i : Hand(j, i) = BookedOn(j.done, i)
    BY <1>1, <1>2, BetweenLines DEF JobsOK
<1>4. d \in Lines /\ j.done = <<d>>
  <2>. DEFINE s == j.done
              r == j.rest
  <2>1. s \in Seq(Lines) /\ r \in Seq(Lines) /\ Len(s) + Len(r) <= 2 /\ s # << >> /\ r # << >>
      BY <1>2, <1>3
  <2>. HIDE DEF s, r
  <2>2. Len(s) = 1
    <3>1. Len(s) \in Nat \ {0} /\ Len(r) \in Nat \ {0}
        BY <2>1, EmptySeq
    <3>2. \A m, n \in Nat \ {0} : m + n <= 2 => m = 1
        OBVIOUS
    <3>. QED
        BY <2>1, <3>1, <3>2, Zenon
  <2>3. s = <<s[1]>> /\ s[1] \in Lines
      BY <2>1, <2>2
  <2>. QED
      BY <2>3 DEF s
<1>5. \A i : Hand(j, i) = Share(d, i) /\ Share(d, i) \in Nat
    BY <1>3, <1>4, BookedOne
<1>. HIDE DEF j, d
<1>6. d.stay \in Ids /\ d.amount \in Nat
    BY <1>4 DEF Lines
<1>7. \A i \in Ids : paid'[i] = paid[i] - Share(d, i) /\ paid[i] \in Int
    BY <1>1, <1>2, <1>6 DEF StoresOK, Share
<1>8. StoresOK'
  <2>1. paid' \in [Ids -> Int]
      BY <1>1, <1>2, <1>5, <1>6, <1>7 DEF StoresOK
  <2>. QED
      BY <1>1, <1>2, <1>3, <2>1 DEF StoresOK
<1>9. JobsOK' /\ RowThere'
    BY <1>1, <1>2, IdleHand, JobSet, RowsKept
<1>10. Covered(e, H)'
  <2>1. ASSUME NEW i \in Ids
        PROVE  /\ Booked(applied, i) \in Int /\ Booked(applied, i)' \in Int
               /\ paid'[i] \in Int
               /\ paid'[i] - Booked(applied, i)' - Hand(Idle, i)
                     >= paid[i] - Booked(applied, i) - Hand(job[h], i)
    <3>1. Booked(applied, i) \in Int
        BY <1>1, BookedNat
    <3>2. Hand(Idle, i) = 0 /\ Hand(job[h], i) = Share(d, i) /\ Share(d, i) \in Nat
        BY <1>5, IdleHand DEF j
    <3>3. Booked(applied, i)' = Booked(applied, i)
        BY <1>2
    <3>. QED
        BY <1>7, <3>1, <3>2, <3>3
  <2>. QED
      BY <1>1, <1>2, <2>1, IdleHand, CoveredStep
<1>. QED
    BY <1>8, <1>9, <1>10 DEF MatchingIInv

LEMMA FinishStep ==
    ASSUME NEW e, NEW H, Enumerates(e, H), MatchingIInv(e, H), NEW h \in Handlers, Finish(h)
    PROVE  MatchingIInv(e, H)'
<1>. DEFINE j == job[h]
            post == [q |-> [j.q EXCEPT !.held = FALSE], lines |-> j.done]
<1>1. JobsOK /\ StoresOK /\ RowThere /\ Covered(e, H)
    BY DEF MatchingIInv
<1>2. j.at = "next" /\ job' = [job EXCEPT ![h] = Idle] /\ applied' = Append(applied, post)
      /\ UNCHANGED <<plan, paid, ref, queue, count, bookings>>
    BY DEF Finish
<1>3. /\ j.q \in Pendings /\ j.done \in Seq(Lines) /\ j.done # << >>
      /\ \A i : Hand(j, i) = BookedOn(j.done, i)
    BY <1>1, <1>2, BetweenLines DEF JobsOK
<1>. HIDE DEF j
<1>4. post \in Posts /\ post.lines = j.done
  <2>1. [j.q EXCEPT !.held = FALSE] \in Pendings
      BY <1>3 DEF Pendings
  <2>. QED
      BY <1>3, <2>1 DEF Posts
<1>. HIDE DEF post
<1>5. applied \in Seq(Posts) /\ \A n \in DOMAIN applied : applied[n].lines # << >>
    BY <1>1 DEF StoresOK
<1>6. StoresOK'
  <2>1. applied' \in Seq(Posts)
      BY <1>2, <1>4, <1>5
  <2>2. ASSUME NEW n \in DOMAIN applied'
        PROVE  applied'[n].lines # << >>
    <3>1. /\ Len(applied) \in Nat /\ DOMAIN applied = 1..Len(applied)
          /\ DOMAIN applied' = 1..(Len(applied) + 1)
          /\ applied'[Len(applied) + 1] = post
          /\ \A k \in 1..Len(applied) : applied'[k] = applied[k]
        BY <1>2, <1>4, <1>5
    <3>2. n \in 1..Len(applied) \/ n = Len(applied) + 1
        BY <3>1
    <3>. QED
        BY <1>3, <1>4, <1>5, <3>1, <3>2
  <2>. QED
      BY <1>1, <1>2, <2>1, <2>2 DEF StoresOK
<1>7. JobsOK' /\ RowThere'
    BY <1>1, <1>2, IdleHand, JobSet, RowsKept
<1>8. Covered(e, H)'
  <2>1. ASSUME NEW i \in Ids
        PROVE  /\ Booked(applied, i) \in Int /\ Booked(applied, i)' \in Int
               /\ paid'[i] \in Int
               /\ paid'[i] - Booked(applied, i)' - Hand(Idle, i)
                     >= paid[i] - Booked(applied, i) - Hand(job[h], i)
    <3>1. /\ Booked(Append(applied, post), i) = Booked(applied, i) + BookedOn(post.lines, i)
          /\ Booked(applied, i) \in Nat /\ BookedOn(post.lines, i) \in Nat
        BY <1>4, <1>5, BooksMore
    <3>2. Booked(applied, i)' = Booked(Append(applied, post), i)
        BY <1>2
    <3>3. Hand(Idle, i) = 0 /\ Hand(job[h], i) = BookedOn(post.lines, i)
        BY <1>3, <1>4, IdleHand DEF j
    <3>4. paid[i] \in Int /\ paid'[i] = paid[i]
        BY <1>1, <1>2 DEF StoresOK
    <3>. QED
        BY <3>1, <3>2, <3>3, <3>4
  <2>. QED
      BY <1>1, <1>2, <2>1, IdleHand, CoveredStep
<1>. QED
    BY <1>6, <1>7, <1>8 DEF MatchingIInv

LEMMA UndoStep ==
    ASSUME NEW e, NEW H, Enumerates(e, H), MatchingIInv(e, H), NEW h \in Handlers,
           NEW n \in DOMAIN applied, Undo(h, n)
    PROVE  MatchingIInv(e, H)'
<1>. DEFINE x == [at |-> "reverse", q |-> applied[n].q, rest |-> applied[n].lines]
<1>1. JobsOK /\ StoresOK /\ RowThere /\ Covered(e, H)
    BY DEF MatchingIInv
<1>2. /\ job[h] = Idle /\ job' = [job EXCEPT ![h] = x]
      /\ paid' = [i \in Ids |-> paid[i] - BookedOn(applied[n].lines, i)]
      /\ applied' = Without(applied, n)
      /\ UNCHANGED <<plan, ref, queue, count, bookings>>
    BY DEF Undo, Without
<1>3. applied \in Seq(Posts) /\ n \in 1..Len(applied)
      /\ \A k \in 1..Len(applied) : applied[k] \in Posts /\ applied[k].lines # << >>
    BY <1>1 DEF StoresOK
<1>4. applied[n].q \in Pendings /\ applied[n].lines \in Seq(Lines) /\ applied[n].lines # << >>
    BY <1>3 DEF Posts
<1>5. x.at = "reverse" /\ JobTypes(x) /\ \A i : Hand(x, i) = 0
  <2>1. x \in Reverses /\ x.rest # << >>
      BY <1>4 DEF Reverses
  <2>. QED
      BY <2>1 DEF JobTypes, Hand
<1>. HIDE DEF x
<1>6. \A i : BookedOn(applied[n].lines, i) \in Nat
    BY <1>4, BookedIsTotal
<1>7. StoresOK'
  <2>1. paid' \in [Ids -> Int]
      BY <1>1, <1>2, <1>6 DEF StoresOK
  <2>2. /\ Without(applied, n) \in Seq(Posts) /\ Len(Without(applied, n)) = Len(applied) - 1
        /\ \A k \in 1..(Len(applied) - 1) :
              Without(applied, n)[k] = IF k < n THEN applied[k] ELSE applied[k + 1]
      BY <1>3, WithoutOne
  <2>3. ASSUME NEW k \in DOMAIN applied'
        PROVE  applied'[k].lines # << >>
    <3>1. Len(applied) \in Nat /\ k \in 1..(Len(applied) - 1)
        BY <1>2, <1>3, <2>2
    <3>2. k \in 1..Len(applied) /\ k + 1 \in 1..Len(applied)
        BY <3>1
    <3>. QED
        BY <1>2, <1>3, <2>2, <3>1, <3>2
  <2>. QED
      BY <1>1, <1>2, <2>1, <2>2, <2>3 DEF StoresOK
<1>8. JobsOK' /\ RowThere'
    BY <1>1, <1>2, <1>5, JobSet, RowsKept
<1>9. Covered(e, H)'
  <2>1. ASSUME NEW i \in Ids
        PROVE  /\ Booked(applied, i) \in Int /\ Booked(applied, i)' \in Int
               /\ paid'[i] \in Int
               /\ paid'[i] - Booked(applied, i)' - Hand(x, i)
                     >= paid[i] - Booked(applied, i) - Hand(job[h], i)
    <3>1. /\ Booked(Without(applied, n), i) = Booked(applied, i) - BookedOn(applied[n].lines, i)
          /\ Booked(applied, i) \in Int /\ BookedOn(applied[n].lines, i) \in Int
        BY <1>3, BooksLess
    <3>2. Booked(applied, i)' = Booked(Without(applied, n), i)
        BY <1>2
    <3>3. Hand(x, i) = 0 /\ Hand(job[h], i) = 0
        BY <1>2, <1>5, IdleHand
    <3>4. paid[i] \in Int /\ paid'[i] = paid[i] - BookedOn(applied[n].lines, i)
        BY <1>1, <1>2 DEF StoresOK
    <3>. QED
        BY <3>1, <3>2, <3>3, <3>4
  <2>. QED
      BY <1>1, <1>2, <1>5, <2>1, CoveredStep
<1>. QED
    BY <1>7, <1>8, <1>9 DEF MatchingIInv

\* After the last line of an undo the payment is matched again.
LEMMA ReversingType ==
    ASSUME StoresOK, NEW q \in Pendings, NEW rest \in Seq(Lines)
    PROVE  /\ JobTypes(Reversing(q, rest)) /\ Reversing(q, rest).at \in {"matched", "reverse"}
           /\ \A i : Hand(Reversing(q, rest), i) = 0
<1>1. CASE rest = << >>
  <2>1. q.n \in Nat /\ q.payment \in Payments /\ q.facts \in FactLists /\ q.held \in BOOLEAN
      BY DEF Pendings, Receipts
  <2>2. JobTypes(Matching(q, FALSE)) /\ \A i : Hand(Matching(q, FALSE), i) = 0
      BY <2>1, MatchedLoaded
  <2>3. Matching(q, FALSE).at = "matched"
      BY DEF Matching
  <2>4. Reversing(q, rest) = Matching(q, FALSE)
      BY <1>1 DEF Reversing
  <2>. QED
      BY <2>2, <2>3, <2>4
<1>2. CASE rest # << >>
  <2>. DEFINE x == [at |-> "reverse", q |-> q, rest |-> rest]
  <2>1. Reversing(q, rest) = x
      BY <1>2 DEF Reversing
  <2>2. x \in Reverses /\ x.rest # << >> /\ x.at = "reverse"
      BY <1>2 DEF Reverses
  <2>3. JobTypes(x) /\ \A i : Hand(x, i) = 0
      BY <2>2 DEF JobTypes, Hand
  <2>. HIDE DEF x
  <2>. QED
      BY <2>1, <2>2, <2>3
<1>. QED
    BY <1>1, <1>2

LEMMA ReverseJob ==
    ASSUME NEW j, JobTypes(j), j.at \in {"reverse", "reverseWrite"}
    PROVE  /\ j.q \in Pendings /\ j.rest \in Seq(Lines)
           /\ j.at = "reverse" => j.rest # << >>
<1>1. (j \in Reverses /\ j.rest # << >>) \/ j \in Reversings
    BY JobAt
<1>2. j.q \in Pendings /\ j.rest \in Seq(Lines)
    BY <1>1 DEF Reverses, Reversings
<1>3. j \in Reversings => j.at = "reverseWrite"
    BY DEF Reversings
<1>. QED
    BY <1>1, <1>2, <1>3

LEMMA ReadForReverseStep ==
    ASSUME NEW e, NEW H, Enumerates(e, H), MatchingIInv(e, H), NEW h \in Handlers, ReadForReverse(h)
    PROVE  MatchingIInv(e, H)'
<1>. DEFINE j == job[h]
            line == Head(j.rest)
            i == line.stay
            y == [at |-> "reverseWrite", q |-> j.q, line |-> line, rest |-> Tail(j.rest),
                  read |-> plan[i], next |-> reversePaymentOnPlan(plan[i], line.amount, remainingBalance(i))]
            z == Reversing(j.q, Tail(j.rest))
            x == IF plan[i] = NoPlan THEN z ELSE y
<1>1. JobsOK /\ StoresOK
    BY DEF MatchingIInv
<1>2. j.at = "reverse" /\ job' = [job EXCEPT ![h] = x]
      /\ UNCHANGED <<plan, paid, ref, queue, applied, count, bookings>>
    BY <1>1 DEF ReadForReverse, JobsOK
<1>3. j.q \in Pendings /\ j.rest \in Seq(Lines) /\ j.rest # << >>
    BY <1>1, <1>2, ReverseJob DEF JobsOK
<1>4. line \in Lines /\ Tail(j.rest) \in Seq(Lines)
    BY <1>3
<1>5. \A k : Hand(j, k) = 0
    BY <1>2 DEF Hand
<1>6. JobTypes(z) /\ z.at \in {"matched", "reverse"} /\ \A k : Hand(z, k) = 0
    BY <1>1, <1>3, <1>4, ReversingType
<1>. HIDE DEF j, line, z
<1>7. i \in Ids /\ line.amount \in Nat
    BY <1>4 DEF Lines
<1>. HIDE DEF i
<1>8. ASSUME plan[i] # NoPlan
      PROVE  y \in Reversings
  <2>1. plan[i] \in PlanRows /\ remainingBalance(i) \in Int
      BY <1>1, <1>7, <1>8, BalanceType DEF StoresOK, Plans
  <2>2. reversePaymentOnPlan(plan[i], line.amount, remainingBalance(i)) \in PlanRows
      BY <1>7, <2>1, PlanReversed
  <2>. QED
      BY <1>3, <1>4, <2>1, <2>2 DEF Reversings, Plans
<1>9. y.at = "reverseWrite" /\ y.line = line /\ \A k : Hand(y, k) = 0
    BY DEF Hand
<1>. HIDE DEF y
<1>10. /\ JobTypes(x) /\ \A k \in Ids : Hand(x, k) = Hand(job[h], k)
       /\ x.at \in {"advanceWrite", "reverseWrite"} => plan[x.line.stay] # NoPlan
  <2>1. CASE plan[i] # NoPlan
    <3>1. x = y /\ JobTypes(y)
        BY <1>8, <2>1 DEF JobTypes
    <3>. HIDE DEF x
    <3>. QED
        BY <1>5, <1>9, <2>1, <3>1 DEF j, i
  <2>2. CASE plan[i] = NoPlan
    <3>1. x = z
        BY <2>2
    <3>. HIDE DEF x
    <3>. QED
        BY <1>5, <1>6, <3>1 DEF j
  <2>. QED
      BY <2>1, <2>2
<1>. HIDE DEF x
<1>11. StoresOK'
    BY <1>1, <1>2 DEF StoresOK
<1>. QED
    BY <1>2, <1>10, <1>11, QuietStep

LEMMA WriteReversedStep ==
    ASSUME NEW e, NEW H, Enumerates(e, H), MatchingIInv(e, H), NEW h \in Handlers, WriteReversed(h)
    PROVE  MatchingIInv(e, H)'
<1>. DEFINE j == job[h]
            x == Reversing(j.q, j.rest)
<1>1. JobsOK /\ StoresOK /\ RowThere
    BY DEF MatchingIInv
<1>2. j.at = "reverseWrite" /\ Write(j) /\ job' = [job EXCEPT ![h] = x]
      /\ UNCHANGED <<paid, ref, queue, applied, count, bookings>>
    BY <1>1 DEF WriteReversed, JobsOK
<1>3. JobTypes(j) /\ j.q \in Pendings /\ j.rest \in Seq(Lines)
    BY <1>1, <1>2, ReverseJob DEF JobsOK
<1>4. plan' \in [Ids -> Plans] /\ \A i \in Ids : plan[i] # NoPlan => plan'[i] # NoPlan
    BY <1>1, <1>2, <1>3, PlanStays
<1>5. JobTypes(x) /\ x.at \in {"matched", "reverse"} /\ \A i : Hand(x, i) = 0
    BY <1>1, <1>3, ReversingType
<1>6. \A i : Hand(j, i) = 0
    BY <1>2 DEF Hand
<1>. HIDE DEF x
<1>7. StoresOK'
    BY <1>1, <1>2, <1>4 DEF StoresOK
<1>. QED
    BY <1>2, <1>4, <1>5, <1>6, <1>7, QuietStep

----------------------------------------------------------------------------
(* Staff edits plans.                                                      *)

\* An edit of a plan that leaves every plan where it is.
LEMMA PlanEdited ==
    ASSUME NEW e, NEW H, MatchingIInv(e, H), NEW i \in Ids, NEW u \in PlanRows,
           plan' = [plan EXCEPT ![i] = u],
           UNCHANGED <<paid, job, ref, queue, applied, count, bookings>>
    PROVE  MatchingIInv(e, H)'
<1>1. plan \in [Ids -> Plans] /\ u # NoPlan /\ u \in Plans
    BY MatchingAssumption DEF MatchingIInv, StoresOK, Plans, PlanRows
<1>2. StoresOK' /\ \A k \in Ids : plan[k] # NoPlan => plan'[k] # NoPlan
    BY <1>1 DEF MatchingIInv, StoresOK
<1>3. RowThere'
  <2>1. SUFFICES ASSUME NEW g \in Handlers, job[g].at \in {"advanceWrite", "reverseWrite"},
                        job[g].next # NoPlan
                 PROVE  plan'[job[g].line.stay] # NoPlan
      BY DEF RowThere
  <2>2. job[g].line.stay \in Ids
      BY <2>1, WriterLine DEF MatchingIInv, JobsOK
  <2>3. plan[job[g].line.stay] # NoPlan
      BY <2>1 DEF MatchingIInv, RowThere
  <2>. QED
      BY <1>2, <2>2, <2>3
<1>. QED
    BY <1>2, <1>3 DEF MatchingIInv, JobsOK, Covered, InHands, Hands, Booked, Books

LEMMA UpsertStep ==
    ASSUME NEW e, NEW H, MatchingIInv(e, H), NEW i \in Planned, NEW u \in Upserts,
           NEW whole \in BOOLEAN, upsertByHostawayId(i, u, whole)
    PROVE  MatchingIInv(e, H)'
<1>. DEFINE v == IF plan[i] = NoPlan \/ whole THEN u
                 ELSE [plan[i] EXCEPT !.enabled = u.enabled, !.inst = u.inst, !.freq = u.freq,
                                      !.custom = u.custom, !.due = u.due]
<1>1. i \in Ids /\ u \in PlanRows /\ plan \in [Ids -> Plans]
    BY MatchingAssumption DEF upsertByHostawayId, MatchingIInv, StoresOK, PlanRows, Ids
<1>2. v \in PlanRows
  <2>1. CASE plan[i] # NoPlan
    <3>1. plan[i] \in PlanRows
        BY <1>1, <2>1 DEF Plans
    <3>. QED
        BY <1>1, <2>1, <3>1 DEF PlanRows, PlanInputs, Valid
  <2>. QED
      BY <1>1, <2>1
<1>3. plan' = [plan EXCEPT ![i] = v] /\ UNCHANGED <<paid, job, ref, queue, applied, count, bookings>>
    BY <1>1 DEF upsertByHostawayId
<1>. HIDE DEF v
<1>. QED
    BY <1>1, <1>2, <1>3, PlanEdited

LEMMA DisableStep ==
    ASSUME NEW e, NEW H, MatchingIInv(e, H), NEW i \in Planned, disablePlan(i)
    PROVE  MatchingIInv(e, H)'
<1>. DEFINE v == [plan[i] EXCEPT !.enabled = FALSE]
<1>1. i \in Ids /\ plan \in [Ids -> Plans] /\ plan[i] # NoPlan
    BY MatchingAssumption DEF disablePlan, MatchingIInv, StoresOK, Ids
<1>2. plan[i] \in PlanRows
    BY <1>1 DEF Plans
<1>3. v \in PlanRows
    BY <1>2 DEF PlanRows, PlanInputs, Valid
<1>4. plan' = [plan EXCEPT ![i] = v] /\ UNCHANGED <<paid, job, ref, queue, applied, count, bookings>>
    BY <1>1 DEF disablePlan
<1>. HIDE DEF v
<1>. QED
    BY <1>1, <1>3, <1>4, PlanEdited

\* Whoever has read a plan has nothing to write once it is gone.
NothingToWrite(j) == [j EXCEPT !.next = NoPlan]

LEMMA NothingWritten ==
    ASSUME NEW j, JobTypes(j), j.at \in {"advanceWrite", "reverseWrite"}
    PROVE  /\ JobTypes(NothingToWrite(j)) /\ NothingToWrite(j).next = NoPlan
           /\ \A k : Hand(NothingToWrite(j), k) = Hand(j, k)
<1>. DEFINE y == NothingToWrite(j)
<1>1. \/ j \in Advancings /\ Len(j.done) + Len(j.rest) <= 1
      \/ j \in Reversings
    BY JobAt
<1>2. CASE j \in Advancings /\ Len(j.done) + Len(j.rest) <= 1
  <2>1. y \in Advancings /\ y.next = NoPlan
        /\ y.at = j.at /\ y.done = j.done /\ y.rest = j.rest /\ y.line = j.line
      BY <1>2 DEF Advancings, Plans, NothingToWrite
  <2>. HIDE DEF y
  <2>2. JobTypes(y)
      BY <1>2, <2>1 DEF JobTypes
  <2>3. \A k : Hand(y, k) = Hand(j, k)
      BY <2>1 DEF Hand
  <2>. QED
      BY <2>1, <2>2, <2>3 DEF y
<1>3. CASE j \in Reversings
  <2>1. y \in Reversings /\ y.next = NoPlan
        /\ y.at = "reverseWrite" /\ j.at = "reverseWrite"
      BY <1>3 DEF Reversings, Plans, NothingToWrite
  <2>. HIDE DEF y
  <2>2. JobTypes(y)
      BY <2>1 DEF JobTypes
  <2>3. \A k : Hand(y, k) = Hand(j, k)
      BY <2>1 DEF Hand
  <2>. QED
      BY <2>1, <2>2, <2>3 DEF y
<1>. QED
    BY <1>1, <1>2, <1>3

\* A plan is deleted: its row is gone for whoever has read it.
LEMMA DeleteStep ==
    ASSUME NEW e, NEW H, Enumerates(e, H), MatchingIInv(e, H), NEW i \in Planned,
           deleteByHostawayId(i)
    PROVE  MatchingIInv(e, H)'
<1>1. JobsOK /\ StoresOK /\ RowThere /\ Covered(e, H)
    BY DEF MatchingIInv
<1>2. /\ plan' = [plan EXCEPT ![i] = NoPlan]
      /\ job' = [h \in Handlers |->
                   IF job[h].at \in {"advanceWrite", "reverseWrite"} /\ job[h].line.stay = i
                   THEN NothingToWrite(job[h]) ELSE job[h]]
      /\ UNCHANGED <<paid, ref, queue, applied, count, bookings>>
    BY DEF deleteByHostawayId, NothingToWrite
<1>3. i \in Ids /\ StoresOK'
    BY <1>1, <1>2, MatchingAssumption DEF StoresOK, Plans, Ids
<1>4. ASSUME NEW h \in Handlers, job[h].at \in {"advanceWrite", "reverseWrite"}
      PROVE  /\ JobTypes(NothingToWrite(job[h])) /\ NothingToWrite(job[h]).next = NoPlan
             /\ \A k : Hand(NothingToWrite(job[h]), k) = Hand(job[h], k)
  <2>1. JobTypes(job[h])
      BY <1>1 DEF JobsOK
  <2>. QED
      BY <1>4, <2>1, NothingWritten
<1>5. ASSUME NEW h \in Handlers
      PROVE  /\ JobTypes(job'[h]) /\ \A k : Hand(job'[h], k) = Hand(job[h], k)
             /\ job'[h] = job[h]
                \/ job'[h].next = NoPlan
             /\ job'[h] = job[h] =>
                   ~(job[h].at \in {"advanceWrite", "reverseWrite"} /\ job[h].line.stay = i)
                   \/ job'[h].next = NoPlan
  <2>. DEFINE j == job[h]
              y == NothingToWrite(j)
              hit == j.at \in {"advanceWrite", "reverseWrite"} /\ j.line.stay = i
  <2>1. job'[h] = IF hit THEN y ELSE j
      BY <1>2
  <2>2. JobTypes(j)
      BY <1>1 DEF JobsOK
  <2>3. hit => JobTypes(y) /\ y.next = NoPlan /\ \A k : Hand(y, k) = Hand(j, k)
      BY <1>4
  <2>. HIDE DEF y, j
  <2>4. CASE hit
    <3>1. job'[h] = y
        BY <2>1, <2>4
    <3>. QED
        BY <2>3, <2>4, <3>1 DEF j
  <2>5. CASE ~hit
    <3>1. job'[h] = j
        BY <2>1, <2>5
    <3>. QED
        BY <2>2, <2>5, <3>1 DEF j
  <2>. QED
      BY <2>4, <2>5
<1>6. JobsOK'
  <2>1. DOMAIN job' = Handlers
      BY <1>2
  <2>. QED
      BY <1>5, <2>1 DEF JobsOK
<1>7. RowThere'
  <2>1. SUFFICES ASSUME NEW g \in Handlers, job'[g].at \in {"advanceWrite", "reverseWrite"},
                        job'[g].next # NoPlan
                 PROVE  plan'[job'[g].line.stay] # NoPlan
      BY DEF RowThere
  <2>2. job'[g] = job[g] /\ job[g].line.stay # i
      BY <1>5, <2>1
  <2>3. job[g].line.stay \in Ids /\ plan[job[g].line.stay] # NoPlan
      BY <1>1, <2>1, <2>2, WriterLine DEF JobsOK, RowThere
  <2>. QED
      BY <1>1, <1>2, <2>2, <2>3 DEF StoresOK
<1>8. Covered(e, H)'
  <2>1. SUFFICES ASSUME NEW k \in Ids
                 PROVE  paid[k] >= Booked(applied, k) + InHands(e, H, job', k)
      BY <1>2 DEF Covered
  <2>2. InHands(e, H, job', k) = InHands(e, H, job, k)
    <3>. DEFINE jobs == job
                more == job'
    <3>1. NoneMoves(jobs, more, k)
        BY <1>1, <1>5, HandNat DEF NoneMoves, JobsOK
    <3>. HIDE DEF jobs, more
    <3>2. InHands(e, H, more, k) = InHands(e, H, jobs, k)
        BY <3>1, HandsSame
    <3>. QED
        BY <3>2 DEF jobs, more
  <2>. QED
      BY <1>1, <2>2 DEF Covered
<1>. QED
    BY <1>3, <1>6, <1>7, <1>8 DEF MatchingIInv

LEMMA StutterStep ==
    ASSUME NEW e, NEW H, MatchingIInv(e, H), UNCHANGED mvars
    PROVE  MatchingIInv(e, H)'
BY DEF mvars, MatchingIInv, StoresOK, JobsOK, RowThere, Covered, InHands, Hands, Booked, Books

----------------------------------------------------------------------------
(* The invariant holds.                                                    *)

LEMMA MatchingStarts ==
    ASSUME NEW e, NEW H, Enumerates(e, H), MatchingInit
    PROVE  MatchingIInv(e, H)
<1>1. /\ plan = [i \in Ids |-> NoPlan] /\ paid \in [Ids -> Nat]
      /\ job = [h \in Handlers |-> Idle] /\ ref = [i \in Ids |-> 0]
      /\ queue = {} /\ applied = << >> /\ count = 0
    BY MatchingAssumption DEF MatchingInit, Ids
<1>2. StoresOK
  <2>1. applied \in Seq(Posts) /\ DOMAIN applied = {}
      BY <1>1
  <2>2. count \in 0..MaxPayments
      BY <1>1, MatchingAssumption
  <2>3. plan \in [Ids -> Plans] /\ paid \in [Ids -> Int] /\ ref \in [Ids -> Nat]
      BY <1>1 DEF Plans
  <2>. QED
      BY <1>1, <2>1, <2>2, <2>3 DEF StoresOK
<1>3. JobsOK
    BY <1>1, IdleHand DEF JobsOK
<1>4. RowThere
    BY <1>1, IdleHand DEF RowThere
<1>5. Covered(e, H)
  <2>1. SUFFICES ASSUME NEW i \in Ids
                 PROVE  paid[i] >= Booked(applied, i) + InHands(e, H, job, i)
      BY DEF Covered
  <2>2. Booked(applied, i) = 0
    <3>1. Len(applied) = 0
        BY <1>1
    <3>. QED
        BY <3>1, TotalNone DEF Booked
  <2>3. InHands(e, H, job, i) = 0
    <3>. DEFINE f == Hands(e, H, job, i)
    <3>1. H \in Nat /\ \A k \in 1..H : f[k] = 0
        BY <1>1, IdleHand DEF Hands, Enumerates
    <3>. HIDE DEF f
    <3>2. Total(f, H) = 0
        BY <3>1, TotalZero
    <3>. QED
        BY <3>2 DEF InHands, f
  <2>4. paid[i] \in Nat
      BY <1>1
  <2>. QED
      BY <2>2, <2>3, <2>4
<1>. QED
    BY <1>2, <1>3, <1>4, <1>5 DEF MatchingIInv

LEMMA MatchingSteps ==
    ASSUME NEW e, NEW H, Enumerates(e, H), MatchingIInv(e, H), [MatchingNext]_mvars
    PROVE  MatchingIInv(e, H)'
<1>1. ASSUME NEW h \in Handlers, NEW r \in Evidence, Match(h, r)
      PROVE  MatchingIInv(e, H)'
    BY <1>1, MatchStep
<1>2. ASSUME NEW h \in Handlers, AutoApply(h)
      PROVE  MatchingIInv(e, H)'
    BY <1>2, AutoApplyStep
<1>3. ASSUME NEW h \in Handlers, ToReview(h)
      PROVE  MatchingIInv(e, H)'
    BY <1>3, ToReviewStep
<1>4. ASSUME NEW h \in Handlers, ApplyFails(h)
      PROVE  MatchingIInv(e, H)'
    BY <1>4, ApplyFailsStep
<1>5. ASSUME NEW h \in Handlers, NEW q \in queue, Rematch(h, q)
      PROVE  MatchingIInv(e, H)'
    BY <1>5, RematchStep
<1>6. ASSUME NEW h \in Handlers, NEW q \in queue, NEW c \in Choices, confirmReview(h, q, c[1], c[2])
      PROVE  MatchingIInv(e, H)'
  <2>1. c[1] \in Ids /\ c[2] \in Ids
      BY MatchingAssumption DEF Ids
  <2>. QED
      BY <1>6, <2>1, ConfirmStep
<1>7. ASSUME NEW q \in queue, skipReview(q)
      PROVE  MatchingIInv(e, H)'
    BY <1>7, SkipStep
<1>8. ASSUME NEW h \in Handlers, ReadForApply(h)
      PROVE  MatchingIInv(e, H)'
    BY <1>8, ReadForApplyStep
<1>9. ASSUME NEW h \in Handlers, WriteApplied(h)
      PROVE  MatchingIInv(e, H)'
    BY <1>9, WriteAppliedStep
<1>10. ASSUME NEW h \in Handlers, NextLine(h)
       PROVE  MatchingIInv(e, H)'
    BY <1>10, NextLineStep
<1>11. ASSUME NEW h \in Handlers, SplitFails(h)
       PROVE  MatchingIInv(e, H)'
    BY <1>11, SplitFailsStep
<1>12. ASSUME NEW h \in Handlers, Finish(h)
       PROVE  MatchingIInv(e, H)'
    BY <1>12, FinishStep
<1>13. ASSUME NEW h \in Handlers, NEW n \in DOMAIN applied, Undo(h, n)
       PROVE  MatchingIInv(e, H)'
    BY <1>13, UndoStep
<1>14. ASSUME NEW h \in Handlers, ReadForReverse(h)
       PROVE  MatchingIInv(e, H)'
    BY <1>14, ReadForReverseStep
<1>15. ASSUME NEW h \in Handlers, WriteReversed(h)
       PROVE  MatchingIInv(e, H)'
    BY <1>15, WriteReversedStep
<1>16. ASSUME NEW i \in Planned, NEW u \in Upserts, NEW whole \in BOOLEAN,
              upsertByHostawayId(i, u, whole)
       PROVE  MatchingIInv(e, H)'
    BY <1>16, UpsertStep
<1>17. ASSUME NEW i \in Planned, disablePlan(i)
       PROVE  MatchingIInv(e, H)'
    BY <1>17, DisableStep
<1>18. ASSUME NEW i \in Planned, deleteByHostawayId(i)
       PROVE  MatchingIInv(e, H)'
    BY <1>18, DeleteStep
<1>19. ASSUME UNCHANGED mvars
       PROVE  MatchingIInv(e, H)'
    BY <1>19, StutterStep
<1>. QED
    BY <1>1, <1>2, <1>3, <1>4, <1>5, <1>6, <1>7, <1>8, <1>9, <1>10, <1>11, <1>12, <1>13,
       <1>14, <1>15, <1>16, <1>17, <1>18, <1>19, Zenon DEF MatchingNext

----------------------------------------------------------------------------
(* What follows from it.                                                   *)

LEMMA TypesFollow ==
    ASSUME NEW e, NEW H, Enumerates(e, H), MatchingIInv(e, H)
    PROVE  MatchingTypeOK
<1>1. JobsOK /\ StoresOK /\ Covered(e, H)
    BY DEF MatchingIInv
<1>2. count \in 0..MaxPayments
    BY <1>1 DEF StoresOK
<1>3. ASSUME NEW i \in Ids, plan[i] # NoPlan
      PROVE  /\ plan[i].inst >= 1 /\ plan[i].due >= 0 /\ plan[i].toward >= 0
             /\ plan[i].freq \in Frequencies
             /\ plan[i].next # NoDate => plan[i].next.d \in 1..DaysIn(plan[i].next.m)
  <2>1. plan[i] \in PlanRows
      BY <1>1, <1>3 DEF StoresOK, Plans
  <2>2. plan[i].next \in Dates \cup {NoDate} /\ Valid(plan[i])
      BY <2>1 DEF PlanRows, PlanInputs
  <2>3. \A date \in Dates : date.d \in 1..DaysIn(date.m)
    <3>1. TAKE date \in Dates
    <3>2. date.m \in Int /\ date.d \in Int /\ date.d >= 1 /\ date.d <= DaysIn(date.m)
        BY DEF Dates
    <3>3. DaysIn(date.m) \in Int
        BY <3>2, DaysInMonth
    <3>. QED
        BY <3>2, <3>3
  <2>. QED
      BY <2>2, <2>3 DEF Valid
<1>4. ASSUME NEW i \in Ids
      PROVE  paid[i] >= 0
  <2>1. paid[i] \in Int /\ paid[i] >= Booked(applied, i) + InHands(e, H, job, i)
      BY <1>1 DEF StoresOK, Covered
  <2>2. Booked(applied, i) \in Nat
      BY <1>1, BookedNat
  <2>3. InHands(e, H, job, i) \in Nat
    <3>. DEFINE jobs == job
    <3>1. NoneMoves(jobs, jobs, i)
        BY <1>1, HandNat DEF NoneMoves, JobsOK
    <3>. HIDE DEF jobs
    <3>2. InHands(e, H, jobs, i) \in Nat
        BY <3>1, HandsSame
    <3>. QED
        BY <3>2 DEF jobs
  <2>. QED
      BY <2>1, <2>2, <2>3
<1>5. ASSUME NEW h \in Handlers, job[h] # Idle
      PROVE  \/ job[h].at = "matched" /\ job[h].result.best \in Ids \cup {0}
             \/ job[h].at \in {"advance", "next", "reverse"}
             \/ job[h].at \in {"advanceWrite", "reverseWrite"} /\ job[h].line.stay \in Ids
  <2>. DEFINE j == job[h]
  <2>1. JobTypes(j) /\ j # Idle
      BY <1>1, <1>5 DEF JobsOK
  <2>. HIDE DEF j
  <2>2. j.at \in {"matched", "advance", "next", "reverse", "advanceWrite", "reverseWrite"}
      BY <2>1 DEF JobTypes, MatchedJob, Chargings, Advancings, Nexts, Reverses, Reversings
  <2>3. j.at = "matched" => j.result.best \in Ids \cup {0}
      BY <2>1, JobAt, MatchedReceipt
  <2>4. j.at \in {"advanceWrite", "reverseWrite"} => j.line.stay \in Ids
      BY <2>1, WriterLine
  <2>. QED
      BY <2>2, <2>3, <2>4 DEF j
<1>. QED
    BY <1>2, <1>3, <1>4, <1>5 DEF MatchingTypeOK

\* A payment that is about to be booked by itself.
LEMMA BookingIs ==
    ASSUME JobsOK, NEW j \in Booking
    PROVE  /\ j.stays \in [1..N -> StayRows] /\ j.result = match(j.payment, j.stays)
           /\ j.result.decision = "UNAMBIGUOUS"
<1>1. MatchedJob(j)
    BY JobAt DEF JobsOK, Booking, Matched
<1>2. j.result.decision = "UNAMBIGUOUS"
    BY DEF Booking, BooksItself
<1>. QED
    BY <1>1, <1>2, StayIds DEF MatchedJob

LEMMA ApartFollows ==
    ASSUME JobsOK
    PROVE  PortalMoneyApart /\ PaidStayNotBooked
<1>. SUFFICES ASSUME NEW j \in Booking
              PROVE  LET s == j.stays[j.result.best]
                         linked == s.facts \cap {"id", "code", "codeNote", "ref"} # {}
                     IN  /\ ("settlement" \in j.payment.says) # ("portal" \in s.facts) => linked
                         /\ s.total > 0 /\ s.total - s.paid <= 1 => linked
    BY Zenon DEF PortalMoneyApart, PaidStayNotBooked
<1>. DEFINE p == j.payment
            s == j.stays
            r == j.result
<1>1. s \in [1..N -> StayRows] /\ r = match(p, s) /\ r.decision = "UNAMBIGUOUS"
    BY BookingIs
<1>. HIDE DEF p, s, r
<1>2. DOMAIN s = 1..N /\ N \in Nat /\ \A i \in 1..N : s[i].total \in Int /\ s[i].paid \in Int
    BY <1>1, StayIds DEF StayRows
<1>3. match(p, s).decision = "UNAMBIGUOUS"
    BY <1>1
<1>4. LET c == s[match(p, s).best]
          linked == c.facts \cap {"id", "code", "codeNote", "ref"} # {}
      IN  /\ match(p, s).best \in 1..N
          /\ ("settlement" \in p.says) # ("portal" \in c.facts) => linked
          /\ c.total > 0 /\ c.total - c.paid <= 1 => linked
    BY <1>2, <1>3, KeptApart
<1>5. match(p, s).best = r.best
    BY <1>1
<1>. QED
    BY <1>4, <1>5, Zenon DEF p, s, r

LEMMA OrderFollows ==
    ASSUME JobsOK
    PROVE  ChoiceIsOrderFree
<1>. SUFFICES ASSUME NEW j \in Booking
              PROVE  LET n == Len(j.stays)
                         back == match(j.payment, Reversed(j.stays))
                     IN  \/ back.decision = "UNAMBIGUOUS" => back.best = n + 1 - j.result.best
                         \/ Cardinality({i \in DOMAIN j.stays : Sure(j.payment, j.stays[i])}) >= 2
    BY Zenon DEF ChoiceIsOrderFree
<1>. DEFINE p == j.payment
            s == j.stays
            r == j.result
            back == Reversed(s)
<1>1. s \in [1..N -> StayRows] /\ r = match(p, s) /\ r.decision = "UNAMBIGUOUS"
    BY BookingIs
<1>. HIDE DEF p, s, r
<1>2. Len(s) = N /\ N \in Nat /\ Mirrored(back, s, N)
    BY <1>1, StayIds DEF Reversed, Mirrored
<1>. HIDE DEF back
<1>3. match(p, s).decision = "UNAMBIGUOUS" /\ match(p, s).best = r.best
    BY <1>1
<1>4. match(p, back).decision = "UNAMBIGUOUS" =>
         match(p, back).best = N + 1 - r.best \/ TwoSure(p, s)
    BY <1>2, <1>3, OrderFree
<1>5. \/ match(p, back).decision = "UNAMBIGUOUS" => match(p, back).best = Len(s) + 1 - r.best
      \/ TwoSure(p, s)
    BY <1>2, <1>4
<1>. QED
    BY <1>5, Zenon DEF TwoSure, p, s, r, back

LEMMA TwinFollows ==
    ASSUME JobsOK
    PROVE  TwinGoesToReview
<1>. SUFFICES ASSUME NEW j \in Booking,
                     match(j.payment, Append(j.stays, j.stays[j.result.best])).decision = "UNAMBIGUOUS"
              PROVE  Sure(j.payment, j.stays[j.result.best])
    BY Zenon DEF TwinGoesToReview
<1>. DEFINE p == j.payment
            s == j.stays
            r == j.result
            more == Append(s, s[r.best])
<1>1. s \in [1..N -> StayRows] /\ r = match(p, s) /\ r.decision = "UNAMBIGUOUS"
    BY BookingIs
<1>2. match(p, more).decision = "UNAMBIGUOUS"
    OBVIOUS
<1>. HIDE DEF p, s, r
<1>3. match(p, s).decision = "UNAMBIGUOUS" /\ match(p, s).best = r.best
    BY <1>1
<1>4. DOMAIN s = 1..N /\ N \in Nat
    BY <1>1, StayIds
<1>5. r.best \in 1..N
  <2>1. DOMAIN s = Ids
      BY <1>4, StayIds
  <2>2. match(p, s).best \in Ids
      BY <1>3, <2>1, MatchOutcome
  <2>. QED
      BY <1>3, <2>2, StayIds
<1>6. s \in Seq(StayRows) /\ s[r.best] \in StayRows /\ Len(s) = N
  <2>1. s \in Seq(StayRows)
      BY <1>1, <1>4, SeqDef, Zenon
  <2>2. Len(s) = N
      BY <1>1, StayIds
  <2>3. s[r.best] \in StayRows
      BY <1>1, <1>5, Zenon
  <2>. QED
      BY <2>1, <2>2, <2>3
<1>7. WithTwin(more, s, N, r.best)
    BY <1>4, <1>5, <1>6 DEF WithTwin
<1>. HIDE DEF more
<1>8. WithTwin(more, s, N, match(p, s).best)
    BY <1>3, <1>7
<1>9. Sure(p, s[match(p, s).best])
    BY <1>2, <1>3, <1>4, <1>8, TwinIsSure
<1>. QED
    BY <1>3, <1>9 DEF p, s, r

\* There are finitely many handlers, so what they have booked adds up.
LEMMA HandlersCounted == \E e, H : Enumerates(e, H)
<1>1. PICK n \in Nat : ExistsBijection(1..n, Handlers)
    BY MatchingAssumption, FS_NatBijection
<1>2. PICK f : f \in Bijection(1..n, Handlers)
    BY <1>1 DEF ExistsBijection
<1>3. Enumerates(f, n)
  <2>1. f \in Injection(1..n, Handlers) /\ f \in Surjection(1..n, Handlers)
      BY <1>2 DEF Bijection
  <2>2. f \in [1..n -> Handlers] /\ \A a, b \in 1..n : f[a] = f[b] => a = b
      BY <2>1 DEF Injection, IsInjective
  <2>3. \A t \in Handlers : \E k \in 1..n : f[k] = t
      BY <2>1 DEF Surjection
  <2>. QED
      BY <2>2, <2>3 DEF Enumerates
<1>. QED
    BY <1>3

\* However payments, staff and plans come in between each other, a payment is
\* booked by itself only where the matcher cannot be wrong (the filter, the
\* order and the decision of match), and charges never fall below zero.
THEOREM MatchingTheorem == MatchingSpec => []MatchingInv
<1>1. PICK e, H : Enumerates(e, H)
    BY HandlersCounted
<1>2. MatchingInit => MatchingIInv(e, H)
    BY <1>1, MatchingStarts
<1>3. MatchingIInv(e, H) /\ [MatchingNext]_mvars => MatchingIInv(e, H)'
    BY <1>1, MatchingSteps
<1>4. MatchingIInv(e, H) => MatchingInv
  <2>1. SUFFICES ASSUME MatchingIInv(e, H)
                 PROVE  MatchingInv
      OBVIOUS
  <2>2. JobsOK
      BY <2>1 DEF MatchingIInv
  <2>. QED
      BY <1>1, <2>1, <2>2, TypesFollow, ApartFollows, OrderFollows, TwinFollows DEF MatchingInv
<1>. QED
    BY <1>2, <1>3, <1>4, PTL DEF MatchingSpec

----------------------------------------------------------------------------
(* The plans follow.  What a handler has in hand for a plan fits the plan   *)
(* it read and, where no other handler can charge the stay in between, the  *)
(* balance there is.                                                        *)

OneHandler == \A g, h \in Handlers : g = h

Writer(j) == j.at \in {"advanceWrite", "reverseWrite"} /\ j.next # NoPlan

NextMonth(j) ==
    j.read.freq = "MONTHLY" /\ j.read.next # NoDate /\ j.next.next # j.read.next =>
        j.next.next.m - j.read.next.m = IF j.at = "advanceWrite" THEN 1 ELSE 0 - 1

MostDue(i) == IF remainingBalance(i) <= 50 THEN 0 ELSE remainingBalance(i)

DateInv == \A h \in Handlers : Writer(job[h]) => NextMonth(job[h])

DueInv == \A h \in Handlers :
             Writer(job[h]) /\ job[h].at = "advanceWrite" =>
                 job[h].next.due <= MostDue(job[h].line.stay)

LEMMA MonthApplied ==
    ASSUME NEW u \in PlanRows, NEW amount, NEW remaining, u.freq = "MONTHLY", u.next # NoDate
    PROVE  LET v == applyPaymentToPlan(u, amount, remaining, Today)
           IN  v.next # u.next => v.next.m - u.next.m = 1
<1>1. u.next \in Dates /\ u \in PlanInputs
    BY DEF PlanRows, PlanInputs
<1>2. u.next.m \in Int
    BY <1>1 DEF Dates
<1>3. advanceDueDate(u.next, u).m = u.next.m + 1
    BY DEF advanceDueDate, addMonths
<1>4. \/ applyPaymentToPlan(u, amount, remaining, Today).next = u.next
      \/ applyPaymentToPlan(u, amount, remaining, Today).next = advanceDueDate(u.next, u)
    BY <1>1 DEF applyPaymentToPlan, PlanInputs
<1>. QED
    BY <1>2, <1>3, <1>4

LEMMA MonthReversed ==
    ASSUME NEW u \in PlanRows, NEW amount, NEW remaining, u.freq = "MONTHLY", u.next # NoDate
    PROVE  LET v == reversePaymentOnPlan(u, amount, remaining)
           IN  v.next # u.next => v.next.m - u.next.m = 0 - 1
<1>1. u.next \in Dates /\ u \in PlanInputs
    BY DEF PlanRows, PlanInputs
<1>2. u.next.m \in Int
    BY <1>1 DEF Dates
<1>3. rewindDueDate(u.next, u).m = u.next.m + (0 - 1)
    BY DEF rewindDueDate, addMonths
<1>4. \/ reversePaymentOnPlan(u, amount, remaining).next = u.next
      \/ reversePaymentOnPlan(u, amount, remaining).next = rewindDueDate(u.next, u)
    BY <1>1 DEF reversePaymentOnPlan, PlanInputs
<1>. QED
    BY <1>2, <1>3, <1>4

LEMMA DueApplied ==
    ASSUME NEW u \in PlanRows, NEW amount \in Nat, NEW remaining \in Int
    PROVE  applyPaymentToPlan(u, amount, remaining, Today).due
             <= (IF remaining <= 50 THEN 0 ELSE remaining)
<1>1. u \in PlanInputs /\ u.inst \in Int /\ u.due \in Int
    BY DEF PlanRows, PlanInputs
<1>. DEFINE covers == amountsClose(amount, u.due) \/ amount + 50 >= u.due
            left == IF covers THEN u.inst ELSE u.due - amount
<1>2. applyPaymentToPlan(u, amount, remaining, Today).due
        = IF remaining <= 50 THEN 0 ELSE Lesser(left, remaining)
    BY <1>1 DEF applyPaymentToPlan, PlanInputs
<1>3. left \in Int
    BY <1>1
<1>. HIDE DEF left
<1>. QED
    BY <1>2, <1>3 DEF Lesser

FollowInv == DateInv /\ (OneHandler => DueInv)

\* Jobs that write no plan, or write what they did, leave it so.
LEMMA NoneBegins ==
    ASSUME FollowInv, \A g \in Handlers : job'[g] = job[g] \/ ~Writer(job'[g]),
           paid' = paid \/ (OneHandler => \A g \in Handlers : ~Writer(job'[g]))
    PROVE  FollowInv'
<1>1. DateInv'
    BY DEF FollowInv, DateInv, Writer, NextMonth
<1>2. ASSUME OneHandler PROVE DueInv'
  <2>1. CASE paid' = paid
    <3>1. \A i : MostDue(i)' = MostDue(i)
        BY <2>1 DEF MostDue, remainingBalance
    <3>. QED
        BY <1>2, <3>1 DEF FollowInv, DueInv, Writer
  <2>2. CASE \A g \in Handlers : ~Writer(job'[g])
      BY <2>2 DEF DueInv, Writer
  <2>. QED
      BY <1>2, <2>1, <2>2
<1>. QED
    BY <1>1, <1>2 DEF FollowInv, OneHandler

LEMMA OneGoesOn ==
    ASSUME JobsOK, FollowInv, NEW h \in Handlers, NEW x, job' = [job EXCEPT ![h] = x], ~Writer(x)
    PROVE  FollowInv'
<1>1. job'[h] = x /\ \A g \in Handlers : g # h => job'[g] = job[g]
    BY DEF JobsOK
<1>2. \A g \in Handlers : job'[g] = job[g] \/ ~Writer(job'[g])
    BY <1>1
<1>3. OneHandler => \A g \in Handlers : ~Writer(job'[g])
    BY <1>1 DEF OneHandler
<1>. QED
    BY <1>2, <1>3, NoneBegins

\* Every other step of a handler leaves it without a plan in hand.
LEMMA HandlerGoesOn ==
    ASSUME JobsOK, FollowInv, NEW h \in Handlers,
           \/ \E r \in Evidence : Match(h, r)
           \/ \E q \in queue : Rematch(h, q) \/ \E c \in Choices : confirmReview(h, q, c[1], c[2])
           \/ \E n \in DOMAIN applied : Undo(h, n)
           \/ AutoApply(h) \/ ToReview(h) \/ ApplyFails(h) \/ WriteApplied(h) \/ NextLine(h)
           \/ SplitFails(h) \/ Finish(h) \/ WriteReversed(h)
    PROVE  FollowInv'
<1>1. ASSUME NEW q, NEW allow PROVE Matching(q, allow).at = "matched"
    BY DEF Matching
<1>2. ASSUME NEW q, NEW rest PROVE ~Writer(Reversing(q, rest))
    BY <1>1 DEF Reversing, Writer
<1>3. ASSUME NEW j PROVE Done(j).at = "next"
    BY DEF Done
<1>4. ASSUME NEW q, NEW done, NEW lines, Charge(h, q, done, lines)
      PROVE  \E x : job' = [job EXCEPT ![h] = x] /\ ~Writer(x)
  <2>. DEFINE x == [at |-> "advance", q |-> q, line |-> Head(lines), done |-> done, rest |-> Tail(lines)]
  <2>1. job' = [job EXCEPT ![h] = x]
      BY <1>4 DEF Charge
  <2>2. x.at = "advance"
      OBVIOUS
  <2>. HIDE DEF x
  <2>. QED
      BY <2>1, <2>2 DEF Writer
<1>5. \E x : job' = [job EXCEPT ![h] = x] /\ ~Writer(x)
  <2>1. ASSUME NEW r \in Evidence, Match(h, r) PROVE \E x : job' = [job EXCEPT ![h] = x] /\ ~Writer(x)
      BY <1>1, <2>1 DEF Match, Writer
  <2>2. ASSUME NEW q \in queue, Rematch(h, q) PROVE \E x : job' = [job EXCEPT ![h] = x] /\ ~Writer(x)
      BY <1>1, <2>2 DEF Rematch, Writer
  <2>3. ASSUME NEW q \in queue, NEW c \in Choices, confirmReview(h, q, c[1], c[2])
        PROVE  \E x : job' = [job EXCEPT ![h] = x] /\ ~Writer(x)
      BY <1>4, <2>3 DEF confirmReview, Begin
  <2>4. ASSUME NEW n \in DOMAIN applied, Undo(h, n)
        PROVE  \E x : job' = [job EXCEPT ![h] = x] /\ ~Writer(x)
    <3>1. PICK x : x = [at |-> "reverse", q |-> applied[n].q, rest |-> applied[n].lines]
        OBVIOUS
    <3>2. job' = [job EXCEPT ![h] = x] /\ x.at = "reverse"
        BY <2>4, <3>1 DEF Undo
    <3>. QED
        BY <3>2 DEF Writer
  <2>5. CASE AutoApply(h)
      BY <1>4, <2>5 DEF AutoApply, Begin
  <2>6. CASE ToReview(h) \/ ApplyFails(h) \/ SplitFails(h) \/ Finish(h)
    <3>1. job' = [job EXCEPT ![h] = Idle]
        BY <2>6 DEF ToReview, ApplyFails, SplitFails, Finish
    <3>2. ~Writer(Idle)
        BY DEF Writer, Idle
    <3>. QED
        BY <3>1, <3>2
  <2>7. CASE WriteApplied(h)
      BY <1>3, <2>7 DEF WriteApplied, Writer
  <2>8. CASE NextLine(h)
      BY <1>4, <2>8 DEF NextLine
  <2>9. CASE WriteReversed(h)
    <3>1. PICK x : x = Reversing(job[h].q, job[h].rest)
        OBVIOUS
    <3>2. job' = [job EXCEPT ![h] = x]
        BY <2>9, <3>1 DEF WriteReversed, JobsOK
    <3>3. ~Writer(x)
        BY <1>2, <3>1
    <3>. QED
        BY <3>2, <3>3
  <2>. QED
      BY <2>1, <2>2, <2>3, <2>4, <2>5, <2>6, <2>7, <2>8, <2>9
<1>. QED
    BY <1>5, OneGoesOn

\* A handler reads a plan: what it is going to write fits it.
LEMMA Reads ==
    ASSUME StoresOK, JobsOK, FollowInv, NEW h \in Handlers, NEW y, job' = [job EXCEPT ![h] = y],
           paid' = paid, NextMonth(y),
           y.at = "advanceWrite" => y.next.due <= MostDue(y.line.stay)
    PROVE  FollowInv'
<1>1. job'[h] = y /\ \A g \in Handlers : g # h => job'[g] = job[g]
    BY DEF JobsOK
<1>2. \A i : MostDue(i)' = MostDue(i)
    BY DEF MostDue, remainingBalance
<1>3. DateInv'
    BY <1>1 DEF FollowInv, DateInv, Writer, NextMonth
<1>4. OneHandler => DueInv'
  <2>1. SUFFICES ASSUME OneHandler, NEW g \in Handlers, Writer(job'[g]), job'[g].at = "advanceWrite"
                 PROVE  job'[g].next.due <= MostDue(job'[g].line.stay)
      BY <1>2 DEF DueInv, Writer
  <2>2. g = h
      BY <2>1 DEF OneHandler
  <2>. QED
      BY <1>1, <2>1, <2>2
<1>. QED
    BY <1>3, <1>4 DEF FollowInv, OneHandler

LEMMA ApplyReads ==
    ASSUME StoresOK, JobsOK, FollowInv, NEW h \in Handlers, ReadForApply(h)
    PROVE  FollowInv'
<1>. DEFINE j == job[h]
            i == j.line.stay
            y == [at |-> "advanceWrite", q |-> j.q, line |-> j.line, done |-> j.done, rest |-> j.rest,
                  read |-> plan[i], next |-> applyPaymentToPlan(plan[i], j.line.amount, remainingBalance(i), Today)]
            asks == plan[i] # NoPlan /\ plan[i].enabled
<1>1. j.at = "advance" /\ job' = [job EXCEPT ![h] = IF asks THEN y ELSE Done(j)] /\ paid' = paid
    BY DEF ReadForApply
<1>2. j.line \in Lines /\ i \in Ids /\ j.line.amount \in Nat
  <2>1. j \in Chargings
      BY <1>1, JobAt DEF JobsOK
  <2>. QED
      BY <2>1 DEF Chargings, Lines
<1>3. CASE ~asks
  <2>1. PICK x : x = Done(j)
      OBVIOUS
  <2>2. job' = [job EXCEPT ![h] = x] /\ ~Writer(x)
      BY <1>1, <1>3, <2>1 DEF Done, Writer
  <2>. QED
      BY <2>2, OneGoesOn
<1>4. CASE asks
  <2>1. plan[i] \in PlanRows /\ remainingBalance(i) \in Int
      BY <1>2, <1>4, BalanceType DEF StoresOK, Plans
  <2>2. /\ y.at = "advanceWrite" /\ y.read = plan[i] /\ y.line.stay = i
        /\ y.next = applyPaymentToPlan(plan[i], j.line.amount, remainingBalance(i), Today)
      OBVIOUS
  <2>3. job' = [job EXCEPT ![h] = y]
      BY <1>1, <1>4
  <2>. HIDE DEF y, i, j
  <2>4. NextMonth(y)
      BY <2>1, <2>2, MonthApplied DEF NextMonth
  <2>5. y.next.due <= MostDue(y.line.stay)
      BY <1>2, <2>1, <2>2, DueApplied DEF MostDue
  <2>. QED
      BY <1>1, <2>3, <2>4, <2>5, Reads
<1>. QED
    BY <1>3, <1>4

LEMMA ReverseReads ==
    ASSUME StoresOK, JobsOK, FollowInv, NEW h \in Handlers, ReadForReverse(h)
    PROVE  FollowInv'
<1>. DEFINE j == job[h]
            line == Head(j.rest)
            i == line.stay
            y == [at |-> "reverseWrite", q |-> j.q, line |-> line, rest |-> Tail(j.rest),
                  read |-> plan[i], next |-> reversePaymentOnPlan(plan[i], line.amount, remainingBalance(i))]
<1>1. j.at = "reverse" /\ paid' = paid
      /\ job' = [job EXCEPT ![h] = IF plan[i] = NoPlan THEN Reversing(j.q, Tail(j.rest)) ELSE y]
    BY DEF ReadForReverse, JobsOK
<1>2. i \in Ids
  <2>1. j.rest \in Seq(Lines) /\ j.rest # << >>
      BY <1>1, ReverseJob DEF JobsOK
  <2>2. line \in Lines
      BY <2>1
  <2>. QED
      BY <2>2 DEF Lines
<1>3. CASE plan[i] = NoPlan
  <2>1. PICK x : x = Reversing(j.q, Tail(j.rest))
      OBVIOUS
  <2>2. job' = [job EXCEPT ![h] = x]
      BY <1>1, <1>3, <2>1
  <2>3. ~Writer(x)
      BY <2>1 DEF Reversing, Matching, Writer
  <2>. QED
      BY <2>2, <2>3, OneGoesOn
<1>4. CASE plan[i] # NoPlan
  <2>1. plan[i] \in PlanRows
      BY <1>2, <1>4 DEF StoresOK, Plans
  <2>2. /\ y.at = "reverseWrite" /\ y.read = plan[i]
        /\ y.next = reversePaymentOnPlan(plan[i], line.amount, remainingBalance(i))
      OBVIOUS
  <2>3. job' = [job EXCEPT ![h] = y]
      BY <1>1, <1>4
  <2>. HIDE DEF y, i, j, line
  <2>4. NextMonth(y)
      BY <2>1, <2>2, MonthReversed DEF NextMonth
  <2>. QED
      BY <1>1, <2>2, <2>3, <2>4, Reads
<1>. QED
    BY <1>3, <1>4

LEMMA FollowSteps ==
    ASSUME StoresOK, JobsOK, FollowInv, [MatchingNext]_mvars
    PROVE  FollowInv'
<1>1. ASSUME UNCHANGED <<job, paid>> PROVE FollowInv'
    BY <1>1, NoneBegins
<1>2. ASSUME NEW h \in Handlers, ReadForApply(h) \/ ReadForReverse(h) PROVE FollowInv'
    BY <1>2, ApplyReads, ReverseReads
<1>3. ASSUME NEW i \in Planned, deleteByHostawayId(i) PROVE FollowInv'
  <2>1. \A g \in Handlers : job'[g] = job[g] \/ ~Writer(job'[g])
    <3>1. ASSUME NEW g \in Handlers PROVE job'[g] = job[g] \/ ~Writer(job'[g])
      <4>1. \/ job'[g] = job[g]
            \/ /\ job'[g] = NothingToWrite(job[g])
               /\ job[g].at \in {"advanceWrite", "reverseWrite"}
          BY <1>3 DEF deleteByHostawayId, NothingToWrite
      <4>2. job[g].at \in {"advanceWrite", "reverseWrite"} => NothingToWrite(job[g]).next = NoPlan
          BY NothingWritten DEF JobsOK
      <4>. QED
          BY <4>1, <4>2 DEF Writer
    <3>. QED
        BY <3>1
  <2>2. paid' = paid
      BY <1>3 DEF deleteByHostawayId
  <2>. QED
      BY <2>1, <2>2, NoneBegins
<1>4. ASSUME \/ \E q \in queue : skipReview(q)
             \/ \E i \in Planned, u \in Upserts, whole \in BOOLEAN : upsertByHostawayId(i, u, whole)
             \/ \E i \in Planned : disablePlan(i)
             \/ UNCHANGED mvars
      PROVE  FollowInv'
    BY <1>1, <1>4 DEF skipReview, upsertByHostawayId, disablePlan, mvars
<1>. QED
    BY <1>2, <1>3, <1>4, HandlerGoesOn DEF MatchingNext

\* A write changes the plan to what the handler had in hand for it.
LEMMA WrittenIs ==
    ASSUME StoresOK, RowThere, JobsOK, NEW h \in Handlers, Writer(job[h]), Write(job[h])
    PROVE  /\ job[h].line.stay \in Ids
           /\ plan'[job[h].line.stay].due = job[h].next.due
           /\ plan'[job[h].line.stay].next = job[h].next.next
<1>. DEFINE j == job[h]
            i == j.line.stay
            v == j.next
<1>1. JobTypes(j) /\ j.at \in {"advanceWrite", "reverseWrite"} /\ v # NoPlan
    BY DEF JobsOK, Writer
<1>2. i \in Ids /\ v \in PlanRows
    BY <1>1, WriterLine DEF Plans
<1>3. plan[i] \in PlanRows /\ plan \in [Ids -> Plans]
    BY <1>1, <1>2 DEF RowThere, StoresOK, Plans
<1>4. plan' = [plan EXCEPT ![i].toward = v.toward, ![i].due = v.due, ![i].next = v.next]
    BY <1>1 DEF Write
<1>. HIDE DEF j, i, v
<1>5. plan'[i] = [plan[i] EXCEPT !.toward = v.toward, !.due = v.due, !.next = v.next]
    BY <1>2, <1>3, <1>4
<1>6. DOMAIN plan[i] = {"enabled", "inst", "freq", "custom", "next", "due", "toward"}
    BY <1>3 DEF PlanRows, PlanInputs
<1>7. plan'[i].due = v.due /\ plan'[i].next = v.next
    BY <1>5, <1>6
<1>. QED
    BY <1>2, <1>7 DEF j, i, v

LEMMA MonthsFollow ==
    ASSUME StoresOK, RowThere, JobsOK, FollowInv, NEW h \in Handlers,
           WriteApplied(h) \/ WriteReversed(h), job[h].next # NoPlan,
           job[h].read.freq = "MONTHLY", plan[job[h].line.stay].next # NoDate,
           plan[job[h].line.stay].next = job[h].read.next,
           plan'[job[h].line.stay].next # plan[job[h].line.stay].next
    PROVE  plan'[job[h].line.stay].next.m - plan[job[h].line.stay].next.m
             = IF job[h].at = "advanceWrite" THEN 1 ELSE 0 - 1
<1>1. Writer(job[h]) /\ Write(job[h])
    BY DEF WriteApplied, WriteReversed, Writer
<1>2. plan'[job[h].line.stay].next = job[h].next.next
    BY <1>1, WrittenIs
<1>3. NextMonth(job[h])
    BY <1>1 DEF FollowInv, DateInv
<1>. QED
    BY <1>2, <1>3 DEF NextMonth

LEMMA DuesFollow ==
    ASSUME StoresOK, RowThere, JobsOK, FollowInv, OneHandler, NEW h \in Handlers,
           WriteApplied(h), job[h].next # NoPlan
    PROVE  plan'[job[h].line.stay].due <= MostDue(job[h].line.stay)
<1>1. Writer(job[h]) /\ Write(job[h]) /\ job[h].at = "advanceWrite"
    BY DEF WriteApplied, Writer
<1>2. plan'[job[h].line.stay].due = job[h].next.due
    BY <1>1, WrittenIs
<1>. QED
    BY <1>1, <1>2 DEF FollowInv, DueInv

DueAction ==
    \A h \in Handlers :
        WriteApplied(h) /\ job[h].next # NoPlan =>
           LET i == job[h].line.stay
           IN  plan'[i].due <= (IF remainingBalance(i) <= 50 THEN 0 ELSE remainingBalance(i))

MonthAction ==
    \A h \in Handlers :
        LET j == job[h]
            i == j.line.stay
        IN  /\ WriteApplied(h) \/ WriteReversed(h)
            /\ j.next # NoPlan /\ j.read.freq = "MONTHLY"
            /\ plan[i].next # NoDate /\ plan[i].next = j.read.next
            /\ plan'[i].next # plan[i].next
            => plan'[i].next.m - plan[i].next.m =
                  IF j.at = "advanceWrite" THEN 1 ELSE 0 - 1

LEMMA ActionsFollow ==
    ASSUME StoresOK, RowThere, JobsOK, FollowInv
    PROVE  MonthAction /\ (OneHandler => DueAction)
BY MonthsFollow, DuesFollow DEF MonthAction, DueAction, MostDue, OneHandler

LEMMA FollowStarts == MatchingInit => FollowInv
BY DEF MatchingInit, FollowInv, DateInv, DueInv, Writer, Idle

\* For any plans, payments and edits, and any number of handlers: the date of
\* a monthly plan moves to the next month, an undo to the month before, unless
\* staff set another date meanwhile (advanceDueDate, rewindDueDate).
THEOREM MonthTheorem == MatchingSpec => OncePerMonth
<1>1. PICK e, H : Enumerates(e, H)
    BY HandlersCounted
<1>2. MatchingInit => MatchingIInv(e, H) /\ FollowInv
    BY <1>1, FollowStarts, MatchingStarts
<1>3. MatchingIInv(e, H) /\ FollowInv /\ [MatchingNext]_mvars
        => MatchingIInv(e, H)' /\ FollowInv'
    BY <1>1, MatchingSteps, FollowSteps DEF MatchingIInv
<1>4. MatchingIInv(e, H) /\ FollowInv => MonthAction
    BY ActionsFollow DEF MatchingIInv
<1>5. OncePerMonth <=> [][MonthAction]_mvars
    BY PTL DEF OncePerMonth, MonthAction
<1>. QED
    BY <1>2, <1>3, <1>4, <1>5, PTL DEF MatchingSpec

\* With one handler at a time, whatever staff edit in between: what a payment
\* leaves due in a plan never exceeds what the stay owes when it is written,
\* and is nothing once the stay is paid (applyPaymentToPlan, recordPaymentApplied).
THEOREM PlanTheorem ==
    ASSUME OneHandler
    PROVE  MatchingSpec => PlanFollows
<1>1. PICK e, H : Enumerates(e, H)
    BY HandlersCounted
<1>2. MatchingInit => MatchingIInv(e, H) /\ FollowInv
    BY <1>1, FollowStarts, MatchingStarts
<1>3. MatchingIInv(e, H) /\ FollowInv /\ [MatchingNext]_mvars
        => MatchingIInv(e, H)' /\ FollowInv'
    BY <1>1, MatchingSteps, FollowSteps DEF MatchingIInv
<1>4. MatchingIInv(e, H) /\ FollowInv => DueAction
    BY ActionsFollow DEF MatchingIInv
<1>5. DueFitsBalance <=> [][DueAction]_mvars
    BY PTL DEF DueFitsBalance, DueAction
<1>6. MatchingSpec => DueFitsBalance
    BY <1>2, <1>3, <1>4, <1>5, PTL DEF MatchingSpec
<1>. QED
    BY <1>6, MonthTheorem DEF PlanFollows
=============================================================================
