------------------------- MODULE MCPaymentMatching -------------------------
(* Instances of PaymentMatching for TLC.                                   *)
EXTENDS PaymentMatching

Stay(total, guest, unit, from, to, facts) ==
    [total |-> total, guest |-> guest, unit |-> unit, from |-> from, to |-> to, facts |-> facts]

\* One guest with a long stay and a later one, and a portal booking.
MCStays ==
    <<Stay(100000, "g1", "u1", 10, 20, {}), Stay(100000, "g1", "u2", 30, 40, {}),
      Stay(90000, "g2", "u1", 50, 60, {"portal", "payout"})>>

\* What a transfer and the stays can have in common.
Named == {"name", "email"}
Notes == {"amountInNotes", "keywordInNotes"}
Transfers(amounts, says, first, second, third) ==
    [amount : amounts, says : says] \X {<<f, g, h>> : f \in first, g \in second, h \in third}

\* The installment and the total with any evidence; a portal's settlement; a
\* refund, a bulk payment and a payout, which are never matched to a stay.
MCEvidence ==
    Transfers({50000, 100000}, {{}},
        {{}, Named, {"ref"}, {"name", "listing", "nameInRef", "dates"}, Notes}, {{}, Named}, {{}})
    \cup Transfers({100000}, {{"rest"}}, {Named, {"ref"}}, {{}, Named}, {{}})
    \cup Transfers({50000}, {{"amount", "code"}}, {{}, Named}, {{}, Named}, {{}})
    \cup Transfers({80000}, {{"settlement"}, {}}, {{}, Named}, {{}}, {Named})
    \cup Transfers({0, 5000001}, {{}}, {Named}, {{}}, {{}})
    \cup Transfers({50000}, {{"platform"}}, {Named}, {{}}, {{}})

MCEarlier == {<<a, b, 0>> : a \in {0, 50000, 100000}, b \in {0, 100000}}
MCChoices == {<<1, 1>>, <<1, 2>>}

Plan(inst, freq, custom, next, due) ==
    [enabled |-> TRUE, inst |-> inst, freq |-> freq, custom |-> custom,
     next |-> next, due |-> due, toward |-> 0]

MCUpserts == {Plan(50000, "MONTHLY", 0, [m |-> 1, d |-> 31], 50000)}
MCToday == [m |-> 1, d |-> 30]
=============================================================================
