------------------------ MODULE MCPaymentSettlement ------------------------
(* TLC instances of PaymentSettlement: what may happen to one payment of 2. *)
EXTENDS PaymentSettlement, TLC

CONSTANTS h1, h2

Alike == Permutations(Handlers)

Ev(kind, amount, resource, at) ==
    [kind |-> kind, amount |-> amount, resource |-> resource, at |-> at, known |-> TRUE]
Paid == Ev("paid", 2, "", 1)
Unknown == [Paid EXCEPT !.known = FALSE]

\* Refunds and disputes in their usual order, a payment nobody can map, a
\* second message about the same payment, a payment after a failure, a wrong
\* amount, an event of an unknown version, states of one second.
AnyHistory == {
    <<Paid, Ev("refunded", 1, "", 2), Ev("refunded", 2, "", 3)>>,
    <<Paid, Ev("disputed", 1, "d1", 2), Ev("won", 1, "d1", 3)>>,
    <<Paid, Ev("disputed", 1, "d1", 2), Ev("lost", 1, "d2", 2)>>,
    <<Unknown, Ev("refunded", 1, "", 2)>>,
    <<Paid, Ev("refunded", 1, "", 2), Paid>>,
    <<Ev("failed", 0, "", 1), Paid>>,
    <<Ev("expired", 0, "", 1), Ev("paid", 1, "", 2)>>,
    <<Paid, Ev("review", 0, "", 2), Ev("refunded", 1, "", 3)>>,
    <<Paid, Ev("lost", 1, "d1", 2), Ev("won", 1, "d1", 2)>>
    }

\* Two states of one dispute in one second, then another dispute.
TiedHistory == {
    <<Paid, Ev("disputed", 1, "d1", 2), Ev("won", 1, "d1", 2), Ev("disputed", 1, "d2", 3)>>
    }

\* The former are histories that the proofs speak of, the latter is not.
ASSUME TimelyAssumption == \A h \in AnyHistory : TimelyHistory(h)
ASSUME TiedAssumption == \A h \in TiedHistory : ~TimelyHistory(h)

=============================================================================
