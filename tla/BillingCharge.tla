---------------------------- MODULE BillingCharge ----------------------------
(***************************************************************************)
(* BillingReservation implements RequestCharge.  The outcome is read off the *)
(* reservation's row, and what the request costs off the ledger: the mapping *)
(* holds only if rows and money always move together.                       *)
(***************************************************************************)
EXTENDS BillingReservation

Outcome(status) ==
    CASE status = "reserved" -> "open"
      [] status = "settled" -> "charged"
      [] status = "refunded" -> "returned"
      [] OTHER -> "absent"

Charges == INSTANCE RequestCharge
    WITH outcome <- [r \in Requests |-> Outcome(resv[r].status)],
         paid <- [r \in Requests |-> net[r].subTotal - net[r].user]

\* Every transaction on billing_reservations and its ledger is a step of the
\* abstract charge or none: an open request's cost is corrected, and it ends
\* once, at what the ledger says or free of charge, whatever retries, reviews,
\* task results, top-ups and resets happen in between.
ImplementsCharge == Charges!Spec

=============================================================================
