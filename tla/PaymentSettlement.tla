-------------------------- MODULE PaymentSettlement --------------------------
(***************************************************************************)
(* The settlement of one top-up order: what the server makes of the events  *)
(* a payment provider reports about a payment, in whatever order and as     *)
(* often as they arrive, while administrators and the expiry sweep act on   *)
(* the same order (model/payment_settlement.go, model/payment_audit*.go,    *)
(* model/payment.go, controller/payment_unified.go).                        *)
(*                                                                          *)
(* The provider lives through a history of events: it takes a payment,      *)
(* refunds part of it, opens and closes disputes.  It delivers each event   *)
(* until the webhook handler has answered 200, possibly again afterwards.   *)
(* A handler records the event in the inbox, confirms it with the provider, *)
(* settles it in one transaction, and for a payment replays the reversals   *)
(* that came before it.                                                     *)
(*                                                                          *)
(* Credentials, live mode, currency, method and customer of the events are  *)
(* those of the order: a mismatch is one more cause of a review.  The buyer *)
(* has no inviter.  "pending" also stands for "processing", which every     *)
(* guard here treats alike.  What a debt does to the account's status is    *)
(* the subject of UserFreeze.                                               *)
(***************************************************************************)
EXTENDS Integers, Sequences, FiniteSets, FiniteSetsExt

CONSTANTS
    Handlers,        \* webhook requests the server works on at a time
    Histories,       \* what may happen at the provider: sequences of events
    Expected,        \* ExpectedAmountMinor of the order
    CreditQuota,     \* the quota the order buys
    MaxQuota,        \* the largest quota a wallet holds
    InitQuota,       \* the wallet before the payment
    ExternalRefunds, \* cumulative refunds an administrator may confirm
    MaxSpent,        \* bound: net quota the user spends on requests
    MaxFaults        \* bound: crashes, failed confirmations, extra deliveries

EventKinds == {"paid", "failed", "expired", "refunded",
               "disputed", "lost", "won", "review"}

\* A verified, normalised event.  amount is the amount paid, the cumulative
\* amount refunded or the amount of the dispute; known says whether the trade
\* number it carries is the order's.
Event == [kind : EventKinds, amount : 0 .. Expected, resource : STRING,
          at : Nat, known : BOOLEAN]

ASSUME AmountsAssumption ==
    /\ Expected \in Nat \ {0} /\ CreditQuota \in Nat \ {0}
    /\ MaxQuota \in Nat /\ InitQuota \in 0 .. MaxQuota
    /\ ExternalRefunds \subseteq 1 .. Expected
    /\ MaxSpent \in Nat /\ MaxFaults \in Nat
ASSUME HistoriesAssumption == \A h \in Histories : h \in Seq(Event)

VARIABLES
    history,      \* the events of the payment, in the order they happen
    inbox,        \* payment_events in the order of their ids
    rows,         \* per event, its row
    db,           \* order, projection, ledger, debt and wallet
    rejected,     \* an administrator rejected or voided the order
    debtEvent,    \* the administrator event of the debt's resolution exists
    handlers,     \* per request, its event, where it stands, what it replays
    acked,        \* the events answered with 200
    spent,        \* what the user has spent otherwise, net
    faults        \* faults so far

vars == <<history, inbox, rows, db, rejected, debtEvent, handlers,
          acked, spent, faults>>

DisputeKinds == {"disputed", "lost", "won"}
ReversalKinds == {"refunded"} \cup DisputeKinds

OrderStatuses == {"pending", "fulfilled", "failed", "expired", "refund_pending",
                  "refunded", "disputed", "debt", "manual_review"}

E == DOMAIN history
Kind(e) == history[e].kind
Amount(e) == history[e].amount

\* paymentEventRequiresProviderPaymentAuthority: refunds and disputes, those of
\* an incompatible API version included, find their order by the payment key.
NeedsPaymentKey(e) == Kind(e) \in ReversalKinds \cup {"review"}

-----------------------------------------------------------------------------
(* The rows a settlement may write, as functions of their value s.          *)

Smaller(a, b) == IF a < b THEN a ELSE b

\* syncPaymentProjectionStatusTx
Synced(s) == [s EXCEPT !.topUp = IF s.order.status = "fulfilled"
                                 THEN "success" ELSE s.order.status]

\* createPaymentLedgerEntryTx: one entry per event and type, the first stands.
Posted(s, by, type, quota) ==
    IF \E l \in s.ledger : l.by = by /\ l.type = type
    THEN s
    ELSE [s EXCEPT !.ledger = @ \cup {[by |-> by, type |-> type, quota |-> quota]}]

\* paymentEntitlementGrantedTx: the ledger, the order and the projection must
\* tell the same; otherwise the call fails.
Credits(s) == {l \in s.ledger : l.type = "credit"}
Granted(s) == Credits(s) # {}
SourcesAgree(s) ==
    /\ Cardinality(Credits(s)) <= 1
    /\ Granted(s) = (s.order.settled \/ s.order.status \in {"fulfilled", "debt", "disputed"})
    /\ IF Granted(s)
       THEN s.topUp \in {"success", "refund_pending", "refunded", "disputed", "debt"}
       ELSE s.topUp # "success"

\* Mutant of KeepsProjection: only the status is looked at.
KeepsProjectionByStatus(s) ==
    s.order.status \in {"fulfilled", "refund_pending", "refunded", "disputed", "debt"}

\* markPaymentManualReviewForOrderTx: the projection of a settled order, and
\* that of a rejected one, stays as it is.
KeepsProjection(s) ==
    s.order.settled \/ s.order.status \in {"fulfilled", "refund_pending", "refunded",
                                           "disputed", "debt"}
MarkedForReview(s, keep) ==
    [s EXCEPT !.order.status = "manual_review",
              !.topUp = IF keep THEN @ ELSE "manual_review"]

\* fulfillPaymentOrderTx
AlreadySettled(s) == s.order.status \in {"fulfilled", "refunded", "disputed", "debt"}

\* Mutant of CannotFulfill: the administrator's decision is not looked up.
CannotFulfillUndecided(s) ==
    /\ ~AlreadySettled(s)
    /\ \/ s.order.status = "manual_review"
       \/ s.topUp \notin {"pending", "manual_review", "failed", "expired"}
       \/ s.wallet + CreditQuota > MaxQuota

CannotFulfill(s) ==
    /\ ~AlreadySettled(s)
    /\ \/ s.order.status = "manual_review"
       \/ rejected
       \/ s.topUp \notin {"pending", "manual_review", "failed", "expired"}
       \/ s.wallet + CreditQuota > MaxQuota
Fulfilled(s, by) ==
    IF AlreadySettled(s) THEN s
    ELSE Posted([s EXCEPT !.order.status = "fulfilled", !.order.settled = TRUE,
                          !.topUp = "success", !.wallet = @ + CreditQuota],
                by, "credit", CreditQuota)

\* failOrExpirePaymentOrderTx
Ended(s, status) ==
    IF s.order.status \in {"fulfilled", "refunded", "disputed", "debt", "manual_review"}
    THEN s
    ELSE [s EXCEPT !.order.status = status,
                   !.topUp = IF @ = "pending" THEN status ELSE @]

-----------------------------------------------------------------------------
(* The reversal of a settled order.                                         *)

\* reverseUserPaymentQuotaTx and addPaymentDebtTx: what the wallet does not
\* hold any more becomes a debt.
Recovered(s, quota) ==
    LET recovered == Smaller(quota, s.wallet)
        debt == quota - recovered
    IN [s EXCEPT !.wallet = @ - recovered,
                 !.debt = IF debt = 0 THEN @
                          ELSE [status |-> "open", quota |-> @.quota + debt]]

\* Mutant of Restored: the wallet is credited before the debt is looked at.
RestoredInFull(s, quota) == [s EXCEPT !.wallet = @ + quota, !.debt.quota = 0]

\* restoreUserPaymentQuotaTx and resolvePaymentDebtQuotaTx: the debt is paid
\* before the wallet is credited.
Restored(s, quota) ==
    LET resolved == Smaller(quota, s.debt.quota)
        left == s.debt.quota - resolved
    IN [s EXCEPT !.wallet = @ + quota - resolved,
                 !.debt = [status |-> IF @.status # "none" /\ left = 0
                                      THEN "resolved" ELSE @.status,
                           quota |-> left]]

\* decimal.Round(0) of the share of the credit that targetAmount stands for
ReversedQuota(targetAmount) ==
    (2 * CreditQuota * targetAmount + Expected) \div (2 * Expected)

\* The statuses of an order with a reversal, in reconcilePaymentReversalTx
ReversalStatus(o, debt) ==
    CASE o.reversed = 0 -> "fulfilled"
      [] o.reversed > 0 /\ debt.status = "open" -> "debt"
      [] o.reversed > 0 /\ debt.status # "open" /\ o.disputed > 0 -> "disputed"
      [] o.reversed > 0 /\ debt.status # "open" /\ o.disputed = 0 ->
           IF o.refunded >= Expected THEN "refunded" ELSE "refund_pending"

\* reconcilePaymentReversalTx once its checks have passed: the order is brought
\* to these cumulative amounts, whatever was reversed before.
Reconciled(s, by, refunded, disputed) ==
    LET target == Smaller(Expected, refunded + disputed)
        quota == ReversedQuota(target)
        delta == quota - s.order.reversedQuota
        moved == CASE delta > 0 ->
                        Posted(Recovered(s, delta), by,
                               IF disputed > 0 THEN "dispute_reversal" ELSE "refund_reversal",
                               -delta)
                   [] delta < 0 ->
                        Posted(Restored(s, -delta), by, "reversal_restored", -delta)
                   [] OTHER -> s
        order == [s.order EXCEPT !.refunded = refunded, !.disputed = disputed,
                                 !.reversed = target, !.reversedQuota = quota]
    IN Synced([moved EXCEPT !.order =
                  [order EXCEPT !.status = ReversalStatus(order, moved.debt)]])

\* Its checks: the order must have been paid and credited, the amounts must fit
\* the order, and a restored credit must fit the wallet.
CannotReverse(s, refunded, disputed) ==
    \/ s.order.status \in {"pending", "failed", "expired"}
    \/ ~SourcesAgree(s) \/ ~Granted(s)
    \/ refunded \notin 0 .. Expected \/ disputed \notin 0 .. Expected
    \/ Reconciled(s, 0, refunded, disputed).wallet > MaxQuota

-----------------------------------------------------------------------------
(* Disputes: every event tells the state of one dispute at one time.        *)

Resolved(e) == Kind(e) \in {"lost", "won"}
Id(e) == CHOOSE i \in DOMAIN inbox : inbox[i] = e

\* ORDER BY provider_created_at, id
Newer(d, e) ==
    \/ history[d].at > history[e].at
    \/ history[d].at = history[e].at /\ Id(d) > Id(e)

\* The disputes already applied, other than by e, and the newest of a resource.
Applied(e) ==
    {d \in E \ {e} : /\ Kind(d) \in DisputeKinds
                     /\ rows[d].status = "processed" /\ rows[d].matched}
Newest(S) == {d \in S : \A o \in S \ {d} : Newer(d, o)}
AppliedTo(e, r) == {d \in Applied(e) : history[d].resource = r}

\* evaluateProviderStateOrderTx: an older state is ignored; at the same second
\* only the end of an open dispute is news, and two different ends conflict.
Stale(e) ==
    /\ Kind(e) \in DisputeKinds
    /\ \E d \in Newest(AppliedTo(e, history[e].resource)) :
        \/ history[d].at > history[e].at
        \/ /\ history[d].at = history[e].at
           /\ (Kind(d) = Kind(e) \/ ~Resolved(e))
StateConflict(e) ==
    /\ Kind(e) \in DisputeKinds
    /\ \E d \in Newest(AppliedTo(e, history[e].resource)) :
        /\ history[d].at = history[e].at
        /\ Resolved(d) /\ Resolved(e) /\ Kind(d) # Kind(e)

\* Mutant of DisputedAmount: the event is taken for the only dispute.
DisputedAmountOfEvent(e) == IF Kind(e) = "won" THEN 0 ELSE Amount(e)

\* paymentDisputedAmountTx: the newest state of every other resource, and e
Exposure(S) == MapThenSumSet(Amount, {d \in S : Kind(d) # "won"})
DisputedAmount(e) ==
    LET others == {history[d].resource : d \in Applied(e)} \ {history[e].resource}
    IN Exposure({e} \cup UNION {Newest(AppliedTo(e, r)) : r \in others})

RefundedAfter(e) == IF Kind(e) = "refunded" THEN Amount(e) ELSE db.order.refunded
DisputedAfter(e) == IF Kind(e) \in DisputeKinds THEN DisputedAmount(e) ELSE db.order.disputed

-----------------------------------------------------------------------------
(* processPaymentEventWithTaskLease: one transaction.                       *)

\* lockPaymentOrderForEventTx
Found(e) == IF NeedsPaymentKey(e) THEN db.order.bound ELSE history[e].known

\* bindAndValidateProviderIdentityTx: an expired session names no payment.
Bound(s, e) == [s EXCEPT !.order.bound = @ \/ Kind(e) # "expired"]

\* A cumulative refund below the recorded one is old news.
Outdated(e) == Kind(e) = "refunded" /\ Amount(e) < db.order.refunded

NeedsReview(e, s) ==
    \/ Kind(e) = "review"
    \/ StateConflict(e)
    \/ Kind(e) = "paid" /\ (rejected \/ Amount(e) # Expected \/ CannotFulfill(s))
    \/ /\ Kind(e) \in ReversalKinds
       /\ IF Outdated(e) THEN CannotReverse(s, s.order.refunded, s.order.disputed)
          ELSE CannotReverse(s, RefundedAfter(e), DisputedAfter(e))

Effect(e, s) ==
    CASE Kind(e) = "paid" -> Fulfilled(s, e)
      [] Kind(e) \in ReversalKinds ->
           IF Outdated(e) THEN s ELSE Reconciled(s, e, RefundedAfter(e), DisputedAfter(e))
      [] Kind(e) \in {"failed", "expired"} -> Ended(s, Kind(e))

\* finishPaymentEventTx
Finish(e, status, matched) ==
    rows' = [rows EXCEPT ![e] = [status |-> status, matched |-> @.matched \/ matched]]

\* The transaction of an event whose order is found.
Settle(e) ==
    LET s == Bound(db, e)
        keep == KeepsProjection(s) \/ (Kind(e) = "paid" /\ rejected)
    IN \/ /\ Stale(e)
          /\ Finish(e, "dismissed", TRUE)
          /\ db' = s
       \/ /\ ~Stale(e)
          /\ NeedsReview(e, s)
          /\ Finish(e, "manual_review", TRUE)
          /\ db' = MarkedForReview(s, keep)
       \/ /\ ~Stale(e)
          /\ ~NeedsReview(e, s)
          /\ Finish(e, "processed", TRUE)
          /\ db' = Effect(e, s)

-----------------------------------------------------------------------------
(* The provider and the requests that carry its events.                     *)

Idle == [event |-> 0, at |-> "idle", replays |-> {}]
At(h, step) == handlers[h].at = step
Goto(h, step) == handlers' = [handlers EXCEPT ![h].at = step]

\* The answer 200 ends the request and the provider's retries.
Acknowledge(h) ==
    /\ handlers' = [handlers EXCEPT ![h] = Idle]
    /\ acked' = acked \cup {handlers[h].event}
Abandon(h) ==
    /\ handlers' = [handlers EXCEPT ![h] = Idle]
    /\ faults < MaxFaults
    /\ faults' = faults + 1

Final(e) == rows[e].status \in {"processed", "manual_review", "dismissed"}
Unmatched(e) == rows[e].status = "manual_review" /\ ~rows[e].matched

\* The row of an event is locked while a transaction looks for its order.
Locked(e) == \E h \in Handlers : handlers[h].event = e /\ At(h, "unmatched")

\* RecordPaymentEventReceived: a verified delivery is in the inbox before
\* anything else happens to it.
Receive(h, e) ==
    /\ At(h, "idle")
    /\ handlers' = [handlers EXCEPT ![h] = [event |-> e, at |-> "received", replays |-> {}]]
    /\ UNCHANGED <<history, db, rejected, debtEvent, acked, spent>>

Deliver(h, e) ==
    /\ e \in E \ acked /\ Receive(h, e)
    /\ IF rows[e].status = "none"
       THEN /\ rows' = [rows EXCEPT ![e].status = "received"]
            /\ inbox' = Append(inbox, e)
       ELSE UNCHANGED <<rows, inbox>>
    /\ UNCHANGED faults
Duplicate(h, e) ==
    /\ e \in acked /\ Receive(h, e)
    /\ faults < MaxFaults /\ faults' = faults + 1
    /\ UNCHANGED <<rows, inbox>>

\* The provider cannot confirm the event: 500, and the row can be retried.
ValidationFailed(h) ==
    LET e == handlers[h].event IN
    /\ At(h, "received") /\ ~Locked(e)
    /\ rows' = IF Final(e) THEN rows ELSE [rows EXCEPT ![e].status = "failed"]
    /\ Abandon(h)
    /\ UNCHANGED <<history, inbox, db, rejected, debtEvent, acked, spent>>

Crash(h) ==
    /\ ~At(h, "idle")
    /\ Abandon(h)
    /\ UNCHANGED <<history, inbox, rows, db, rejected, debtEvent, acked, spent>>

\* processPaymentEvent.  Without an error, a payment goes on to the reversals
\* that arrived before it; a review is answered with 200.
AfterDuplicate(h, e) ==
    /\ Final(e)
    /\ IF Kind(e) = "paid" THEN Goto(h, "query") /\ UNCHANGED acked ELSE Acknowledge(h)
    /\ UNCHANGED <<rows, db>>
AfterSettlement(h, e) ==
    /\ ~Final(e) /\ Found(e)
    /\ Settle(e)
    /\ IF Kind(e) = "paid" /\ rows'[e].status = "processed"
       THEN Goto(h, "query") /\ UNCHANGED acked
       ELSE Acknowledge(h)
\* The order is not visible to this transaction; it may be to the next one before
\* this one commits.  (More than a Stripe event can meet: its transaction and the
\* payment's both hold the row of the configuration fence.)
WithoutOrder(h, e) ==
    /\ ~Final(e) /\ ~Found(e)
    /\ Goto(h, "unmatched")
    /\ UNCHANGED <<rows, db, acked>>
Process(h) ==
    LET e == handlers[h].event IN
    /\ At(h, "received") /\ ~Locked(e)
    /\ AfterDuplicate(h, e) \/ AfterSettlement(h, e) \/ WithoutOrder(h, e)
    /\ UNCHANGED <<history, inbox, rejected, debtEvent, spent, faults>>

\* An event that names a payment waits for its order in review; for another one
\* RecordPaymentEventManualReview does the same in a transaction of its own.
CommitUnmatched(h) ==
    LET e == handlers[h].event IN
    /\ At(h, "unmatched")
    /\ IF NeedsPaymentKey(e)
       THEN Finish(e, "manual_review", FALSE) /\ Acknowledge(h)
       ELSE Finish(e, "failed", FALSE) /\ Goto(h, "record") /\ UNCHANGED acked
    /\ UNCHANGED <<history, inbox, db, rejected, debtEvent, spent, faults>>
RecordUnmatched(h) ==
    LET e == handlers[h].event IN
    /\ At(h, "record") /\ ~Locked(e)
    /\ rows' = IF rows[e].status \in {"processed", "dismissed"} THEN rows
               ELSE [rows EXCEPT ![e].status = "manual_review"]
    /\ Acknowledge(h)
    /\ UNCHANGED <<history, inbox, db, rejected, debtEvent, spent, faults>>

\* replayUnmatchedPaymentReversals: the list is read once, each reversal is then
\* settled in a transaction of its own, in the order of their ids.
WaitingReversals == {r \in E : Unmatched(r) /\ Kind(r) \in ReversalKinds}
QueryUnmatched(h) ==
    /\ At(h, "query")
    /\ IF WaitingReversals = {}
       THEN Acknowledge(h)
       ELSE /\ handlers' = [handlers EXCEPT ![h].at = "replay", ![h].replays = WaitingReversals]
            /\ UNCHANGED acked
    /\ UNCHANGED <<history, inbox, rows, db, rejected, debtEvent, spent, faults>>
Replay(h) ==
    LET replays == handlers[h].replays IN
    /\ At(h, "replay")
    /\ \E r \in replays :
         /\ \A later \in replays : Id(r) <= Id(later)
         /\ IF Unmatched(r) /\ Found(r) THEN Settle(r) ELSE UNCHANGED <<rows, db>>
         /\ IF replays = {r}
            THEN Acknowledge(h)
            ELSE handlers' = [handlers EXCEPT ![h].replays = @ \ {r}] /\ UNCHANGED acked
    /\ UNCHANGED <<history, inbox, rejected, debtEvent, spent, faults>>

\* The key of an event comes again with another payload.
ConflictingDelivery(e) ==
    /\ rows[e].status # "none" /\ ~Locked(e)
    /\ faults < MaxFaults /\ faults' = faults + 1
    /\ Finish(e, "manual_review", FALSE)
    /\ db' = IF rows[e].matched THEN [db EXCEPT !.order.status = "manual_review"] ELSE db
    /\ UNCHANGED <<history, inbox, rejected, debtEvent, handlers, acked, spent>>

-----------------------------------------------------------------------------
(* The server itself.                                                       *)

traffic == <<history, inbox, handlers, acked, faults>>

\* savePaymentOrderStartWithProviderIdentity: some providers name the payment
\* when the order is opened.
SaveStart ==
    /\ db.order.status = "pending" /\ ~db.order.bound
    /\ db' = [db EXCEPT !.order.bound = TRUE]
    /\ UNCHANGED <<traffic, rows, rejected, debtEvent, spent>>

\* expirePaymentOrderTx, markPaymentOrderFailed, markPaymentOrderManualReview
CloseLocally(status) ==
    /\ db.order.status = "pending"
    /\ db' = [db EXCEPT !.order.status = status,
                        !.topUp = IF status # "expired" \/ @ = "pending" THEN status ELSE @]
    /\ UNCHANGED <<traffic, rows, rejected, debtEvent, spent>>

\* Requests take quota from the wallet and may give it back.
Spend(quota) ==
    /\ spent + quota \in 0 .. MaxSpent
    /\ db.wallet - quota \in 0 .. MaxQuota
    /\ db' = [db EXCEPT !.wallet = @ - quota]
    /\ spent' = spent + quota
    /\ UNCHANGED <<traffic, rows, rejected, debtEvent>>

-----------------------------------------------------------------------------
(* Administrators.                                                          *)

Untouched(o) == o.refunded = 0 /\ o.disputed = 0 /\ o.reversed = 0 /\ o.reversedQuota = 0

\* rejectPaymentOrderByAdminTx
AdminReject ==
    /\ db.order.status = "manual_review"
    /\ SourcesAgree(db) /\ ~Granted(db) /\ Untouched(db.order)
    /\ db' = Synced([db EXCEPT !.order.status = "failed"])
    /\ rejected' = TRUE
    /\ UNCHANGED <<traffic, rows, debtEvent, spent>>

\* confirmExternalPaymentRefundTx: the refund was made at the provider, outside.
AdminExternalRefund(refunded) ==
    /\ refunded > db.order.refunded /\ db.order.disputed = 0
    /\ SourcesAgree(db)
    /\ \/ /\ Granted(db)
          /\ ~CannotReverse(db, refunded, 0)
          /\ db' = Posted(Reconciled(db, -refunded, refunded, 0),
                          -refunded, "admin_external_refund", 0)
       \/ /\ ~Granted(db)
          /\ db' = Posted(Synced([db EXCEPT
                      !.order.status = IF refunded = Expected THEN "refunded" ELSE "refund_pending",
                      !.order.refunded = refunded]), -refunded, "admin_external_refund", 0)
    /\ UNCHANGED <<traffic, rows, rejected, debtEvent, spent>>

\* ResolvePaymentDebtByAdmin: one resolution per debt, repaid or waived.
AdminResolveDebt ==
    LET o == db.order
        status == CASE o.disputed > 0 -> "disputed"
                    [] o.disputed = 0 /\ o.refunded >= Expected -> "refunded"
                    [] o.disputed = 0 /\ o.refunded \in 1 .. Expected - 1 -> "refund_pending"
                    [] OTHER -> "fulfilled"
    IN /\ db.debt.status = "open" /\ ~debtEvent
       /\ db' = Synced(Posted([db EXCEPT !.debt = [status |-> "resolved", quota |-> 0],
                                         !.order.status = status],
                              0, "debt_resolved", db.debt.quota))
       /\ debtEvent' = TRUE
       /\ UNCHANGED <<traffic, rows, rejected, spent>>

\* linkUnmatchedPaymentEventTx: a payment nobody could map is given its order.
AdminLink(e) ==
    LET reopened == IF db.order.status \in {"failed", "expired"}
                    THEN Synced([db EXCEPT !.order.status = "pending", !.order.bound = TRUE])
                    ELSE [db EXCEPT !.order.status = "pending", !.order.bound = TRUE]
    IN /\ Unmatched(e) /\ Kind(e) = "paid" /\ Amount(e) = Expected
       /\ Untouched(db.order) /\ SourcesAgree(db) /\ ~Granted(db)
       /\ db.order.status \in {"pending", "manual_review", "failed", "expired"}
       /\ ~CannotFulfill(reopened)
       /\ db' = Fulfilled(reopened, e)
       /\ Finish(e, "processed", TRUE)
       /\ UNCHANGED <<traffic, rejected, debtEvent, spent>>

\* dismissUnmatchedPaymentEventTx
AdminDismiss(e) ==
    /\ Unmatched(e)
    /\ Finish(e, "dismissed", FALSE)
    /\ UNCHANGED <<traffic, db, rejected, debtEvent, spent>>

-----------------------------------------------------------------------------
Init ==
    /\ history \in Histories
    /\ inbox = <<>> /\ acked = {} /\ spent = 0 /\ faults = 0
    /\ rows = [e \in E |-> [status |-> "none", matched |-> FALSE]]
    /\ db = [order |-> [status |-> "pending", settled |-> FALSE, bound |-> FALSE,
                        refunded |-> 0, disputed |-> 0, reversed |-> 0, reversedQuota |-> 0],
             topUp |-> "pending", ledger |-> {},
             debt |-> [status |-> "none", quota |-> 0], wallet |-> InitQuota]
    /\ rejected = FALSE /\ debtEvent = FALSE
    /\ handlers = [h \in Handlers |-> Idle]

HandlerStep(h) ==
    \/ Process(h) \/ CommitUnmatched(h) \/ RecordUnmatched(h)
    \/ QueryUnmatched(h) \/ Replay(h)

Next ==
    \/ \E h \in Handlers : \/ HandlerStep(h) \/ ValidationFailed(h) \/ Crash(h)
                           \/ \E e \in E : Deliver(h, e) \/ Duplicate(h, e)
    \/ \E e \in E : ConflictingDelivery(e) \/ AdminLink(e) \/ AdminDismiss(e)
    \/ SaveStart
    \/ \E status \in {"expired", "failed", "manual_review"} : CloseLocally(status)
    \/ \E quota \in {-1, 1} : Spend(quota)
    \/ AdminReject \/ AdminResolveDebt
    \/ \E refunded \in ExternalRefunds : AdminExternalRefund(refunded)

Spec == Init /\ [][Next]_vars

-----------------------------------------------------------------------------
(* Properties                                                              *)

LedgerSum(types) ==
    MapThenSumSet(LAMBDA l : l.quota, {l \in db.ledger : l.type \in types})

\* However often an event is delivered, reversed, restored or waived: what the
\* user has, has spent and owes is what the ledger of the order posted, and the
\* ledger posted what the order says was credited and reversed.
Books ==
    /\ db.wallet + spent - db.debt.quota = InitQuota +
         LedgerSum({"credit", "refund_reversal", "dispute_reversal", "reversal_restored", "debt_resolved"})
    /\ LedgerSum({"credit", "refund_reversal", "dispute_reversal", "reversal_restored"}) =
         (IF db.order.settled THEN CreditQuota ELSE 0) - db.order.reversedQuota

\* Ledger, order and projection always agree on whether the credit was granted,
\* so paymentEntitlementGrantedTx never refuses a reversal for its books alone.
EntitlementSourcesAgree == SourcesAgree(db)

\* What the provider and the administrators have told the server so far.
Told == {e \in E : rows[e].status # "none"}
ToldRefunded ==
    Max({0} \cup {Amount(e) : e \in {d \in Told : Kind(d) = "refunded"}}
            \cup {-l.by : l \in {k \in db.ledger : k.type = "admin_external_refund"}})
ToldDisputed ==
    LET disputes == {e \in Told : Kind(e) \in DisputeKinds}
    IN Exposure({e \in disputes : \A d \in disputes :
                    history[d].resource = history[e].resource => d <= e})

\* When every event the server knows of is applied or was dismissed as old news,
\* in whatever order they came, the credit is reversed by what is now refunded
\* and disputed, all disputes together, and a payment was credited unless the
\* order had been refunded in full before.
AgreesWithProvider ==
    (\A e \in Told : rows[e].status = "processed" \/ (rows[e].status = "dismissed" /\ rows[e].matched)) =>
        /\ db.order.settled =>
             /\ db.order.reversed = Smaller(Expected, ToldRefunded + ToldDisputed)
             /\ db.order.reversedQuota = ReversedQuota(db.order.reversed)
        /\ (\E e \in Told : Kind(e) = "paid") =>
             db.order.settled \/ db.order.refunded = Expected

\* A history in which a later state of a dispute has a later time; two ends of it
\* that contradict each other may share a second, evaluateProviderStateOrderTx
\* sends the second one to review.
TimelyHistory(h) ==
    \A d, e \in DOMAIN h :
        (/\ d < e /\ h[d].resource = h[e].resource
         /\ h[d].kind \in DisputeKinds /\ h[e].kind \in DisputeKinds) =>
            \/ h[d].at < h[e].at
            \/ /\ h[d].at = h[e].at /\ h[d].kind # h[e].kind
               /\ h[d].kind \in {"lost", "won"} /\ h[e].kind \in {"lost", "won"}
Timely == \A h \in Histories : TimelyHistory(h)

\* An order an administrator has rejected or voided is never credited, neither
\* by a late payment nor by a link.
RejectedStaysUncredited == rejected => ~Granted(db)

=============================================================================
