--------------------------- MODULE BillingSession ---------------------------
(***************************************************************************)
(* The in-memory session of one request: service/billing_session.go.       *)
(*                                                                         *)
(* A session drives the transactions of BillingReservation.  Between two   *)
(* transactions everything else may happen: other requests, top-ups, the   *)
(* administrator, the task poller, the reconciler.  A call of a            *)
(* transaction is answered, is refused with the transaction's own error,   *)
(* or ends in a transient database error, and then it may have committed   *)
(* all the same.  The process may die at any point, which loses the        *)
(* session and keeps the rows.                                             *)
(***************************************************************************)
EXTENDS BillingReservation

CONSTANTS
    Preferences,        \* billing preferences users may have chosen
    StrictSubs,         \* subscriptions with allow_wallet_overflow = false
    MaxAttempts,        \* tries of a transaction in the retry loops
    MaxCalls,           \* bound: calls of Reserve, Settle and Refund
    Faults              \* transient database errors may happen

ASSUME SessionAssumption ==
    /\ Preferences \subseteq
         {"subscription_only", "wallet_only", "wallet_first", "subscription_first"}
    /\ StrictSubs \subseteq Subs
    /\ MaxAttempts \in Nat \ {0} /\ MaxCalls \in Nat
    /\ Faults \in BOOLEAN
    /\ 1 \in Amounts
    /\ FailureCodes = BillingSettlementFailures

VARIABLE ses            \* request -> the session's fields and where it is

allVars == <<vars, ses>>

-----------------------------------------------------------------------------
Errors == {"ok", "not_found", "conflict", "finalized", "overflow", "database"}
            \cup BillingSettlementFailures

SessionState ==
    [pc : {"new", "preconsume", "overflow", "open", "extend", "advance", "mark",
           "intent", "settle", "refund", "bind", "ended", "crashed"},
     preference : Preferences, source : {"wallet", "subscription"},
     fallback : {"none", "subscription", "overflow"},
     quota : Amounts,                   \* argument of the call in progress
     code : Errors,                     \* why the last call failed
     tries : 0..MaxAttempts, calls : 0..MaxCalls,
     preConsumedQuota : 0..MaxInt,
     settled : BOOLEAN, refunded : BOOLEAN, liabilityPending : BOOLEAN,
     delivered : BOOLEAN]               \* billable output has been produced

SessionTypeOK == ses \in [Requests -> SessionState]

SessionInit ==
    /\ Init
    /\ \E preference \in [Requests -> Preferences] : ses = [r \in Requests |->
         [pc |-> "new", preference |-> preference[r],
          source |-> "wallet", fallback |-> "none", quota |-> 1,
          code |-> "ok", tries |-> 0, calls |-> 0, preConsumedQuota |-> 0,
          settled |-> FALSE, refunded |-> FALSE, liabilityPending |-> FALSE,
          delivered |-> FALSE]]

Becomes(r, s) == ses' = [ses EXCEPT ![r] = s]

Deterministic(err) == err \in BillingSettlementFailures

-----------------------------------------------------------------------------
(* NewBillingSession                                                       *)

Trying(s, source, fallback) ==
    [s EXCEPT !.pc = "preconsume", !.source = source, !.fallback = fallback]

Refused(s, err) == [s EXCEPT !.pc = "ended", !.code = err]

NewBillingSession(r, q) ==
    LET s == [ses[r] EXCEPT !.quota = q]
        preference == s.preference IN
    /\ ses[r].pc = "new"
    /\ \/ Becomes(r,
            CASE preference = "subscription_only" -> Trying(s, "subscription", "none")
              [] preference = "wallet_only" -> Trying(s, "wallet", "none")
              [] preference = "wallet_first" -> Trying(s, "wallet", "subscription")
              [] OTHER -> IF ActiveSubs(UserOf[r]) = {}
                          THEN Trying(s, "wallet", "none")
                          ELSE Trying(s, "subscription", "overflow"))
       \/ Faults /\ preference = "subscription_first" /\ Becomes(r, Refused(s, "database"))
    /\ UNCHANGED vars

\* A subscription is asked for at least one unit.
Estimate(r) == IF ses[r].source = "subscription" THEN Larger(ses[r].quota, 1)
                                                 ELSE ses[r].quota

\* Both "insufficient" errors of a funding source allow the next source.
AfterPreConsumeError(s, err) ==
    CASE err \in {"user_quota", "subscription_quota"} /\ s.fallback = "subscription" ->
           Trying(s, "subscription", "none")
      [] err \in {"user_quota", "subscription_quota"} /\ s.fallback = "overflow" ->
           [s EXCEPT !.pc = "overflow"]
      [] OTHER -> Refused(s, err)

\* preConsume is tried once: after a transient error the caller gets no session.
PreConsume(r) ==
    LET s == ses[r]
        q == Estimate(r)
        err == PreConsumeErr(r, s.source, q)
        commit == IF s.source = "wallet" THEN PreConsumeWallet(r, q)
                                         ELSE PreConsumeSubscription(r, q) IN
    /\ s.pc = "preconsume"
    /\ \/ commit /\ Becomes(r, [s EXCEPT !.pc = "open", !.preConsumedQuota = q])
       \/ err # "ok" /\ UNCHANGED vars /\ Becomes(r, AfterPreConsumeError(s, err))
       \/ /\ Faults
          /\ commit \/ UNCHANGED vars
          /\ Becomes(r, AfterPreConsumeError(s, "database"))

\* Mutant of WalletOverflow: no subscription is asked whether it allows it.
WalletOverflowAlways(r) ==
    /\ ses[r].pc = "overflow"
    /\ Becomes(r, Trying(ses[r], "wallet", "none"))
    /\ UNCHANGED vars

\* UserActiveSubscriptionsAllowWalletOverflow: one strict subscription forbids it.
WalletOverflow(r) ==
    LET s == ses[r] IN
    /\ s.pc = "overflow"
    /\ \/ Becomes(r, IF ActiveSubs(UserOf[r]) \cap StrictSubs = {}
                     THEN Trying(s, "wallet", "none")
                     ELSE Refused(s, "subscription_quota"))
       \/ Faults /\ Becomes(r, Refused(s, "database"))
    /\ UNCHANGED vars

-----------------------------------------------------------------------------
(* The retry loops.  A transaction is tried up to MaxAttempts times; every  *)
(* error the loop does not name is taken for transient.                     *)

Retryable(pc, err) ==
    err = "database" \/ (pc = "settle" /\ err = "account_missing")

\* Mutant of GiveUp: a failed Reserve leaves no durable trace.
GiveUpSilently(s, err) ==
    IF s.pc = "settle" /\ Deterministic(err)
    THEN [s EXCEPT !.pc = "mark", !.code = err, !.tries = 0]
    ELSE [s EXCEPT !.pc = "open", !.code = IF s.pc = "extend" THEN "ok" ELSE err,
                   !.tries = 0, !.liabilityPending = @ \/ s.pc = "extend",
                   !.delivered = @ \/ s.pc = "extend"]

\* Settle and Reserve record a deterministic shortage; Reserve records the
\* target of any other failure as an intent.
GiveUp(s, err) ==
    CASE s.pc = "extend" ->
           [s EXCEPT !.liabilityPending = TRUE, !.delivered = TRUE, !.code = err,
                     !.tries = 0,
                     !.pc = IF Deterministic(err) THEN "mark" ELSE "advance"]
      [] s.pc = "settle" /\ Deterministic(err) ->
           [s EXCEPT !.pc = "mark", !.code = err, !.tries = 0]
      [] OTHER -> [s EXCEPT !.pc = IF s.pc = "refund" THEN "ended" ELSE "open",
                            !.code = err, !.tries = 0]

Failed(r, err) ==
    LET s == ses[r] IN
    IF Retryable(s.pc, err) /\ s.tries + 1 < MaxAttempts
    THEN [s EXCEPT !.tries = @ + 1] ELSE GiveUp(s, err)

\* One try of a transaction: err is the error it meets, commit its effect.
Try(r, err, commit, success) ==
    \/ err = "ok" /\ commit /\ Becomes(r, success)
    \/ err # "ok" /\ UNCHANGED vars /\ Becomes(r, Failed(r, err))
    \/ /\ Faults
       /\ (err = "ok" /\ commit) \/ UNCHANGED vars
       /\ Becomes(r, Failed(r, "database"))

Returned(s) == [s EXCEPT !.pc = "open", !.tries = 0]

\* The call answers "ok" without a new row version.
Repeated(quiet) == quiet /\ UNCHANGED vars

Finalized(r) == resv[r].status \in {"settled", "refunded"}

\* Mutant of ExtendTry: the new total is remembered whatever the answer.
ExtendTryOptimistic(r) ==
    LET s == [ses[r] EXCEPT !.preConsumedQuota = ses[r].quota] IN
    /\ s.pc = "extend"
    /\ \/ Try(r, ExtendErr(r, s.quota),
              ExtendBillingReservation(r, s.quota) \/ Repeated(s.quota <= resv[r].reserved),
              Returned(s))
       \/ UNCHANGED vars /\ Becomes(r, GiveUp(s, "database"))

ExtendTry(r) ==
    LET s == ses[r] IN
    /\ s.pc = "extend"
    /\ Try(r, ExtendErr(r, s.quota),
           ExtendBillingReservation(r, s.quota) \/ Repeated(s.quota <= resv[r].reserved),
           [Returned(s) EXCEPT !.preConsumedQuota = Larger(s.quota, resv[r].reserved)])

AdvanceTry(r) ==
    LET s == ses[r] IN
    /\ s.pc = "advance"
    /\ Try(r, IntentErr(r, s.quota, "unbound_increase"),
           \/ AdvanceUnboundBillingReservationSettlementIntent(r, s.quota)
           \/ Repeated(~IntentIsNew(r, s.quota)),
           Returned(s))

MarkTry(r) ==
    LET s == ses[r] IN
    /\ s.pc = "mark"
    /\ Try(r, ShortfallErr(r, s.quota),
           \/ MarkBillingReservationSettlementShortfall(r, s.quota, s.code)
           \/ Repeated(Finalized(r)),
           Returned(s))

IntentTry(r) ==
    LET s == ses[r] IN
    /\ s.pc = "intent"
    /\ Try(r, IntentErr(r, s.quota, "strict"),
           \/ PrepareBillingReservationSettlement(r, s.quota)
           \/ Repeated(~IntentIsNew(r, s.quota)),
           [s EXCEPT !.pc = "settle", !.tries = 0])

SettleTry(r) ==
    LET s == ses[r] IN
    /\ s.pc = "settle"
    /\ Try(r, SettleErr(r, s.quota),
           SettleBillingReservation(r, s.quota) \/ Repeated(Finalized(r)),
           [Returned(s) EXCEPT !.preConsumedQuota = s.quota, !.settled = TRUE,
                               !.liabilityPending = FALSE])

\* Mutant of RefundTry: the wallet is credited before the transaction.
RefundTryCreditsFirst(r) ==
    LET s == ses[r] IN
    /\ s.pc = "refund"
    /\ RefundErr(r) = "ok" /\ resv[r].status = "reserved"
    /\ quota' = [quota EXCEPT ![UserOf[r]] = @ + resv[r].reserved]
    /\ Becomes(r, Returned(s))
    /\ UNCHANGED <<acct, tok, sub, resv, pre, task, debt, keys, net>>

RefundTry(r) ==
    LET s == ses[r] IN
    /\ s.pc = "refund"
    /\ Try(r, RefundErr(r),
           RefundBillingReservation(r) \/ Repeated(Finalized(r)),
           [Returned(s) EXCEPT !.pc = "ended", !.refunded = TRUE])

-----------------------------------------------------------------------------
(* The calls the request handler makes                                     *)

Idle(r) == ses[r].pc = "open" /\ ses[r].calls < MaxCalls

Called(r, pc, q) ==
    [ses[r] EXCEPT !.pc = pc, !.quota = q, !.calls = @ + 1, !.tries = 0]

Reserve(r, q) ==
    /\ Idle(r)
    /\ ~ses[r].settled /\ ~ses[r].refunded /\ q > ses[r].preConsumedQuota
    /\ Becomes(r, Called(r, "extend", q))
    /\ UNCHANGED vars

\* Mutant of Settle: the liability is remembered only once Settle succeeds.
SettleForgetsLiability(r, q) ==
    /\ Idle(r)
    /\ ~ses[r].refunded
    /\ Becomes(r, [Called(r, "intent", q) EXCEPT !.delivered = TRUE])
    /\ UNCHANGED vars

\* Mutant of Settle: no intent is persisted before the balances move.
SettleWithoutIntent(r, q) ==
    /\ Idle(r)
    /\ ~ses[r].refunded
    /\ Becomes(r, [Called(r, "settle", q) EXCEPT !.liabilityPending = TRUE,
                                                 !.delivered = TRUE])
    /\ UNCHANGED vars

\* The liability is remembered before the intent is persisted.
Settle(r, q) ==
    /\ Idle(r)
    /\ ~ses[r].refunded
    /\ Becomes(r, [Called(r, "intent", q) EXCEPT !.liabilityPending = TRUE,
                                                 !.delivered = TRUE])
    /\ UNCHANGED vars

NeedsRefund(s) == ~s.settled /\ ~s.refunded /\ ~s.liabilityPending

\* The deferred clean-up of a handler that failed, the last thing it does.
Refund(r) ==
    /\ ses[r].pc = "open"
    /\ NeedsRefund(ses[r])
    /\ Becomes(r, [ses[r] EXCEPT !.pc = "refund", !.tries = 0])
    /\ UNCHANGED vars

\* RelayTask binds the submitted task; when that fails it settles instead, and
\* either way it returns.
Bind(r, q) ==
    /\ Idle(r)
    /\ r \in TaskRequests /\ NeedsRefund(ses[r])
    /\ Becomes(r, [Called(r, "bind", q) EXCEPT !.delivered = TRUE])
    /\ UNCHANGED vars

BindTry(r) ==
    LET s == ses[r]
        err == CreateTaskErr(r, s.quota)
        commit == \E done \in BOOLEAN :
                     CreateTaskWithBillingReservation(r, s.quota, done)
        settle == [s EXCEPT !.pc = "intent", !.liabilityPending = TRUE,
                            !.calls = MaxCalls] IN
    /\ s.pc = "bind"
    /\ \/ commit /\ Becomes(r, [s EXCEPT !.pc = "ended"])
       \/ err # "ok" /\ UNCHANGED vars /\ Becomes(r, settle)
       \/ Faults /\ (commit \/ UNCHANGED vars) /\ Becomes(r, settle)

\* The handler returns; its clean-up finds nothing to refund.
End(r) ==
    /\ ses[r].pc = "open"
    /\ ~NeedsRefund(ses[r])
    /\ Becomes(r, [ses[r] EXCEPT !.pc = "ended"])
    /\ UNCHANGED vars

Crash(r) ==
    /\ ses[r].pc \notin {"new", "ended", "crashed"}
    /\ Becomes(r, [ses[r] EXCEPT !.pc = "crashed"])
    /\ UNCHANGED vars

-----------------------------------------------------------------------------
(* The task poller and the reconciler                                      *)

\* markAsyncBillingSettlementShortfall, after a settlement that was refused.
MarkTaskShortfall(r, q) ==
    /\ resv[r].pending /\ resv[r].target = q
    /\ Deterministic(SettleTaskErr(r, q))
    /\ MarkBillingReservationSettlementShortfall(r, q, SettleTaskErr(r, q))

PollerStep(r) ==
    \/ \E q \in Amounts :
        \/ TaskSucceeds(r, q)
        \/ PrepareTaskBillingReservationSettlement(r, q)
        \/ SettleTaskBillingReservation(r, q) \/ SettleTaskAgain(r, q)
        \/ MarkTaskShortfall(r, q)
    \/ TaskFails(r)
    \/ RefundTaskBillingReservation(r)

\* The reconciler read the reservation before the transaction, so it may or may
\* not know of a pending target.
ReconcileTargets(r) ==
    IF task[r].intent # NoIntent THEN {task[r].intent}
    ELSE {task[r].quota} \cup IF resv[r].pending THEN {resv[r].target} ELSE {}

\* Mutant of ReconcileStaleBillingReservation: unbound rows are passed over.
ReconcileBoundOnly(r) ==
    /\ resv[r].status = "reserved" /\ resv[r].bound
    /\ IF task[r].status = "failure" /\ RefundErr(r) = "ok"
       THEN RefundTaskBillingReservation(r) ELSE RecordBillingReconcileReview(r)

\* ReconcileStaleBillingReservations for one row: only a terminal bound task
\* moves balances, everything else is marked for review.
ReconcileStaleBillingReservation(r) ==
    /\ resv[r].status = "reserved"
    /\ CASE resv[r].bound /\ task[r].status = "success" ->
              \E q \in ReconcileTargets(r) :
                 CASE PrepareTaskErr(r, q) # "ok" -> RecordBillingReconcileReview(r)
                   [] PrepareTaskErr(r, q) = "ok" /\ IntentIsNew(r, q) ->
                        PrepareTaskBillingReservationSettlement(r, q)
                   [] OTHER -> IF SettleTaskErr(r, q) = "ok"
                               THEN SettleTaskBillingReservation(r, q)
                               ELSE RecordBillingReconcileReview(r)
         [] resv[r].bound /\ task[r].status = "failure" ->
              IF RefundErr(r) = "ok" THEN RefundTaskBillingReservation(r)
                                     ELSE RecordBillingReconcileReview(r)
         [] OTHER -> RecordBillingReconcileReview(r)

-----------------------------------------------------------------------------
TryStep(r) ==
    \/ PreConsume(r) \/ WalletOverflow(r)
    \/ ExtendTry(r) \/ AdvanceTry(r) \/ MarkTry(r)
    \/ IntentTry(r) \/ SettleTry(r) \/ RefundTry(r) \/ BindTry(r)

CallStep(r) ==
    \/ \E q \in Amounts :
        \/ NewBillingSession(r, q) \/ Reserve(r, q) \/ Settle(r, q) \/ Bind(r, q)
    \/ Refund(r) \/ End(r) \/ Crash(r)

OthersStep ==
    \/ \E r \in Requests :
        \/ \E q \in Amounts : ResolveByAdminSettle(r, q, resv[r].version)
        \/ ResolveByAdminRefund(r, resv[r].version)
        \/ ReconcileStaleBillingReservation(r)
    \/ \E r \in TaskRequests : PollerStep(r)
    \/ AccountStep

SessionNext ==
    \/ \E r \in Requests : TryStep(r) \/ CallStep(r)
    \/ OthersStep /\ UNCHANGED ses

SessionSpec == SessionInit /\ [][SessionNext]_allVars

\* The reconciler is a periodic system task of the cluster.
FairSessionSpec ==
    SessionSpec
    /\ \A r \in Requests :
         WF_allVars(ReconcileStaleBillingReservation(r) /\ UNCHANGED ses)

-----------------------------------------------------------------------------
(* Properties                                                              *)

BecomesFinal(r, status) ==
    resv[r].status = "reserved" /\ resv'[r].status = status

\* Usage that was delivered is never given back by the session's own clean-up:
\* once Settle was called or a Reserve failed, whatever errors and lost answers
\* follow, the session takes no step that refunds the reservation.
DeliveredUsageIsKept ==
    [][\A r \in Requests :
        ses[r].delivered /\ BecomesFinal(r, "refunded") => ses'[r] = ses[r]]_allVars

\* What the session remembers is what the database holds.
SessionMatchesRow ==
    \A r \in Requests :
        /\ ses[r].settled => resv[r].status = "settled"
        /\ ses[r].refunded => resv[r].status = "refunded"
        /\ resv[r].status = "reserved" /\ ~resv[r].bound =>
              ses[r].preConsumedQuota <= resv[r].reserved

\* The session settles an unbound reservation only at the target that was
\* persisted before, so a crash between the two cannot change the charge.
SettlementRealisesIntent ==
    [][\A r \in Requests :
        ses'[r] # ses[r] /\ ~resv[r].bound /\ BecomesFinal(r, "settled") =>
            resv[r].pending /\ resv'[r].settled = resv[r].target]_allVars

\* A reservation is funded as the user chose, through all fallbacks: a user with
\* an active subscription that forbids wallet overflow, or who chose one source
\* only, is not charged from the other.
FundingFollowsPreference ==
    [][\A r \in Requests :
        resv[r].status = "absent" /\ resv'[r].status = "reserved" =>
            IF resv'[r].funding = "subscription" THEN ses[r].preference # "wallet_only"
            ELSE CASE ses[r].preference = "subscription_only" -> FALSE
                   [] ses[r].preference = "subscription_first" ->
                        ActiveSubs(UserOf[r]) \cap StrictSubs = {}
                   [] OTHER -> TRUE]_allVars

\* A request that returned leaves its reservation closed, bound to a task, or
\* with its exact liability on record, unless the database failed it or its
\* refund would overflow the wallet.
EndedIsAccounted ==
    \A r \in Requests :
        ses[r].pc = "ended" /\ resv[r].status = "reserved" =>
            \/ resv[r].bound \/ resv[r].pending
            \/ ses[r].code \in {"database", "overflow"}

\* Every reservation ends, or comes to the attention of an administrator.
EventuallyAccounted ==
    \A r \in Requests :
        resv[r].status = "reserved" ~> (Finalized(r) \/ resv[r].reviewed)

=============================================================================
