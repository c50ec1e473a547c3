------------------------- MODULE BillingReservation -------------------------
(***************************************************************************)
(* The durable billing core: model/billing_reservation.go.                 *)
(*                                                                         *)
(* Every API request that costs quota owns one reservation row, keyed by   *)
(* its request id.  A reservation holds quota of a funding source (the     *)
(* user's wallet or one of the user's subscriptions) and of the API token, *)
(* and ends "settled" at the actual cost or "refunded".  One action below  *)
(* is one database transaction of the code: each begins by locking the     *)
(* reservation row (SELECT ... FOR UPDATE) and moves balances by           *)
(* conditional UPDATEs, so it is atomic for the balances and the row.      *)
(* (The one check that is not covered by a lock, the search for other open *)
(* liabilities of the user, has a finer model of its own: UserFreeze.)     *)
(*                                                                         *)
(* The callers are left open: any transaction may be tried at any time     *)
(* with any argument.  BillingSession restricts them to the request's own  *)
(* session, whose steps are the transactions of this module.               *)
(*                                                                         *)
(* A transaction that fails rolls back, so its failing cases are stutters  *)
(* here; the ...Err operators name the error the code would return.        *)
(***************************************************************************)
EXTENDS Integers, FiniteSets, Functions

CONSTANTS
    Users, Tokens, Requests,    \* identities
    Subs,                       \* user_subscriptions ids, numbered by end_time
    UserOf, TokenOf,            \* request -> user, request -> token or NoToken
    NoToken,                    \* SkipToken (playground requests)
    Unlimited,                  \* tokens with unlimited_quota
    SubOwner, SubCap,           \* subscription -> user, AmountTotal (0 = none)
    Amounts,                    \* quotas a caller may ask for
    MaxInt,                     \* math.MaxInt32, scaled down
    InitQuota, InitRemain,      \* seed of a wallet and of a token
    InitUsed,                   \* amount_used of a subscription before
                                \*  amount_used_total existed
    ManualAmounts,              \* amounts of top-ups and manual changes
    InitStatuses,               \* statuses a user may start with
    DebtUsers,                  \* users that may incur a payment debt
    TaskRequests,               \* requests that may submit an async task
    FailureCodes,               \* deterministic failures a settlement may meet
    MaxVersion, MaxPeriod       \* bounds: reservation revisions, resets

MinInt == -MaxInt - 1
NoSub == 0
NoIntent == -1
BillingSettlementFailures ==
    {"user_quota", "token_quota", "subscription_quota", "account_missing"}

ASSUME SizeAssumption ==
    /\ MaxInt \in Nat \ {0}
    /\ Amounts \subseteq 0..MaxInt
    /\ ManualAmounts \subseteq 0..MaxInt
    /\ InitQuota \in 0..MaxInt /\ InitRemain \in 0..MaxInt /\ InitUsed \in Nat
    /\ MaxVersion \in Nat /\ MaxPeriod \in Nat

ASSUME IdentityAssumption ==
    /\ IsFiniteSet(Requests)
    /\ UserOf \in [Requests -> Users]
    /\ TokenOf \in [Requests -> Tokens \cup {NoToken}]
    /\ NoToken \notin Tokens
    /\ Unlimited \subseteq Tokens
    /\ DebtUsers \subseteq Users
    /\ InitStatuses \subseteq {"enabled", "disabled"}
    /\ TaskRequests \subseteq Requests
    /\ FailureCodes \subseteq BillingSettlementFailures
    /\ Subs \subseteq Nat \ {NoSub}
    /\ SubOwner \in [Subs -> Users]
    /\ SubCap \in [Subs -> Nat]
    /\ \A s \in Subs : SubCap[s] = 0 \/ InitUsed <= SubCap[s]

VARIABLES
    quota,      \* users.quota
    acct,       \* users.status and users.payment_frozen
    tok,        \* tokens: not deleted, remain_quota, used_quota
    sub,        \* user_subscriptions counters and reset epoch
    resv,       \* billing_reservations
    pre,        \* subscription_pre_consume_records
    task,       \* the async task a request may be bound to
    debt,       \* the open payment debt of a user
    keys,       \* unique keys <<request, phase, revision>> of quota_ledger
    net         \* per request, the totals of its quota_ledger deltas

vars == <<quota, acct, tok, sub, resv, pre, task, debt, keys, net>>

-----------------------------------------------------------------------------
Larger(a, b) == IF a < b THEN b ELSE a

Phases == {"reserve", "settle", "refund", "settle_intent", "settle_shortfall",
           "bind", "reconcile_review", "admin_resolution"}

Status == {"enabled", "disabled"}
ReservationRow ==
    [status : {"absent", "reserved", "settled", "refunded"},
     funding : {"wallet", "subscription"},
     subId : Subs \cup {NoSub}, epoch : Nat, bound : BOOLEAN,
     initial : 0..MaxInt, reserved : 0..MaxInt, tokenReserved : 0..MaxInt,
     settled : 0..MaxInt, pending : BOOLEAN, target : 0..MaxInt,
     cause : BillingSettlementFailures \cup {""}, shortfall : 0..MaxInt, freeze : BOOLEAN,
     prevStatus : Status, reviewed : BOOLEAN,
     version : Nat]

AccountRow == [status : Status, frozen : BOOLEAN]
TokenRow == [exists : BOOLEAN, remain : 0..MaxInt, used : MinInt..MaxInt]
SubscriptionRow ==
    [used : Nat, total : Nat, version : Nat, due : BOOLEAN, active : BOOLEAN]
PreConsumeRow == [status : {"none", "consumed", "refunded"}, amount : 0..MaxInt]
TaskRow == [status : {"none", "active", "success", "failure"}, quota : 0..MaxInt,
            intent : {NoIntent} \cup 0..MaxInt]
DebtRow == [open : BOOLEAN, prevStatus : Status]
LedgerTotals == [user : Int, tokRemain : Int, tokUsed : Int, subTotal : Int]

AbsentRow ==
    [status |-> "absent", funding |-> "wallet", subId |-> NoSub, epoch |-> 0,
     bound |-> FALSE, initial |-> 0, reserved |-> 0, tokenReserved |-> 0,
     settled |-> 0, pending |-> FALSE, target |-> 0, cause |-> "",
     shortfall |-> 0, freeze |-> FALSE, prevStatus |-> "enabled",
     reviewed |-> FALSE, version |-> 0]

NoDelta == [user |-> 0, tokRemain |-> 0, tokUsed |-> 0, subTotal |-> 0]

TypeOK ==
    /\ quota \in [Users -> 0..MaxInt]
    /\ acct \in [Users -> AccountRow]
    /\ tok \in [Tokens -> TokenRow]
    /\ sub \in [Subs -> SubscriptionRow]
    /\ resv \in [Requests -> ReservationRow]
    /\ pre \in [Requests -> PreConsumeRow]
    /\ task \in [Requests -> TaskRow]
    /\ debt \in [Users -> DebtRow]
    /\ keys \subseteq Requests \X Phases \X Nat
    /\ net \in [Requests -> LedgerTotals]

Init ==
    /\ quota = [u \in Users |-> InitQuota]
    /\ acct \in [Users -> [status : InitStatuses, frozen : {FALSE}]]
    /\ tok = [t \in Tokens |->
                [exists |-> TRUE, remain |-> InitRemain, used |-> 0]]
    /\ sub = [s \in Subs |-> [used |-> InitUsed, total |-> 0, version |-> 0,
                              due |-> FALSE, active |-> TRUE]]
    /\ resv = [r \in Requests |-> AbsentRow]
    /\ pre = [r \in Requests |-> [status |-> "none", amount |-> 0]]
    /\ task = [r \in Requests |->
                 [status |-> "none", quota |-> 0, intent |-> NoIntent]]
    /\ debt = [u \in Users |-> [open |-> FALSE, prevStatus |-> "enabled"]]
    /\ keys = {}
    /\ net = [r \in Requests |-> NoDelta]

-----------------------------------------------------------------------------
(* Balances.  A delta is a usage delta: positive consumes, negative gives   *)
(* back.  Each ...Err is "ok" or the error of the conditional UPDATE.       *)

Then(first, second) == IF first # "ok" THEN first ELSE second

UserErr(u, delta) ==
    CASE delta > 0 /\ quota[u] < delta -> "user_quota"
      [] delta < 0 /\ quota[u] > MaxInt + delta -> "overflow"
      [] OTHER -> "ok"

TokenErr(t, delta) ==
    CASE delta = 0 -> IF tok[t].exists THEN "ok" ELSE "account_missing"
      [] delta > 0 -> IF /\ tok[t].exists
                         /\ tok[t].used <= MaxInt - delta
                         /\ t \in Unlimited \/ tok[t].remain >= delta
                      THEN "ok" ELSE "token_quota"
      [] delta < 0 -> IF /\ tok[t].exists
                         /\ tok[t].used >= MinInt - delta
                         /\ t \in Unlimited \/ tok[t].remain <= MaxInt + delta
                      THEN "ok" ELSE "overflow"

\* Mutant of SamePeriod: the reset version is not compared.
SamePeriodAlways(r) == sub[resv[r].subId].version >= 0

\* A reservation of an earlier quota period leaves the new period's counter alone.
SamePeriod(r) == sub[resv[r].subId].version = resv[r].epoch

SubscriptionErr(r, delta) ==
    LET s == resv[r].subId IN
    IF delta = 0 THEN "ok"
    ELSE IF Larger(sub[s].total, sub[s].used) + delta < 0 THEN "conflict"
    ELSE IF ~SamePeriod(r) THEN "ok"
    ELSE IF sub[s].used + delta < 0 THEN "conflict"
    ELSE IF SubCap[s] > 0 /\ sub[s].used + delta > SubCap[s] THEN "subscription_quota"
    ELSE "ok"

PreConsumeRecordErr(r, delta) ==
    IF pre[r].status = "consumed" /\ pre[r].amount + delta >= 0 THEN "ok"
                                                               ELSE "conflict"

FundingErr(r, delta) ==
    IF resv[r].funding = "wallet"
    THEN UserErr(UserOf[r], delta)
    ELSE Then(SubscriptionErr(r, delta), PreConsumeRecordErr(r, delta))

\* Finalization tolerates a token deleted in the meantime; extension does not.
ReservationTokenErr(r, delta, allowMissingToken) ==
    LET t == TokenOf[r] IN
    IF t = NoToken \/ (allowMissingToken /\ ~tok[t].exists)
    THEN "ok" ELSE TokenErr(t, delta)

LedgerErr(r, phase, revision) ==
    IF <<r, phase, revision>> \in keys THEN "database" ELSE "ok"

TokenAfter(t, delta) ==
    IF ~tok[t].exists THEN tok[t]
    ELSE [tok[t] EXCEPT !.used = @ + delta,
                        !.remain = IF t \in Unlimited THEN @ ELSE @ - delta]

\* Mutant of SubscriptionAfter: a stale reservation skips the lifetime counter too.
SubscriptionAfterStaleSkipped(r, delta) ==
    LET x == sub[resv[r].subId] IN
    IF delta = 0 \/ ~SamePeriod(r) THEN x
    ELSE [x EXCEPT !.total = Larger(@, x.used) + delta, !.used = @ + delta]

SubscriptionAfter(r, delta) ==
    LET x == sub[resv[r].subId] IN
    IF delta = 0 THEN x
    ELSE [x EXCEPT !.total = Larger(@, x.used) + delta,
                   !.used = IF SamePeriod(r) THEN @ + delta ELSE @]

\* Mutant of EntryFor: the wallet column has the sign of a usage delta.
EntryForUsageSign(r, delta, tokenDelta) ==
    LET t == TokenOf[r]
        usesToken == t # NoToken /\ tok[t].exists IN
    [user |-> IF resv[r].funding = "wallet" THEN delta ELSE 0,
     tokUsed |-> IF usesToken THEN tokenDelta ELSE 0,
     tokRemain |-> IF usesToken /\ t \notin Unlimited THEN -tokenDelta ELSE 0,
     subTotal |-> IF resv[r].funding = "subscription" THEN delta ELSE 0]

\* The deltas a ledger entry of r records when r's holds move.
EntryFor(r, delta, tokenDelta) ==
    LET t == TokenOf[r]
        usesToken == t # NoToken /\ tok[t].exists IN
    [user |-> IF resv[r].funding = "wallet" THEN -delta ELSE 0,
     tokUsed |-> IF usesToken THEN tokenDelta ELSE 0,
     tokRemain |-> IF usesToken /\ t \notin Unlimited THEN -tokenDelta ELSE 0,
     subTotal |-> IF resv[r].funding = "subscription" THEN delta ELSE 0]

Plus(a, b) ==
    [user |-> a.user + b.user, tokUsed |-> a.tokUsed + b.tokUsed,
     tokRemain |-> a.tokRemain + b.tokRemain, subTotal |-> a.subTotal + b.subTotal]

\* Moves the wallet or subscription by delta, the token by tokenDelta, and the
\* ledger totals with them.
MoveBalances(r, delta, tokenDelta) ==
    /\ quota' = IF resv[r].funding = "wallet"
                THEN [quota EXCEPT ![UserOf[r]] = @ - delta] ELSE quota
    /\ sub' = IF resv[r].funding = "subscription"
              THEN [sub EXCEPT ![resv[r].subId] = SubscriptionAfter(r, delta)]
              ELSE sub
    /\ tok' = IF TokenOf[r] = NoToken THEN tok
              ELSE [tok EXCEPT ![TokenOf[r]] = TokenAfter(TokenOf[r], tokenDelta)]
    /\ net' = [net EXCEPT ![r] = Plus(@, EntryFor(r, delta, tokenDelta))]

MoveHold(r, target) ==
    MoveBalances(r, target - resv[r].reserved, target - resv[r].reserved)

\* The token counters of a request that skips the token stay at zero.
TokenHold(r, delta) ==
    IF TokenOf[r] = NoToken THEN resv[r].tokenReserved
                            ELSE resv[r].tokenReserved + delta

Post(entries) == keys' = keys \cup entries

-----------------------------------------------------------------------------
(* Payment freeze of a user with an unresolved liability.                  *)

OpenShortfall(r) == resv[r].status = "reserved" /\ resv[r].freeze

HasOpenUserPaymentFreeze(u) ==
    \/ debt[u].open
    \/ \E r \in Requests : UserOf[r] = u /\ OpenShortfall(r)

\* The status to restore: the user's own, or, if the user is frozen already,
\* the one an open liability remembers.
PaymentFreezePreviousUserStatus(u) ==
    IF /\ acct[u].frozen
       /\ \/ debt[u].open /\ debt[u].prevStatus = "enabled"
          \/ \E r \in Requests : /\ UserOf[r] = u
                                 /\ OpenShortfall(r)
                                 /\ resv[r].prevStatus = "enabled"
    THEN "enabled" ELSE acct[u].status

Freeze(u) == acct' = [acct EXCEPT ![u] = [status |-> "disabled", frozen |-> TRUE]]

\* otherOpen: a liability of u other than the one being resolved is open.
ReleaseUserPaymentFreeze(u, prevStatus, otherOpen) ==
    acct' = IF otherOpen \/ ~acct[u].frozen THEN acct
            ELSE [acct EXCEPT ![u] =
                    [status |-> IF prevStatus = "enabled" THEN "enabled" ELSE @.status,
                     frozen |-> FALSE]]

\* Mutant of OtherOpenThanReservation: payment debts are not counted.
OtherShortfallOnly(r) ==
    \E p \in Requests \ {r} : UserOf[p] = UserOf[r] /\ OpenShortfall(p)

OtherOpenThanReservation(r) ==
    \/ debt[UserOf[r]].open
    \/ \E p \in Requests \ {r} : UserOf[p] = UserOf[r] /\ OpenShortfall(p)

\* What both terminal transitions do last.
ReleaseAfterFinalization(r) ==
    IF resv[r].freeze
    THEN ReleaseUserPaymentFreeze(UserOf[r], resv[r].prevStatus,
                                  OtherOpenThanReservation(r))
    ELSE UNCHANGED acct

-----------------------------------------------------------------------------
(* PreConsumeBillingReservation                                            *)

\* maybeResetUserSubscriptionWithPlanTx on a subscription whose period is over.
ResetIfDue(x) ==
    IF ~x.due THEN x
    ELSE [x EXCEPT !.total = Larger(@, x.used), !.used = 0,
                   !.version = @ + 1, !.due = FALSE]

ActiveSubs(u) == {s \in Subs : SubOwner[s] = u /\ sub[s].active}
HasRoom(s, q) == SubCap[s] = 0 \/ SubCap[s] - ResetIfDue(sub[s]).used >= q

\* The first active subscription by end_time with room for q.
Pick(u, q) == {s \in ActiveSubs(u) :
                 HasRoom(s, q) /\ \A p \in ActiveSubs(u) : p < s => ~HasRoom(p, q)}

PreConsumeErr(r, funding, q) ==
    LET u == UserOf[r]
        t == TokenOf[r] IN
    IF resv[r].status # "absent"
    THEN IF resv[r].funding # funding \/ resv[r].initial # q THEN "conflict"
         ELSE IF resv[r].status # "reserved" THEN "finalized" ELSE "ok"
    ELSE Then(IF funding = "wallet" THEN UserErr(u, q)
              ELSE IF pre[r].status # "none" THEN "conflict"
              ELSE IF Pick(u, q) = {} THEN "subscription_quota" ELSE "ok",
         IF t = NoToken THEN "ok"
         ELSE IF ~tok[t].exists THEN "account_missing"
         ELSE TokenErr(t, q))

\* Fields shared by both kinds of funding.
FreshRow(r, funding, q) ==
    [AbsentRow EXCEPT !.status = "reserved", !.funding = funding,
                      !.initial = q, !.reserved = q, !.version = 1,
                      !.tokenReserved = IF TokenOf[r] = NoToken THEN 0 ELSE q]

SubscriptionFreshRow(r, q, s, epoch) ==
    [FreshRow(r, "subscription", q) EXCEPT !.subId = s, !.epoch = epoch]

TokenCharge(r, q) ==
    tok' = IF TokenOf[r] = NoToken THEN tok
           ELSE [tok EXCEPT ![TokenOf[r]] = TokenAfter(TokenOf[r], q)]

FirstEntry(r, funding, q) ==
    [user |-> IF funding = "wallet" THEN -q ELSE 0,
     tokUsed |-> IF TokenOf[r] = NoToken THEN 0 ELSE q,
     tokRemain |-> IF TokenOf[r] = NoToken \/ TokenOf[r] \in Unlimited THEN 0 ELSE -q,
     subTotal |-> IF funding = "subscription" THEN q ELSE 0]

PreConsumeWallet(r, q) ==
    /\ resv[r].status = "absent"
    /\ PreConsumeErr(r, "wallet", q) = "ok"
    /\ quota' = [quota EXCEPT ![UserOf[r]] = @ - q]
    /\ TokenCharge(r, q)
    /\ resv' = [resv EXCEPT ![r] = FreshRow(r, "wallet", q)]
    /\ net' = [net EXCEPT ![r] = FirstEntry(r, "wallet", q)]
    /\ Post({<<r, "reserve", 1>>})
    /\ UNCHANGED <<acct, sub, pre, task, debt>>

\* Subscriptions scanned before the chosen one are reset too when due.
PreConsumeSubscription(r, q) ==
    /\ q > 0
    /\ resv[r].status = "absent"
    /\ PreConsumeErr(r, "subscription", q) = "ok"
    /\ \E s \in Pick(UserOf[r], q) :
        LET charged == ResetIfDue(sub[s]) IN
        /\ sub' = [p \in Subs |->
             IF p = s
             THEN [charged EXCEPT !.total = Larger(@, charged.used) + q, !.used = @ + q]
             ELSE IF p \in ActiveSubs(UserOf[r]) /\ p < s
                  THEN ResetIfDue(sub[p]) ELSE sub[p]]
        /\ resv' = [resv EXCEPT ![r] = SubscriptionFreshRow(r, q, s, charged.version)]
    /\ TokenCharge(r, q)
    /\ pre' = [pre EXCEPT ![r] = [status |-> "consumed", amount |-> q]]
    /\ net' = [net EXCEPT ![r] = FirstEntry(r, "subscription", q)]
    /\ Post({<<r, "reserve", 1>>})
    /\ UNCHANGED <<quota, acct, task, debt>>

-----------------------------------------------------------------------------
(* adjustReservedBillingTx and ExtendBillingReservation                     *)

AdjustErr(r, target, phase, allowMissingToken) ==
    LET delta == target - resv[r].reserved IN
    IF resv[r].status # "reserved" THEN "finalized"
    ELSE IF delta = 0 THEN "ok"
    ELSE Then(FundingErr(r, delta),
         Then(ReservationTokenErr(r, delta, allowMissingToken),
         Then(IF TokenHold(r, delta) < 0 THEN "conflict" ELSE "ok",
              LedgerErr(r, phase, resv[r].version + 1))))

\* Mutant of AdjustedRow: the balances move and reserved_quota does not.
AdjustedRowKeepsHold(r, target) ==
    [resv[r] EXCEPT !.version = IF target = resv[r].reserved THEN @ ELSE @ + 1]

\* The row after adjustReservedBillingTx: a new revision unless nothing moves.
AdjustedRow(r, target) ==
    LET delta == target - resv[r].reserved IN
    [resv[r] EXCEPT !.reserved = target,
                    !.tokenReserved = TokenHold(r, delta),
                    !.version = IF delta = 0 THEN @ ELSE @ + 1]

AdjustedRecord(r, target) ==
    IF resv[r].funding = "subscription"
    THEN [pre EXCEPT ![r].amount = @ + (target - resv[r].reserved)]
    ELSE pre

ExtendErr(r, target) ==
    IF resv[r].status = "absent" THEN "not_found"
    ELSE IF target <= resv[r].reserved
         THEN IF resv[r].status = "reserved" THEN "ok" ELSE "finalized"
         ELSE AdjustErr(r, target, "reserve", FALSE)

ExtendBillingReservation(r, target) ==
    /\ ExtendErr(r, target) = "ok"
    /\ target > resv[r].reserved
    /\ resv[r].version < MaxVersion
    /\ MoveHold(r, target)
    /\ pre' = AdjustedRecord(r, target)
    /\ resv' = [resv EXCEPT ![r] = AdjustedRow(r, target)]
    /\ Post({<<r, "reserve", resv[r].version + 1>>})
    /\ UNCHANGED <<acct, task, debt>>

-----------------------------------------------------------------------------
(* Settlement intents and shortfalls                                       *)

IntentErr(r, target, mode) ==
    LET x == resv[r] IN
    CASE x.status = "absent" -> "not_found"
      [] x.status = "settled" -> IF x.settled = target THEN "ok" ELSE "conflict"
      [] x.status = "refunded" -> "finalized"
      [] x.status = "reserved" ->
           IF x.pending /\ x.target = target THEN "ok"
           ELSE IF \/ mode = "unbound_increase" /\ x.bound
                   \/ x.pending /\ mode = "strict"
                   \/ x.pending /\ mode = "unbound_increase" /\ target <= x.target
                THEN "conflict" ELSE "ok"

IntentIsNew(r, target) ==
    /\ resv[r].status = "reserved"
    /\ ~(resv[r].pending /\ resv[r].target = target)

\* Mutant of IntentRow: the revision is not advanced.
IntentRowSameVersion(r, target) ==
    [resv[r] EXCEPT !.pending = TRUE, !.target = target]

IntentRow(r, target) ==
    [resv[r] EXCEPT !.pending = TRUE, !.target = target, !.version = @ + 1]

PersistSettlementIntent(r, target, mode) ==
    /\ IntentErr(r, target, mode) = "ok"
    /\ IntentIsNew(r, target)
    /\ resv[r].version < MaxVersion
    /\ LedgerErr(r, "settle_intent", resv[r].version + 1) = "ok"
    /\ resv' = [resv EXCEPT ![r] = IntentRow(r, target)]
    /\ Post({<<r, "settle_intent", resv[r].version + 1>>})
    /\ UNCHANGED <<quota, acct, tok, sub, pre, task, debt, net>>

PrepareBillingReservationSettlement(r, target) ==
    PersistSettlementIntent(r, target, "strict")

AdvanceUnboundBillingReservationSettlementIntent(r, target) ==
    PersistSettlementIntent(r, target, "unbound_increase")

ShortfallErr(r, target) ==
    LET x == resv[r] IN
    CASE x.status = "absent" -> "not_found"
      [] x.status \in {"settled", "refunded"} -> "ok"
      [] x.status = "reserved" ->
           IF \/ /\ x.pending /\ x.target # target
                 /\ x.bound \/ target <= x.target
              \/ target <= x.reserved
           THEN "conflict" ELSE "ok"

SameShortfall(r, target, cause) ==
    LET x == resv[r] IN
    /\ x.freeze /\ x.pending /\ x.target = target /\ x.cause = cause
    /\ x.shortfall = target - x.reserved

ShortfallRow(r, target, cause) ==
    [resv[r] EXCEPT !.pending = TRUE, !.target = target, !.cause = cause,
                    !.shortfall = target - resv[r].reserved,
                    !.freeze = TRUE, !.reviewed = TRUE,
                    !.prevStatus = PaymentFreezePreviousUserStatus(UserOf[r]),
                    !.version = @ + 1]

MarkBillingReservationSettlementShortfall(r, target, cause) ==
    /\ ShortfallErr(r, target) = "ok"
    /\ resv[r].status = "reserved"
    /\ Freeze(UserOf[r])
    /\ IF SameShortfall(r, target, cause)
       THEN UNCHANGED <<resv, keys>>
       ELSE /\ resv[r].version < MaxVersion
            /\ LedgerErr(r, "settle_shortfall", resv[r].version + 1) = "ok"
            /\ resv' = [resv EXCEPT ![r] = ShortfallRow(r, target, cause)]
            /\ Post({<<r, "settle_shortfall", resv[r].version + 1>>})
    /\ UNCHANGED <<quota, tok, sub, pre, task, debt, net>>

-----------------------------------------------------------------------------
(* Terminal transitions                                                    *)

SettleErr(r, q) ==
    LET x == resv[r] IN
    CASE x.status = "absent" -> "not_found"
      [] x.status = "settled" -> IF x.settled = q THEN "ok" ELSE "conflict"
      [] x.status = "refunded" -> "finalized"
      [] x.status = "reserved" ->
           IF q = x.reserved THEN LedgerErr(r, "settle", x.version + 1)
                             ELSE AdjustErr(r, q, "settle", TRUE)

SettledRow(r, q) ==
    [AdjustedRow(r, q) EXCEPT !.status = "settled", !.settled = q,
                              !.pending = FALSE, !.target = 0, !.version = @ + 1]

\* settleBillingReservationTx without the row, the ledger keys and the task.
SettleBalances(r, q) ==
    /\ resv[r].status = "reserved"
    /\ SettleErr(r, q) = "ok"
    /\ resv[r].version < MaxVersion
    /\ MoveHold(r, q)
    /\ pre' = AdjustedRecord(r, q)
    /\ ReleaseAfterFinalization(r)
    /\ UNCHANGED debt

SettleBillingReservation(r, q) ==
    /\ SettleBalances(r, q)
    /\ resv' = [resv EXCEPT ![r] = SettledRow(r, q)]
    /\ Post({<<r, "settle", resv[r].version + 1>>})
    /\ UNCHANGED task

RefundErr(r) ==
    LET x == resv[r] IN
    CASE x.status = "absent" -> "not_found"
      [] x.status = "refunded" -> "ok"
      [] x.status = "settled" -> "finalized"
      [] OTHER ->
          Then(IF x.funding = "wallet" THEN UserErr(UserOf[r], -x.reserved)
               ELSE Then(SubscriptionErr(r, -x.reserved), PreConsumeRecordErr(r, 0)),
          Then(IF x.tokenReserved = 0 THEN "ok"
               ELSE ReservationTokenErr(r, -x.tokenReserved, TRUE),
               LedgerErr(r, "refund", x.version + 1)))

RefundedRow(r) ==
    [resv[r] EXCEPT !.status = "refunded", !.pending = FALSE, !.target = 0,
                    !.version = @ + 1]

\* Mutant of RefundBalances: an extension of the reservation is not given back.
RefundBalancesInitial(r) ==
    /\ resv[r].status = "reserved"
    /\ RefundErr(r) = "ok"
    /\ resv[r].version < MaxVersion
    /\ MoveBalances(r, -resv[r].initial, -resv[r].tokenReserved)
    /\ pre' = IF resv[r].funding = "subscription"
              THEN [pre EXCEPT ![r].status = "refunded"] ELSE pre
    /\ ReleaseAfterFinalization(r)
    /\ UNCHANGED debt

\* refundBillingReservationTx without the row, the ledger keys and the task:
\* the whole hold goes back and the pre-consume record is closed.
RefundBalances(r) ==
    /\ resv[r].status = "reserved"
    /\ RefundErr(r) = "ok"
    /\ resv[r].version < MaxVersion
    /\ MoveBalances(r, -resv[r].reserved, -resv[r].tokenReserved)
    /\ pre' = IF resv[r].funding = "subscription"
              THEN [pre EXCEPT ![r].status = "refunded"] ELSE pre
    /\ ReleaseAfterFinalization(r)
    /\ UNCHANGED debt

RefundBillingReservation(r) ==
    /\ RefundBalances(r)
    /\ resv' = [resv EXCEPT ![r] = RefundedRow(r)]
    /\ Post({<<r, "refund", resv[r].version + 1>>})
    /\ UNCHANGED task

-----------------------------------------------------------------------------
(* Administrator decisions: only on a row a reconciliation has marked for  *)
(* review, and only on the revision the administrator saw.                 *)

Revised(row) == [row EXCEPT !.version = @ + 1]

AdminMayResolve(r, expectedVersion) ==
    /\ resv[r].version = expectedVersion
    /\ resv[r].status = "reserved"
    /\ resv[r].reviewed

ResolveByAdminSettle(r, q, expectedVersion) ==
    /\ AdminMayResolve(r, expectedVersion)
    /\ SettleBalances(r, q)
    /\ LET row == SettledRow(r, q) IN
       /\ LedgerErr(r, "admin_resolution", row.version + 1) = "ok"
       /\ resv' = [resv EXCEPT ![r] = Revised(row)]
       /\ Post({<<r, "settle", resv[r].version + 1>>,
                <<r, "admin_resolution", row.version + 1>>})
    /\ UNCHANGED task

ResolveByAdminRefund(r, expectedVersion) ==
    /\ AdminMayResolve(r, expectedVersion)
    /\ RefundBalances(r)
    /\ LET row == RefundedRow(r) IN
       /\ LedgerErr(r, "admin_resolution", row.version + 1) = "ok"
       /\ resv' = [resv EXCEPT ![r] = Revised(row)]
       /\ Post({<<r, "refund", resv[r].version + 1>>,
                <<r, "admin_resolution", row.version + 1>>})
    /\ UNCHANGED task

\* recordBillingReconcileReview: a marker, not a new revision.
RecordBillingReconcileReview(r) ==
    /\ resv[r].status = "reserved"
    /\ resv' = [resv EXCEPT ![r].reviewed = TRUE]
    /\ Post({<<r, "reconcile_review", resv[r].version>>})
    /\ UNCHANGED <<quota, acct, tok, sub, pre, task, debt, net>>

-----------------------------------------------------------------------------
(* Async tasks bound to a reservation                                      *)

CreateTaskErr(r, target) ==
    IF resv[r].status = "absent" THEN "not_found"
    ELSE IF resv[r].status # "reserved" THEN "conflict"
    ELSE AdjustErr(r, target, "reserve", FALSE)

\* done: the upstream answered the submission with a finished task.
CreateTaskWithBillingReservation(r, target, done) ==
    /\ CreateTaskErr(r, target) = "ok"
    /\ resv[r].version < MaxVersion
    /\ LET moved == target # resv[r].reserved
           row == AdjustedRow(r, target)
           adjusted == IF moved THEN {<<r, "reserve", row.version>>} ELSE {} IN
       /\ ~resv[r].bound => LedgerErr(r, "bind", row.version + 1) = "ok"
       /\ resv' = [resv EXCEPT ![r] =
            IF resv[r].bound THEN row
            ELSE Revised([row EXCEPT !.bound = TRUE])]
       /\ Post(adjusted \cup
               IF resv[r].bound THEN {} ELSE {<<r, "bind", row.version + 1>>})
    /\ MoveHold(r, target)
    /\ pre' = AdjustedRecord(r, target)
    /\ task' = IF task[r].status # "none" THEN task
               ELSE [task EXCEPT ![r] =
                       [status |-> IF done THEN "success" ELSE "active",
                        quota |-> target,
                        intent |-> IF done THEN target ELSE NoIntent]]
    /\ UNCHANGED <<acct, debt>>

\* The status CAS of a poller; success is stored together with its target.
TaskSucceeds(r, target) ==
    /\ task[r].status = "active"
    /\ task' = [task EXCEPT ![r] = [@ EXCEPT !.status = "success", !.intent = target]]
    /\ UNCHANGED <<quota, acct, tok, sub, resv, pre, debt, keys, net>>

TaskFails(r) ==
    /\ task[r].status = "active"
    /\ task' = [task EXCEPT ![r].status = "failure"]
    /\ UNCHANGED <<quota, acct, tok, sub, resv, pre, debt, keys, net>>

TaskAgrees(r, q) == task[r].intent \in {NoIntent, q}

PrepareTaskErr(r, q) ==
    IF task[r].status # "success" \/ ~resv[r].bound \/ ~TaskAgrees(r, q)
    THEN "conflict"
    ELSE IntentErr(r, q, IF task[r].intent = NoIntent THEN "strict"
                                                      ELSE "task_authoritative")

PrepareTaskBillingReservationSettlement(r, q) ==
    /\ PrepareTaskErr(r, q) = "ok"
    /\ PersistSettlementIntent(r, q, IF task[r].intent = NoIntent
                                     THEN "strict" ELSE "task_authoritative")

SettleTaskErr(r, q) ==
    IF task[r].status # "success" \/ ~resv[r].bound \/ ~TaskAgrees(r, q)
    THEN "conflict" ELSE SettleErr(r, q)

\* The second transaction of the function: the first has left the target on the
\* row, where it stays until the row is final.
SettleTaskBillingReservation(r, q) ==
    /\ resv[r].pending /\ resv[r].target = q
    /\ SettleTaskErr(r, q) = "ok"
    /\ SettleBalances(r, q)
    /\ resv' = [resv EXCEPT ![r] = SettledRow(r, q)]
    /\ Post({<<r, "settle", resv[r].version + 1>>})
    /\ task' = [task EXCEPT ![r] = [@ EXCEPT !.quota = q, !.intent = NoIntent]]

\* Repeated on a row settled at q it moves nothing, and still writes the task.
SettleTaskAgain(r, q) ==
    /\ resv[r].status = "settled"
    /\ SettleTaskErr(r, q) = "ok"
    /\ task' = [task EXCEPT ![r] = [@ EXCEPT !.quota = q, !.intent = NoIntent]]
    /\ UNCHANGED <<quota, acct, tok, sub, resv, pre, debt, keys, net>>

RefundTaskBillingReservation(r) ==
    /\ task[r].status = "failure"
    /\ resv[r].bound
    /\ RefundBalances(r)
    /\ resv' = [resv EXCEPT ![r] = RefundedRow(r)]
    /\ Post({<<r, "refund", resv[r].version + 1>>})
    /\ task' = [task EXCEPT ![r].intent = NoIntent]

-----------------------------------------------------------------------------
(* The rest of the system, as far as it touches this state                 *)

IncreaseUserQuota(u, q) ==
    /\ quota[u] <= MaxInt - q
    /\ quota' = [quota EXCEPT ![u] = @ + q]
    /\ UNCHANGED <<acct, tok, sub, resv, pre, task, debt, keys, net>>

DecreaseUserQuota(u, q) ==
    /\ quota[u] >= q
    /\ quota' = [quota EXCEPT ![u] = @ - q]
    /\ UNCHANGED <<acct, tok, sub, resv, pre, task, debt, keys, net>>

\* ManageUser "add_quota" in mode "override" writes the column outright.
OverrideUserQuota(u, q) ==
    /\ quota' = [quota EXCEPT ![u] = q]
    /\ UNCHANGED <<acct, tok, sub, resv, pre, task, debt, keys, net>>

DeleteToken(t) ==
    /\ tok[t].exists
    /\ tok' = [tok EXCEPT ![t].exists = FALSE]
    /\ UNCHANGED <<quota, acct, sub, resv, pre, task, debt, keys, net>>

\* Time passes the subscription's next_reset_time.
PeriodElapses(s) ==
    /\ sub[s].active /\ ~sub[s].due /\ sub[s].version < MaxPeriod
    /\ sub' = [sub EXCEPT ![s].due = TRUE]
    /\ UNCHANGED <<quota, acct, tok, resv, pre, task, debt, keys, net>>

ResetDueSubscription(s) ==
    /\ sub[s].active /\ sub[s].due
    /\ sub' = [sub EXCEPT ![s] = ResetIfDue(@)]
    /\ UNCHANGED <<quota, acct, tok, resv, pre, task, debt, keys, net>>

\* resetUserSubscriptionTx; advance moves the next reset as well.
AdminResetSubscription(s, advance) ==
    /\ sub[s].active /\ sub[s].version < MaxPeriod
    /\ sub' = [sub EXCEPT ![s] =
                 [sub[s] EXCEPT !.total = Larger(sub[s].total, sub[s].used), !.used = 0,
                                !.version = sub[s].version + 1,
                                !.due = sub[s].due /\ ~advance]]
    /\ UNCHANGED <<quota, acct, tok, resv, pre, task, debt, keys, net>>

\* The subscription expires or an administrator invalidates it.
EndSubscription(s) ==
    /\ sub[s].active
    /\ sub' = [sub EXCEPT ![s].active = FALSE]
    /\ UNCHANGED <<quota, acct, tok, resv, pre, task, debt, keys, net>>

\* Mutant of CleanupSubscriptionPreConsumeRecord: age alone decides.
CleanupRecordByAge(r) ==
    /\ pre[r].status # "none"
    /\ pre' = [pre EXCEPT ![r] = [status |-> "none", amount |-> 0]]
    /\ UNCHANGED <<quota, acct, tok, sub, resv, task, debt, keys, net>>

CleanupSubscriptionPreConsumeRecord(r) ==
    /\ pre[r].status # "none"
    /\ resv[r].status # "reserved"
    /\ pre' = [pre EXCEPT ![r] = [status |-> "none", amount |-> 0]]
    /\ UNCHANGED <<quota, acct, tok, sub, resv, task, debt, keys, net>>

AddPaymentDebt(u) ==
    /\ u \in DebtUsers /\ ~debt[u].open
    /\ debt' = [debt EXCEPT ![u] =
                  [open |-> TRUE, prevStatus |-> PaymentFreezePreviousUserStatus(u)]]
    /\ Freeze(u)
    /\ UNCHANGED <<quota, tok, sub, resv, pre, task, keys, net>>

ResolvePaymentDebt(u) ==
    /\ debt[u].open
    /\ debt' = [debt EXCEPT ![u].open = FALSE]
    /\ ReleaseUserPaymentFreeze(u, debt[u].prevStatus,
            \E r \in Requests : UserOf[r] = u /\ OpenShortfall(r))
    /\ UNCHANGED <<quota, tok, sub, resv, pre, task, keys, net>>

\* ManageUser "disable": UpdateWithTx writes the status, not payment_frozen.
ManageUserDisable(u) ==
    /\ acct' = [acct EXCEPT ![u].status = "disabled"]
    /\ UNCHANGED <<quota, tok, sub, resv, pre, task, debt, keys, net>>

EnableUserIfNoPaymentFreeze(u) ==
    /\ ~HasOpenUserPaymentFreeze(u)
    /\ acct' = [acct EXCEPT ![u] = [status |-> "enabled", frozen |-> FALSE]]
    /\ UNCHANGED <<quota, tok, sub, resv, pre, task, debt, keys, net>>

-----------------------------------------------------------------------------
RequestStep(r) ==
    \/ \E q \in Amounts :
        \/ PreConsumeWallet(r, q)
        \/ PreConsumeSubscription(r, q)
        \/ ExtendBillingReservation(r, q)
        \/ PrepareBillingReservationSettlement(r, q)
        \/ AdvanceUnboundBillingReservationSettlementIntent(r, q)
        \/ \E c \in FailureCodes : MarkBillingReservationSettlementShortfall(r, q, c)
        \/ SettleBillingReservation(r, q)
        \/ ResolveByAdminSettle(r, q, resv[r].version)
    \/ RefundBillingReservation(r)
    \/ ResolveByAdminRefund(r, resv[r].version)
    \/ RecordBillingReconcileReview(r)

TaskStep(r) ==
    \/ \E q \in Amounts :
        \/ \E done \in BOOLEAN : CreateTaskWithBillingReservation(r, q, done)
        \/ TaskSucceeds(r, q)
        \/ PrepareTaskBillingReservationSettlement(r, q)
        \/ SettleTaskBillingReservation(r, q) \/ SettleTaskAgain(r, q)
    \/ TaskFails(r)
    \/ RefundTaskBillingReservation(r)

AccountStep ==
    \/ \E u \in Users :
        \/ \E q \in ManualAmounts :
            IncreaseUserQuota(u, q) \/ DecreaseUserQuota(u, q) \/ OverrideUserQuota(u, q)
        \/ AddPaymentDebt(u)
        \/ ResolvePaymentDebt(u)
        \/ ManageUserDisable(u)
        \/ EnableUserIfNoPaymentFreeze(u)
    \/ \E t \in Tokens : DeleteToken(t)
    \/ \E s \in Subs :
        \/ PeriodElapses(s)
        \/ ResetDueSubscription(s)
        \/ \E advance \in BOOLEAN : AdminResetSubscription(s, advance)
        \/ EndSubscription(s)
    \/ \E r \in Requests : CleanupSubscriptionPreConsumeRecord(r)

Next ==
    \/ \E r \in Requests : RequestStep(r)
    \/ \E r \in TaskRequests : TaskStep(r)
    \/ AccountStep

Spec == Init /\ [][Next]_vars

-----------------------------------------------------------------------------
(* Properties                                                              *)

Held(r) == IF resv[r].status \in {"reserved", "settled"} THEN resv[r].reserved ELSE 0
HeldToken(r) ==
    IF resv[r].status \in {"reserved", "settled"} THEN resv[r].tokenReserved ELSE 0

\* A request's ledger adds up to exactly what the request holds: nothing after
\* a refund, the settled quota after a settlement, whatever sequence of
\* extensions, intents, shortfalls, retries and deletions led there.  The
\* token columns agree as long as the token exists.
LedgerMirrorsHold ==
    \A r \in Requests :
        /\ net[r].user = IF resv[r].funding = "wallet" THEN -Held(r) ELSE 0
        /\ net[r].subTotal = IF resv[r].funding = "subscription" THEN Held(r) ELSE 0
        /\ TokenOf[r] # NoToken /\ tok[TokenOf[r]].exists =>
              /\ net[r].tokUsed = HeldToken(r)
              /\ net[r].tokRemain =
                   IF TokenOf[r] \in Unlimited THEN 0 ELSE -HeldToken(r)

\* The token is held for the same quota as the funding source, and a settled
\* reservation was settled at the quota it holds.
HoldsAgree ==
    \A r \in Requests :
        /\ resv[r].tokenReserved = IF TokenOf[r] = NoToken THEN 0 ELSE resv[r].reserved
        /\ resv[r].status = "settled" => resv[r].settled = resv[r].reserved

\* No ledger entry is ahead of its reservation's revision, so the unique index
\* on (request, phase, revision) never makes a later transaction fail.
LedgerBehindRevision ==
    \A k \in keys : k[3] <= resv[k[1]].version

\* An open subscription reservation keeps a pre-consume record of the same
\* amount: the guarded updates of settle and refund cannot find it missing.
RecordMirrorsReservation ==
    \A r \in Requests :
        resv[r].status = "reserved" /\ resv[r].funding = "subscription" =>
            pre[r] = [status |-> "consumed", amount |-> resv[r].reserved]

HeldIn(s) == {r \in Requests : resv[r].funding = "subscription" /\ resv[r].subId = s}
TotalHeld(requests) == SumFunctionOnSet([r \in Requests |-> Held(r)], requests)

\* The counter of the running quota period is the sum of the holds taken in
\* this very period: a reset between reserve and settle neither leaks the old
\* hold into the new period nor gives it back twice.
PeriodUsage ==
    \A s \in Subs :
        sub[s].used = (IF sub[s].version = 0 THEN InitUsed ELSE 0) +
                      TotalHeld({r \in HeldIn(s) : resv[r].epoch = sub[s].version})

\* The lifetime counter, once normalised, is the sum of all holds ever taken,
\* whatever the period they were taken in.
LifetimeUsage ==
    \A s \in Subs :
        Larger(sub[s].total, sub[s].used) = InitUsed + TotalHeld(HeldIn(s))

\* Transaction by transaction, a user is frozen exactly while some liability
\* of the user is open, and a frozen user is disabled.  All open liabilities
\* remember the same status, so the order in which they are resolved does not
\* decide whether the user is enabled again.
FrozenIffLiable ==
    /\ \A u \in Users :
         /\ acct[u].frozen <=> HasOpenUserPaymentFreeze(u)
         /\ acct[u].frozen => acct[u].status = "disabled"
    /\ \A r \in Requests : OpenShortfall(r) =>
         /\ debt[UserOf[r]].open => debt[UserOf[r]].prevStatus = resv[r].prevStatus
         /\ \A p \in Requests : UserOf[p] = UserOf[r] /\ OpenShortfall(p) =>
               resv[p].prevStatus = resv[r].prevStatus

\* A terminal reservation never changes again and never moves a balance again.
TerminalIsFinal ==
    [][\A r \in Requests : resv[r].status \in {"settled", "refunded"} =>
          resv'[r] = resv[r] /\ net'[r] = net[r]]_vars

\* A transaction that changes a request's row or ledger moves the wallet of
\* the request's user by exactly what the ledger records, and no other wallet
\* and no other request's ledger: no hold moves unrecorded.
WalletMovesWithLedger ==
    [][\A r \in Requests : resv'[r] # resv[r] \/ net'[r] # net[r] =>
          /\ quota' = [quota EXCEPT ![UserOf[r]] = @ + net'[r].user - net[r].user]
          /\ \A p \in Requests \ {r} : net'[p] = net[p]]_vars

=============================================================================
