# TLA+ models of xy-api

xy-api is a gateway in Go in front of many model providers. It authenticates a
request, chooses a channel, forwards the request, and charges the user for what
it cost. The interesting part of the program is the money: a request holds quota
before it is sent, is settled at its real cost or refunded afterwards, may outlive
its process as an asynchronous task, may be paid from a wallet or from one of
several subscriptions, and may freeze the account when it cannot be paid.

This directory models that part first: on the server, and in the pages of the web
frontend through which money is paid in and payment is configured. One more page,
the playground, is modelled because it is where the frontend itself is concurrent.
The models follow the source; every
definition that stands for code is listed with its lines in `PROJECT.json`
(`map`). `PROJECT.json` also lists the runs, the mutants each property is known to
catch, the hazards the properties are for, and the theorems.

Contents: [1 Inventory](#1-inventory) · [2 Modules](#2-modules-and-how-they-correspond-to-the-code) ·
[3 Runs](#3-runs) · [4 Bounds](#4-bounds) · [5 Fairness](#5-fairness) ·
[6 Proofs](#6-proofs) · [7 Findings](#7-where-code-and-comments-disagree) ·
[8 Not modelled](#8-what-is-not-modelled) · [9 Plan](#9-plan)

## 1 Inventory

### Components with state and concurrency

| Component | State | Operations | Hard part |
|---|---|---|---|
| Billing reservations (`model/billing_reservation*.go`) | `billing_reservations`, `quota_ledger`, pre-consume records; moves `users.quota`, `tokens`, `user_subscriptions` | pre-consume, extend, settlement intent, shortfall, settle, refund, bind to a task, settle/refund of a task, reconcile, administrator decision | four kinds of actor close one row; funding source, token, record and ledger must agree; quota periods change in between |
| Billing session (`service/billing_session.go`, `billing.go`) | in memory: what was pre-consumed, settled, refunded, whether a liability is pending | choose the source, Reserve, Settle, Refund | retry loops around transactions whose answer may be lost; crash between intent and settlement; fallbacks between sources |
| Payment freeze (`billing_reservation.go`, `payment_settlement.go`, `controller/user.go`) | `users.status`, `payment_frozen`; the status each liability remembers | raise and resolve a shortfall or a debt; manual enable, disable, role change | the search for other liabilities is an unlocked COUNT; administrators write whole rows |
| System tasks (`model/system_task.go`, `service/system_task.go`) | task rows, one lease per type, per-process handlers | schedule, claim, heartbeat, finish, clean up stale leases | nothing is transactional: four statements per claim, three per clean-up; pauses, crashes, late writers |
| Subscriptions (`model/subscription.go`) | usage of the period and of the lifetime, quota version, status | purchase, reset by time or administrator, end, upgrade, clean-up of records | a reservation outlives the period it was taken in; lazy normalisation of the lifetime counter |
| Async tasks (`model/task.go`, `service/task_polling.go`, `task_billing.go`, `relay/relay_task.go`) | task rows with private data | submit, poll, time out, fetch in real time, adopt, settle, refund | every process writes back its copy of the whole row, guarded by the status only; a timeout races a late success |
| Payments (`model/payment*.go`, `service/payment*.go`) | orders, provider events, debts, tasks, limits | create, confirm, fulfil, refund, dispute, resolve | at-least-once events in any order; leased queue of provider calls; per-user limits |
| Credits (`model/topup.go`, `redemption.go`, `checkin.go`, `user_affiliate.go`) | codes, commissions | redeem, check in, transfer | single use under concurrency |
| Caches (`model/*_cache.go`, `pkg/cachex`) | copies in Redis and memory | fill, invalidate | stale copies that decide about admission |
| Rate limits (`common/rate-limit.go`, `middleware/*rate-limit.go`) | windows | admit | boundaries of the window |
| Options and payment cluster (`model/option.go`, `service/payment_cluster.go`) | options with a version, a map per node, readiness of nodes | compare-and-set, reload, announce | maps are filled key by key while they are read |
| Payment settings page (`web/default/.../payment-settings-section.tsx`, `use-secure-verification.ts`) | form, initial values, version, dialog | save a section, save Pancake, change a secret, emergency control, verify | refetches arrive while a save waits in a dialog; two refs that must stay in step |
| Wallet and checkout pages (`web/default/src/features/wallet`) | amount, method, quote, request ids, polled order | quote, confirm, start, retry, poll, refresh | answers lost, late and out of order; timers, aborts and pages left |
| Playground (`web/default/src/features/playground`) | conversation, request, chunk buffer, localStorage | send, stream, stop, edit, regenerate, delete, save, load | two timers and a request write to "the last message" |

### How they interact

    handler ── BillingSession ──tx── reservation row ── wallet | subscription + record
       │            (memory)              │        └─── token,  ledger entry per revision
       │                                  │
       └─ bind ── task row ── poller ─tx──┤        shortfall ──┐
                                          │                    ├── payment freeze ── login
     reconciler (system task) ────────────┤        debt ───────┘
     administrator ───────────────────────┘        (payments)
                                                       │
     wallet page ── quote, start ── order ─────────────┘
     checkout page ── polls ────────┘
     settings page ── compare-and-set ── options ── OptionMap of each node

All cooperation between processes goes through the database. A transaction first
locks the reservation row (`SELECT ... FOR UPDATE`) and moves balances with
conditional `UPDATE`s, so one transaction is one atomic step as far as these rows
are concerned. Two places are not like that, and each has a finer model: the
search for other open liabilities of a user (`UserFreeze`), and the system tasks, which
use no transaction at all (`SystemTask`).

### What makes each component correct

* Reservations: the ledger of a request adds up to what it holds; token, record
  and funding source hold the same amount; counters of a subscription count every
  hold once and in the right period; a closed row never moves a balance again; a
  target that was persisted is not silently replaced; columns do not overflow.
* Session: it takes no step the reservation protocol does not have; delivered
  usage is not given back by a clean-up; a settlement realises the persisted
  intent; a request does not return with a liability nobody recorded; nobody is
  charged from an excluded source; every reservation comes to an end.
* Freeze: an account is closed while it is liable and opened when it is not;
  administrators can neither enable a liable account nor be overruled. The code has two
  holes in this, and the properties say that there are no others.
* System tasks: a task is dispatched at most once, one at a time, ends for good,
  and does end, whatever fails between the statements of a claim.
* Payments: an order is credited at most once; every reversal is covered by the wallet or
  by a debt; what is reversed follows the provider whatever the order of its events;
  administrators' decisions stand.
* Async tasks: an ended task stays ended, is paid for once, at the quota decided
  by whoever saw it succeed, and is billed in the end.
* Settings: no copy of the options passes for newer than it is; a save does not
  overwrite what its page has not loaded; what was confirmed is what runs.
* Checkout: one confirmation makes one order, for what was shown; a payment that
  settles is shown.
* Playground: a pending message can be stopped; an answer has the text of its own
  request and loses none of it but what is taken for a repetition; what is shown is
  what is kept, unless a save or a load failed.

The hazards in `PROJECT.json` name the line at which each of these could go wrong.

## 2 Modules and how they correspond to the code

| Module | Role |
|---|---|
| `BillingReservation` | the durable protocol: one action per database transaction |
| `BillingSession` | EXTENDS it with the in-memory session, lost answers, retries, crashes, poller and reconciler |
| `UserFreeze` | the freeze of one user, split at row locks and COUNTs |
| `SystemTask` | the runner cluster for one task type, one action per SQL statement |
| `RequestCharge` | the abstract promise: a request holds an amount and ends once, charged or given back |
| `BillingCharge` | the refinement mapping from `BillingReservation` to `RequestCharge` |
| `AsyncTask` | one asynchronous task, its reservation and the processes that follow it |
| `PaymentOrderPage` | an order's public status and the page that polls it |
| `PaymentCheckout` | EXTENDS it with the wallet page, quotes, starts and their answers |
| `PaymentSettlement` | one top-up order from its payment to refunds, disputes, debts and administrators' decisions |
| `PaymentSettings` | payment options, one settings page and the nodes' option maps |
| `Playground` | the chat page, its request, buffer and localStorage |
| `BillingReservationProofs`, `UserFreezeProofs`, `SystemTaskProofs`, `AsyncTaskProofs`, `PaymentSettlementProofs`, `PaymentSettingsProofs`, `WebPageProofs` (`PaymentCheckout` and `Playground`) | theorems and proofs |
| `SetSums` | lemmas about sums over finite sets |
| `MC*` | instances for TLC |

### BillingReservation

Variables are tables: `quota` and `acct` (users), `tok` (tokens), `sub`
(user_subscriptions), `resv` (billing_reservations), `pre`
(subscription_pre_consume_records), `task`, `debt`, and the ledger as `keys` (the
unique index request/phase/revision) and `net` (the totals of a request's deltas).
The ledger is append-only in the code and nothing reads single entries, so its
totals and its keys are all that the program can depend on.

An action has the name of the Go function. The operators ending in `Err` are the
early returns of that function in their order; an action is enabled when its `Err`
is "ok", because a failed transaction rolls back and changes nothing. The callers
are left open: any transaction may be tried at any time. Properties of this module
therefore do not depend on the discipline of handlers. The exceptions are program
order inside one Go function: a task is settled at the target that the same
function has just prepared.

`MaxInt` stands for `math.MaxInt32`, to which the code limits wallets and tokens;
a subscription's counters are 64 bits wide and are not limited. Time appears only
where it decides something: `PeriodElapses` makes a reset due, `EndSubscription`
ends a subscription, a stale reservation is one the reconciler may look at.

The actions of payments (`AddPaymentDebt`, `ResolvePaymentDebt`) and of users
(top-up, override, disable, enable, deletion of a token) are the environment of
the protocol and do exactly what the code does to these columns.

### BillingSession

`ses[r]` holds the fields of the Go struct and the place where the request is.
Every `...Try` action is one iteration of a retry loop: the transaction commits
and is answered; or is refused with its own error; or, if `Faults`, fails with a
transient error, and then has committed or has not. `CallStep` is what handlers
call: `NewBillingSession` with its four preferences and two fallbacks, `Reserve`,
`Settle`, `Refund` (the deferred clean-up), `Bind` (RelayTask), `End`, `Crash`.
`PollerStep` and `ReconcileStaleBillingReservation` are the other processes that
finish what a session left. A crash loses `ses[r]` and keeps the rows.

`SessionSpec` refines the reservation protocol: the run `session_wallet`
checks `BillingReservation`'s `Spec` as a property of it. The mapping is the identity on
the shared variables, since the session extends the protocol with its own variable
only.

### UserFreeze

A liability is a reservation with a shortfall or a payment debt. Its transaction
`tx[l]` goes through: lock of its own row, lock of the user row, the COUNT of other
open liabilities (which sees committed rows only), the commit. `WalletMovers` are
the liabilities whose finalization updates the wallet before the count, and by
that locks the user row early; a debt resolved by an administrator, a
subscription-funded reservation, or one settled at its reserved amount does not.
The administrator's enable locks first; disable and role changes read without a
lock and write the row back without `payment_frozen`. Two history variables mark the
holes of the unlocked count: `overtaken` (a liability committed behind the count of a
release) and `crossed` (a liability closed that another resolution had counted as open).

### SystemTask

`row` are the task rows of one type, `lock` the lease row, `pass[n]` the position
and the locals of a runner's pass, `job[n][k]` a handler goroutine. Each action is
one statement: reading stale locks, marking the task failed, deleting the lock;
creating a task under the unique `active_key`; reading the pending task, taking
the lock, taking over a stale lock, marking its old task, the CAS to running and
the dispatch; heartbeat, finish, release. A failed renewal only cancels the context of the
handler (`HeartbeatFails`): a handler that does not look at it runs on to its end, and one
that does may give up (`HandlerAbandons`). The CAS of a claim may commit and its answer be
lost (`ClaimAnswerLost`): the code takes it for a failure and releases the lock, and the row
is then running without a handler (`orphaned`). Time decides only whether the lease has
lapsed; `late` are the runners whose clock, read at the start of a pass, is past
the lease. `stalls`, chosen in the initial state and never changed, says whether a
live process may pause for longer than its lease: one run has both cases. Different types share no row, so one type is enough.

### RequestCharge and BillingCharge

`RequestCharge` has two variables per request: its outcome (absent, open, charged,
returned) and what it costs so far. While it is open the cost may change; it ends
once, and an end without a charge costs nothing. `BillingCharge` maps the outcome
from the status of the row and the cost from the ledger (subscription total minus
wallet). Because one comes from the row and the other from the ledger, the mapping
is a refinement only if rows and money move together in every transaction.
`BillingSession` implements `BillingReservation`, and so `RequestCharge` too.

### AsyncTask

`row` is the task, `resv` its reservation, `paid` what the user has paid for it,
`obs[o]` the processes: nodes with a polling pass, a user's fetch, the reconciler.
Each has a `pc`, its copy of the row and a target. A pass sweeps timed-out tasks,
lists unfinished ones, adopts those without a reservation, asks the provider and
writes; `Write` is the compare-and-set on the status that writes every column of
the copy. Whoever wins bills in one or two further transactions
(`PrepareSettlement`, `Settle`, `RefundLinked`, `FinalizeLegacyTaskBilling`), and may
crash before each. `platform` is Suno, a video provider, or Gemini and Vertex, which
are also asked by a user's fetch, whatever the status of the row. A provider's
answer is any answer consistent with `upstream`, or an error body, which video
adaptors turn into FAILURE. Rows never share anything, so one row stands for all.
A settlement above the pre-charge may be refused for want of funds as often as it is
tried (`SettleRefused`); here only `shortfall` says so, `BillingReservation` has what is
recorded. An answer may put a video at 100 % while it is in progress
(`row.complete`): the row is then neither listed nor swept. `expired` becomes true only where
`TaskTimeoutMinutes` is positive, so without it there is no sweep.

### PaymentOrderPage and PaymentCheckout

`orders` carry the status code that the API shows (`paymentOrderPublicStatusCode`);
events of the provider move them. `view` is the state of `usePaymentOrder`: the
order shown, the polling loop (off, waiting for its timer, calling, or called with
its request aborted), the request, the failures in a row, why polling stopped.
`wallet` is the state of the wallet page and its hooks: amount, method, quote,
debounce timer, quote request, dialogs, the busy flags, the request id kept for a
quote (`paymentRequestRef`) and the operation kept for an option (`operationRef`).
`starts` are the calls of `StartPayment` under way: a start may reach the server
after the browser has given it up. A quote's answer is taken together with the
quote's creation; a cancelled quote request is forgotten, since its quote is never
shown.

### PaymentSettlement

`db` has the rows one transaction may write: the order (status, whether it was
settled, whether the provider's payment key is bound, amounts refunded, disputed and
reversed), the top-up projection, the ledger, the debt, the wallet. `history` is what
happens at the provider, in its order; `inbox` are the payment events in the order of
their ids, `rows` their status and whether they found their order. A webhook request
`handlers[h]` records its event, confirms it (or not), runs
`processPaymentEventWithTaskLease`, and for a payment reads the unmatched
reversals and settles each, in the order of their ids, in a transaction of its own. It may crash before each of
these; the provider delivers until it has a 200, in any order, and may deliver again.

A settlement transaction locks the event row and the order row first, so it is one
action, `Settle`. Its three disjuncts are the three ends of the function: an old state
is dismissed, a review is marked, or the effect is applied. What the effect does is
written as functions of the rows (`Fulfilled`, `Reconciled`, `Recovered`, `Restored`,
`Ended`), and the errors that lead to a review as predicates (`CannotFulfill`,
`CannotReverse`). An event whose order is not found has no order row to lock; the model lets
the payment commit between its search and its commit (`WithoutOrder`, `CommitUnmatched`).
The code excludes that: both transactions hold the configuration fence row
(`payment_settlement.go:215-223`) from their start. The model thus allows more than the code, and its
properties do not depend on the fence.

Administrators reject or void, confirm a refund made outside, resolve a debt, link or
dismiss an unmatched event. The order's version is left out: a decision on an old
version is refused and changes nothing. Fulfilment by an administrator is always
refused by the code. "pending" stands for "processing" too, and the status "paid" is
never written. Whatever does not match between an event and its order (provider,
trade number, currency, method, customer, credential, mode) has the effect of a wrong
amount, which the histories have.

### PaymentSettings

`db`, `dbver` are the options and their version, `cache[n]` the OptionMap of a
node, filled key by key and the version last by the holder of the node's lock
(`job[n]`: a save or a reload). The page has `data` (the query's answer), `ver`
(configVersionRef), `base` (initialRef) and `saved` (the Pancake binding), one
operation `op` through its stages (asked, waiting for the verification methods, dialog,
verified, synced, applying, answered, refreshing) and one `fetch`. The dialog serves every
protected operation of the page, and some have no busy flag in common: `rival` is another
one that has asked for its methods and takes the dialog over whenever they arrive, also while the
code of the first is being verified (`verifying`, `displaced`). Filling the map of the
node may fail half-way; the version, which comes last, is then not written. Other sessions go through the same
compare-and-set. Secrets have no readable value; a change of one moves the version.

### Playground

A message has a key, a status and a text; a text is a sequence of letters marked
with the request that delivered them. A request may send a letter that it sent before, so
`startsWith` in `mergePendingStreamChunk` and `getAppendableChunk` meets a delta that only
looks like a repetition. `buffer` holds chunks until the 50 ms timer, `saving` is the 500 ms save timer,
`stored` is localStorage, `net` the request with its flags. A save and a load may fail, and
a stored conversation that is too large is removed or cut. Three
history variables mark what the code lets happen: `overlapped`, an edit submitted
while an answer is generated; `swallowed`, the requests of which a delta was taken for
a repetition; `unkept`, that the last save or load failed or a page that was left has
written.

## 3 Runs

Passing runs (all properties hold on the whole state space of the instance):

| Run | Instance | Shows |
|---|---|---|
| `billing_wallet` | one wallet request with a limited token and an async task, a debt of the same user; top-ups, overrides, manual enable and disable, deletion of the token; users that start enabled or disabled | ledger, hold and token agree (`LedgerMirrorsHold`); no ledger key is ahead of its revision, so the unique index never refuses a legal transaction (`LedgerBehindRevision`); the wallet moves only by what is posted (`WalletMovesWithLedger`); with atomic transactions the freeze is exact and all liabilities remember the same status (`FrozenIffLiable`); the tables implement the abstract charge, so a closed row stays closed (`ImplementsCharge`) |
| `billing_subscription` | two requests over a limited and an unlimited subscription; resets by time and administrator, end, clean-up of records | the counter of a period is the sum of the holds taken in it, the lifetime counter the sum of all (`PeriodUsage`, `LifetimeUsage`), and an open reservation keeps its record |
| `session_wallet` | a wallet session, two tries per loop, two calls, faults, crash, administrator, reconciler, top-ups | the session implements the protocol (`Spec`); `DeliveredUsageIsKept`, `SettlementRealisesIntent`, `SessionMatchesRow`, `EndedIsAccounted` |
| `session_task` | a sync or async request under every funding preference with a strict, nearly used-up subscription; bind, poller, reconciler | fallbacks charge no excluded source; every reservation ends or is put before an administrator (`EventuallyAccounted`, fair) |
| `freeze_mixed` | a wallet-funded and a subscription-funded reservation and a debt at row-lock granularity, each raised up to twice, two administrator operations | a liable account is blocked unless a liability committed behind the count of a release (`BlockedUnlessOvertaken`); it is released when clear unless two resolutions crossed (`ReleasedUnlessCrossed`); the manual enable is safe (`ManualEnableIsSafe`), and an account disabled before a freeze is disabled after it (`DisableOutlivesFreeze`) |
| `systemtask` | two runners, two tasks, crashes, database errors, lost answers, handlers that run on after a failed heartbeat, with and without pauses longer than the lease | `DispatchedOnce`, `EndedStaysEnded`; without such a pause one handler at a time whose context is not cancelled (`OneRunnerExecutes`), and every task ends unless the answer of its claim was lost (`ActiveTaskEnds`, fair) |
| `task_polling` | a Suno, video or Gemini task with or without a reservation, old enough for the sweep's exception or not; two overlapping passes (one for Gemini), a user, the reconciler, two faults | an ended task stays ended, and if Gemini is asked again the first outcome billed stands (`EndedStaysEnded`); the money moved is what the outcome says, once, also when a stale copy takes an adopted task's link away (`PaidOnce`); the quota charged is the one decided with SUCCESS (`DecisionIsCharged`); every ended task, and every video task that has timed out, is billed, or its settlement was refused for want of funds, or an answer put it at 100 % too soon (`EventuallyBilled`, fair) |
| `checkout` | two methods and an option, two amounts, two quotes, two starts, three failed polls | `OneOrderPerConfirmation`, `ConfirmedAsShown`; `SettledIsShown` (fair): an order that is settled while the page shows it as open comes to be shown, unless polling stopped |
| `settlement` | one order for 2 that buys 3, a wallet of 1 that holds at most 3, nine histories of up to three events, two webhook requests (interchangeable), one fault; spending, administrators | `Books`: what the user has, has spent and owes is what the ledger posted, and the ledger is credit minus reversal; `EntitlementSourcesAgree`: ledger, order and projection agree on the credit; `AgreesWithProvider`: once every event known is applied, the reversal is what is refunded and disputed now; `RejectedStaysUncredited` |
| `settings` | two nodes (interchangeable), one section and the Pancake binding, two values, three versions, a second protected operation that shares the dialog | `NoCopyIsAhead`, `SaveIsNotBlind`; what runs after a verification is what was confirmed, or what took the open dialog over meanwhile (`ConfirmedOperationRuns`) |
| `playground` | two requests of two chunks, streamed or plain, with repeated letters, three openings of the page, two messages kept, failing saves and loads | `PendingCanBeStopped`, `AnswerIsItsOwn`, `ShownIsKept` |

One run expects a violation: `freeze_overtaken` states what a test of the repository
asserts and shows a behaviour of the code that contradicts it (section 7).

Each property of a passing run has a mutant: a variant of a modelled definition,
next to it in the module and marked as a mutant, as a plausible bug would leave it
(a dropped guard, a missing reset, a swapped order). With the mutant in place TLC
finds the property violated.

## 4 Bounds

Every instance says `CHECK_DEADLOCK FALSE`: a finite number of requests, tasks or
administrator operations is finished at some time, and the system then really
stops.

* `MaxVersion` bounds the revisions of a reservation. Four revisions are: reserve,
  extend, intent or shortfall, and (two revisions in one) settlement. The session
  runs use 8, more than their calls and tries can reach, so that the bound never
  hides a step from the liveness property. `billing_subscription` uses 2: the
  holds of both requests are adjusted, settled or refunded after a reset, but not
  extended and then settled; longer histories are covered by `PeriodIsItsHolds` and
  `LifetimeIsAllHolds` (section 6).
* `MaxInt` is 2 or 3 with wallets that start at 1 or 2, so that both the floor and
  the ceiling of a column are reached by one or two steps.
* `Amounts` contains 0 where the code treats 0 specially (free requests, the least
  unit of a subscription) and 2 where a downward settlement must differ from a
  refund.
* `FailureCodes` has one code in `billing_wallet`: the tables only remember the code
  of a refused settlement. The session decides by it, and its runs have all codes.
* `MaxPeriod` = 1: one reset separates "same period" from "another period", which
  is all that `SamePeriod` tells apart.
* `InitUsed` = 1 with `total` = 0: rows from before the lifetime counter existed,
  the case its lazy normalisation is for.
* `MaxAttempts` is 1 or 2 where the code has 3: one try that is lost and one that
  is repeated; a third try meets the same rows as the second.
* Two requests share everything they can share (user, subscription); a third only
  repeats what the second does to the first. The theorems cover any number.
* Two runners and two tasks: one to be late and one to take over, one task to be
  taken over and the next one of the type.
* `task_polling`: two passes, because two writers are what a compare-and-set is
  about; a user's fetch is the second writer for Gemini. `Quotas` contains 0 (a free
  task is not refunded), `Targets` one quota above and one equal to the pre-charge.
  `MaxFaults` = 2: one crash of the winner and one of whoever finishes for it. Refusals
  for want of funds are not counted. 841 858 states.
* `checkout`: `MaxFailures` = 3 is the number in the code; `MaxQuotes` = `MaxStarts` = 2: one and its successor, or one and its retry.
* `settlement`: `Expected` = 2 and `CreditQuota` = 3, so that half a refund needs
  rounding; a wallet of 1 out of 3, and at most 2 spent, so that a credit may not fit, a
  reversal may be covered in full, in part or not at all, and a restored credit may not
  fit. Each history is one payment and one or two further events: a growing refund, a
  dispute opened and won, two disputes, two ends of a dispute in one second, a
  payment told twice, a failure, a wrong amount, an unknown order, an unknown API
  version. `MaxFaults` = 1: one crash, one failed confirmation, one repeated or one
  conflicting delivery; retries after a lost acknowledgement are free.
* `settings`: `MaxVersion` = 3 allows two writes, one of another session between the
  page's load and its own save, and one more while its own is answered. 4 945 017 states
  up to the exchange of the nodes.
* `playground`: two requests to be mixed up; two chunks, so that the second repeats the
  first in the buffer or in the message; `MaxStored` = 2 where the code keeps 100, so that
  trimming happens; `MaxOpens` = 3: a first visit with nothing stored, a second that loads
  what the first left and a third that loads what a load wrote back. 3 763 429 states.
* `MaxRaises`, `MaxManual` bound how often a liability is raised and how often the
  administrator acts.
* `RequestSymmetry` is used where both requests have the same user and token, and
  `Alike` for the webhook requests, both only with invariants, and `NodeSymmetry` for the nodes of
  `settings`, with an invariant and two action properties that do not tell the nodes apart. No instance with a liveness property uses symmetry.

## 5 Fairness

* `FairSessionSpec`: weak fairness of the reconciler for each reservation.
  `controller/system_task_handlers.go` runs `ReconcileStaleBillingReservations` as
  a periodic system task, and a row that is stale stays stale. No fairness is
  given to sessions, pollers or administrators: processes die.
* `FairSpec` of `SystemTask`: the ticker of a live runner goes on
  (`WF(PassStep)`); a claim that is enabled again and again succeeds at last
  (`SF(ClaimRun)`, that is, the database does not fail every claim); handlers
  return (`WF(JobStep)`); time passes a lease that nobody attends. One runner is
  always alive, or is restarted; a restarted process has a new runner id.
* `FairSpec` of `AsyncTask`: passes and reconciler are periodic system tasks. Nothing is
  assumed of the provider, the user or the timeout, which an operator may switch off
  (`TaskTimeoutMinutes`); crashes and failed transactions are finite in number.
* `FairCheckoutSpec`: the browser's timers fire and a request of the polling loop
  ends, with an answer or an error. Nothing is assumed of the user or the server's
  orders.
* `PaymentSettings`, `PaymentSettlement` and `Playground` have safety properties only.
  That every reversal is applied in the end does not hold of the code (section 7), so
  no fairness of the webhook requests is stated.

`ActiveTaskEnds` does not hold under `FairSpec` when processes may stall (section 7).

## 6 Proofs

All theorems hold for every value of the constants that satisfies the named
assumptions of the modules: any number of users, tokens, requests, subscriptions,
liabilities, runners, tasks, nodes, webhook requests, payment routes, quotes and
starts, chunks and messages, any size of a column, any histories of provider events.
Every invariant and action property of a passing run is stated by a theorem; liveness is
not. The assumptions say that amounts fit a column, that requests are finitely many and have users, that ids do
not clash with the markers for "none", that the ids of payment options and routes are
distinct (`PublicRetainedOptionID` gives options a namespace of their own), that a
history is a sequence of events and that localStorage keeps two messages or more.

**Reservations (`BillingReservationProofs`, part I).** `CoreInv` is inductive: `TypeOK`,
`HoldsAgree` and `RecordMirrorsReservation`. None is inductive alone. A conditional
UPDATE bounds a balance by the delta it is given, so the range of a token column
needs to know that the hold and its token part move together (`HoldsAgree`), and
the range of a pre-consume record needs to know that it has the amount of its
reservation. Lemmas say what each guard (`UserErr`, `TokenErr`, ...) implies for
the balance it protects; then every transaction is taken in turn. Results:
`TypeCorrect`, `HoldsAlwaysAgree`, `RecordsMirrorReservations`.

**Ledger (part II).** `LedgerInv` adds `LedgerMirrorsHold`,
`LedgerBehindRevision` and that a row not yet written has no entries. Every step is
either `Quiet` (no reservation and no entry changes) or `Recorded(r)` for one
request: the row was open, only it changed, the wallet moved by what the ledger
gained, the new keys are not ahead of the new revision, and the ledger again adds
up. The theorems `LedgerAlwaysMirrorsHold`, `LedgerNeverCollides`,
`TerminalForGood` and `WalletAlwaysMovesWithLedger` follow from this
classification, the last two as action properties.

**Refinement (part II).** `ReservationImplementsCharge` says that
`Spec` implies `ImplementsCharge`. The step lemma reuses the classification of the
ledger proofs: a `Quiet` step leaves both mapped variables alone; a `Recorded(r)`
step moves `r` from absent or open to open, charged or returned, and `LedgerInv` in
the new state gives the amount: what the row holds, or nothing after a refund. That
the amount is a natural number needs `TypeOK`, so the proof rests on all of
`LedgerInv`.

**Usage and freeze (part III).** Again every step is classified, now by
what it does to the counters and the account: it `Follows` one open reservation (the
row is replaced by one on the same wallet, subscription and period; the counters move
by what its hold moves; the account is left alone, frozen or released as the freeze of
the row says), it is the first hold of a request, or it leaves the reservations aside
(debts, top-ups, resets, administrators). `FrozenIffLiable` is inductive together with
`CoreInv`: that all open liabilities remember one status is what makes the last release
independent of their order. `PeriodIsItsHolds` and `LifetimeIsAllHolds` rest on
`UsageInv`: both sums, no hold taken in a period to come (`NoneAhead`, without which a
reset could start a period that already has holds), and no reservation on a subscription
before it is made (`RowsPlaced`). When a hold of an earlier period is given back, only
the lifetime counter may fall; it stays at least the counter of the period, because the
holds of a period are among all holds and holds are not negative.

**Sessions (part IV).** A session never reads its row back: what it knows of it is what
its answered calls told it. `Fits(r, s, x)` relates the fields of a session `s` to the row
`x` of its request at every place of the handler: what is settled, refunded or reserved
unless others helped (`Unaided`), which call is under way and what its earlier tries may
have committed, where a liability is recorded. A transaction that fails with a transient
error may have committed, so `Fits` at a retry must hold of the row before and after the
try; this is what makes the retried calls idempotent in the proof. Every step of
`SessionNext` is one session's own step, whose row changes by the transaction of the
session's place (`OwnRow`), and all other rows only `Drift`: they change as the poller,
the reconciler or an administrator may change them, and `Fits` survives that.
`SessionStep` shows in the same case analysis that each step is a step of
`BillingReservation` or leaves its tables alone, from which `SessionsRefineReservations`
follows; with it all theorems of parts I to III hold of `SessionSpec`, too.
`EndedSessionsAreAccounted` needs to know when a refund can be refused at all:
`RowsInv` (the invariants of parts I to III together) leaves only the overflow of a
wallet or a token, since the record exists, the counters contain the hold and the ledger
key is free (`RefundIsOnlyRefusedByOverflow`). The action properties
`DeliveredUsageIsKept`, `SettlementRealisesIntent` and `FundingFollowsPreference` are
read off `OwnRow` and the invariant.

**Sums (`SetSums`).** `SumFunctionOnSet` and `MapThenSumSet` choose a function that adds
up one element at a time. The lemmas say that it exists for a finite set, is a number,
does not depend on the choice of elements, and changes by the weight of one element if
one element is added or changed. No induction theorem is used: the argument takes a
counterexample of least cardinality, and that every set of naturals has a least element
is proved from the well-foundedness of `<` on `Nat`.

**Freeze (`UserFreezeProofs`).** `ManualEnableSafe`: what the administrator counted
under the user's row lock is still true at the commit, because a liability opens
only under that lock. The other three theorems hold for any reservations and debts,
whichever of them move the wallet and so lock the user row before the count; where the
count is not under the lock, they say what it takes to go wrong. `LiableIsBlocked` rests on
`BlockedInv`: until a release was overtaken, an open liability has the account frozen, and a
transaction about to release has no other liability open. `NobodyIsLeftFrozen` rests on
`ReleasedInv`: until two resolutions crossed, a frozen account has an open liability, and
one that is about to leave the freeze to another is right that there is one. So the two
windows of section 7 are the only ones. `DisabledStaysDisabled` adds `ForbiddenInv`:
while an account is disabled by an administrator, every
place from which its status can be written (a liability, a transaction about to remember
it, the administrator's copy of the row) holds "disabled".

**System tasks (`SystemTaskProofs`).** `DispatchedAtMostOnce` rests on
`DispatchInv` (a row not yet running has no handler anywhere), `EndedForGood` on
the guards of the three writers of a row. `LockSerializesUnlessStalled` shows
`OneRunnerExecutes`, whose premise is `~stalls`, and rests on `LeaseInv`: every live handler
whose context is not cancelled, and every claim between lock and dispatch, holds the lease.
Of handlers that run on after a failed heartbeat nothing is claimed.

**Async tasks (`AsyncTaskProofs`).** The argument is about copies. `TypeInv` and
`LinkInv` say that a link has a reservation behind it and that a task submitted with its
reservation is linked in every copy. `MoneyInv` says, where the provider is not asked in
real time, that before the task ends no money has moved, so that a stale copy of the row
is stale in its link only (`UnendedIsUntouched`), and that once it has ended the link it
ended with decides which of the two billing paths is open, and the other has not billed
(`EndedIsBilledOneWay`). The compare-and-set on the status connects the two: no copy of an
ended row can be written (`CopiesUnended`). Results: `TaskIsPaidOnce`,
`TaskStaysEnded`, `VideoIsChargedAsDecided`.

**Settlement (`PaymentSettlementProofs`).** `Entitled` is a predicate of the rows: the
order is settled exactly when one credit is in the ledger, and the statuses of order,
debt and projection go with it. Each function of the rows (`Fulfilled`, `Reconciled`,
`Recovered`, `Restored`, `Ended`) is shown to keep it, under the guards of its callers;
this gives `CreditSourcesAgree` and, with what a rejection requires, `RejectionHolds`. For
the money, `LedgerInv` says that whoever posted will not post again (an event is final
then, a refund made outside is counted, a debt is resolved once), so that an entry is
new when it is posted; it needs that a transaction without an order has its event for
itself (`RowsLocked`). `MoneyIsPosted` follows: a step adds at most one entry that stands
for money, and that entry is what the user's net and the order's credit change by.
`BooksBalance` adds the entries up with `SetSums`.

`SettlementAgreesWithProvider` compares the order with the events. The standing of an
event is open, in doubt (its order is in review because of it), old news or applied. `AgreeInv` says that, as long as
no event is in doubt, the refunded amount of the order is the largest total of an applied
refund or of an administrator, the disputed amount is the sum over the last applied state
of every dispute, an event dismissed as old news has a later applied one of its dispute,
and an applied payment was credited or already refunded. No event leaves doubt by itself,
so nothing needs to be said of the amounts from then on, except that `reversed` follows
from the other two (`Consistent`). The step of a dispute needs that the newest applied
state by time and id, which is what `paymentDisputedAmountTx` takes, is the last of the
history. That is true under the hypothesis `Timely`: two states of one dispute are not in
one second, unless they are two contradicting ends, which come to review. The provider
does not promise it; the behaviour without it is the tie of section 7. `MCPaymentSettlement`
has TLC evaluate that the histories of the run satisfy `TimelyHistory` and that the tied
one does not.

**Settings (`PaymentSettingsProofs`).** `NoCopyIsAhead` is not inductive: it says nothing
of the jobs that fill a map, nor of copies whose version the database has yet to reach.
`CopyInv` says of every map, every job, every answer on its way and the page's data that
its version is one the database has had and that, where it is the current one, the values
are current (`Honest`); that a job brings its node a newer version and what it no longer
has to write is written (`JobsHonest`: the version comes last); and that the node which
received a write has at least the version the write expects (`WritesHonest`: synchronize
before compare-and-set). `SaveIsNotBlind` adds `SeenIsCurrent`: a write whose expected
version is the current one has seen the current values. `ConfirmedIsRun` rests on
`DialogIsOfOperation`: the dialog is about one operation at a time, and while a code is
verified that operation is the one confirmed, unless another has taken the dialog over
(`displaced`); `PageHoldsOneLock` says that a node's lock is the page's only while the page's write is
applied there.

**Checkout (`WebPageProofs`, part I).** The argument is about the pairs of a quote and a
request id, wherever the program keeps one: a start under way, an order, the wallet's
request, a pending option (`Kept`). Each quote goes with one id and each id with one
quote (`KeptInPairs`). Every step either keeps no new pair or adds one, of a quote in no
pair and a new id; that a confirmation does so needs to know that a quote on the page
without a kept request was never started (`PageKeepsItsRequest`, which is where
`cancelPendingQuote` drops request and quote together). With `OrdersMatchQuotes` this
gives `OneOrder`. `ConfirmsWhatItShows` rests on `SelectionIsAsked` (a selection waits
for the quote of the amount and method on the page) and `DialogShowsQuote`.

**Playground (`WebPageProofs`, part II).** `PlayInv` is inductive. Its core is
`Conversation`: of the conversation shown, the one in localStorage and those of pages
left behind, only the last message is pending, and it is an answer. The repair at load
(`sanitizeMessagesOnLoad`) repairs one message, so it is enough only because of this. The
rest (`NetFits`) is what the flags say of the requests under way: an open stream has its
flag set, nothing is buffered without it, and the plain request the page waits for is
not aborted. It gives `PendingIsStoppable`; `ShownIsAlwaysKept` adds that every step that
changes the conversation sets the save timer, or saves, or is marked in `unkept`.

`AnswersAreTheirOwn` needs more, `AnswerInv`: while the page is generating, the only
request under way is the latest, the last message is its answer, and its text and the
buffer fit what the request has delivered (`Fits`); otherwise nothing is buffered and
every plain request is aborted. `Fits` says of a provider that repeats: what is shown is a
beginning of what was delivered, and the buffer is empty or holds all of it; of one that
sends deltas: text and buffer have the request's letters and together are not
longer than what was delivered, and they are exactly that unless a delta was swallowed.
`BufferMerges` and `BufferFlushes` say that `mergePendingStreamChunk` and
`getAppendableChunk` keep this, and that a delta is only lost where `startsWith` took it
for a repetition; a stream that is closed, a flush, a stop and an error each end it with an
empty buffer. Texts are functions on `1 .. k`, so none of this is an induction over
sequences. The hypothesis `~overlapped` cannot be dropped: see section 7.

**Only model-checked.**

* Liveness under fairness (`EventuallyAccounted`, `ActiveTaskEnds`, `EventuallyBilled`,
  `SettledIsShown`), which the prover does not treat.

**Only proved.** `HoldsAgree`, `TerminalIsFinal`, `StepIsPosted` and the type invariants of
`BillingReservation`, `BillingSession`, `UserFreeze`, `SystemTask`, `AsyncTask`,
`PaymentSettlement` and `Playground` have no run of their own: the theorems show them for
every instance. The proofs about settings and checkout use type invariants without the
bounds of the instances (`TypeInv` in the proof modules); the bounded ones of those
modules describe the state for the reader.

## 7 Where code and comments disagree

* `freeze_overtaken`: `releaseUserPaymentFreezeTx` counts open liabilities before it
  locks the user row. While a debt is resolved, a request records a shortfall
  between the two statements; the release then enables a liable account. The tests
  of the repository assert the opposite for the sequential case.

The following are behaviours of the models that follow from the code at once, or
that no statement of the repository forbids. They have no run of their own; the
hazards in `PROJECT.json` give their lines.

* The comment on `PaymentFrozen` says that explicit administrator actions clear the
  marker. "disable" sets it only in memory, since `UpdateWithTx` does not write the
  column; the end of the freeze enables the account again. `DisableOutlivesFreeze` is
  therefore stated for accounts disabled while they were not frozen.
* The comment in `RelayTask` says the reservation stays open until the task ends. If
  the bind commits and its answer is lost, the handler settles the reservation of a
  running task.
* Two concurrent resolutions of one user each count the other's uncommitted row; neither
  releases the user and nothing retries (`crossed`).
* A comment at `service/system_task.go:312` says that the per-type lock guarantees that only
  one runner executes the task. One failed renewal of the lease, a passing database error
  included, ends the heartbeat; the billing reconcile handler ignores its cancelled
  context and runs on while the lease lapses and the next handler of the type starts.
* The CAS of a claim that commits and whose answer is lost is taken for a failure: the
  lock is released, and the row stays running without a handler and without a lock
  row, for ever (`orphaned`).
* The CAS of a system task's claim checks the task row and not the lease; after a
  pause longer than the lease between the two the task is running without a lock
  row, which no clean-up looks for, and its `active_key` keeps the type from being
  scheduled again.
* The timeout sweep says of tasks from before its cut-off that they are not refunded;
  once adopted, the reconciler refunds them. The cut-off's value is a year before the
  date in its comment.
* A Suno item with a fail reason and a status that is not FAILURE is set to 100 % and
  neither refunded nor polled again.
* A settlement above the pre-charge that the user cannot pay is refused at every attempt;
  the reservation stays open until an administrator or a top-up changes that.
* A video answer "in progress, 100 %" is stored as it comes; the row then matches neither the
  query of the poll nor that of the timeout sweep, and its reservation stays open.
* An error body of Gemini or Vertex, a rate limit included, fails and refunds a task
  whose job runs on.
* A section of the payment settings saved after a refetch raised the version, but did
  not reset the form, overwrites a change the page has not shown; the Pancake save
  does so after a verification dialog. A save that fails after its commit is
  reported as "No changes were applied".
* `startVerification` waits for the verification methods without a flag that keeps other
  protected operations away, and `executeVerification` reads `pendingApiCallRef` after the
  code was verified: a second operation whose methods arrive meanwhile is run with the
  confirmation given for the first, and the first is forgotten.
* An option of the wallet whose quote has expired is sent again with every click; an
  order seen expired first and paid later does not refresh the balance of the page.
* A role change reads a frozen user and writes its status back after the release: the
  account stays disabled without a liability.
* A top-up that arrives between a refused settlement and the record of its shortfall
  freezes an account that could pay by then.
* Two states of a dispute in one second: the won state is received first and so has
  the lower inbox id, the opening state is applied first, the won state then. Both count
  as applied, and `paymentDisputedAmountTx` takes the one with the higher id, the opening
  one, for the newest when the next event of another dispute arrives: the won amount
  is reversed again. `docs/payment-operations.md` says that the exposure is the
  aggregate of the latest state of every dispute. `AgreesWithProvider` fails so in
  `MCSettlement.cfg` with `Histories <- TiedHistory`; the run's own histories do not have
  an opening and an end of one dispute in one second.
* A reversal that came before a payment which itself comes to review or is linked by
  hand stays unmatched (neither replays it), and so do events of an unknown API
  version, which are never replayed.
* A payment in review with its order known can be neither linked nor replayed: both
  want an event without an order.
* An administrator can resolve a debt of an order once. If a later refund or dispute
  opens it again, `debt_resolved:<id>` exists and the second resolution is refused. If a
  waived debt's dispute is then won, the whole amount goes to the wallet.
* The resolution of a debt writes the order's status whatever it was, so it also ends a
  review of that order. A failure event after a refund that was confirmed for an
  uncredited order moves it from `refund_pending` to `failed`.
* An order page that gives up polling after the order's expiry shows it as expired and
  offers no refresh (`payment-checkout-page.tsx:933-935`); a payment that arrives then is shown when the
  tab is shown again or the page is reloaded.
* An edit submitted in the playground while an answer is generated mixes two
  answers; a page left while generating, or a second tab, may overwrite the stored
  conversation.
* A streamed delta that equals or begins with the text buffered since the last flush
  (50 ms) replaces it, at any place of an answer ("0", then "0"), and buffered text that
  begins with all the text shown replaces that: text is lost (`swallowed`).
* A save of the playground that fails, because the schema refuses a message (an `errorCode`
  that is a number, `types/error.go:17`) or the storage is full, is only logged; every
  later save with that message fails as well, and the next visit shows the old one. A
  stored conversation that cannot be read is shown as empty, and one that is too large
  is removed.

A lease can never exclude that two handlers of a type overlap after a pause longer
than its TTL; `OneRunnerExecutes` is therefore claimed only without stalls.

## 8 What is not modelled

* The quota period a subscription-funded task from before reservations was charged in
  (`AsyncTask` has no periods), and read-only listings.
* Midjourney tasks: the same protocol as `AsyncTask` over another table.
* Edits of a token between limited and unlimited; the mode is a constant.
* Purchase of a subscription while a request is under way; the set of subscriptions
  is fixed and each may end. `FundingFollowsPreference` is to be read with that.
* The progress state of a system task.
* How prices are computed (`common/quota_math.go`, `pkg/billingexpr`): the models
  take the resulting amounts as given.
* Provider adaptors, protocol conversion, signatures of payment providers: data
  conversion and I/O without shared state.
* Logs, statistics, notifications: no decision reads them.
* Payments on the server beyond quotes, orders, their public status and the settlement
  of top-up orders: subscription orders, affiliate rewards, provider tasks, limits,
  legacy orders; caches; rate limits. See section 9.
* In the modelled pages: validation and layout of the settings' fields, the purchase
  of subscriptions, redemption and history in the wallet, the reasoning channel and
  the options of the playground; what the second protected operation of the settings page
  does on the server (it is a session like any other) and its effect on the page's version; that
  an edit in the playground starts from the conversation of the last render, so that an
  update not rendered yet is overwritten; the time between opening the playground and the
  load of its conversation (a timer of 0 ms).
* All other pages of the default frontend, the classic frontend and the desktop
  shell. They make up most of the repository's TypeScript and JavaScript (about
  325 000 lines in all, against some 3 000 that the models stand for): tables, forms,
  charts and editors whose state is a copy of one answer, edited by one user and sent
  back whole, with the server deciding. There is no protocol in them for a model to
  check. The program's own logic is in Go.

Functions of the repository that have no caller are not modelled.

## 9 Plan

Done: the components of section 2, in the order of their importance for the money of
a user, and the first refinement with its proof. Next, in this order:

1. **`PaymentSettlement`**: subscription orders and affiliate rewards as further kinds of
   entitlement; the status steps of `PaymentOrderPage` as its abstraction.
2. **`PaymentTask`** (`model/payment_task.go`, `service/payment_worker.go`): leased queue
   of provider calls with retries and back-off; **`PaymentLimit`**.
3. **`Subscription`**: purchase, upgrade, renewal and revocation, with the counters
   of `BillingReservation`.
4. **Single-use credits** (redemption codes, invite links, commissions), then the
   **caches** that decide about admission and the **rate limits**, if they show
   anything a unit test does not.
