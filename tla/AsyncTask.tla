------------------------------ MODULE AsyncTask ------------------------------
(***************************************************************************)
(* One asynchronous (Suno or video) task and the money held for it, as      *)
(* seen by the processes that follow it:                                    *)
(*   - the polling pass, which may run on two nodes at once when a lease is *)
(*     lost (service/task_polling.go);                                      *)
(*   - a user's fetch of the task, which asks Gemini and Vertex in real     *)
(*     time (relay/relay_task.go);                                          *)
(*   - the reconciler of stale reservations (model/billing_reservation.go). *)
(* Each reads the whole task row, asks the provider, and writes the whole   *)
(* row back under a compare-and-set on the status alone; whoever wins the   *)
(* write then bills in transactions of its own.  Tasks created before       *)
(* billing reservations existed are adopted into one on the way.            *)
(*                                                                          *)
(* Tasks are handled one by one, so one row stands for all.  A settlement   *)
(* above the pre-charge may be refused for want of funds, as often as it is *)
(* tried: here it is recorded that it was; the liability and the freeze     *)
(* that go with it are the subject of BillingReservation.                   *)
(***************************************************************************)
EXTENDS Integers

CONSTANTS
    Nodes,        \* the nodes of the cluster
    PollersOf,    \* per platform, the nodes whose polling passes may overlap
    Platforms,    \* a subset of {"suno", "video", "gemini"}
    Quotas,       \* pre-charges of a task
    Targets,      \* quotas an adaptor or the token count may arrive at
    MaxFaults     \* bound: crashes and failed transactions

ASSUME PlatformsAssumption == Platforms \subseteq {"suno", "video", "gemini"}
ASSUME PollersAssumption == PollersOf \in [Platforms -> SUBSET Nodes]
ASSUME NodesAssumption == "user" \notin Nodes /\ "reconciler" \notin Nodes
ASSUME QuotasAssumption ==
    Quotas \subseteq Nat /\ Targets \subseteq Nat /\ MaxFaults \in Nat

VARIABLES
    platform,     \* whose task it is; gemini stands for Gemini and Vertex
    upstream,     \* how the provider's job really stands
    expired,      \* TaskTimeoutMinutes > 0 and submit_time is before the cutoff
    row,          \* the tasks row
    resv,         \* the task's billing reservation
    paid,         \* what the user has paid for the task, net
    shortfall,    \* a settlement refused for want of funds is on record
    legacyKeys,   \* ledger phases posted at revision 1 by the legacy path
    obs,          \* the processes that follow the task
    faults        \* faults so far

vars == <<platform, upstream, expired, row, resv, paid, shortfall, legacyKeys, obs, faults>>

NoTarget == -1
Amounts == {0} \cup Quotas \cup Targets
Observers == Nodes \cup {"user", "reconciler"}

Terminal == {"SUCCESS", "FAILURE"}
Statuses == {"SUBMITTED", "IN_PROGRESS"} \cup Terminal

TaskRow ==
    [status : Statuses,
     complete : BOOLEAN,                    \* progress = "100%", or the status is final
     quota : Amounts,
     linked : BOOLEAN,                      \* BillingRequestId is set
     target : Amounts \cup {NoTarget},      \* BillingTargetQuota
     finalized : BOOLEAN,                   \* LegacyBillingFinalized
     old : BOOLEAN]                         \* submitted before legacyTaskCutoff

Reservation ==
    [status : {"none", "reserved", "settled", "refunded"},
     quota : Amounts,                       \* ReservedQuota
     pending : Amounts \cup {NoTarget},     \* SettlementTarget
     adopted : BOOLEAN]                     \* LegacyAdopted

\* pc: what the process does next; task: its copy of the row; target: the
\* quota it settles at.
Observer ==
    [pc : {"idle", "sweep", "list", "adopt", "fetch", "prepare", "settle", "refund"},
     task : TaskRow,
     target : Amounts \cup {NoTarget}]

\* The columns of the task and its reservation and the locals of every process.
TaskTypeOK ==
    /\ platform \in Platforms
    /\ upstream \in {"running"} \cup Terminal
    /\ expired \in BOOLEAN /\ shortfall \in BOOLEAN
    /\ row \in TaskRow
    /\ resv \in Reservation
    /\ paid \in Int
    /\ legacyKeys \subseteq {"settle", "refund"}
    /\ obs \in [Observers -> Observer]
    /\ faults \in 0..MaxFaults

Blank == [status |-> "SUBMITTED", complete |-> FALSE, quota |-> 0, linked |-> FALSE,
          target |-> NoTarget, finalized |-> FALSE, old |-> FALSE]
Idle == [pc |-> "idle", task |-> Blank, target |-> NoTarget]

\* A task just bound to its reservation, or one charged before reservations.
Init ==
    /\ platform \in Platforms
    /\ upstream = "running"
    /\ expired = FALSE /\ shortfall = FALSE
    /\ \E q \in Quotas, link \in BOOLEAN, old \in BOOLEAN :
         /\ old => ~link
         /\ row = [Blank EXCEPT !.quota = q, !.linked = link, !.old = old]
         /\ resv = [status |-> IF link THEN "reserved" ELSE "none", quota |-> q,
                    pending |-> NoTarget, adopted |-> FALSE]
         /\ paid = q
    /\ legacyKeys = {}
    /\ obs = [o \in Observers |-> Idle]
    /\ faults = 0

-----------------------------------------------------------------------------
(* Reading and writing the row.                                             *)

Become(o, state) == obs' = [obs EXCEPT ![o] = state]
Stop(o) == Become(o, Idle)
Goto(o, pc) == Become(o, [obs[o] EXCEPT !.pc = pc])

job == <<platform, upstream, expired>>
money == <<resv, paid, shortfall, legacyKeys>>

\* The polling query: rows that are neither ended nor at 100%.
Unfinished == row.status \notin Terminal /\ ~row.complete

\* Takes the copy of the row that o works on; a row without a reservation is
\* to be adopted first.
Read(o) ==
    Become(o, [pc |-> IF row.linked THEN "fetch" ELSE "adopt", task |-> row,
               target |-> NoTarget])

\* Mutant of UpdateWithStatus: the update is by id alone.
UpdateWithoutStatus(fromStatus, new) == fromStatus \in Statuses /\ row' = new

\* The compare-and-set: guarded by the status, it writes every column.
UpdateWithStatus(fromStatus, new) == row.status = fromStatus /\ row' = new

\* Of its copy, a process that bills uses the link and the quota only.
Billing(next, task, target) ==
    [pc |-> next, target |-> target,
     task |-> [Blank EXCEPT !.linked = task.linked, !.quota = task.quota]]

\* o has computed the row `new` from its copy and writes it.  The winner goes on
\* to bill (`next`) at `target`; a loser lets go.
Write(o, new, next, target) ==
    \/ /\ UpdateWithStatus(obs[o].task.status, new)
       /\ IF next = "idle" THEN Stop(o)
          ELSE Become(o, Billing(next, new, target))
    \/ /\ row.status # obs[o].task.status
       /\ Stop(o)
       /\ UNCHANGED row

\* Mutant of RecordedTarget: the decision is not written with the status.
RecordedTargetLost(task, target) == [task EXCEPT !.target = NoTarget]

\* RecordBillingTargetQuota, by the caller that has found no conflict.
RecordedTarget(task, target) == [task EXCEPT !.target = target]
Agrees(task, target) == task.target \in {NoTarget, target}

-----------------------------------------------------------------------------
(* The polling pass: sweepTimedOutTasks, then RunTaskPollingOnce.          *)

SweepBegin(o) ==
    /\ obs[o].pc = "idle" /\ expired /\ Unfinished
    /\ Become(o, [pc |-> "sweep", task |-> row, target |-> NoTarget])
    /\ UNCHANGED <<job, row, money, faults>>

\* A sweep that comes too late goes on with the pass.
SweepTask(o) ==
    LET task == obs[o].task
        new == [task EXCEPT !.status = "FAILURE", !.complete = TRUE] IN
    /\ obs[o].pc = "sweep"
    /\ \/ /\ UpdateWithStatus(task.status, new)
          /\ IF ~task.old /\ task.quota # 0 THEN Become(o, Billing("refund", new, NoTarget))
                                            ELSE Stop(o)
       \/ row.status # task.status /\ Goto(o, "list") /\ UNCHANGED row
    /\ UNCHANGED <<job, money, faults>>

RunTaskPollingOnce(o) ==
    /\ obs[o].pc = "list" \/ (obs[o].pc = "idle" /\ ~expired)
    /\ IF Unfinished THEN Read(o) ELSE obs[o].pc = "list" /\ Stop(o)
    /\ UNCHANGED <<job, row, money, faults>>

\* What a provider may answer.  A video provider's error body fails the task
\* whatever became of the job; Suno's errors change nothing.
Answers ==
    CASE upstream = "running" -> {"IN_PROGRESS"}
      [] OTHER -> {upstream}
VideoAnswers == Answers \cup {"FAILURE"}

FetchFails(o) ==
    /\ obs[o].pc = "fetch"
    /\ Stop(o)
    /\ UNCHANGED <<job, row, money, faults>>

\* updateSunoTasks, for one item of the answer.  `reason`: the item has a fail
\* reason.
UpdateSunoTask(o) ==
    LET task == obs[o].task IN
    /\ platform = "suno" /\ obs[o].pc = "fetch"
    /\ \E status \in Answers, reason \in BOOLEAN :
         LET refund == reason \/ status = "FAILURE"
             settle == ~refund /\ status = "SUCCESS"
             new == [task EXCEPT !.status = status, !.complete = @ \/ refund \/ settle] IN
         CASE settle /\ Agrees(task, task.quota) ->
                Write(o, RecordedTarget(new, task.quota), "prepare", task.quota)
           [] settle /\ ~Agrees(task, task.quota) -> Stop(o) /\ UNCHANGED row
           [] OTHER -> Write(o, new, IF refund THEN "refund" ELSE "idle", NoTarget)
    /\ UNCHANGED <<job, money, faults>>

\* updateVideoSingleTask.  `full`: the answer's progress is 100%, which is taken
\* over whatever its status says.
UpdateVideoSingleTask(o) ==
    LET task == obs[o].task IN
    /\ platform # "suno" /\ obs[o].pc = "fetch"
    /\ \E status \in VideoAnswers, target \in Targets \cup {task.quota}, full \in BOOLEAN :
         LET new == [task EXCEPT !.status = status, !.complete = status \in Terminal \/ full] IN
         CASE status = "SUCCESS" /\ Agrees(task, target) ->
                Write(o, RecordedTarget(new, target), "prepare", target)
           [] status = "SUCCESS" /\ ~Agrees(task, target) -> Stop(o) /\ UNCHANGED row
           [] status = "FAILURE" ->
                Write(o, new, IF task.quota # 0 THEN "refund" ELSE "idle", NoTarget)
           [] OTHER -> Write(o, new, "idle", NoTarget)
    /\ UNCHANGED <<job, money, faults>>

-----------------------------------------------------------------------------
(* A user's fetch: videoFetchByIDRespBodyBuilder and tryRealtimeFetch.      *)

FetchByID ==
    /\ platform # "suno" /\ obs["user"].pc = "idle"
    /\ ~row.linked \/ platform = "gemini"
    /\ Read("user")
    /\ UNCHANGED <<job, row, money, faults>>

\* Whatever the row's status is, terminal or not; `other`: the result URL or the
\* fail reason is new.  Only Gemini and Vertex get as far as asking.
TryRealtimeFetch ==
    LET task == obs["user"].task IN
    /\ obs["user"].pc = "fetch"
    /\ \E status \in VideoAnswers, target \in Targets \cup {task.quota}, other \in BOOLEAN :
         LET new == [task EXCEPT !.status = status, !.complete = status \in Terminal]
             changed == other \/ status # task.status \/ new.complete # task.complete IN
         CASE platform # "gemini" -> Stop("user") /\ UNCHANGED row
           [] platform = "gemini" /\ status = "SUCCESS" /\ ~Agrees(task, target) ->
                Stop("user") /\ UNCHANGED row
           [] platform = "gemini" /\ ~changed -> Stop("user") /\ UNCHANGED row
           [] platform = "gemini" /\ changed /\ status = "SUCCESS" /\ Agrees(task, target) ->
                Write("user", RecordedTarget(new, target), "prepare", target)
           [] OTHER ->
                Write("user", new, IF status = "FAILURE" THEN "refund" ELSE "idle", NoTarget)
    /\ UNCHANGED <<job, money, faults>>

-----------------------------------------------------------------------------
(* AdoptLegacyTaskBillingReservation                                        *)

\* The transaction: an ended row is refused, a linked row hands out its link,
\* a reservation left from an earlier adoption is linked again, else one is
\* created over what the task was charged, without moving money.
Adopt(o) ==
    /\ obs[o].pc = "adopt"
    /\ row.status \notin Terminal
    /\ row' = [row EXCEPT !.linked = TRUE]
    /\ resv' = IF row.linked \/ resv.status # "none" THEN resv
               ELSE [status |-> "reserved", quota |-> row.quota,
                     pending |-> NoTarget, adopted |-> TRUE]
    /\ Become(o, [obs[o] EXCEPT !.pc = "fetch", !.task.linked = TRUE])
    /\ UNCHANGED <<job, paid, shortfall, legacyKeys, faults>>

\* The task is followed all the same when the adoption fails.
AdoptFails(o) ==
    /\ obs[o].pc = "adopt"
    /\ \/ row.status \in Terminal /\ UNCHANGED faults
       \/ faults < MaxFaults /\ faults' = faults + 1
    /\ Goto(o, "fetch")
    /\ UNCHANGED <<job, row, money>>

-----------------------------------------------------------------------------
(* Billing by the winner of a write: RecalculateTaskQuota, RefundTaskQuota. *)

\* Mutant of LinkedTo: the status of the row is not read again.
LinkedToAny(status) == row.linked /\ resv.status # "none" /\ status \in Terminal

\* What the billing transactions of a linked task check under the row's lock.
LinkedTo(status) == row.status = status /\ row.linked /\ resv.status # "none"

\* prepareTaskBillingReservationSettlement: the target is written to the
\* reservation before any money moves.
Preparable(target) ==
    /\ LinkedTo("SUCCESS")
    /\ Agrees(row, target)
    /\ \/ resv.status = "settled" /\ resv.quota = target
       \/ /\ resv.status = "reserved"
          /\ resv.pending \in {NoTarget, target} \/ row.target # NoTarget

PrepareSettlement(o) ==
    /\ obs[o].pc = "prepare" /\ obs[o].task.linked
    /\ \/ /\ Preparable(obs[o].target)
          /\ resv' = IF resv.status = "settled" THEN resv
                     ELSE [resv EXCEPT !.pending = obs[o].target]
          /\ Goto(o, "settle")
       \/ /\ ~Preparable(obs[o].target)
          /\ Stop(o)
          /\ UNCHANGED resv
    /\ UNCHANGED <<job, row, paid, shortfall, legacyKeys, faults>>

SettledRow(target) == [row EXCEPT !.quota = target, !.target = NoTarget]

\* SettleTaskBillingReservation: the difference is charged, the row takes the
\* final quota and gives up its target.
Settle(o) ==
    LET target == obs[o].target
        ok == LinkedTo("SUCCESS") /\ Agrees(row, target)
              /\ (resv.status = "reserved" \/ (resv.status = "settled" /\ resv.quota = target)) IN
    /\ obs[o].pc = "settle"
    /\ IF ok
       THEN /\ resv' = [resv EXCEPT !.status = "settled", !.quota = target,
                                    !.pending = NoTarget]
            /\ paid' = paid + target - resv.quota
            /\ row' = SettledRow(target)
       ELSE UNCHANGED <<row, resv, paid>>
    /\ Stop(o)
    /\ UNCHANGED <<job, shortfall, legacyKeys, faults>>

Refundable == resv.status \in {"reserved", "refunded"}

\* RefundTaskBillingReservation
RefundLinked(o) ==
    /\ obs[o].pc = "refund" /\ obs[o].task.linked
    /\ IF LinkedTo("FAILURE") /\ Refundable
       THEN /\ resv' = [resv EXCEPT !.status = "refunded", !.pending = NoTarget]
            /\ paid' = IF resv.status = "refunded" THEN paid ELSE paid - resv.quota
            /\ row' = [row EXCEPT !.target = NoTarget]
       ELSE UNCHANGED <<row, resv, paid>>
    /\ Stop(o)
    /\ UNCHANGED <<job, shortfall, legacyKeys, faults>>

\* finalizeLegacyTaskBilling, for a copy of the row without a reservation: once,
\* by the row's flag and by the ledger's unique key.
Finalizable(outcome) ==
    /\ ~row.linked /\ ~row.finalized
    /\ row.status = IF outcome = "settle" THEN "SUCCESS" ELSE "FAILURE"
    /\ outcome \notin legacyKeys

FinalizeLegacyTaskBilling(o) ==
    LET outcome == IF obs[o].pc = "refund" THEN "refund" ELSE "settle"
        quota == IF outcome = "refund" THEN obs[o].task.quota ELSE obs[o].target IN
    /\ obs[o].pc \in {"prepare", "refund"} /\ ~obs[o].task.linked
    /\ IF quota # 0 /\ Finalizable(outcome)
       THEN /\ paid' = IF outcome = "refund" THEN paid - row.quota
                                             ELSE paid + quota - row.quota
            /\ row' = [row EXCEPT !.finalized = TRUE,
                                  !.quota = IF outcome = "settle" THEN quota ELSE @]
            /\ legacyKeys' = legacyKeys \cup {outcome}
       ELSE UNCHANGED <<paid, row, legacyKeys>>
    /\ Stop(o)
    /\ UNCHANGED <<job, resv, shortfall, faults>>

\* The wallet or the token cannot pay what goes beyond the pre-charge.  Nothing
\* is settled; for a reservation the refusal is recorded, by the process that was
\* refused (markAsyncBillingSettlementShortfall, or the reconciler's review), and
\* the settlement stays open to the next try.
SettleRefused(o) ==
    /\ \/ /\ obs[o].pc = "settle" /\ LinkedTo("SUCCESS") /\ Agrees(row, obs[o].target)
          /\ resv.status = "reserved" /\ obs[o].target > resv.quota
          /\ shortfall' = TRUE
       \/ /\ obs[o].pc = "prepare" /\ ~obs[o].task.linked /\ Finalizable("settle")
          /\ obs[o].target > row.quota
          /\ UNCHANGED shortfall
    /\ Stop(o)
    /\ UNCHANGED <<job, row, resv, paid, legacyKeys, faults>>

\* Mutant of ReconcileStaleBillingReservation: only failed tasks are retried.
ReconcileFailuresOnly ==
    /\ obs["reconciler"].pc = "idle" /\ resv.status = "reserved"
    /\ row.status = "FAILURE"
    /\ Become("reconciler", Billing("refund", [row EXCEPT !.linked = TRUE], NoTarget))
    /\ UNCHANGED <<job, row, money, faults>>

\* ReconcileStaleBillingReservations: picks up a reservation nobody finalized.
\* Where it cannot decide it leaves a review marker, which changes nothing here.
ReconcileStaleBillingReservation ==
    LET target == IF row.target # NoTarget THEN row.target
                  ELSE IF resv.pending # NoTarget THEN resv.pending ELSE row.quota
        copy == [row EXCEPT !.linked = TRUE] IN
    /\ obs["reconciler"].pc = "idle" /\ resv.status = "reserved"
    /\ \/ /\ row.status = "SUCCESS"
          /\ Become("reconciler", Billing("prepare", copy, target))
       \/ /\ row.status = "FAILURE"
          /\ Become("reconciler", Billing("refund", copy, NoTarget))
    /\ UNCHANGED <<job, row, money, faults>>

-----------------------------------------------------------------------------
(* The world                                                                *)

UpstreamEnds ==
    /\ upstream = "running"
    /\ upstream' \in Terminal
    /\ UNCHANGED <<platform, expired, row, money, obs, faults>>

\* Never, where TaskTimeoutMinutes is 0 and nothing is swept.
TimeoutPasses ==
    /\ ~expired
    /\ expired' = TRUE
    /\ UNCHANGED <<platform, upstream, row, money, obs, faults>>

\* The process dies, or its next transaction fails: either way it is back at the
\* start with nothing written.
Crash(o) ==
    /\ obs[o].pc # "idle"
    /\ faults < MaxFaults /\ faults' = faults + 1
    /\ Stop(o)
    /\ UNCHANGED <<job, row, money>>

Bill(o) ==
    \/ PrepareSettlement(o) \/ Settle(o) \/ SettleRefused(o)
    \/ RefundLinked(o) \/ FinalizeLegacyTaskBilling(o)

Poller(o) ==
    \/ SweepBegin(o) \/ SweepTask(o) \/ RunTaskPollingOnce(o)
    \/ Adopt(o) \/ AdoptFails(o)
    \/ FetchFails(o) \/ UpdateSunoTask(o) \/ UpdateVideoSingleTask(o)
    \/ Bill(o)

User ==
    \/ FetchByID \/ Adopt("user") \/ AdoptFails("user")
    \/ FetchFails("user") \/ TryRealtimeFetch
    \/ Bill("user")

Reconciler == ReconcileStaleBillingReservation \/ Bill("reconciler")

Next ==
    \/ \E o \in PollersOf[platform] : Poller(o)
    \/ User
    \/ Reconciler
    \/ UpstreamEnds
    \/ TimeoutPasses
    \/ \E o \in Observers : Crash(o)

Spec == Init /\ [][Next]_vars

\* The pass and the reconciler are system tasks that are run again and again;
\* nothing is assumed of the provider, the user or the timeout.
FairSpec ==
    /\ Spec
    /\ WF_vars(Reconciler)
    /\ \A o \in Nodes : WF_vars(o \in PollersOf[platform] /\ Poller(o))

-----------------------------------------------------------------------------
(* Properties                                                              *)

Closed == resv.status \in {"settled", "refunded"}

\* A task that has ended keeps its status, however many nodes poll and sweep it
\* with copies read earlier (UpdateWithStatus).  A fetch in real time may bring a
\* Gemini task back or end it otherwise, but if the task was submitted with a
\* reservation the first outcome billed stands: no later outcome, by whichever
\* process, moves money for it again.
EndedStaysEnded ==
    [][/\ platform # "gemini" /\ row.status \in Terminal => row'.status = row.status
       /\ ~resv.adopted /\ Closed => paid' = paid /\ resv'.status = resv.status]_vars

\* The user has paid what the outcome says and only once, also when a stale
\* copy takes an adopted task's link away and the legacy path bills it: a
\* refunded task cost nothing, a settled one its final quota, and never do the
\* reservation and the legacy path both move the money.
PaidOnce ==
    platform # "gemini" =>
        /\ resv.status = "refunded" => paid = 0 /\ row.status = "FAILURE"
        /\ resv.status = "settled" => paid = row.quota /\ row.status = "SUCCESS"
        /\ row.finalized => ~Closed /\ paid = IF row.status = "FAILURE" THEN 0 ELSE row.quota
        /\ ~row.finalized /\ ~Closed => paid = row.quota

\* The quota charged for a video is the quota decided by whoever saw it succeed,
\* and it was written in the same update as SUCCESS: a crash before the billing
\* transactions, or another process that bills instead, does not change it.
DecisionIsCharged ==
    [][platform = "video" /\ resv.status = "reserved" /\ resv'.status = "settled"
         => row.target = resv'.quota]_vars

\* A row neither polled nor swept although it has not ended: an answer that put it
\* at 100% too soon.
OutOfSight == row.status \notin Terminal /\ row.complete

\* A video task submitted with a reservation that has timed out is settled or
\* refunded in the end, through crashes, failed transactions and a provider that
\* never answers; and so is every Suno or video task once it has ended.  Two ways
\* out are the code's: a settlement that the user's funds do not cover is on
\* record instead, and a video the provider puts at 100% before it ends is lost
\* from sight.
EventuallyBilled ==
    /\ (expired /\ platform = "video" /\ row.linked /\ ~resv.adopted)
         ~> (Closed \/ shortfall \/ OutOfSight)
    /\ (platform # "gemini" /\ row.status \in Terminal /\ row.linked /\ ~resv.adopted)
         ~> (Closed \/ shortfall)

=============================================================================
