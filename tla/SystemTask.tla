----------------------------- MODULE SystemTask -----------------------------
(***************************************************************************)
(* The cluster's periodic work: model/system_task.go and the runner of     *)
(* service/system_task.go, for one task type (types share no row).         *)
(*                                                                         *)
(* A task row is pending, running, then succeeded or failed.  The lock row *)
(* of the type is a lease, renewed by a heartbeat while the handler runs.  *)
(* None of this is transactional: a claim is four separate statements, the *)
(* clean-up of stale leases three.  Time is abstracted to the one thing it *)
(* decides: whether the lease has lapsed.  A lease lapses when nobody      *)
(* renews it, and, if stalls, also when its owner is paused for longer     *)
(* than the TTL.                                                           *)
(***************************************************************************)
EXTENDS Integers

CONSTANTS
    Runners,        \* runner ids; a restarted process has a new one
    MaxTasks        \* bound: rows of this type

ASSUME RunnerAssumption == MaxTasks \in Nat

Tasks == 1..MaxTasks
NoTask == 0
NoRunner == "none"

VARIABLES
    row,            \* system_tasks: status and locked_by
    lock,           \* system_task_locks: the row of this type
    pass,           \* runner -> where its scheduler/claim pass is
    job,            \* runner -> task -> its handler's goroutine
    late,           \* runners that read the clock after locked_until
    dead,           \* runners whose process has died
    starts,         \* task -> handlers ever dispatched for it
    stalls,         \* live processes may pause longer than the lease
    orphaned        \* history: tasks set running by a claim that was taken to have failed

vars == <<row, lock, pass, job, late, dead, starts, stalls, orphaned>>

-----------------------------------------------------------------------------
Active == {"pending", "running"}
Terminal == {"succeeded", "failed"}
RowState == [status : {"none"} \cup Active \cup Terminal,
             by : Runners \cup {NoRunner}]
LockState == [task : Tasks \cup {NoTask}, by : Runners \cup {NoRunner},
              live : BOOLEAN]
PassState == [pc : {"expire", "expire_mark", "expire_delete", "schedule", "claim",
                    "lock", "takeover", "claim_mark", "claim_run"},
              task : Tasks \cup {NoTask},       \* the pending task being claimed
              seen : LockState]                 \* the lock row read before

\* A handler that runs, runs with its context cancelled, or has stored its result.
JobState == {"none", "run", "cancelled", "finished"}

TypeOK ==
    /\ row \in [Tasks -> RowState]
    /\ lock \in LockState
    /\ pass \in [Runners -> PassState]
    /\ job \in [Runners -> [Tasks -> JobState]]
    /\ late \subseteq Runners /\ dead \subseteq Runners
    /\ starts \in [Tasks -> Nat]
    /\ orphaned \subseteq Tasks

NoLock == [task |-> NoTask, by |-> NoRunner, live |-> FALSE]
FirstPass == [pc |-> "expire", task |-> NoTask, seen |-> NoLock]

Init ==
    /\ row = [k \in Tasks |-> [status |-> "none", by |-> NoRunner]]
    /\ lock = NoLock
    /\ pass = [n \in Runners |-> FirstPass]
    /\ job = [n \in Runners |-> [k \in Tasks |-> "none"]]
    /\ late = {} /\ dead = {}
    /\ starts = [k \in Tasks |-> 0]
    /\ stalls \in BOOLEAN
    /\ orphaned = {}

-----------------------------------------------------------------------------
At(n, pc) == n \notin dead /\ pass[n].pc = pc
Goto(n, pc) == pass' = [pass EXCEPT ![n].pc = pc]

\* A function returned, its local variables are gone.
Return(n, pc) == pass' = [pass EXCEPT ![n] = [FirstPass EXCEPT !.pc = pc]]

Expired == lock.task # NoTask /\ ~lock.live

\* Each pass compares locked_until with the clock as it read it at its start, so
\* a row written since is not expired for it, unless the writer of that row was
\* paused between computing locked_until and writing it.
ReadClock(n) == late' = IF Expired THEN late \cup {n} ELSE late \ {n}
ExpiredFor(n) == Expired /\ (stalls \/ n \in late)

WriteLock(k, n) ==
    /\ lock' = [task |-> k, by |-> n, live |-> TRUE]
    /\ late' = {}
HoldsLease(n, k) == lock = [task |-> k, by |-> n, live |-> TRUE]

\* Mutant of MarkSystemTaskLeaseExpired: "status = running" is dropped.
MarkLeaseExpiredUnguarded(k) ==
    row' = IF k # NoTask THEN [row EXCEPT ![k].status = "failed"] ELSE row

\* Mutant of MarkSystemTaskLeaseExpired: the lock is removed, the row is left.
MarkLeaseExpiredSkipped(k) == row' = row

\* Fails a running task and clears its active key; any other status stays.
MarkSystemTaskLeaseExpired(k) ==
    row' = IF k # NoTask /\ row[k].status = "running"
           THEN [row EXCEPT ![k].status = "failed"] ELSE row

ReleaseSystemTaskLock(k, n) ==
    lock' = IF lock.task = k /\ lock.by = n THEN NoLock ELSE lock

-----------------------------------------------------------------------------
(* ExpireStaleSystemTaskLocks: read, mark the task, delete the lock.        *)

ExpireRead(n) ==
    /\ At(n, "expire")
    /\ ReadClock(n)
    /\ IF Expired
       THEN pass' = [pass EXCEPT ![n] = [@ EXCEPT !.pc = "expire_mark", !.seen = lock]]
       ELSE Return(n, "schedule")
    /\ UNCHANGED <<row, lock, job, dead, starts, stalls, orphaned>>

ExpireMark(n) ==
    /\ At(n, "expire_mark")
    /\ MarkSystemTaskLeaseExpired(pass[n].seen.task)
    /\ Goto(n, "expire_delete")
    /\ UNCHANGED <<lock, job, late, dead, starts, stalls, orphaned>>

\* Only if the row still has the owner that was read, and is still expired.
ExpireDelete(n) ==
    /\ At(n, "expire_delete")
    /\ lock' = IF /\ ExpiredFor(n)
                  /\ lock.task = pass[n].seen.task /\ lock.by = pass[n].seen.by
               THEN NoLock ELSE lock
    /\ Return(n, "schedule")
    /\ UNCHANGED <<row, job, late, dead, starts, stalls, orphaned>>

-----------------------------------------------------------------------------
(* runSystemTaskScheduler and EnqueueSystemTask: the unique active key      *)
(* admits a new row only while no row is active.                            *)

Schedule(n) ==
    /\ At(n, "schedule")
    /\ \/ row' = row            \* not due, or an active row exists
       \/ \E k \in Tasks :
            /\ \A j \in Tasks : row[j].status \notin Active
            /\ row[k].status = "none" /\ \A j \in Tasks : j < k => row[j].status # "none"
            /\ row' = [row EXCEPT ![k].status = "pending"]
    /\ Goto(n, "claim")
    /\ UNCHANGED <<lock, job, late, dead, starts, stalls, orphaned>>

-----------------------------------------------------------------------------
(* ClaimSystemTask                                                         *)

ClaimRead(n) ==
    /\ At(n, "claim")
    /\ ReadClock(n)
    /\ \/ /\ \A k \in Tasks : row[k].status # "pending"
          /\ Return(n, "expire")
       \/ \E k \in Tasks :
            /\ row[k].status = "pending"
            /\ pass' = [pass EXCEPT ![n] = [@ EXCEPT !.pc = "lock", !.task = k]]
    /\ UNCHANGED <<row, lock, job, dead, starts, stalls, orphaned>>

\* Mutant of AcquireLock: a lock that is held is taken over, expired or not.
AcquireLockByForce(n) ==
    /\ At(n, "lock")
    /\ WriteLock(pass[n].task, n)
    /\ Goto(n, "claim_run")
    /\ UNCHANGED <<row, job, dead, starts, stalls, orphaned>>

\* acquireSystemTaskLock: insert the row, or read the one that is there.
AcquireLock(n) ==
    /\ At(n, "lock")
    /\ IF lock.task = NoTask
       THEN WriteLock(pass[n].task, n) /\ Goto(n, "claim_run")
       ELSE /\ IF ExpiredFor(n)
               THEN pass' = [pass EXCEPT ![n] = [@ EXCEPT !.pc = "takeover", !.seen = lock]]
               ELSE Return(n, "expire")
            /\ UNCHANGED <<lock, late>>
    /\ UNCHANGED <<row, job, dead, starts, stalls, orphaned>>

\* The conditional UPDATE of an expired lock.
TakeOverLock(n) ==
    /\ At(n, "takeover")
    /\ IF ExpiredFor(n)
       THEN /\ WriteLock(pass[n].task, n)
            /\ Goto(n, IF pass[n].seen.task = pass[n].task THEN "claim_run"
                                                           ELSE "claim_mark")
       ELSE Return(n, "expire") /\ UNCHANGED <<lock, late>>
    /\ UNCHANGED <<row, job, dead, starts, stalls, orphaned>>

ClaimMark(n) ==
    /\ At(n, "claim_mark")
    /\ MarkSystemTaskLeaseExpired(pass[n].seen.task)
    /\ Goto(n, "claim_run")
    /\ UNCHANGED <<lock, job, late, dead, starts, stalls, orphaned>>

\* Mutant of ClaimRun: the UPDATE has no "status = pending".
ClaimRunUnguarded(n) ==
    LET k == pass[n].task IN
    /\ At(n, "claim_run")
    /\ row' = [row EXCEPT ![k] = [status |-> "running", by |-> n]]
    /\ job' = [job EXCEPT ![n][k] = "run"]
    /\ starts' = [starts EXCEPT ![k] = @ + 1]
    /\ Return(n, "expire")
    /\ UNCHANGED <<lock, late, dead, stalls, orphaned>>

\* The CAS pending -> running checks the row only, not the lock.
ClaimRun(n) ==
    LET k == pass[n].task IN
    /\ At(n, "claim_run")
    /\ IF row[k].status = "pending"
       THEN /\ row' = [row EXCEPT ![k] = [status |-> "running", by |-> n]]
            /\ job' = [job EXCEPT ![n][k] = "run"]
            /\ starts' = [starts EXCEPT ![k] = @ + 1]
            /\ UNCHANGED lock
       ELSE /\ ReleaseSystemTaskLock(k, n)
            /\ UNCHANGED <<row, job, starts>>
    /\ Return(n, "expire")
    /\ UNCHANGED <<late, dead, stalls, orphaned>>

\* The task cannot be read back after the CAS, or the answer of the CAS is lost and
\* the lock cannot be released: it is running, the lock is kept and no handler
\* is dispatched.
ClaimUndispatched(n) ==
    LET k == pass[n].task IN
    /\ At(n, "claim_run")
    /\ row[k].status = "pending"
    /\ row' = [row EXCEPT ![k] = [status |-> "running", by |-> n]]
    /\ Return(n, "expire")
    /\ UNCHANGED <<lock, job, late, dead, starts, stalls, orphaned>>

\* The CAS commits and its answer is lost: the claim takes it for a failure and
\* releases the lock of a task that is running from now on, without a handler.
ClaimAnswerLost(n) ==
    LET k == pass[n].task IN
    /\ At(n, "claim_run")
    /\ row[k].status = "pending"
    /\ row' = [row EXCEPT ![k] = [status |-> "running", by |-> n]]
    /\ ReleaseSystemTaskLock(k, n)
    /\ orphaned' = orphaned \cup {k}
    /\ Return(n, "expire")
    /\ UNCHANGED <<job, late, dead, starts, stalls>>

\* A statement of a claim fails and writes nothing: the lock is released, if that
\* works.
ClaimFails(n) ==
    /\ n \notin dead /\ pass[n].pc \in {"claim_mark", "claim_run"}
    /\ ReleaseSystemTaskLock(pass[n].task, n) \/ UNCHANGED lock
    /\ Return(n, "expire")
    /\ UNCHANGED <<row, job, late, dead, starts, stalls, orphaned>>

-----------------------------------------------------------------------------
(* runWithLeaseHeartbeat and the handler                                   *)

Running(n, k) == n \notin dead /\ job[n][k] = "run"
Executing(n, k) == n \notin dead /\ job[n][k] \in {"run", "cancelled"}

\* RenewSystemTaskLock reports that the lease is lost, or a database error: the
\* heartbeat stops and the handler's context is cancelled.  The handler goes on.
HeartbeatFails(n, k) ==
    /\ Running(n, k)
    /\ job' = [job EXCEPT ![n][k] = "cancelled"]
    /\ UNCHANGED <<row, lock, pass, late, dead, starts, stalls, orphaned>>

\* The handler returns and writes nothing: it looked at its context, or a
\* statement that stores its state or its result failed.
HandlerAbandons(n, k) ==
    /\ Executing(n, k)
    /\ job' = [job EXCEPT ![n][k] = "none"]
    /\ UNCHANGED <<row, lock, pass, late, dead, starts, stalls, orphaned>>

\* FinishSystemTask, also by a handler that does not look at its context; without
\* the lease it changes nothing and the handler returns without releasing the lock.
FinishSystemTask(n, k, status) ==
    /\ Executing(n, k)
    /\ IF row[k] = [status |-> "running", by |-> n] /\ HoldsLease(n, k)
       THEN /\ row' = [row EXCEPT ![k].status = status]
            /\ job' = [job EXCEPT ![n][k] = "finished"]
       ELSE /\ job' = [job EXCEPT ![n][k] = "none"]
            /\ UNCHANGED row
    /\ UNCHANGED <<lock, pass, late, dead, starts, stalls, orphaned>>

\* The lock is released in a statement of its own, if that works.
FinishRelease(n, k) ==
    /\ n \notin dead /\ job[n][k] = "finished"
    /\ ReleaseSystemTaskLock(k, n) \/ UNCHANGED lock
    /\ job' = [job EXCEPT ![n][k] = "none"]
    /\ UNCHANGED <<row, pass, late, dead, starts, stalls, orphaned>>

-----------------------------------------------------------------------------
\* Somebody is alive who renews the lease, or is about to dispatch the handler.
\* Nobody renews it for a cancelled handler; one that has stored its result may
\* have been cancelled before.
Attended ==
    /\ lock.by \in Runners \ dead
    /\ \/ job[lock.by][lock.task] = "run"
       \/ pass[lock.by].task = lock.task /\ pass[lock.by].pc \in {"claim_mark", "claim_run"}

LeaseLapses ==
    /\ lock.task # NoTask /\ lock.live
    /\ stalls \/ ~Attended
    /\ lock' = [lock EXCEPT !.live = FALSE]
    /\ UNCHANGED <<row, pass, job, late, dead, starts, stalls, orphaned>>

\* The process dies with what it kept in memory.  One runner always survives, or
\* is restarted.
Crash(n) ==
    /\ n \notin dead /\ Runners \ (dead \cup {n}) # {}
    /\ dead' = dead \cup {n}
    /\ late' = late \ {n}
    /\ Return(n, "expire")
    /\ job' = [job EXCEPT ![n] = [k \in Tasks |-> "none"]]
    /\ UNCHANGED <<row, lock, starts, stalls, orphaned>>

-----------------------------------------------------------------------------
PassStep(n) ==
    \/ ExpireRead(n) \/ ExpireMark(n) \/ ExpireDelete(n)
    \/ Schedule(n)
    \/ ClaimRead(n) \/ AcquireLock(n) \/ TakeOverLock(n)
    \/ ClaimMark(n) \/ ClaimRun(n) \/ ClaimUndispatched(n) \/ ClaimAnswerLost(n)
    \/ ClaimFails(n)

JobStep(n, k) ==
    \/ HeartbeatFails(n, k) \/ HandlerAbandons(n, k)
    \/ \E status \in Terminal : FinishSystemTask(n, k, status)
    \/ FinishRelease(n, k)

Next ==
    \/ \E n \in Runners : PassStep(n) \/ Crash(n)
    \/ \E n \in Runners, k \in Tasks : JobStep(n, k)
    \/ LeaseLapses

Spec == Init /\ [][Next]_vars

\* The runner's ticker goes on, a claim does not fail for ever, handlers
\* return, and time passes an unattended lease.
FairSpec ==
    /\ Spec
    /\ \A n \in Runners : WF_vars(PassStep(n)) /\ SF_vars(ClaimRun(n))
    /\ \A n \in Runners, k \in Tasks : WF_vars(JobStep(n, k))
    /\ WF_vars(LeaseLapses /\ ~Attended)

-----------------------------------------------------------------------------
(* Properties                                                              *)

\* A task row is handed to a handler at most once, however often its lease
\* lapses and whoever takes it over.
DispatchedOnce == \A k \in Tasks : starts[k] <= 1

\* A late finish, a late clean-up or a late claim never changes a task that
\* has already ended.
EndedStaysEnded ==
    [][\A k \in Tasks : row[k].status \in Terminal => row'[k] = row[k]]_vars

\* "the per-type lock guarantees only one runner executes the task": where no
\* process pauses longer than the lease, at most one handler runs whose context
\* is not cancelled.  A handler that runs on after its heartbeat failed may
\* overlap with the next one.
OneRunnerExecutes ==
    ~stalls => \A n, m \in Runners, j, k \in Tasks :
        Running(n, k) /\ Running(m, j) => n = m /\ j = k

\* Every task ends, also when its runner dies, its heartbeat fails or its claim
\* fails half-way: the type is never blocked by a row that stays active for ever,
\* unless the answer of the claim's CAS was lost and its lock released.
ActiveTaskEnds ==
    \A k \in Tasks :
        ~stalls /\ row[k].status \in Active
            ~> row[k].status \in Terminal \/ k \in orphaned

=============================================================================
