-------------------------- MODULE SystemTaskProofs --------------------------
(***************************************************************************)
(* System tasks, for any number of runners and tasks: a row is dispatched  *)
(* at most once and an ended row never changes, whatever stalls and dies;  *)
(* and while no live process stalls longer than its lease, the lock admits *)
(* one handler at a time whose heartbeat has not failed.                   *)
(***************************************************************************)
EXTENDS SystemTask, TLAPS

-----------------------------------------------------------------------------
(* The type invariant                                                      *)

\* The initial state of the cluster is well typed.
LEMMA InitTypeOK == Init => TypeOK
<1> SUFFICES ASSUME Init PROVE TypeOK
    OBVIOUS
<1> USE DEF Init, TypeOK, NoLock, FirstPass
<1>1. row \in [Tasks -> RowState]
    BY Zenon DEF RowState
<1>2. NoLock \in LockState
    BY Zenon DEF LockState
<1>3. pass \in [Runners -> PassState]
    BY <1>2, Zenon DEF PassState
<1>4. job \in [Runners -> [Tasks -> JobState]]
    BY Zenon DEF JobState
<1>5. starts \in [Tasks -> Nat]
    OBVIOUS
<1> QED BY <1>1, <1>2, <1>3, <1>4, <1>5

\* What the statements shared by several steps leave behind is well typed.
LEMMA HelperTypes ==
    ASSUME TypeOK, NEW n \in Runners, NEW k \in Tasks \cup {NoTask}
    PROVE  /\ \A pc \in {"expire", "expire_mark", "expire_delete", "schedule",
                         "claim", "lock", "takeover", "claim_mark", "claim_run"} :
                /\ Goto(n, pc) => pass' \in [Runners -> PassState]
                /\ Return(n, pc) => pass' \in [Runners -> PassState]
           /\ ReadClock(n) => late' \subseteq Runners
           /\ WriteLock(k, n) => lock' \in LockState /\ late' \subseteq Runners
           /\ MarkSystemTaskLeaseExpired(k) => row' \in [Tasks -> RowState]
           /\ ReleaseSystemTaskLock(k, n) => lock' \in LockState
<1> USE DEF TypeOK
<1>1. \A pc \in {"expire", "expire_mark", "expire_delete", "schedule",
                 "claim", "lock", "takeover", "claim_mark", "claim_run"} :
        /\ Goto(n, pc) => pass' \in [Runners -> PassState]
        /\ Return(n, pc) => pass' \in [Runners -> PassState]
    <2> TAKE pc \in {"expire", "expire_mark", "expire_delete", "schedule",
                     "claim", "lock", "takeover", "claim_mark", "claim_run"}
    <2>1. [pass[n] EXCEPT !.pc = pc] \in PassState
        BY Zenon DEF PassState
    <2>2. [FirstPass EXCEPT !.pc = pc] \in PassState
        BY DEF PassState, FirstPass, NoLock, LockState
    <2> QED BY <2>1, <2>2 DEF Goto, Return
<1>2. ReadClock(n) => late' \subseteq Runners
    BY DEF ReadClock
<1>3. WriteLock(k, n) => lock' \in LockState /\ late' \subseteq Runners
    BY DEF WriteLock, LockState
<1>4. MarkSystemTaskLeaseExpired(k) => row' \in [Tasks -> RowState]
    <2>1. k \in Tasks => [row[k] EXCEPT !.status = "failed"] \in RowState
        BY Zenon DEF RowState, Terminal
    <2> QED BY <2>1 DEF MarkSystemTaskLeaseExpired
<1>5. ReleaseSystemTaskLock(k, n) => lock' \in LockState
    BY DEF ReleaseSystemTaskLock, NoLock, LockState
<1> QED BY <1>1, <1>2, <1>3, <1>4, <1>5

\* So is what a step does to a handler's goroutine.
LEMMA JobTypes ==
    ASSUME TypeOK, NEW n \in Runners
    PROVE  /\ \A k \in Tasks, v \in {"none", "run", "cancelled", "finished"} :
                [job EXCEPT ![n][k] = v] \in [Runners -> [Tasks -> JobState]]
           /\ [job EXCEPT ![n] = [k \in Tasks |-> "none"]]
                \in [Runners -> [Tasks -> JobState]]
<1>1. job \in [Runners -> [Tasks -> JobState]]
    BY DEF TypeOK
<1>2. {"none", "run", "cancelled", "finished"} \subseteq JobState
    BY DEF JobState
<1> QED BY <1>1, <1>2

\* Every statement of a runner's pass keeps the state well typed.
LEMMA PassTypeOK ==
    ASSUME TypeOK, NEW n \in Runners, PassStep(n)
    PROVE  TypeOK'
<1>0. pass[n] \in PassState /\ pass[n].task \in Tasks \cup {NoTask}
      /\ pass[n].seen \in LockState /\ pass[n].seen.task \in Tasks \cup {NoTask}
    BY DEF TypeOK, PassState, LockState
<1>1. CASE ExpireRead(n)
    <2>1. [pass[n] EXCEPT !.pc = "expire_mark", !.seen = lock] \in PassState
        BY <1>0, Zenon DEF PassState, TypeOK
    <2>2. pass' \in [Runners -> PassState]
        BY <1>1, <2>1, HelperTypes DEF ExpireRead, TypeOK
    <2> QED BY <1>1, <2>2, HelperTypes DEF ExpireRead, TypeOK
<1>2. CASE ExpireMark(n)
    BY <1>2, <1>0, HelperTypes DEF ExpireMark, TypeOK
<1>3. CASE ExpireDelete(n)
    <2>1. lock' \in LockState
        BY <1>3 DEF ExpireDelete, TypeOK, NoLock, LockState
    <2> QED BY <1>3, <2>1, HelperTypes DEF ExpireDelete, TypeOK
<1>4. CASE Schedule(n)
    <2>1. \A k \in Tasks : [row[k] EXCEPT !.status = "pending"] \in RowState
        BY Zenon DEF TypeOK, RowState, Active
    <2>2. row' \in [Tasks -> RowState]
        BY <1>4, <2>1 DEF Schedule, TypeOK
    <2> QED BY <1>4, <2>2, HelperTypes DEF Schedule, TypeOK
<1>5. CASE ClaimRead(n)
    <2>1. \A k \in Tasks : [pass[n] EXCEPT !.pc = "lock", !.task = k] \in PassState
        BY <1>0, Zenon DEF PassState
    <2>2. pass' \in [Runners -> PassState]
        BY <1>5, <2>1, HelperTypes DEF ClaimRead, TypeOK
    <2> QED BY <1>5, <2>2, HelperTypes DEF ClaimRead, TypeOK
<1>6. CASE AcquireLock(n)
    <2>1. [pass[n] EXCEPT !.pc = "takeover", !.seen = lock] \in PassState
        BY <1>0, Zenon DEF PassState, TypeOK
    <2>2. pass' \in [Runners -> PassState]
        BY <1>6, <2>1, HelperTypes DEF AcquireLock, TypeOK
    <2> QED BY <1>6, <1>0, <2>2, HelperTypes DEF AcquireLock, TypeOK
<1>7. CASE TakeOverLock(n)
    BY <1>7, <1>0, HelperTypes DEF TakeOverLock, TypeOK
<1>8. CASE ClaimMark(n)
    BY <1>8, <1>0, HelperTypes DEF ClaimMark, TypeOK
<1>9. CASE ClaimRun(n)
    <2>0. [status |-> "running", by |-> n] \in RowState
        BY Zenon DEF RowState, Active
    <2>1. row' \in [Tasks -> RowState]
        BY <1>9, <2>0 DEF ClaimRun, TypeOK
    <2>2. job' \in [Runners -> [Tasks -> JobState]]
        <3>1. \A k \in Tasks : [job EXCEPT ![n][k] = "run"] \in
                [Runners -> [Tasks -> JobState]]
            BY JobTypes
        <3>2. job' = job \/ job' = [job EXCEPT ![n][pass[n].task] = "run"]
            BY <1>9, Zenon DEF ClaimRun
        <3>3. pass[n].task \in Tasks \/ [job EXCEPT ![n][pass[n].task] = "run"] = job
            BY <1>0 DEF TypeOK, PassState
        <3> QED BY <3>1, <3>2, <3>3 DEF TypeOK
    <2>3. starts' \in [Tasks -> Nat]
        BY <1>9 DEF ClaimRun, TypeOK
    <2> QED BY <1>9, <1>0, <2>1, <2>2, <2>3, HelperTypes DEF ClaimRun, TypeOK
<1>10. CASE ClaimUndispatched(n)
    <2>1. row' \in [Tasks -> RowState]
        BY <1>10 DEF ClaimUndispatched, TypeOK, RowState, Active
    <2> QED BY <1>10, <2>1, HelperTypes DEF ClaimUndispatched, TypeOK
<1>11. CASE ClaimFails(n)
    BY <1>11, <1>0, HelperTypes DEF ClaimFails, TypeOK
<1>12. CASE ClaimAnswerLost(n)
    <2>0. pass[n].task \in Tasks \/ row' = row
        BY <1>12, <1>0 DEF ClaimAnswerLost, TypeOK
    <2>1. row' \in [Tasks -> RowState]
        BY <1>12 DEF ClaimAnswerLost, TypeOK, RowState, Active
    <2> QED BY <1>12, <1>0, <2>1, HelperTypes DEF ClaimAnswerLost, TypeOK
<1> QED
    BY <1>1, <1>2, <1>3, <1>4, <1>5, <1>6, <1>7, <1>8, <1>9, <1>10, <1>11, <1>12 DEF PassStep

\* So do the heartbeat and the end of a running handler.
LEMMA JobTypeOK ==
    ASSUME TypeOK, NEW n \in Runners, NEW k \in Tasks, JobStep(n, k)
    PROVE  TypeOK'
<1>1. CASE HeartbeatFails(n, k) \/ HandlerAbandons(n, k)
    BY <1>1, JobTypes DEF HeartbeatFails, HandlerAbandons, TypeOK
<1>2. ASSUME NEW status \in Terminal, FinishSystemTask(n, k, status) PROVE TypeOK'
    <2>0. [row[k] EXCEPT !.status = status] \in RowState
        BY <1>2, Zenon DEF TypeOK, RowState
    <2>1. row' \in [Tasks -> RowState]
        BY <1>2, <2>0 DEF FinishSystemTask, TypeOK
    <2>2. job' \in [Runners -> [Tasks -> JobState]]
        <3>1. job' = [job EXCEPT ![n][k] = "finished"] \/ job' = [job EXCEPT ![n][k] = "none"]
            BY <1>2, Zenon DEF FinishSystemTask
        <3> QED BY <3>1, JobTypes
    <2> QED BY <1>2, <2>1, <2>2 DEF FinishSystemTask, TypeOK
<1>3. CASE FinishRelease(n, k)
    BY <1>3, HelperTypes, JobTypes DEF FinishRelease, TypeOK
<1> QED BY <1>1, <1>2, <1>3 DEF JobStep

\* And so does every step of the cluster.
LEMMA StepTypeOK == TypeOK /\ [Next]_vars => TypeOK'
<1> SUFFICES ASSUME TypeOK, [Next]_vars PROVE TypeOK'
    OBVIOUS
<1>1. ASSUME NEW n \in Runners, Crash(n) PROVE TypeOK'
    BY <1>1, HelperTypes, JobTypes DEF Crash, TypeOK
<1>2. CASE LeaseLapses
    BY <1>2 DEF LeaseLapses, TypeOK, LockState
<1>3. CASE UNCHANGED vars
    BY <1>3 DEF vars, TypeOK
<1> QED BY <1>1, <1>2, <1>3, PassTypeOK, JobTypeOK DEF Next

\* Every reachable state of the runner cluster is well typed.
THEOREM TypeCorrect == Spec => []TypeOK
BY InitTypeOK, StepTypeOK, PTL DEF Spec

-----------------------------------------------------------------------------
(* A row is dispatched once and ends once                                  *)

\* A row that is not yet running has no handler, on no runner.
DispatchInv ==
    \A k \in Tasks :
        /\ starts[k] <= 1
        /\ row[k].status \in {"none", "pending"} =>
              starts[k] = 0 /\ \A n \in Runners : job[n][k] = "none"

\* Nothing is dispatched initially.
LEMMA InitDispatchInv == Init => DispatchInv
BY DEF Init, DispatchInv

\* A pass dispatches a row only by moving it from pending to running.
LEMMA PassDispatchInv ==
    ASSUME TypeOK, DispatchInv, NEW n \in Runners, PassStep(n)
    PROVE  DispatchInv'
<1> USE DEF TypeOK, DispatchInv
<1>1. CASE ExpireRead(n) \/ ExpireDelete(n) \/ ClaimRead(n) \/ AcquireLock(n)
           \/ TakeOverLock(n) \/ ClaimFails(n)
    BY <1>1 DEF ExpireRead, ExpireDelete, ClaimRead, AcquireLock, TakeOverLock, ClaimFails
<1>2. CASE ExpireMark(n) \/ ClaimMark(n)
    BY <1>2 DEF ExpireMark, ClaimMark, MarkSystemTaskLeaseExpired, RowState
<1>3. CASE Schedule(n)
    BY <1>3 DEF Schedule, RowState
<1>4. CASE ClaimRun(n)
    <2>1. CASE row[pass[n].task].status # "pending"
        BY <1>4, <2>1 DEF ClaimRun
    <2>2. CASE row[pass[n].task].status = "pending"
        <3> SUFFICES ASSUME NEW j \in Tasks
                     PROVE  /\ starts'[j] <= 1
                            /\ row'[j].status \in {"none", "pending"} =>
                                 starts'[j] = 0 /\ \A m \in Runners : job'[m][j] = "none"
            OBVIOUS
        <3>1. CASE j = pass[n].task
            <4>1. row'[j].status = "running" /\ starts'[j] = starts[j] + 1
                BY <1>4, <2>2, <3>1 DEF ClaimRun
            <4> QED BY <2>2, <3>1, <4>1
        <3>2. CASE j # pass[n].task
            <4>1. row'[j] = row[j] /\ starts'[j] = starts[j]
                BY <1>4, <2>2, <3>2 DEF ClaimRun
            <4>2. \A m \in Runners : job'[m][j] = job[m][j]
                BY <1>4, <2>2, <3>2 DEF ClaimRun
            <4> QED BY <4>1, <4>2
        <3> QED BY <3>1, <3>2
    <2> QED BY <2>1, <2>2
<1>5. CASE ClaimUndispatched(n) \/ ClaimAnswerLost(n)
    BY <1>5 DEF ClaimUndispatched, ClaimAnswerLost
<1> QED BY <1>1, <1>2, <1>3, <1>4, <1>5 DEF PassStep

\* A handler's end and its heartbeat dispatch nothing.
LEMMA JobDispatchInv ==
    ASSUME TypeOK, DispatchInv, NEW n \in Runners, NEW k \in Tasks, JobStep(n, k)
    PROVE  DispatchInv'
<1> USE DEF TypeOK, DispatchInv
<1>1. CASE HeartbeatFails(n, k) \/ HandlerAbandons(n, k)
    <2>0. /\ row' = row /\ starts' = starts /\ job[n][k] # "none"
          /\ \E v \in {"none", "cancelled"} : job' = [job EXCEPT ![n][k] = v]
        BY <1>1 DEF HeartbeatFails, HandlerAbandons, Running, Executing
    <2>1. \A m \in Runners, j \in Tasks : j # k => job'[m][j] = job[m][j]
        BY <2>0
    <2> QED BY <2>0, <2>1
<1>2. ASSUME NEW status \in Terminal, FinishSystemTask(n, k, status) PROVE DispatchInv'
    <2> SUFFICES ASSUME NEW j \in Tasks
                 PROVE  /\ starts'[j] <= 1
                        /\ row'[j].status \in {"none", "pending"} =>
                             starts'[j] = 0 /\ \A m \in Runners : job'[m][j] = "none"
        OBVIOUS
    <2>1. starts' = starts
        BY <1>2 DEF FinishSystemTask
    <2>2. CASE j = k
        <3>1. row'[k].status \notin {"none", "pending"}
            BY <1>2 DEF FinishSystemTask, Executing, Terminal
        <3> QED BY <2>1, <2>2, <3>1
    <2>3. CASE j # k
        <3>1. row'[j] = row[j] /\ \A m \in Runners : job'[m][j] = job[m][j]
            BY <1>2, <2>3 DEF FinishSystemTask
        <3> QED BY <2>1, <3>1
    <2> QED BY <2>2, <2>3
<1>3. CASE FinishRelease(n, k)
    BY <1>3 DEF FinishRelease
<1> QED BY <1>1, <1>2, <1>3 DEF JobStep

\* No step dispatches a row that left pending.
LEMMA StepDispatchInv == TypeOK /\ DispatchInv /\ [Next]_vars => DispatchInv'
<1> SUFFICES ASSUME TypeOK, DispatchInv, [Next]_vars PROVE DispatchInv'
    OBVIOUS
<1>1. CASE UNCHANGED <<row, job, starts>>
    BY <1>1 DEF DispatchInv
<1>2. ASSUME NEW n \in Runners, Crash(n) PROVE DispatchInv'
    BY <1>2 DEF Crash, DispatchInv, TypeOK
<1> QED
    BY <1>1, <1>2, PassDispatchInv, JobDispatchInv DEF Next, LeaseLapses, vars

\* A task row is handed to a handler at most once, for any number of runners,
\* crashes, lapsed leases and takeovers (ClaimSystemTask's UPDATE ... WHERE
\* status = pending).
THEOREM DispatchedAtMostOnce == Spec => []DispatchedOnce
<1>1. DispatchInv => DispatchedOnce
    BY DEF DispatchInv, DispatchedOnce
<1> QED
    BY <1>1, TypeCorrect, InitDispatchInv, StepDispatchInv, PTL DEF Spec

\* A late finish, clean-up or claim never rewrites a task that has ended.
THEOREM EndedForGood == Spec => EndedStaysEnded
<1>1. TypeOK /\ [Next]_vars =>
        [\A k \in Tasks : row[k].status \in Terminal => row'[k] = row[k]]_vars
    <2> SUFFICES ASSUME TypeOK, Next, NEW j \in Tasks, row[j].status \in Terminal
                 PROVE  row'[j] = row[j]
        BY DEF vars
    <2> USE DEF TypeOK, Terminal
    <2>1. ASSUME NEW n \in Runners, PassStep(n) PROVE row'[j] = row[j]
        <3>1. CASE UNCHANGED row
            BY <3>1
        <3>2. CASE ExpireMark(n) \/ ClaimMark(n)
            BY <3>2 DEF ExpireMark, ClaimMark, MarkSystemTaskLeaseExpired
        <3>3. CASE Schedule(n)
            BY <3>3 DEF Schedule
        <3>4. CASE ClaimRun(n)
            BY <3>4 DEF ClaimRun
        <3>5. CASE ClaimUndispatched(n) \/ ClaimAnswerLost(n)
            BY <3>5 DEF ClaimUndispatched, ClaimAnswerLost
        <3> QED
            BY <2>1, <3>1, <3>2, <3>3, <3>4, <3>5
            DEF PassStep, ExpireRead, ExpireDelete, ClaimRead, AcquireLock, TakeOverLock,
                ClaimFails
    <2>2. ASSUME NEW n \in Runners, NEW k \in Tasks, JobStep(n, k) PROVE row'[j] = row[j]
        BY <2>2
        DEF JobStep, HeartbeatFails, HandlerAbandons, FinishSystemTask, FinishRelease
    <2> QED BY <2>1, <2>2 DEF Next, Crash, LeaseLapses
<1> QED
    BY <1>1, TypeCorrect, PTL DEF Spec, EndedStaysEnded

-----------------------------------------------------------------------------
(* One runner at a time, as long as no live process outlives its lease     *)

Claiming(n) == n \notin dead /\ pass[n].pc \in {"claim_mark", "claim_run"}

\* Every live handler that is not cancelled, and every claim between the lock and
\* the dispatch, holds the lease; and no claim is made for a task the runner has a handler for.
LeaseInv ==
    \A n \in Runners :
        /\ \A k \in Tasks : Running(n, k) => HoldsLease(n, k)
        /\ Claiming(n) => HoldsLease(n, pass[n].task)
        /\ pass[n].pc \in {"lock", "takeover", "claim_mark", "claim_run"} =>
              pass[n].task \in Tasks /\ job[n][pass[n].task] = "none"

\* Initially nobody holds the lock.
LEMMA InitLeaseInv == Init => LeaseInv
<1> SUFFICES ASSUME Init, NEW n \in Runners
             PROVE  /\ \A k \in Tasks : ~Running(n, k)
                    /\ pass[n].pc = "expire"
    BY DEF LeaseInv, Claiming
<1> QED BY DEF Init, Running, FirstPass

\* Nothing but a step of the lease's holder ends a lease that is attended.
LEMMA PassLeaseInv ==
    ASSUME ~stalls, TypeOK, DispatchInv, LeaseInv, NEW n \in Runners, PassStep(n)
    PROVE  LeaseInv'
<1> USE DEF TypeOK, LeaseInv, Running, Claiming, At, HoldsLease, PassState, LockState
<1>1. CASE ExpireRead(n)
    <2>1. CASE Expired
        <3>1. /\ pass'[n].pc = "expire_mark"
              /\ \A m \in Runners \ {n} : pass'[m] = pass[m]
            <4>1. pass' = [pass EXCEPT ![n] =
                             [pass[n] EXCEPT !.pc = "expire_mark", !.seen = lock]]
                BY <1>1, <2>1, Zenon DEF ExpireRead
            <4> QED BY <4>1
        <3> QED BY <1>1, <3>1 DEF ExpireRead
    <2>2. CASE ~Expired
        BY <1>1, <2>2 DEF ExpireRead, Return, FirstPass
    <2> QED BY <2>1, <2>2
<1>2. CASE ExpireMark(n)
    BY <1>2 DEF ExpireMark, Goto, Return, FirstPass
<1>3. CASE ExpireDelete(n)
    <2>1. CASE lock' = lock
        BY <1>3, <2>1 DEF ExpireDelete, Goto, Return, FirstPass
    <2>2. CASE lock' # lock
        <3>1. \A m \in Runners : ~Claiming(m) /\ \A k \in Tasks : ~Running(m, k)
            BY <1>3, <2>2 DEF ExpireDelete, ExpiredFor, Expired
        <3> QED BY <1>3, <3>1 DEF ExpireDelete, Goto, Return, FirstPass
    <2> QED BY <2>1, <2>2
<1>4. CASE Schedule(n)
    BY <1>4 DEF Schedule, Goto, Return, FirstPass
<1>5. CASE ClaimRead(n)
    <2>1. CASE Return(n, "expire")
        BY <1>5, <2>1 DEF ClaimRead, Return, FirstPass
    <2>2. ASSUME NEW k \in Tasks, row[k].status = "pending",
                 pass' = [pass EXCEPT ![n] = [@ EXCEPT !.pc = "lock", !.task = k]]
          PROVE  LeaseInv'
        <3>1. job[n][k] = "none"
            BY <2>2 DEF DispatchInv
        <3> QED BY <1>5, <2>2, <3>1 DEF ClaimRead
    <2> QED BY <1>5, <2>1, <2>2 DEF ClaimRead
<1>6. CASE AcquireLock(n)
    <2>1. CASE lock.task = NoTask
        <3>1. \A m \in Runners : ~Claiming(m) /\ \A k \in Tasks : ~Running(m, k)
            BY <2>1 DEF NoTask, Tasks
        <3> QED BY <1>6, <2>1, <3>1 DEF AcquireLock, Goto, Return, FirstPass, WriteLock
    <2>2. CASE lock.task # NoTask
        <3>1. /\ \/ pass'[n].pc = "expire"
                 \/ pass'[n].pc = "takeover" /\ pass'[n].task = pass[n].task
              /\ \A m \in Runners \ {n} : pass'[m] = pass[m]
            <4>1. CASE ExpiredFor(n)
                <5>1. pass' = [pass EXCEPT ![n] =
                                 [pass[n] EXCEPT !.pc = "takeover", !.seen = lock]]
                    BY <1>6, <2>2, <4>1, Zenon DEF AcquireLock
                <5> QED BY <5>1
            <4>2. CASE ~ExpiredFor(n)
                BY <1>6, <2>2, <4>2 DEF AcquireLock, Return, FirstPass
            <4> QED BY <4>1, <4>2
        <3>2. pass[n].pc = "lock" /\ UNCHANGED <<lock, job, dead>>
            BY <1>6, <2>2 DEF AcquireLock
        <3> QED BY <3>1, <3>2
    <2> QED BY <2>1, <2>2
<1>7. CASE TakeOverLock(n)
    BY <1>7 DEF TakeOverLock, Goto, Return, FirstPass, WriteLock, ExpiredFor, Expired
<1>8. CASE ClaimMark(n)
    BY <1>8 DEF ClaimMark, Goto, Return, FirstPass
<1>9. CASE ClaimRun(n)
    BY <1>9 DEF ClaimRun, Goto, Return, FirstPass, ReleaseSystemTaskLock
<1>10. CASE ClaimUndispatched(n)
    BY <1>10 DEF ClaimUndispatched, Goto, Return, FirstPass
<1>11. CASE ClaimFails(n)
    BY <1>11 DEF ClaimFails, Goto, Return, FirstPass, ReleaseSystemTaskLock
<1>12. CASE ClaimAnswerLost(n)
    BY <1>12 DEF ClaimAnswerLost, Goto, Return, FirstPass, ReleaseSystemTaskLock
<1> QED
    BY <1>1, <1>2, <1>3, <1>4, <1>5, <1>6, <1>7, <1>8, <1>9, <1>10, <1>11, <1>12 DEF PassStep

\* A handler's end gives the lock back, and only its holder does.
LEMMA JobLeaseInv ==
    ASSUME TypeOK, LeaseInv, NEW n \in Runners, NEW k \in Tasks, JobStep(n, k)
    PROVE  LeaseInv'
<1> USE DEF TypeOK, LeaseInv, Claiming, HoldsLease, Running, Executing
<1>1. CASE HeartbeatFails(n, k) \/ HandlerAbandons(n, k)
    BY <1>1 DEF HeartbeatFails, HandlerAbandons
<1>2. ASSUME NEW status \in Terminal, FinishSystemTask(n, k, status) PROVE LeaseInv'
    BY <1>2 DEF FinishSystemTask
<1>3. CASE FinishRelease(n, k)
    BY <1>3 DEF FinishRelease, ReleaseSystemTaskLock
<1> QED BY <1>1, <1>2, <1>3 DEF JobStep

\* While no live process pauses for longer than the lease, the per-type lock
\* lets at most one handler run with a context that is not cancelled: a handler
\* whose heartbeat failed (runWithLeaseHeartbeat) may run on beside it.
THEOREM LockSerializesUnlessStalled == Spec => []OneRunnerExecutes
<1>1. TypeOK /\ DispatchInv /\ (~stalls => LeaseInv) /\ [Next]_vars => (~stalls => LeaseInv)'
    <2> SUFFICES ASSUME TypeOK, DispatchInv, ~stalls => LeaseInv, [Next]_vars, ~stalls'
                 PROVE  LeaseInv'
        OBVIOUS
    <2> USE DEF LeaseInv, Running, Claiming, HoldsLease
    <2>1. ASSUME NEW n \in Runners, PassStep(n) PROVE LeaseInv'
        <3>1. stalls' = stalls
            BY <2>1 DEF PassStep, ExpireRead, ExpireMark, ExpireDelete, Schedule, ClaimRead,
                AcquireLock, TakeOverLock, ClaimMark, ClaimRun, ClaimUndispatched, ClaimAnswerLost,
                ClaimFails
        <3>2. ~stalls /\ LeaseInv
            BY <3>1
        <3> QED BY <2>1, <3>2, PassLeaseInv
    <2>2. ASSUME NEW n \in Runners, NEW k \in Tasks, JobStep(n, k) PROVE LeaseInv'
        <3>1. stalls' = stalls
            BY <2>2 DEF JobStep, HeartbeatFails, HandlerAbandons, FinishSystemTask, FinishRelease
        <3>2. LeaseInv
            BY <3>1
        <3> QED BY <2>2, <3>2, JobLeaseInv
    <2>3. ASSUME NEW n \in Runners, Crash(n) PROVE LeaseInv'
        BY <2>3 DEF Crash, Return, FirstPass, TypeOK, PassState
    <2>4. CASE LeaseLapses
        BY <2>4 DEF LeaseLapses, Attended, TypeOK
    <2>5. CASE UNCHANGED vars
        BY <2>5 DEF vars
    <2> QED BY <2>1, <2>2, <2>3, <2>4, <2>5 DEF Next
<1>2. (~stalls => LeaseInv) => OneRunnerExecutes
    BY DEF LeaseInv, OneRunnerExecutes, Running, HoldsLease
<1>3. Init => (~stalls => LeaseInv)
    BY InitLeaseInv
<1> QED
    BY <1>1, <1>2, <1>3, TypeCorrect, InitDispatchInv, StepDispatchInv, PTL DEF Spec

=============================================================================
