--------------------------- MODULE AsyncTaskProofs ---------------------------
(***************************************************************************)
(* That an asynchronous task is billed once, for any number of nodes that   *)
(* poll it, any quotas and any number of crashes.  The argument is about    *)
(* copies: before the task has ended no money has moved, so a stale copy of *)
(* its row is only stale in its link; once it has ended no copy can be      *)
(* written any more, and the link the row ended with decides which of the   *)
(* two billing paths is open.                                               *)
(***************************************************************************)
EXTENDS AsyncTask, TLAPS

-----------------------------------------------------------------------------
(* The inductive invariants                                                *)

\* Where a process uses its copy of the row, and where it bills.
Following(o) == obs[o].pc \in {"sweep", "adopt", "fetch"}
Charging(o) == obs[o].pc \in {"prepare", "settle", "refund"}

\* A process that settles has a quota to settle at.
HasTarget ==
    \A o \in Observers : obs[o].pc \in {"prepare", "settle"} => obs[o].target \in Amounts

\* Whatever is linked has a reservation behind it, which never goes away.
LinksHold ==
    /\ row.linked => resv.status # "none"
    /\ \A o \in Observers :
         (Following(o) \/ Charging(o)) /\ obs[o].task.linked => resv.status # "none"

\* A task that was submitted with its reservation, and every copy of its row,
\* is linked to it for good; a reservation that does not exist is not adopted.
BornLinked ==
    /\ resv.status = "none" => ~resv.adopted
    /\ resv.status # "none" /\ ~resv.adopted =>
         /\ row.linked
         /\ \A o \in Observers : Following(o) \/ Charging(o) => obs[o].task.linked

\* Copies that may be written: unless the provider is asked in real time, nobody
\* but a user's fetch (which then writes nothing) works on an ended row.
CopiesUnended ==
    platform # "gemini" =>
        \A o \in Nodes : Following(o) => obs[o].task.status \notin Terminal

OnlyReads == platform # "gemini" =>
    /\ obs["user"].pc \in {"idle", "adopt", "fetch"}
    /\ obs["reconciler"].pc \in {"idle", "prepare", "settle", "refund"}

\* A copy that says of money what the row of an unended task says.
SameMoney(task) == task.quota = row.quota /\ ~task.finalized /\ task.target = NoTarget

\* Before the task ends no money has moved, so no copy is out of date in what it
\* says of money.
UnendedIsUntouched ==
    platform # "gemini" /\ row.status \notin Terminal =>
        /\ resv.status \in {"none", "reserved"}
        /\ resv.status = "reserved" => resv.quota = row.quota
        /\ ~row.finalized /\ row.target = NoTarget /\ paid = row.quota
        /\ \A o \in Nodes : Following(o) => SameMoney(obs[o].task)

\* Once it has ended its link decides who bills, the reservation or the legacy
\* path, and the other one has not.
EndedIsBilledOneWay ==
    platform # "gemini" /\ row.status \in Terminal =>
        IF row.linked
        THEN /\ ~row.finalized
             /\ resv.status = "reserved" => paid = row.quota /\ resv.quota = row.quota
             /\ resv.status = "settled" =>
                  row.status = "SUCCESS" /\ paid = row.quota /\ resv.quota = row.quota
             /\ resv.status = "refunded" => row.status = "FAILURE" /\ paid = 0
        ELSE /\ ~Closed
             /\ paid = IF row.finalized /\ row.status = "FAILURE" THEN 0 ELSE row.quota

\* A video that has succeeded carries its decided quota until it is settled.
DecisionRecorded ==
    platform = "video" /\ row.status = "SUCCESS" /\ row.linked /\ resv.status = "reserved"
        => row.target # NoTarget

MoneyInv ==
    /\ CopiesUnended /\ OnlyReads
    /\ UnendedIsUntouched /\ EndedIsBilledOneWay /\ DecisionRecorded

-----------------------------------------------------------------------------
(* The type invariant                                                      *)

TypeInv == TaskTypeOK /\ HasTarget

\* The polling nodes of a platform are nodes, and nodes are observers.
LEMMA PollersAreNodes ==
    ASSUME platform \in Platforms, NEW o \in PollersOf[platform]
    PROVE  /\ o \in Nodes /\ o \in Observers /\ o # "user" /\ o # "reconciler"
BY PollersAssumption, NodesAssumption DEF Observers

\* Quotas are natural numbers, and no quota is taken for a missing target.
LEMMA AmountsAreNat == NoTarget \notin Amounts /\ \A a \in Amounts : a \in Nat /\ a \in Int
BY QuotasAssumption DEF Amounts, NoTarget

\* A process at rest, a copy for billing and a copy just read are well typed.
LEMMA IdleType == Idle \in Observer /\ Blank \in TaskRow
<1>1. 0 \in Amounts
    BY DEF Amounts
<1>2. Blank \in TaskRow
    BY <1>1, Zenon DEF Blank, TaskRow, Statuses
<1> QED BY <1>2, Zenon DEF Idle, Observer

\* The initial state is well typed.
LEMMA InitTypeInv == Init => TypeInv
<1> SUFFICES ASSUME Init PROVE TypeInv
    OBVIOUS
<1>1. PICK q \in Quotas, link \in BOOLEAN, old \in BOOLEAN :
         /\ row = [Blank EXCEPT !.quota = q, !.linked = link, !.old = old]
         /\ resv = [status |-> IF link THEN "reserved" ELSE "none", quota |-> q,
                    pending |-> NoTarget, adopted |-> FALSE]
         /\ paid = q
    BY DEF Init
<1>2. q \in Amounts /\ q \in Int /\ 0 \in 0..MaxFaults
    BY QuotasAssumption DEF Amounts
<1>3. row \in TaskRow
    BY <1>1, <1>2, IdleType DEF TaskRow
<1>4. resv \in Reservation
    BY <1>1, <1>2 DEF Reservation
<1>5. obs \in [Observers -> Observer]
    BY IdleType DEF Init
<1>6. TaskTypeOK
    BY <1>1, <1>2, <1>3, <1>4, <1>5 DEF Init, TaskTypeOK
<1>7. HasTarget
    BY DEF Init, HasTarget, Idle
<1> QED BY <1>6, <1>7 DEF TypeInv

\* A process that takes a well-typed local state keeps the locals well typed.
LEMMA BecomeType ==
    ASSUME TypeInv, NEW o \in Observers, NEW state \in Observer, Become(o, state),
           state.pc \in {"prepare", "settle"} => state.target \in Amounts
    PROVE  obs' \in [Observers -> Observer] /\ HasTarget'
BY DEF TypeInv, TaskTypeOK, Become, HasTarget

\* What TypeInv says of one process.
LEMMA LocalType ==
    ASSUME TypeInv, NEW o \in Observers
    PROVE  /\ obs[o] \in Observer /\ obs[o].task \in TaskRow
           /\ obs[o].target \in Amounts \cup {NoTarget}
           /\ obs[o].pc \in {"prepare", "settle"} => obs[o].target \in Amounts
BY DEF TypeInv, TaskTypeOK, HasTarget, Observer

\* A process that goes on without looking at the row keeps the locals well typed.
LEMMA GotoType ==
    ASSUME TypeInv, NEW o \in Observers,
           NEW pc \in {"list", "adopt", "fetch", "prepare", "settle", "refund"},
           Goto(o, pc), pc \in {"prepare", "settle"} => obs[o].target \in Amounts
    PROVE  obs' \in [Observers -> Observer] /\ HasTarget'
<1>1. [obs[o] EXCEPT !.pc = pc] \in Observer
    BY LocalType DEF Observer
<1> QED BY <1>1, LocalType, BecomeType DEF Goto, Observer

\* So does a process that stops.
LEMMA StopType ==
    ASSUME TypeInv, NEW o \in Observers, Stop(o)
    PROVE  obs' \in [Observers -> Observer] /\ HasTarget'
<1>1. Idle.pc = "idle"
    BY DEF Idle
<1> QED BY <1>1, IdleType, BecomeType DEF Stop

\* The copy a process bills with is well typed.
LEMMA BillingType ==
    ASSUME NEW next \in {"prepare", "refund"}, NEW task \in TaskRow,
           NEW target \in Amounts \cup {NoTarget}
    PROVE  /\ Billing(next, task, target) \in Observer
           /\ Billing(next, task, target).pc = next
           /\ Billing(next, task, target).target = target
<1>1. [Blank EXCEPT !.linked = task.linked, !.quota = task.quota] \in TaskRow
    BY IdleType DEF TaskRow
<1> QED BY <1>1 DEF Billing, Observer

\* The compare-and-set of a well-typed row, and what its winner goes on to.
LEMMA WriteType ==
    ASSUME TypeInv, NEW o \in Observers, NEW new \in TaskRow,
           NEW next \in {"idle", "prepare", "refund"},
           NEW target \in Amounts \cup {NoTarget},
           next = "prepare" => target \in Amounts,
           Write(o, new, next, target)
    PROVE  row' \in TaskRow /\ obs' \in [Observers -> Observer] /\ HasTarget'
<1>1. CASE UpdateWithStatus(obs[o].task.status, new) /\ next = "idle" /\ Stop(o)
    BY <1>1, StopType DEF UpdateWithStatus
<1>2. CASE /\ UpdateWithStatus(obs[o].task.status, new) /\ next # "idle"
           /\ Become(o, Billing(next, new, target))
    <2>1. next \in {"prepare", "refund"}
        BY <1>2
    <2> QED BY <1>2, <2>1, BillingType, BecomeType DEF UpdateWithStatus
<1>3. CASE Stop(o) /\ UNCHANGED row
    BY <1>3, StopType DEF TypeInv, TaskTypeOK
<1> QED BY <1>1, <1>2, <1>3 DEF Write

\* Taking a copy of the row keeps the locals well typed.
LEMMA ReadType ==
    ASSUME TypeInv, NEW o \in Observers, Read(o)
    PROVE  obs' \in [Observers -> Observer] /\ HasTarget'
<1> DEFINE state == [pc |-> IF row.linked THEN "fetch" ELSE "adopt", task |-> row,
                     target |-> NoTarget]
<1>1. state \in Observer /\ state.pc \in {"fetch", "adopt"}
    BY DEF TypeInv, TaskTypeOK, Observer
<1> QED BY <1>1, BecomeType DEF Read

\* The steps of a polling pass up to the answer keep the state well typed.
LEMMA PollTypeInv ==
    ASSUME TypeInv, NEW o \in Observers,
           \/ SweepBegin(o) \/ SweepTask(o) \/ RunTaskPollingOnce(o)
           \/ Adopt(o) \/ AdoptFails(o) \/ FetchFails(o)
    PROVE  TypeInv'
<1> SUFFICES /\ row' \in TaskRow /\ resv' \in Reservation
             /\ obs' \in [Observers -> Observer] /\ HasTarget'
             /\ UNCHANGED <<job, paid, shortfall, legacyKeys>> /\ faults' \in 0..MaxFaults
    BY DEF TypeInv, TaskTypeOK, job
<1>0. row \in TaskRow /\ resv \in Reservation /\ faults \in 0..MaxFaults
    BY DEF TypeInv, TaskTypeOK
<1> USE DEF money
<1>1. CASE SweepBegin(o)
    <2> DEFINE state == [pc |-> "sweep", task |-> row, target |-> NoTarget]
    <2>1. state \in Observer /\ state.pc = "sweep"
        BY <1>0 DEF Observer
    <2> QED BY <1>0, <1>1, <2>1, BecomeType DEF SweepBegin
<1>2. CASE SweepTask(o)
    <2> DEFINE new == [obs[o].task EXCEPT !.status = "FAILURE", !.complete = TRUE]
    <2>1. new \in TaskRow
        BY LocalType DEF TaskRow, Statuses, Terminal
    <2>2. /\ Billing("refund", new, NoTarget) \in Observer
          /\ Billing("refund", new, NoTarget).pc = "refund"
        BY <2>1, BillingType
    <2>3. obs' \in [Observers -> Observer] /\ HasTarget'
        BY <1>2, <2>2, BecomeType, StopType, GotoType DEF SweepTask
    <2> QED BY <1>0, <1>2, <2>1, <2>3 DEF SweepTask, UpdateWithStatus
<1>3. CASE RunTaskPollingOnce(o)
    BY <1>0, <1>3, ReadType, StopType DEF RunTaskPollingOnce
<1>4. CASE Adopt(o)
    <2>1. row' \in TaskRow
        BY <1>0, <1>4 DEF Adopt, TaskRow
    <2>2. resv' \in Reservation
        BY <1>0, <1>4 DEF Adopt, Reservation, TaskRow
    <2> DEFINE state == [obs[o] EXCEPT !.pc = "fetch", !.task.linked = TRUE]
    <2>3. state \in Observer /\ state.pc = "fetch"
        BY LocalType DEF Observer, TaskRow
    <2> QED BY <1>0, <1>4, <2>1, <2>2, <2>3, BecomeType DEF Adopt
<1>5. CASE AdoptFails(o)
    BY <1>0, <1>5, GotoType, QuotasAssumption DEF AdoptFails
<1>6. CASE FetchFails(o)
    BY <1>0, <1>6, StopType DEF FetchFails
<1> QED BY <1>1, <1>2, <1>3, <1>4, <1>5, <1>6

\* The row a process computes from its copy when the provider has answered.
Answered(o, status, complete) == [obs[o].task EXCEPT !.status = status, !.complete = complete]

\* What every handler of an answer comes down to: nothing, a success written
\* together with the quota to settle at, or another answer.
WritesAnswer(o) ==
    \/ Stop(o) /\ UNCHANGED row
    \/ \E complete \in BOOLEAN, target \in Amounts :
         Write(o, RecordedTarget(Answered(o, "SUCCESS", complete), target), "prepare", target)
    \/ \E status \in Statuses, complete \in BOOLEAN, next \in {"idle", "refund"} :
         /\ platform = "video" => status # "SUCCESS"
         /\ Write(o, Answered(o, status, complete), next, NoTarget)

\* The handlers of a Suno, a video and a real-time answer write in this form.
LEMMA AnswersWritten ==
    ASSUME TypeInv, NEW o \in Observers
    PROVE  /\ UpdateSunoTask(o) => WritesAnswer(o)
           /\ UpdateVideoSingleTask(o) => WritesAnswer(o)
           /\ TryRealtimeFetch => WritesAnswer("user")
           /\ TryRealtimeFetch /\ platform # "gemini" => Stop("user") /\ UNCHANGED row
<1>0. upstream \in {"running"} \cup Terminal /\ "user" \in Observers
    BY DEF TypeInv, TaskTypeOK, Observers
<1>a. Answers \subseteq Statuses /\ VideoAnswers \subseteq Statuses
    BY <1>0 DEF Answers, VideoAnswers, Statuses, Terminal
<1>b. ASSUME NEW p \in Observers PROVE obs[p].task.quota \in Amounts
    BY LocalType DEF TaskRow
<1>1. ASSUME UpdateSunoTask(o) PROVE WritesAnswer(o)
    <2>1. PICK status \in Answers, reason \in BOOLEAN :
             LET task == obs[o].task
                 refund == reason \/ status = "FAILURE"
                 settle == ~refund /\ status = "SUCCESS"
                 new == [task EXCEPT !.status = status, !.complete = @ \/ refund \/ settle]
             IN \/ settle /\ Write(o, RecordedTarget(new, task.quota), "prepare", task.quota)
                \/ Stop(o) /\ UNCHANGED row
                \/ Write(o, new, IF refund THEN "refund" ELSE "idle", NoTarget)
        BY <1>1 DEF UpdateSunoTask
    <2> DEFINE complete == obs[o].task.complete \/ reason \/ status = "FAILURE"
                             \/ (~(reason \/ status = "FAILURE") /\ status = "SUCCESS")
    <2>2. /\ status \in Statuses /\ complete \in BOOLEAN
          /\ obs[o].task.quota \in Amounts /\ platform # "video"
        BY <1>1, <1>a, <1>b DEF UpdateSunoTask
    <2>3. \/ /\ status = "SUCCESS"
             /\ Write(o, RecordedTarget(Answered(o, status, complete), obs[o].task.quota),
                      "prepare", obs[o].task.quota)
          \/ Stop(o) /\ UNCHANGED row
          \/ Write(o, Answered(o, status, complete), "refund", NoTarget)
          \/ Write(o, Answered(o, status, complete), "idle", NoTarget)
        BY <2>1 DEF Answered
    <2> HIDE DEF complete
    <2> QED BY <2>2, <2>3 DEF WritesAnswer
<1>2. ASSUME UpdateVideoSingleTask(o) PROVE WritesAnswer(o)
    <2>1. PICK status \in VideoAnswers, target \in Targets \cup {obs[o].task.quota},
               full \in BOOLEAN :
             LET task == obs[o].task
                 new == [task EXCEPT !.status = status, !.complete = status \in Terminal \/ full]
             IN \/ /\ status = "SUCCESS"
                   /\ Write(o, RecordedTarget(new, target), "prepare", target)
                \/ Stop(o) /\ UNCHANGED row
                \/ status # "SUCCESS" /\ Write(o, new, "refund", NoTarget)
                \/ status # "SUCCESS" /\ Write(o, new, "idle", NoTarget)
        BY <1>2 DEF UpdateVideoSingleTask
    <2> DEFINE complete == status \in Terminal \/ full
    <2>2. status \in Statuses /\ complete \in BOOLEAN /\ target \in Amounts
        BY <1>a, <1>b DEF Amounts
    <2>3. \/ /\ status = "SUCCESS"
             /\ Write(o, RecordedTarget(Answered(o, status, complete), target), "prepare", target)
          \/ Stop(o) /\ UNCHANGED row
          \/ status # "SUCCESS" /\ Write(o, Answered(o, status, complete), "refund", NoTarget)
          \/ status # "SUCCESS" /\ Write(o, Answered(o, status, complete), "idle", NoTarget)
        BY <2>1 DEF Answered
    <2> HIDE DEF complete
    <2> QED BY <2>2, <2>3 DEF WritesAnswer
<1>3. ASSUME TryRealtimeFetch PROVE WritesAnswer("user")
    <2>1. PICK status \in VideoAnswers, target \in Targets \cup {obs["user"].task.quota} :
             LET task == obs["user"].task
                 new == [task EXCEPT !.status = status, !.complete = status \in Terminal]
             IN \/ /\ status = "SUCCESS"
                   /\ Write("user", RecordedTarget(new, target), "prepare", target)
                \/ Stop("user") /\ UNCHANGED row
                \/ platform = "gemini" /\ Write("user", new, "refund", NoTarget)
                \/ platform = "gemini" /\ Write("user", new, "idle", NoTarget)
        BY <1>3 DEF TryRealtimeFetch
    <2> DEFINE complete == status \in Terminal
    <2>2. status \in Statuses /\ complete \in BOOLEAN /\ target \in Amounts
        BY <1>0, <1>a, <1>b DEF Amounts
    <2>3. \/ /\ status = "SUCCESS"
             /\ Write("user", RecordedTarget(Answered("user", status, complete), target),
                      "prepare", target)
          \/ Stop("user") /\ UNCHANGED row
          \/ platform = "gemini" /\ Write("user", Answered("user", status, complete), "refund", NoTarget)
          \/ platform = "gemini" /\ Write("user", Answered("user", status, complete), "idle", NoTarget)
        BY <2>1 DEF Answered
    <2> HIDE DEF complete
    <2> QED BY <2>2, <2>3 DEF WritesAnswer
<1>4. ASSUME TryRealtimeFetch, platform # "gemini" PROVE Stop("user") /\ UNCHANGED row
    BY <1>4 DEF TryRealtimeFetch
<1> QED BY <1>1, <1>2, <1>3, <1>4

\* Writing an answer keeps the row and the locals well typed.
LEMMA WritesAnswerType ==
    ASSUME TypeInv, NEW o \in Observers, WritesAnswer(o)
    PROVE  row' \in TaskRow /\ obs' \in [Observers -> Observer] /\ HasTarget'
<1>1. ASSUME NEW status \in Statuses, NEW complete \in BOOLEAN, NEW target \in Amounts
      PROVE  /\ Answered(o, status, complete) \in TaskRow
             /\ RecordedTarget(Answered(o, status, complete), target) \in TaskRow
    BY LocalType DEF TaskRow, RecordedTarget, Answered
<1>2. 0 \in Amounts /\ "SUCCESS" \in Statuses
    BY DEF Amounts, Statuses, Terminal
<1>3. CASE Stop(o) /\ UNCHANGED row
    BY <1>3, StopType DEF TypeInv, TaskTypeOK
<1>4. ASSUME NEW complete \in BOOLEAN, NEW target \in Amounts,
             Write(o, RecordedTarget(Answered(o, "SUCCESS", complete), target), "prepare", target)
      PROVE  row' \in TaskRow /\ obs' \in [Observers -> Observer] /\ HasTarget'
    BY <1>1, <1>2, <1>4, WriteType
<1>5. ASSUME NEW status \in Statuses, NEW complete \in BOOLEAN, NEW next \in {"idle", "refund"},
             Write(o, Answered(o, status, complete), next, NoTarget)
      PROVE  row' \in TaskRow /\ obs' \in [Observers -> Observer] /\ HasTarget'
    BY <1>1, <1>2, <1>5, WriteType
<1> QED BY <1>3, <1>4, <1>5 DEF WritesAnswer

\* The billing transactions keep the state well typed.
LEMMA BillTypeInv ==
    ASSUME TypeInv, NEW o \in Observers, Bill(o)
    PROVE  TypeInv'
<1> SUFFICES /\ row' \in TaskRow /\ resv' \in Reservation /\ paid' \in Int
             /\ legacyKeys' \subseteq {"settle", "refund"} /\ shortfall' \in BOOLEAN
             /\ obs' \in [Observers -> Observer] /\ HasTarget'
             /\ UNCHANGED <<job, faults>>
    BY DEF TypeInv, TaskTypeOK, job
<1>0. /\ row \in TaskRow /\ resv \in Reservation /\ paid \in Int
      /\ legacyKeys \subseteq {"settle", "refund"} /\ shortfall \in BOOLEAN
    BY DEF TypeInv, TaskTypeOK
<1>a. row.quota \in Int /\ resv.quota \in Int
    <2>1. row.quota \in Amounts /\ resv.quota \in Amounts
        BY <1>0 DEF TaskRow, Reservation
    <2> QED BY <2>1, AmountsAreNat
<1>1. CASE PrepareSettlement(o)
    <2>1. resv' \in Reservation
        BY <1>0, <1>1, LocalType DEF PrepareSettlement, Reservation
    <2>2. obs' \in [Observers -> Observer] /\ HasTarget'
        BY <1>1, LocalType, GotoType, StopType DEF PrepareSettlement
    <2> QED BY <1>0, <1>1, <2>1, <2>2 DEF PrepareSettlement
<1>2. CASE Settle(o)
    <2>1. obs[o].target \in Amounts /\ obs[o].target \in Int
        BY <1>2, LocalType, AmountsAreNat DEF Settle
    <2>2. /\ SettledRow(obs[o].target) \in TaskRow
          /\ [resv EXCEPT !.status = "settled", !.quota = obs[o].target,
                          !.pending = NoTarget] \in Reservation
        BY <1>0, <2>1 DEF SettledRow, TaskRow, Reservation
    <2>3. row' \in TaskRow /\ resv' \in Reservation /\ paid' \in Int
        BY <1>0, <1>a, <1>2, <2>1, <2>2 DEF Settle
    <2> QED BY <1>0, <1>2, <2>3, StopType DEF Settle
<1>3. CASE RefundLinked(o)
    <2>1. /\ [row EXCEPT !.target = NoTarget] \in TaskRow
          /\ [resv EXCEPT !.status = "refunded", !.pending = NoTarget] \in Reservation
        BY <1>0 DEF TaskRow, Reservation
    <2>2. row' \in TaskRow /\ resv' \in Reservation /\ paid' \in Int
        BY <1>0, <1>a, <1>3, <2>1 DEF RefundLinked
    <2> QED BY <1>0, <1>3, <2>2, StopType DEF RefundLinked
<1>4. CASE FinalizeLegacyTaskBilling(o)
    <2> DEFINE outcome == IF obs[o].pc = "refund" THEN "refund" ELSE "settle"
               quota == IF outcome = "refund" THEN obs[o].task.quota ELSE obs[o].target
    <2>1. quota \in Amounts /\ quota \in Int
        BY <1>4, LocalType, AmountsAreNat DEF FinalizeLegacyTaskBilling, TaskRow
    <2>2. [row EXCEPT !.finalized = TRUE,
                      !.quota = IF outcome = "settle" THEN quota ELSE @] \in TaskRow
        BY <1>0, <2>1 DEF TaskRow
    <2>3. /\ row' \in TaskRow /\ paid' \in Int
          /\ legacyKeys' \subseteq {"settle", "refund"}
        BY <1>0, <1>a, <1>4, <2>1, <2>2 DEF FinalizeLegacyTaskBilling
    <2> QED BY <1>0, <1>4, <2>3, StopType DEF FinalizeLegacyTaskBilling
<1>5. CASE SettleRefused(o)
    BY <1>0, <1>5, StopType DEF SettleRefused
<1> QED BY <1>1, <1>2, <1>3, <1>4, <1>5 DEF Bill

\* The steps of the world and of the reconciler keep the state well typed.
LEMMA WorldTypeInv ==
    ASSUME TypeInv,
           \/ ReconcileStaleBillingReservation \/ UpstreamEnds \/ TimeoutPasses
           \/ \E o \in Observers : Crash(o)
    PROVE  TypeInv'
<1>1. CASE ReconcileStaleBillingReservation
    <2> DEFINE target == IF row.target # NoTarget THEN row.target
                         ELSE IF resv.pending # NoTarget THEN resv.pending ELSE row.quota
               copy == [row EXCEPT !.linked = TRUE]
    <2>1. copy \in TaskRow /\ target \in Amounts /\ "reconciler" \in Observers
        BY DEF TypeInv, TaskTypeOK, TaskRow, Reservation, Observers
    <2>2. \/ Become("reconciler", Billing("prepare", copy, target))
          \/ Become("reconciler", Billing("refund", copy, NoTarget))
        BY <1>1 DEF ReconcileStaleBillingReservation
    <2>3. obs' \in [Observers -> Observer] /\ HasTarget'
        <3> HIDE DEF copy, target
        <3> QED BY <2>1, <2>2, BillingType, BecomeType
    <2> QED BY <1>1, <2>3
        DEF ReconcileStaleBillingReservation, TypeInv, TaskTypeOK, job, money
<1>2. CASE UpstreamEnds
    BY <1>2 DEF UpstreamEnds, TypeInv, TaskTypeOK, HasTarget, money
<1>3. CASE TimeoutPasses
    BY <1>3 DEF TimeoutPasses, TypeInv, TaskTypeOK, HasTarget, money
<1>4. ASSUME NEW o \in Observers, Crash(o) PROVE TypeInv'
    BY <1>4, StopType, QuotasAssumption DEF Crash, TypeInv, TaskTypeOK, job, money
<1> QED BY <1>1, <1>2, <1>3, <1>4

\* Every step keeps the state well typed.
LEMMA StepTypeInv == TypeInv /\ [Next]_vars => TypeInv'
<1> SUFFICES ASSUME TypeInv, [Next]_vars PROVE TypeInv'
    OBVIOUS
<1>0. platform \in Platforms /\ "user" \in Observers /\ "reconciler" \in Observers
    BY DEF TypeInv, TaskTypeOK, Observers
<1>a. ASSUME NEW o \in Observers, WritesAnswer(o), UNCHANGED <<job, money, faults>>
      PROVE  TypeInv'
    BY <1>a, WritesAnswerType DEF TypeInv, TaskTypeOK, job, money
<1>1. ASSUME NEW o \in PollersOf[platform], Poller(o) PROVE TypeInv'
    <2>1. o \in Observers
        BY <1>0, PollersAreNodes
    <2>2. CASE UpdateSunoTask(o) \/ UpdateVideoSingleTask(o)
        BY <2>1, <2>2, <1>a, AnswersWritten DEF UpdateSunoTask, UpdateVideoSingleTask
    <2> QED BY <1>1, <2>1, <2>2, PollTypeInv, BillTypeInv DEF Poller
<1>2. CASE User
    <2>1. CASE FetchByID
        BY <1>0, <2>1, ReadType DEF FetchByID, TypeInv, TaskTypeOK, job, money
    <2>2. CASE TryRealtimeFetch
        BY <1>0, <2>2, <1>a, AnswersWritten DEF TryRealtimeFetch
    <2> QED BY <1>0, <1>2, <2>1, <2>2, PollTypeInv, BillTypeInv DEF User
<1>3. CASE Reconciler
    BY <1>0, <1>3, BillTypeInv, WorldTypeInv DEF Reconciler
<1>4. CASE UpstreamEnds \/ TimeoutPasses \/ \E o \in Observers : Crash(o)
    BY <1>4, WorldTypeInv
<1>5. CASE UNCHANGED vars
    BY <1>5 DEF vars, TypeInv, TaskTypeOK, HasTarget
<1> QED BY <1>1, <1>2, <1>3, <1>4, <1>5 DEF Next

\* The columns of the task and its reservation and the locals of every process
\* stay well typed, for any number of nodes and any quotas.
THEOREM TypeCorrect == Spec => []TypeInv
<1> QED BY InitTypeInv, StepTypeInv, PTL DEF Spec

-----------------------------------------------------------------------------
(* Links                                                                   *)

LinkInv == LinksHold /\ BornLinked

\* The initial state satisfies the link invariant.
LEMMA InitLinkInv == Init => LinkInv
<1> SUFFICES ASSUME Init PROVE LinkInv
    OBVIOUS
<1>1. PICK q \in Quotas, link \in BOOLEAN, old \in BOOLEAN :
         /\ row = [Blank EXCEPT !.quota = q, !.linked = link, !.old = old]
         /\ resv = [status |-> IF link THEN "reserved" ELSE "none", quota |-> q,
                    pending |-> NoTarget, adopted |-> FALSE]
    BY DEF Init
<1>2. /\ row.linked = link /\ ~resv.adopted
      /\ resv.status = IF link THEN "reserved" ELSE "none"
    BY <1>1 DEF Blank
<1>3. \A o \in Observers : ~Following(o) /\ ~Charging(o)
    BY DEF Init, Following, Charging, Idle
<1> QED BY <1>2, <1>3 DEF LinkInv, LinksHold, BornLinked

\* What is written and what is remembered for a process: nothing it works with
\* is linked to no reservation, or not linked to one the task was born with.
LEMMA LinkStep ==
    ASSUME TypeInv, LinkInv, NEW o \in Observers, NEW state \in Observer, Become(o, state),
           resv.status # "none" => resv'.status # "none" /\ resv'.adopted = resv.adopted,
           resv'.status = "none" => resv' = resv,
           row'.linked => resv'.status # "none",
           state.pc # "idle" /\ state.pc # "list" /\ state.task.linked => resv'.status # "none",
           resv'.status # "none" /\ ~resv'.adopted =>
             /\ resv.status # "none"
             /\ row'.linked
             /\ state.pc # "idle" /\ state.pc # "list" => state.task.linked
    PROVE  LinkInv'
<1>1. \A p \in Observers : obs'[p] = IF p = o THEN state ELSE obs[p]
    BY DEF TypeInv, TaskTypeOK, Become
<1>2. LinksHold'
    BY <1>1 DEF LinkInv, LinksHold, Following, Charging
<1>3. BornLinked'
    BY <1>1 DEF LinkInv, BornLinked, Following, Charging
<1> QED BY <1>2, <1>3 DEF LinkInv

\* A process that stops, and one that keeps its copy, change no link.
LEMMA StopLinkInv ==
    ASSUME TypeInv, LinkInv, NEW o \in Observers, Stop(o),
           resv'.status # "none" <=> resv.status # "none", resv'.adopted = resv.adopted,
           resv.status = "none" => resv' = resv, row'.linked = row.linked
    PROVE  LinkInv'
<1>1. Idle.pc = "idle" /\ Idle \in Observer
    BY IdleType DEF Idle
<1>2. row'.linked => resv'.status # "none"
    BY DEF LinkInv, LinksHold
<1>3. resv'.status # "none" /\ ~resv'.adopted => resv.status # "none" /\ row'.linked
    BY DEF LinkInv, BornLinked
<1> QED BY <1>1, <1>2, <1>3, LinkStep DEF Stop

\* A process that takes a copy of the row, or goes on with the one it has.
LEMMA CopyLinkInv ==
    ASSUME TypeInv, LinkInv, NEW o \in Observers, NEW state \in Observer, Become(o, state),
           \/ state.task.linked = row.linked
           \/ (Following(o) \/ Charging(o)) /\ state.task.linked = obs[o].task.linked
           \/ state.pc \in {"idle", "list"},
           resv'.status = resv.status, resv'.adopted = resv.adopted,
           resv.status = "none" => resv' = resv,
           \/ row'.linked = row.linked
           \/ (Following(o) \/ Charging(o)) /\ row'.linked = obs[o].task.linked
    PROVE  LinkInv'
<1>1. row'.linked => resv'.status # "none"
    BY DEF LinkInv, LinksHold
<1>2. state.pc # "idle" /\ state.pc # "list" /\ state.task.linked => resv'.status # "none"
    BY DEF LinkInv, LinksHold
<1>3. resv'.status # "none" /\ ~resv'.adopted =>
         /\ resv.status # "none" /\ row'.linked
         /\ state.pc # "idle" /\ state.pc # "list" => state.task.linked
    BY DEF LinkInv, BornLinked
<1> QED BY <1>1, <1>2, <1>3, LinkStep

\* Writing an answer, from a copy that is being followed, writes its link too.
LEMMA WriteLinkInv ==
    ASSUME TypeInv, LinkInv, NEW o \in Observers, Following(o), NEW new \in TaskRow,
           new.linked = obs[o].task.linked,
           NEW next \in {"idle", "prepare", "refund"},
           NEW target \in Amounts \cup {NoTarget},
           Write(o, new, next, target), resv' = resv
    PROVE  LinkInv'
<1>1. CASE Stop(o) /\ UNCHANGED row
    BY <1>1, StopLinkInv
<1>2. CASE row' = new /\ next = "idle" /\ Stop(o)
    <2>1. Idle.pc = "idle" /\ Idle \in Observer
        BY IdleType DEF Idle
    <2> QED BY <1>2, <2>1, CopyLinkInv DEF Stop
<1>3. CASE row' = new /\ next # "idle" /\ Become(o, Billing(next, new, target))
    <2>1. next \in {"prepare", "refund"}
        BY <1>3
    <2>2. Billing(next, new, target).task.linked = new.linked
        BY DEF Billing, Blank
    <2>3. Billing(next, new, target) \in Observer
        BY <2>1, BillingType
    <2> QED BY <1>3, <2>2, <2>3, CopyLinkInv
<1> QED BY <1>1, <1>2, <1>3 DEF Write, UpdateWithStatus

\* The same for every form of answer.
LEMMA WritesAnswerLinkInv ==
    ASSUME TypeInv, LinkInv, NEW o \in Observers, Following(o), WritesAnswer(o), resv' = resv
    PROVE  LinkInv'
<1>1. ASSUME NEW status \in Statuses, NEW complete \in BOOLEAN, NEW target \in Amounts
      PROVE  /\ Answered(o, status, complete) \in TaskRow
             /\ RecordedTarget(Answered(o, status, complete), target) \in TaskRow
             /\ Answered(o, status, complete).linked = obs[o].task.linked
             /\ RecordedTarget(Answered(o, status, complete), target).linked = obs[o].task.linked
    BY LocalType DEF TaskRow, RecordedTarget, Answered
<1>2. 0 \in Amounts /\ "SUCCESS" \in Statuses
    BY DEF Amounts, Statuses, Terminal
<1>3. CASE Stop(o) /\ UNCHANGED row
    BY <1>3, StopLinkInv
<1>4. ASSUME NEW complete \in BOOLEAN, NEW target \in Amounts,
             Write(o, RecordedTarget(Answered(o, "SUCCESS", complete), target), "prepare", target)
      PROVE  LinkInv'
    BY <1>1, <1>2, <1>4, WriteLinkInv
<1>5. ASSUME NEW status \in Statuses, NEW complete \in BOOLEAN, NEW next \in {"idle", "refund"},
             Write(o, Answered(o, status, complete), next, NoTarget)
      PROVE  LinkInv'
    BY <1>1, <1>2, <1>5, WriteLinkInv
<1> QED BY <1>3, <1>4, <1>5 DEF WritesAnswer

\* Following the task up to the provider's answer keeps the links.
LEMMA PollLinkInv ==
    ASSUME TypeInv, LinkInv, NEW o \in Observers,
           \/ SweepBegin(o) \/ SweepTask(o) \/ RunTaskPollingOnce(o) \/ FetchByID
           \/ Adopt(o) \/ AdoptFails(o) \/ FetchFails(o)
    PROVE  LinkInv'
<1> USE DEF money
<1>0. row \in TaskRow /\ "user" \in Observers
    BY DEF TypeInv, TaskTypeOK, Observers
<1>a. ASSUME NEW p \in Observers, Read(p), resv' = resv, row' = row PROVE LinkInv'
    <2> DEFINE state == [pc |-> IF row.linked THEN "fetch" ELSE "adopt", task |-> row,
                         target |-> NoTarget]
    <2>1. state \in Observer /\ state.task = row
        BY <1>0 DEF Observer
    <2> QED BY <1>a, <2>1, CopyLinkInv DEF Read
<1>b. ASSUME NEW pc \in {"list", "fetch"}, Goto(o, pc), resv' = resv, row' = row,
             pc = "fetch" => Following(o)
      PROVE  LinkInv'
    <2> DEFINE state == [obs[o] EXCEPT !.pc = pc]
    <2>1. state \in Observer /\ state.task = obs[o].task /\ state.pc = pc
        BY LocalType DEF Observer
    <2> QED BY <1>b, <2>1, CopyLinkInv DEF Goto
<1>1. CASE SweepBegin(o)
    <2> DEFINE state == [pc |-> "sweep", task |-> row, target |-> NoTarget]
    <2>1. state \in Observer /\ state.task = row
        BY <1>0 DEF Observer
    <2> QED BY <1>1, <2>1, CopyLinkInv DEF SweepBegin
<1>2. CASE SweepTask(o)
    <2> DEFINE new == [obs[o].task EXCEPT !.status = "FAILURE", !.complete = TRUE]
    <2>1. new \in TaskRow /\ new.linked = obs[o].task.linked
        BY LocalType DEF TaskRow, Statuses, Terminal
    <2>2. Following(o) /\ resv' = resv
        BY <1>2 DEF SweepTask, Following
    <2>3. CASE row.status = obs[o].task.status /\ row' = new /\ Stop(o)
        <3>1. Write(o, new, "idle", NoTarget)
            BY <2>3 DEF Write, UpdateWithStatus
        <3> QED BY <2>1, <2>2, <3>1, WriteLinkInv
    <2>4. CASE /\ row.status = obs[o].task.status /\ row' = new
               /\ Become(o, Billing("refund", new, NoTarget))
        <3>1. Write(o, new, "refund", NoTarget)
            BY <2>4 DEF Write, UpdateWithStatus
        <3> QED BY <2>1, <2>2, <3>1, WriteLinkInv
    <2>5. CASE Goto(o, "list") /\ UNCHANGED row
        BY <2>2, <2>5, <1>b
    <2> QED BY <1>2, <2>3, <2>4, <2>5 DEF SweepTask, UpdateWithStatus
<1>3. CASE RunTaskPollingOnce(o)
    BY <1>3, <1>a, StopLinkInv DEF RunTaskPollingOnce
<1>4. CASE Adopt(o)
    <2> DEFINE state == [obs[o] EXCEPT !.pc = "fetch", !.task.linked = TRUE]
    <2>1. state \in Observer /\ state.task.linked
        BY LocalType DEF Observer, TaskRow
    <2>2. row'.linked
        BY <1>0, <1>4 DEF Adopt, TaskRow
    <2>3. /\ resv'.status # "none"
          /\ resv.status # "none" => resv' = resv
          /\ resv.status = "none" => resv'.adopted
        BY <1>4 DEF Adopt, LinkInv, LinksHold
    <2> QED BY <1>4, <2>1, <2>2, <2>3, LinkStep DEF Adopt
<1>5. CASE AdoptFails(o)
    BY <1>5, <1>b DEF AdoptFails, Following
<1>6. CASE FetchFails(o)
    BY <1>6, StopLinkInv DEF FetchFails
<1>7. CASE FetchByID
    BY <1>0, <1>7, <1>a DEF FetchByID
<1> QED BY <1>1, <1>2, <1>3, <1>4, <1>5, <1>6, <1>7

\* Billing keeps the links.
LEMMA BillLinkInv ==
    ASSUME TypeInv, LinkInv, NEW o \in Observers, Bill(o)
    PROVE  LinkInv'
<1>0. row \in TaskRow /\ resv \in Reservation
    BY DEF TypeInv, TaskTypeOK
<1>1. CASE PrepareSettlement(o)
    <2>1. /\ resv'.status = resv.status /\ resv'.adopted = resv.adopted
          /\ resv.status = "none" => resv' = resv
        BY <1>0, <1>1 DEF PrepareSettlement, Preparable, LinkedTo, Reservation
    <2>2. CASE Stop(o)
        BY <1>1, <2>1, <2>2, StopLinkInv DEF PrepareSettlement
    <2>3. CASE Goto(o, "settle")
        <3> DEFINE state == [obs[o] EXCEPT !.pc = "settle"]
        <3>1. state \in Observer /\ state.task = obs[o].task
            BY LocalType DEF Observer
        <3>2. Charging(o) /\ row' = row
            BY <1>1 DEF PrepareSettlement, Charging
        <3> QED BY <2>1, <2>3, <3>1, <3>2, CopyLinkInv DEF Goto
    <2> QED BY <1>1, <2>2, <2>3 DEF PrepareSettlement
<1>2. CASE Settle(o)
    <2>1. /\ resv'.status # "none" <=> resv.status # "none" 
          /\ resv'.adopted = resv.adopted /\ row'.linked = row.linked
          /\ resv.status = "none" => resv' = resv
        BY <1>0, <1>2 DEF Settle, LinkedTo, SettledRow, TaskRow, Reservation
    <2> QED BY <1>2, <2>1, StopLinkInv DEF Settle
<1>3. CASE RefundLinked(o)
    <2>1. /\ resv'.status # "none" <=> resv.status # "none" 
          /\ resv'.adopted = resv.adopted /\ row'.linked = row.linked
          /\ resv.status = "none" => resv' = resv
        BY <1>0, <1>3 DEF RefundLinked, LinkedTo, Refundable, TaskRow, Reservation
    <2> QED BY <1>3, <2>1, StopLinkInv DEF RefundLinked
<1>4. CASE FinalizeLegacyTaskBilling(o)
    <2>1. row'.linked = row.linked /\ resv' = resv
        BY <1>0, <1>4 DEF FinalizeLegacyTaskBilling, TaskRow
    <2> QED BY <1>4, <2>1, StopLinkInv DEF FinalizeLegacyTaskBilling
<1>5. CASE SettleRefused(o)
    BY <1>5, StopLinkInv DEF SettleRefused
<1> QED BY <1>1, <1>2, <1>3, <1>4, <1>5 DEF Bill

\* Every step keeps the links.
LEMMA StepLinkInv == TypeInv /\ LinkInv /\ [Next]_vars => LinkInv'
<1> SUFFICES ASSUME TypeInv, LinkInv, [Next]_vars PROVE LinkInv'
    OBVIOUS
<1>0. /\ platform \in Platforms /\ row \in TaskRow
      /\ "user" \in Observers /\ "reconciler" \in Observers
    BY DEF TypeInv, TaskTypeOK, Observers
<1>1. ASSUME NEW o \in PollersOf[platform], Poller(o) PROVE LinkInv'
    <2>1. o \in Observers
        BY <1>0, PollersAreNodes
    <2>2. CASE UpdateSunoTask(o) \/ UpdateVideoSingleTask(o)
        BY <2>1, <2>2, AnswersWritten, WritesAnswerLinkInv
        DEF UpdateSunoTask, UpdateVideoSingleTask, Following, money
    <2> QED BY <1>1, <2>1, <2>2, PollLinkInv, BillLinkInv DEF Poller
<1>2. CASE User
    <2>1. CASE TryRealtimeFetch
        BY <1>0, <2>1, AnswersWritten, WritesAnswerLinkInv
        DEF TryRealtimeFetch, Following, money
    <2> QED BY <1>0, <1>2, <2>1, PollLinkInv, BillLinkInv DEF User
<1>3. CASE Reconciler
    <2> DEFINE target == IF row.target # NoTarget THEN row.target
                         ELSE IF resv.pending # NoTarget THEN resv.pending ELSE row.quota
               copy == [row EXCEPT !.linked = TRUE]
    <2>1. CASE ReconcileStaleBillingReservation
        <3>1. copy \in TaskRow /\ target \in Amounts /\ copy.linked
            BY <1>0 DEF TypeInv, TaskTypeOK, TaskRow, Reservation
        <3>2. PICK next \in {"prepare", "refund"}, t \in Amounts \cup {NoTarget} :
                 Become("reconciler", Billing(next, copy, t))
            BY <2>1, <3>1 DEF ReconcileStaleBillingReservation
        <3>3. Billing(next, copy, t) \in Observer /\ Billing(next, copy, t).task.linked
            <4>1. Billing(next, copy, t).task.linked = copy.linked
                BY DEF Billing, Blank
            <4> QED BY <3>1, <4>1, BillingType
        <3>4. resv.status = "reserved" /\ resv' = resv /\ row' = row
            BY <2>1 DEF ReconcileStaleBillingReservation, money
        <3>5. resv'.status # "none" /\ ~resv'.adopted => row'.linked
            BY <3>4 DEF LinkInv, BornLinked
        <3> QED BY <1>0, <3>2, <3>3, <3>4, <3>5, LinkStep
    <2> QED BY <1>0, <1>3, <2>1, BillLinkInv DEF Reconciler
<1>4. CASE UpstreamEnds \/ TimeoutPasses
    BY <1>4 DEF UpstreamEnds, TimeoutPasses, money, LinkInv, LinksHold, BornLinked,
                Following, Charging
<1>5. ASSUME NEW o \in Observers, Crash(o) PROVE LinkInv'
    BY <1>5, StopLinkInv DEF Crash, money
<1>6. CASE UNCHANGED vars
    BY <1>6 DEF vars, LinkInv, LinksHold, BornLinked, Following, Charging
<1> QED BY <1>1, <1>2, <1>3, <1>4, <1>5, <1>6 DEF Next

-----------------------------------------------------------------------------
(* Money                                                                   *)

\* What a process may be doing when the provider is not asked in real time.
MayBe(o, state) ==
    /\ o = "user" => state.pc \in {"idle", "adopt", "fetch"}
    /\ o = "reconciler" => state.pc \in {"idle", "prepare", "settle", "refund"}
    /\ o \in Nodes /\ state.pc \in {"sweep", "adopt", "fetch"} =>
         /\ state.task.status \notin Terminal
         /\ row.status \notin Terminal => SameMoney(state.task)

\* The initial state satisfies the money invariant.
LEMMA InitMoneyInv == Init => MoneyInv
<1> SUFFICES ASSUME Init PROVE MoneyInv
    OBVIOUS
<1>1. PICK q \in Quotas, link \in BOOLEAN, old \in BOOLEAN :
         /\ row = [Blank EXCEPT !.quota = q, !.linked = link, !.old = old]
         /\ resv = [status |-> IF link THEN "reserved" ELSE "none", quota |-> q,
                    pending |-> NoTarget, adopted |-> FALSE]
         /\ paid = q
    BY DEF Init
<1>2. /\ row.status = "SUBMITTED" /\ ~row.finalized /\ row.target = NoTarget
      /\ row.quota = q /\ resv.quota = q /\ resv.status \in {"none", "reserved"}
    BY <1>1 DEF Blank
<1>3. \A o \in Observers : obs[o].pc = "idle"
    BY DEF Init, Idle
<1> QED BY <1>1, <1>2, <1>3
    DEF MoneyInv, CopiesUnended, OnlyReads, UnendedIsUntouched, EndedIsBilledOneWay,
        DecisionRecorded, Following, Observers, Terminal

\* A step that changes only what one process is doing.
LEMMA LocalMoneyInv ==
    ASSUME TypeInv, MoneyInv, platform # "gemini",
           NEW o \in Observers, NEW state \in Observer, Become(o, state), MayBe(o, state),
           UNCHANGED <<platform, row, paid>>,
           resv'.status = resv.status, resv'.quota = resv.quota
    PROVE  MoneyInv'
<1>1. \A p \in Observers : obs'[p] = IF p = o THEN state ELSE obs[p]
    BY DEF TypeInv, TaskTypeOK, Become
<1>2. Nodes \subseteq Observers /\ "user" \in Observers /\ "reconciler" \in Observers
    BY DEF Observers
<1>3. CopiesUnended' /\ OnlyReads'
    BY <1>1, <1>2 DEF MoneyInv, CopiesUnended, OnlyReads, Following, MayBe
<1>4. UnendedIsUntouched'
    BY <1>1, <1>2 DEF MoneyInv, UnendedIsUntouched, Following, MayBe, SameMoney
<1>5. EndedIsBilledOneWay' /\ DecisionRecorded'
    BY DEF MoneyInv, EndedIsBilledOneWay, DecisionRecorded, Closed
<1> QED BY <1>3, <1>4, <1>5 DEF MoneyInv

\* A process that stops without having written anything.
LEMMA StopMoneyInv ==
    ASSUME TypeInv, MoneyInv, platform # "gemini", NEW o \in Observers, Stop(o),
           UNCHANGED <<platform, row, paid, resv>>
    PROVE  MoneyInv'
<1>1. Idle \in Observer /\ Idle.pc = "idle"
    BY IdleType DEF Idle
<1> QED BY <1>1, LocalMoneyInv DEF Stop, MayBe

\* The compare-and-set of a polling node.  It succeeds only on a row that has not
\* ended, where the copy is right about the money.
LEMMA WriteMoneyInv ==
    ASSUME TypeInv, LinkInv, MoneyInv, platform # "gemini",
           NEW o \in Nodes, Following(o), NEW new \in TaskRow,
           new.linked = obs[o].task.linked, new.quota = obs[o].task.quota,
           new.finalized = obs[o].task.finalized,
           new.status \notin Terminal => new.target = obs[o].task.target,
           platform = "video" /\ new.status = "SUCCESS" => new.target # NoTarget,
           NEW next \in {"idle", "prepare", "refund"},
           NEW target \in Amounts \cup {NoTarget},
           Write(o, new, next, target), UNCHANGED <<platform, resv, paid>>
    PROVE  MoneyInv'
<1>0. o \in Observers /\ Nodes \subseteq Observers
      /\ "user" \in Observers /\ "reconciler" \in Observers
      /\ o # "user" /\ o # "reconciler"
    BY NodesAssumption DEF Observers
<1>1. CASE row.status # obs[o].task.status /\ Stop(o) /\ UNCHANGED row
    BY <1>0, <1>1, StopMoneyInv
<1>2. CASE row.status = obs[o].task.status /\ row' = new
    <2>1. PICK state \in Observer : Become(o, state) /\ state.pc \in {"idle", "prepare", "refund"}
        <3>1. CASE next = "idle"
            <4>1. Stop(o)
                BY <1>2, <3>1 DEF Write
            <4>2. Idle \in Observer /\ Idle.pc = "idle"
                BY IdleType DEF Idle
            <4> QED BY <4>1, <4>2 DEF Stop
        <3>2. CASE next # "idle"
            <4>1. next \in {"prepare", "refund"}
                BY <3>2
            <4>2. Become(o, Billing(next, new, target))
                BY <1>2, <3>2 DEF Write
            <4> QED BY <4>1, <4>2, BillingType
        <3> QED BY <3>1, <3>2
    <2>2. \A p \in Observers : obs'[p] = IF p = o THEN state ELSE obs[p]
        BY <2>1, <1>0 DEF TypeInv, TaskTypeOK, Become
    <2>3. row.status \notin Terminal
        BY <1>2 DEF MoneyInv, CopiesUnended
    <2>4. /\ resv.status \in {"none", "reserved"}
          /\ resv.status = "reserved" => resv.quota = row.quota
          /\ paid = row.quota
          /\ \A p \in Nodes : Following(p) => SameMoney(obs[p].task)
        BY <2>3 DEF MoneyInv, UnendedIsUntouched
    <2>5. /\ new.quota = row.quota /\ ~new.finalized
          /\ new.status \notin Terminal => new.target = NoTarget
        BY <2>4 DEF SameMoney
    <2>6. new.linked => resv.status = "reserved"
        BY <2>4, <1>0 DEF LinkInv, LinksHold
    <2>7. CopiesUnended' /\ OnlyReads'
        BY <1>0, <2>1, <2>2 DEF MoneyInv, CopiesUnended, OnlyReads, Following
    <2>8. UnendedIsUntouched'
        BY <1>0, <1>2, <2>1, <2>2, <2>4, <2>5 DEF UnendedIsUntouched, Following, SameMoney
    <2>9. EndedIsBilledOneWay'
        BY <1>2, <2>4, <2>5, <2>6 DEF EndedIsBilledOneWay, Closed
    <2>10. DecisionRecorded'
        BY <1>2 DEF DecisionRecorded
    <2> QED BY <2>7, <2>8, <2>9, <2>10 DEF MoneyInv
<1> QED BY <1>1, <1>2 DEF Write, UpdateWithStatus

\* The same for every form of answer.
LEMMA WritesAnswerMoneyInv ==
    ASSUME TypeInv, LinkInv, MoneyInv, platform # "gemini",
           NEW o \in Nodes, Following(o), WritesAnswer(o), UNCHANGED <<platform, resv, paid>>
    PROVE  MoneyInv'
<1>0. o \in Observers /\ 0 \in Amounts /\ "SUCCESS" \in Statuses
    BY DEF Observers, Amounts, Statuses, Terminal
<1>1. ASSUME NEW status \in Statuses, NEW complete \in BOOLEAN, NEW target \in Amounts
      PROVE  LET new == Answered(o, status, complete)
                 decided == RecordedTarget(new, target)
             IN /\ new \in TaskRow /\ decided \in TaskRow
                /\ new.linked = obs[o].task.linked /\ decided.linked = obs[o].task.linked
                /\ new.quota = obs[o].task.quota /\ decided.quota = obs[o].task.quota
                /\ new.finalized = obs[o].task.finalized
                /\ decided.finalized = obs[o].task.finalized
                /\ new.status = status /\ decided.status = status
                /\ new.target = obs[o].task.target /\ decided.target = target
    BY <1>0, LocalType DEF TaskRow, RecordedTarget, Answered
<1>3. CASE Stop(o) /\ UNCHANGED row
    BY <1>0, <1>3, StopMoneyInv
<1>4. ASSUME NEW complete \in BOOLEAN, NEW target \in Amounts,
             Write(o, RecordedTarget(Answered(o, "SUCCESS", complete), target), "prepare", target)
      PROVE  MoneyInv'
    BY <1>0, <1>1, <1>4, WriteMoneyInv, AmountsAreNat DEF Terminal
<1>5. ASSUME NEW status \in Statuses, NEW complete \in BOOLEAN, NEW next \in {"idle", "refund"},
             platform = "video" => status # "SUCCESS",
             Write(o, Answered(o, status, complete), next, NoTarget)
      PROVE  MoneyInv'
    BY <1>0, <1>1, <1>5, WriteMoneyInv
<1> QED BY <1>3, <1>4, <1>5 DEF WritesAnswer

\* Adoption: an unended row gets a reservation over what was charged.
LEMMA AdoptMoneyInv ==
    ASSUME TypeInv, LinkInv, MoneyInv, platform # "gemini", NEW o \in Observers, Adopt(o)
    PROVE  MoneyInv'
<1> DEFINE state == [obs[o] EXCEPT !.pc = "fetch", !.task.linked = TRUE]
<1>0. Nodes \subseteq Observers /\ "user" \in Observers /\ "reconciler" \in Observers
    BY DEF Observers
<1>1. \A p \in Observers : obs'[p] = IF p = o THEN state ELSE obs[p]
    BY DEF TypeInv, TaskTypeOK, Become, Adopt
<1>2. /\ state.pc = "fetch" /\ state.task.status = obs[o].task.status
      /\ state.task.quota = obs[o].task.quota /\ state.task.target = obs[o].task.target
      /\ state.task.finalized = obs[o].task.finalized
    BY LocalType DEF Observer, TaskRow
<1> HIDE DEF state
<1>3. /\ row'.status = row.status /\ row'.quota = row.quota /\ row'.target = row.target
      /\ row'.finalized = row.finalized /\ row.status \notin Terminal
    BY DEF Adopt, TypeInv, TaskTypeOK, TaskRow
<1>4. /\ resv'.status \in {"none", "reserved"}
      /\ resv'.status = "reserved" => resv'.quota = row.quota
      /\ paid' = paid /\ platform' = platform
    BY <1>3 DEF Adopt, MoneyInv, UnendedIsUntouched, job
<1>5. Following(o) /\ o # "reconciler"
    BY DEF Adopt, Following, MoneyInv, OnlyReads
<1>6. CopiesUnended' /\ OnlyReads'
    BY <1>0, <1>1, <1>2, <1>5 DEF MoneyInv, CopiesUnended, OnlyReads, Following
<1>7. UnendedIsUntouched'
    BY <1>0, <1>1, <1>2, <1>3, <1>4, <1>5 DEF MoneyInv, UnendedIsUntouched, Following, SameMoney
<1>8. EndedIsBilledOneWay' /\ DecisionRecorded'
    BY <1>3 DEF EndedIsBilledOneWay, DecisionRecorded, Terminal
<1> QED BY <1>6, <1>7, <1>8 DEF MoneyInv

\* Following the task up to the provider's answer moves no money.
LEMMA PollMoneyInv ==
    ASSUME TypeInv, LinkInv, MoneyInv, platform # "gemini", NEW o \in Nodes,
           \/ SweepBegin(o) \/ SweepTask(o) \/ RunTaskPollingOnce(o)
           \/ Adopt(o) \/ AdoptFails(o) \/ FetchFails(o)
    PROVE  MoneyInv'
<1> USE DEF money, job
<1>0. /\ row \in TaskRow /\ o \in Observers /\ o # "user" /\ o # "reconciler"
    BY NodesAssumption DEF TypeInv, TaskTypeOK, Observers
<1>a. ASSUME Unfinished, NEW pc \in {"sweep", "fetch", "adopt"},
             Become(o, [pc |-> pc, task |-> row, target |-> NoTarget]),
             UNCHANGED <<platform, row, paid, resv>>
      PROVE  MoneyInv'
    <2> DEFINE state == [pc |-> pc, task |-> row, target |-> NoTarget]
    <2>1. state \in Observer
        BY <1>0 DEF Observer
    <2>2. MayBe(o, state)
        BY <1>0, <1>a DEF MayBe, Unfinished, SameMoney, MoneyInv, UnendedIsUntouched
    <2> QED BY <1>0, <1>a, <2>1, <2>2, LocalMoneyInv
<1>1. CASE SweepBegin(o)
    BY <1>1, <1>a DEF SweepBegin
<1>2. CASE SweepTask(o)
    <2> DEFINE new == [obs[o].task EXCEPT !.status = "FAILURE", !.complete = TRUE]
    <2>1. /\ new \in TaskRow /\ new.linked = obs[o].task.linked
          /\ new.quota = obs[o].task.quota /\ new.finalized = obs[o].task.finalized
          /\ new.status = "FAILURE"
        BY <1>0, LocalType DEF TaskRow, Statuses, Terminal
    <2>2. Following(o) /\ UNCHANGED <<platform, resv, paid>>
        BY <1>2 DEF SweepTask, Following
    <2>3. ASSUME NEW next \in {"idle", "refund"}, Write(o, new, next, NoTarget)
          PROVE  MoneyInv'
        <3> HIDE DEF new
        <3>1. "FAILURE" \in Terminal
            BY DEF Terminal
        <3> QED BY <2>1, <2>2, <2>3, <3>1, WriteMoneyInv
    <2>4. CASE UpdateWithStatus(obs[o].task.status, new) /\ Stop(o)
        <3>1. Write(o, new, "idle", NoTarget)
            BY <2>4 DEF Write
        <3> QED BY <2>3, <3>1
    <2>5. CASE /\ UpdateWithStatus(obs[o].task.status, new)
               /\ Become(o, Billing("refund", new, NoTarget))
        <3>1. Write(o, new, "refund", NoTarget)
            BY <2>5 DEF Write
        <3> QED BY <2>3, <3>1
    <2>6. CASE Goto(o, "list") /\ UNCHANGED row
        <3> DEFINE state == [obs[o] EXCEPT !.pc = "list"]
        <3>1. state \in Observer /\ state.pc = "list"
            BY <1>0, LocalType DEF Observer
        <3> QED BY <1>0, <2>2, <2>6, <3>1, LocalMoneyInv DEF Goto, MayBe
    <2> QED BY <1>2, <2>4, <2>5, <2>6 DEF SweepTask
<1>3. CASE RunTaskPollingOnce(o)
    BY <1>0, <1>3, <1>a, StopMoneyInv DEF RunTaskPollingOnce, Read
<1>4. CASE Adopt(o)
    BY <1>0, <1>4, AdoptMoneyInv
<1>5. CASE AdoptFails(o)
    <2> DEFINE state == [obs[o] EXCEPT !.pc = "fetch"]
    <2>1. state \in Observer /\ state.pc = "fetch" /\ state.task = obs[o].task
        BY <1>0, LocalType DEF Observer
    <2>2. MayBe(o, state)
        BY <1>0, <1>5, <2>1
        DEF MayBe, AdoptFails, Following, MoneyInv, CopiesUnended, UnendedIsUntouched
    <2> QED BY <1>0, <1>5, <2>1, <2>2, LocalMoneyInv DEF AdoptFails, Goto
<1>6. CASE FetchFails(o)
    BY <1>0, <1>6, StopMoneyInv DEF FetchFails
<1> QED BY <1>1, <1>2, <1>3, <1>4, <1>5, <1>6

\* A billing transaction on an ended row leaves its status and its link alone,
\* so it only has to keep the books of that outcome.
LEMMA EndedMoneyInv ==
    ASSUME TypeInv, MoneyInv, platform # "gemini", NEW o \in Observers, Stop(o),
           row.status \in Terminal, row'.status = row.status, platform' = platform,
           EndedIsBilledOneWay', DecisionRecorded'
    PROVE  MoneyInv'
<1>1. \A p \in Observers : obs'[p] = IF p = o THEN Idle ELSE obs[p]
    BY DEF TypeInv, TaskTypeOK, Stop, Become
<1>2. Nodes \subseteq Observers /\ "user" \in Observers /\ "reconciler" \in Observers
      /\ Idle.pc = "idle"
    BY DEF Observers, Idle
<1>3. CopiesUnended' /\ OnlyReads'
    BY <1>1, <1>2 DEF MoneyInv, CopiesUnended, OnlyReads, Following
<1>4. UnendedIsUntouched'
    BY DEF UnendedIsUntouched
<1> QED BY <1>3, <1>4 DEF MoneyInv

\* Billing: the target of a settlement, a settlement, a refund, or the legacy path.
LEMMA BillMoneyInv ==
    ASSUME TypeInv, LinkInv, MoneyInv, platform # "gemini", NEW o \in Observers, Bill(o)
    PROVE  MoneyInv'
<1>0. row \in TaskRow /\ resv \in Reservation /\ paid \in Int
    BY DEF TypeInv, TaskTypeOK
<1>a. /\ row.quota \in Int /\ resv.quota \in Int /\ obs[o].task.quota \in Int
      /\ obs[o].pc \in {"prepare", "settle"} => obs[o].target \in Int
    <2>1. row.quota \in Amounts /\ resv.quota \in Amounts /\ obs[o].task.quota \in Amounts
        BY <1>0, LocalType DEF TaskRow, Reservation
    <2> QED BY <2>1, LocalType, AmountsAreNat
<1> USE DEF job
<1>1. CASE PrepareSettlement(o)
    <2>1. /\ resv'.status = resv.status /\ resv'.quota = resv.quota
          /\ UNCHANGED <<platform, row, paid>>
        BY <1>0, <1>1 DEF PrepareSettlement, Reservation
    <2>2. CASE Stop(o)
        <3>1. Idle \in Observer /\ Idle.pc = "idle"
            BY IdleType DEF Idle
        <3> QED BY <2>1, <2>2, <3>1, LocalMoneyInv DEF Stop, MayBe
    <2>3. CASE Goto(o, "settle")
        <3> DEFINE state == [obs[o] EXCEPT !.pc = "settle"]
        <3>1. state \in Observer /\ state.pc = "settle"
            BY LocalType DEF Observer
        <3>2. o # "user"
            BY <1>1 DEF PrepareSettlement, MoneyInv, OnlyReads
        <3> QED BY <2>1, <2>3, <3>1, <3>2, LocalMoneyInv DEF Goto, MayBe
    <2> QED BY <1>1, <2>2, <2>3 DEF PrepareSettlement
<1>2. CASE Settle(o)
    <2> DEFINE target == obs[o].target
               ok == LinkedTo("SUCCESS") /\ Agrees(row, target)
                       /\ (resv.status = "reserved"
                             \/ (resv.status = "settled" /\ resv.quota = target))
    <2>1. CASE ~ok
        BY <1>2, <2>1, StopMoneyInv DEF Settle
    <2>2. CASE ok
        <3>1. /\ row.status = "SUCCESS" /\ row.linked /\ row.status \in Terminal
              /\ ~row.finalized /\ paid = row.quota /\ resv.quota = row.quota
            BY <2>2 DEF LinkedTo, MoneyInv, EndedIsBilledOneWay, Terminal
        <3>2. /\ row'.status = row.status /\ row'.linked = row.linked /\ row'.quota = target
              /\ row'.finalized = row.finalized
              /\ resv'.status = "settled" /\ resv'.quota = target
              /\ paid' = paid + target - resv.quota /\ platform' = platform
            BY <1>0, <1>2, <2>2 DEF Settle, SettledRow, TaskRow, Reservation
        <3>3. target \in Int
            BY <1>a, <1>2 DEF Settle
        <3>4. paid' = target
            BY <1>0, <1>a, <3>1, <3>2, <3>3
        <3>5. EndedIsBilledOneWay' /\ DecisionRecorded'
            BY <3>1, <3>2, <3>4 DEF EndedIsBilledOneWay, DecisionRecorded
        <3> QED BY <1>2, <3>1, <3>2, <3>5, EndedMoneyInv DEF Settle
    <2> QED BY <2>1, <2>2
<1>3. CASE RefundLinked(o)
    <2>1. CASE ~(LinkedTo("FAILURE") /\ Refundable)
        BY <1>3, <2>1, StopMoneyInv DEF RefundLinked
    <2>2. CASE LinkedTo("FAILURE") /\ Refundable
        <3>1. /\ row.status = "FAILURE" /\ row.linked /\ row.status \in Terminal
              /\ ~row.finalized
              /\ resv.status = "reserved" => paid = row.quota /\ resv.quota = row.quota
              /\ resv.status = "refunded" => paid = 0
              /\ resv.status \in {"reserved", "refunded"}
            BY <2>2 DEF LinkedTo, Refundable, MoneyInv, EndedIsBilledOneWay, Terminal
        <3>2. /\ row'.status = row.status /\ row'.linked = row.linked
              /\ row'.finalized = row.finalized /\ resv'.status = "refunded"
              /\ paid' = (IF resv.status = "refunded" THEN paid ELSE paid - resv.quota)
              /\ platform' = platform
            BY <1>0, <1>3, <2>2 DEF RefundLinked, TaskRow, Reservation
        <3>3. paid' = 0
            BY <1>0, <1>a, <3>1, <3>2
        <3>4. EndedIsBilledOneWay' /\ DecisionRecorded'
            BY <3>1, <3>2, <3>3 DEF EndedIsBilledOneWay, DecisionRecorded
        <3> QED BY <1>3, <3>1, <3>2, <3>4, EndedMoneyInv DEF RefundLinked
    <2> QED BY <2>1, <2>2
<1>4. CASE FinalizeLegacyTaskBilling(o)
    <2> DEFINE outcome == IF obs[o].pc = "refund" THEN "refund" ELSE "settle"
               quota == IF outcome = "refund" THEN obs[o].task.quota ELSE obs[o].target
    <2>1. CASE ~(quota # 0 /\ Finalizable(outcome))
        BY <1>4, <2>1, StopMoneyInv DEF FinalizeLegacyTaskBilling
    <2>2. CASE quota # 0 /\ Finalizable(outcome)
        <3>1. /\ ~row.linked /\ ~row.finalized /\ row.status \in Terminal
              /\ row.status = IF outcome = "settle" THEN "SUCCESS" ELSE "FAILURE"
            BY <2>2 DEF Finalizable, Terminal
        <3>2. ~Closed /\ paid = row.quota
            BY <3>1 DEF MoneyInv, EndedIsBilledOneWay
        <3>3. /\ row'.status = row.status /\ row'.linked = row.linked /\ row'.finalized
              /\ row'.quota = (IF outcome = "settle" THEN quota ELSE row.quota)
              /\ paid' = (IF outcome = "refund" THEN paid - row.quota
                                                ELSE paid + quota - row.quota)
              /\ resv' = resv /\ platform' = platform
            BY <1>0, <1>4, <2>2 DEF FinalizeLegacyTaskBilling, TaskRow
        <3>4. quota \in Int /\ outcome \in {"settle", "refund"}
            BY <1>a, <1>4 DEF FinalizeLegacyTaskBilling
        <3>5. paid' = IF row.status = "FAILURE" THEN 0 ELSE row'.quota
            <4> HIDE DEF quota, outcome
            <4> QED BY <1>0, <1>a, <3>1, <3>2, <3>3, <3>4
        <3>6. EndedIsBilledOneWay' /\ DecisionRecorded'
            BY <3>1, <3>2, <3>3, <3>5 DEF EndedIsBilledOneWay, DecisionRecorded, Closed
        <3> QED BY <1>4, <3>1, <3>3, <3>6, EndedMoneyInv DEF FinalizeLegacyTaskBilling
    <2> QED BY <2>1, <2>2
<1>5. CASE SettleRefused(o)
    BY <1>5, StopMoneyInv DEF SettleRefused
<1> QED BY <1>1, <1>2, <1>3, <1>4, <1>5 DEF Bill

\* Every step keeps the books of the task.
LEMMA StepMoneyInv == TypeInv /\ LinkInv /\ MoneyInv /\ [Next]_vars => MoneyInv'
<1> SUFFICES ASSUME TypeInv, LinkInv, MoneyInv, [Next]_vars PROVE MoneyInv'
    OBVIOUS
<1>0. /\ platform \in Platforms /\ row \in TaskRow
      /\ "user" \in Observers /\ "reconciler" \in Observers
      /\ "user" \notin Nodes /\ "reconciler" \notin Nodes
    BY NodesAssumption DEF TypeInv, TaskTypeOK, Observers
<1>a. platform' = platform
    BY DEF Next, Poller, User, Reconciler, Bill, vars, job, SweepBegin, SweepTask,
           RunTaskPollingOnce, Adopt, AdoptFails, FetchFails, UpdateSunoTask,
           UpdateVideoSingleTask, FetchByID, TryRealtimeFetch, PrepareSettlement, Settle,
           SettleRefused,
           RefundLinked, FinalizeLegacyTaskBilling, ReconcileStaleBillingReservation,
           UpstreamEnds, TimeoutPasses, Crash
<1>b. CASE platform = "gemini"
    BY <1>a, <1>b DEF MoneyInv, CopiesUnended, OnlyReads, UnendedIsUntouched,
                      EndedIsBilledOneWay, DecisionRecorded
<1>c. CASE platform # "gemini"
    <2> USE DEF money, job
    <2>1. ASSUME NEW o \in PollersOf[platform], Poller(o) PROVE MoneyInv'
        <3>1. o \in Nodes /\ o \in Observers
            BY <1>0, PollersAreNodes
        <3>2. CASE UpdateSunoTask(o) \/ UpdateVideoSingleTask(o)
            BY <1>c, <3>1, <3>2, AnswersWritten, WritesAnswerMoneyInv
            DEF UpdateSunoTask, UpdateVideoSingleTask, Following
        <3> QED BY <1>c, <2>1, <3>1, <3>2, PollMoneyInv, BillMoneyInv DEF Poller
    <2>2. CASE User
        <3>1. CASE TryRealtimeFetch
            BY <1>0, <1>c, <3>1, AnswersWritten, StopMoneyInv DEF TryRealtimeFetch
        <3>2. CASE FetchByID
            <4> DEFINE state == [pc |-> IF row.linked THEN "fetch" ELSE "adopt", task |-> row,
                                 target |-> NoTarget]
            <4>1. state \in Observer /\ state.pc \in {"fetch", "adopt"}
                BY <1>0 DEF Observer
            <4>2. MayBe("user", state)
                BY <1>0, <4>1 DEF MayBe
            <4> QED BY <1>0, <1>c, <3>2, <4>1, <4>2, LocalMoneyInv DEF FetchByID, Read
        <3>3. CASE AdoptFails("user")
            <4> DEFINE state == [obs["user"] EXCEPT !.pc = "fetch"]
            <4>1. state \in Observer /\ state.pc = "fetch"
                BY <1>0, LocalType DEF Observer
            <4>2. MayBe("user", state)
                BY <1>0, <4>1 DEF MayBe
            <4> QED BY <1>0, <1>c, <3>3, <4>1, <4>2, LocalMoneyInv DEF AdoptFails, Goto
        <3>4. CASE FetchFails("user")
            BY <1>0, <1>c, <3>4, StopMoneyInv DEF FetchFails
        <3> QED BY <1>0, <1>c, <2>2, <3>1, <3>2, <3>3, <3>4, AdoptMoneyInv, BillMoneyInv
            DEF User
    <2>3. CASE Reconciler
        <3> DEFINE target == IF row.target # NoTarget THEN row.target
                             ELSE IF resv.pending # NoTarget THEN resv.pending ELSE row.quota
                   copy == [row EXCEPT !.linked = TRUE]
        <3>1. CASE ReconcileStaleBillingReservation
            <4>1. copy \in TaskRow /\ target \in Amounts
                BY <1>0 DEF TypeInv, TaskTypeOK, TaskRow, Reservation
            <4>2. PICK next \in {"prepare", "refund"}, t \in Amounts \cup {NoTarget} :
                     Become("reconciler", Billing(next, copy, t))
                BY <3>1, <4>1 DEF ReconcileStaleBillingReservation
            <4>3. Billing(next, copy, t) \in Observer /\ Billing(next, copy, t).pc = next
                BY <4>1, BillingType
            <4>4. MayBe("reconciler", Billing(next, copy, t))
                BY <1>0, <4>3 DEF MayBe
            <4> QED BY <1>0, <1>c, <3>1, <4>2, <4>3, <4>4, LocalMoneyInv
                DEF ReconcileStaleBillingReservation
        <3> QED BY <1>0, <1>c, <2>3, <3>1, BillMoneyInv DEF Reconciler
    <2>4. CASE UpstreamEnds \/ TimeoutPasses
        BY <2>4 DEF UpstreamEnds, TimeoutPasses, MoneyInv, CopiesUnended, OnlyReads,
            UnendedIsUntouched, EndedIsBilledOneWay, DecisionRecorded, Following,
            SameMoney, Closed
    <2>5. ASSUME NEW o \in Observers, Crash(o) PROVE MoneyInv'
        BY <1>c, <2>5, StopMoneyInv DEF Crash
    <2>6. CASE UNCHANGED vars
        BY <2>6 DEF vars, MoneyInv, CopiesUnended, OnlyReads,
            UnendedIsUntouched, EndedIsBilledOneWay, DecisionRecorded, Following,
            SameMoney, Closed
    <2> QED BY <2>1, <2>2, <2>3, <2>4, <2>5, <2>6 DEF Next
<1> QED BY <1>b, <1>c

\* The three invariants together are inductive.
LEMMA Inductive == Spec => [](TypeInv /\ LinkInv /\ MoneyInv)
<1> QED BY InitTypeInv, InitLinkInv, InitMoneyInv, StepTypeInv, StepLinkInv, StepMoneyInv,
           PTL DEF Spec

-----------------------------------------------------------------------------
(* The theorems                                                            *)

\* For any number of overlapping polling passes, any quotas and any number of
\* crashes and failed transactions, the user of a task whose provider is not
\* asked in real time pays once, and what the outcome says (UpdateWithStatus,
\* SettleTaskBillingReservation, RefundTaskBillingReservation,
\* finalizeLegacyTaskBilling).
THEOREM TaskIsPaidOnce == Spec => []PaidOnce
<1>1. TypeInv /\ LinkInv /\ MoneyInv => PaidOnce
    <2> SUFFICES ASSUME TypeInv, LinkInv, MoneyInv, platform # "gemini"
                 PROVE  /\ resv.status = "refunded" => paid = 0 /\ row.status = "FAILURE"
                        /\ resv.status = "settled" => paid = row.quota /\ row.status = "SUCCESS"
                        /\ row.finalized =>
                             ~Closed /\ paid = IF row.status = "FAILURE" THEN 0 ELSE row.quota
                        /\ ~row.finalized /\ ~Closed => paid = row.quota
        BY DEF PaidOnce
    <2>0. resv.status \in {"none", "reserved", "settled", "refunded"}
        BY DEF TypeInv, TaskTypeOK, Reservation
    <2>1. CASE row.status \notin Terminal
        BY <2>1 DEF MoneyInv, UnendedIsUntouched, Closed
    <2>2. CASE row.status \in Terminal /\ row.linked
        <3>1. resv.status # "none"
            BY <2>2 DEF LinkInv, LinksHold
        <3> QED BY <2>0, <2>2, <3>1 DEF MoneyInv, EndedIsBilledOneWay, Closed
    <2>3. CASE row.status \in Terminal /\ ~row.linked
        BY <2>3 DEF MoneyInv, EndedIsBilledOneWay, Closed
    <2> QED BY <2>1, <2>2, <2>3
<1> QED BY <1>1, Inductive, PTL

\* A row that has ended keeps its status in every step.
LEMMA EndedStatusStays ==
    ASSUME TypeInv, LinkInv, MoneyInv, Next, platform # "gemini", row.status \in Terminal
    PROVE  row'.status = row.status
<1>0. platform \in Platforms /\ row \in TaskRow /\ "user" \in Observers
    BY DEF TypeInv, TaskTypeOK, Observers
<1>a. ASSUME NEW o, Bill(o) PROVE row'.status = row.status
    BY <1>0, <1>a DEF Bill, PrepareSettlement, Settle, SettledRow, SettleRefused, RefundLinked,
                      FinalizeLegacyTaskBilling, TaskRow
<1>1. ASSUME NEW o \in PollersOf[platform], Poller(o) PROVE row'.status = row.status
    <2>1. o \in Nodes /\ o \in Observers
        BY <1>0, PollersAreNodes
    <2>2. Following(o) => row.status # obs[o].task.status
        BY <2>1 DEF MoneyInv, CopiesUnended
    <2>3. CASE SweepTask(o)
        BY <2>2, <2>3 DEF SweepTask, Following, UpdateWithStatus
    <2>4. CASE UpdateSunoTask(o) \/ UpdateVideoSingleTask(o)
        <3>1. WritesAnswer(o) /\ Following(o)
            BY <2>1, <2>4, AnswersWritten DEF UpdateSunoTask, UpdateVideoSingleTask, Following
        <3> QED BY <2>2, <3>1 DEF WritesAnswer, Write, UpdateWithStatus
    <2>5. CASE Adopt(o)
        BY <2>5 DEF Adopt
    <2> QED BY <1>1, <1>a, <2>3, <2>4, <2>5
        DEF Poller, SweepBegin, RunTaskPollingOnce, AdoptFails, FetchFails
<1>2. CASE User
    <2>1. CASE TryRealtimeFetch
        BY <1>0, <2>1, AnswersWritten
    <2>2. CASE Adopt("user")
        BY <2>2 DEF Adopt
    <2> QED BY <1>2, <1>a, <2>1, <2>2 DEF User, FetchByID, AdoptFails, FetchFails
<1>3. CASE Reconciler
    BY <1>3, <1>a DEF Reconciler, ReconcileStaleBillingReservation
<1>4. CASE UpstreamEnds \/ TimeoutPasses \/ \E o \in Observers : Crash(o)
    BY <1>4 DEF UpstreamEnds, TimeoutPasses, Crash
<1> QED BY <1>1, <1>2, <1>3, <1>4 DEF Next

\* A reservation the task was submitted with is closed once, on any platform.
LEMMA ClosedStaysClosed ==
    ASSUME TypeInv, LinkInv, Next, ~resv.adopted, Closed
    PROVE  paid' = paid /\ resv'.status = resv.status
<1>0. row \in TaskRow /\ resv \in Reservation /\ paid \in Int /\ row.linked
    BY DEF TypeInv, TaskTypeOK, LinkInv, BornLinked, Closed
<1>1. resv.quota \in Int
    <2>1. resv.quota \in Amounts
        BY <1>0 DEF Reservation
    <2> QED BY <2>1, AmountsAreNat
<1>2. ASSUME NEW o, Bill(o) PROVE paid' = paid /\ resv'.status = resv.status
    <2>1. CASE PrepareSettlement(o)
        BY <1>0, <2>1 DEF PrepareSettlement, Reservation
    <2>2. CASE Settle(o)
        <3>1. CASE resv.status = "settled" /\ resv.quota = obs[o].target
            <4>1. paid + obs[o].target - resv.quota = paid
                BY <1>0, <1>1, <3>1
            <4> QED BY <1>0, <2>2, <3>1, <4>1 DEF Settle, Reservation
        <3>2. CASE ~(resv.status = "settled" /\ resv.quota = obs[o].target)
            BY <2>2, <3>2 DEF Settle, Closed
        <3> QED BY <3>1, <3>2
    <2>3. CASE RefundLinked(o)
        BY <1>0, <2>3 DEF RefundLinked, Refundable, Closed, Reservation
    <2>4. CASE FinalizeLegacyTaskBilling(o)
        BY <1>0, <2>4 DEF FinalizeLegacyTaskBilling, Finalizable
    <2>5. CASE SettleRefused(o)
        BY <2>5 DEF SettleRefused
    <2> QED BY <1>2, <2>1, <2>2, <2>3, <2>4, <2>5 DEF Bill
<1>3. ASSUME NEW o, Adopt(o) PROVE paid' = paid /\ resv'.status = resv.status
    BY <1>0, <1>3 DEF Adopt
<1>4. ASSUME NEW o, Poller(o) PROVE paid' = paid /\ resv'.status = resv.status
    BY <1>2, <1>3, <1>4
    DEF Poller, SweepBegin, SweepTask, RunTaskPollingOnce, AdoptFails, FetchFails,
        UpdateSunoTask, UpdateVideoSingleTask, money
<1>5. CASE User
    BY <1>2, <1>3, <1>5 DEF User, FetchByID, AdoptFails, FetchFails, TryRealtimeFetch, money
<1>6. CASE Reconciler
    BY <1>2, <1>6 DEF Reconciler, ReconcileStaleBillingReservation, money
<1>7. CASE UpstreamEnds \/ TimeoutPasses \/ \E o \in Observers : Crash(o)
    BY <1>7 DEF UpstreamEnds, TimeoutPasses, Crash, money
<1> QED BY <1>4, <1>5, <1>6, <1>7 DEF Next

\* An ended Suno or video task keeps its status whatever stale copies are still
\* being written, and on every platform, the ones asked in real time included,
\* the first outcome billed for a task that was submitted with a reservation
\* stands: no later step moves its money.
THEOREM TaskStaysEnded == Spec => EndedStaysEnded
<1> DEFINE Stays == /\ platform # "gemini" /\ row.status \in Terminal =>
                         row'.status = row.status
                    /\ ~resv.adopted /\ Closed => paid' = paid /\ resv'.status = resv.status
<1>1. TypeInv /\ LinkInv /\ MoneyInv /\ [Next]_vars => [Stays]_vars
    <2> SUFFICES ASSUME TypeInv, LinkInv, MoneyInv, Next PROVE Stays
        OBVIOUS
    <2> QED BY EndedStatusStays, ClosedStaysClosed
<1>2. Spec => [][Stays]_vars
    <2> HIDE DEF Stays
    <2> QED BY <1>1, Inductive, PTL DEF Spec
<1> QED BY <1>2 DEF EndedStaysEnded

\* Whoever settles a video's reservation, after whatever crash, settles it at the
\* quota that was written together with its success (RecordBillingTargetQuota).
THEOREM VideoIsChargedAsDecided == Spec => DecisionIsCharged
<1> DEFINE Charged == platform = "video" /\ resv.status = "reserved" /\ resv'.status = "settled"
                        => row.target = resv'.quota
<1>1. TypeInv /\ LinkInv /\ MoneyInv /\ [Next]_vars => [Charged]_vars
    <2> SUFFICES ASSUME TypeInv, LinkInv, MoneyInv, Next, platform = "video",
                        resv.status = "reserved", resv'.status = "settled"
                 PROVE  row.target = resv'.quota
        OBVIOUS
    <2>0. resv \in Reservation
        BY DEF TypeInv, TaskTypeOK
    <2>1. PICK o : Settle(o)
        <3> USE DEF money
        <3>1. ASSUME NEW o, Bill(o), ~Settle(o) PROVE resv'.status # "settled"
            BY <2>0, <3>1 DEF Bill, PrepareSettlement, SettleRefused, RefundLinked,
                              FinalizeLegacyTaskBilling, Reservation
        <3>2. ASSUME NEW o, Poller(o), ~Settle(o) PROVE resv'.status # "settled"
            BY <3>1, <3>2 DEF Poller, SweepBegin, SweepTask, RunTaskPollingOnce, Adopt,
                AdoptFails, FetchFails, UpdateSunoTask, UpdateVideoSingleTask
        <3>3. CASE User
            BY <3>1, <3>3 DEF User, FetchByID, Adopt, AdoptFails, FetchFails, TryRealtimeFetch
        <3>4. CASE Reconciler
            BY <3>1, <3>4 DEF Reconciler, ReconcileStaleBillingReservation
        <3> QED BY <3>2, <3>3, <3>4 DEF Next, UpstreamEnds, TimeoutPasses, Crash
    <2>2. /\ LinkedTo("SUCCESS") /\ Agrees(row, obs[o].target)
          /\ resv' = [resv EXCEPT !.status = "settled", !.quota = obs[o].target,
                                  !.pending = NoTarget]
        BY <2>1 DEF Settle
    <2>3. row.target # NoTarget
        BY <2>2 DEF LinkedTo, MoneyInv, DecisionRecorded
    <2> QED BY <2>0, <2>2, <2>3 DEF Agrees, Reservation
<1>2. Spec => [][Charged]_vars
    <2> HIDE DEF Charged
    <2> QED BY <1>1, Inductive, PTL DEF Spec
<1> QED BY <1>2 DEF DecisionIsCharged

=============================================================================
