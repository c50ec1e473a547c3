----------------------- MODULE PaymentSettingsProofs -----------------------
(***************************************************************************)
(* That no copy of the payment options passes for newer than it is, and    *)
(* that the settings page overwrites nothing it has not loaded, for any    *)
(* number of nodes, options, values and versions.                          *)
(***************************************************************************)
EXTENDS PaymentSettings, TLAPS

-----------------------------------------------------------------------------
(* The inductive invariants                                                *)

Maps == UNION {[S -> Values] : S \in SUBSET Fields}

JobRow == [todo : SUBSET Fields, val : [Fields -> Values], ver : 1..MaxVersion,
           owner : {"reload", "page", "other"}]

OpRow == [kind : {"none", "general", "pancake", "secret", "disable", "rival"},
          step : {"none", "sent", "methods", "dialog", "preview", "synced", "applying", "ok",
                  "failed", "refreshing"},
          vals : Maps, seen : Maps, expected : 0..MaxVersion, node : Nodes \cup {"none"},
          next : 0..MaxVersion, clean : BOOLEAN, rerun : BOOLEAN]

Requested == {[step |-> "none"], [step |-> "asked"]}
             \cup [step : {"synced"}, node : Nodes]
             \cup [step : {"answered"}, data : Snapshot]

TypeInv ==
    /\ db \in [Fields -> Values] /\ dbver \in 1..MaxVersion
    /\ cache \in [Nodes -> Snapshot] /\ data \in Snapshot
    /\ job \in [Nodes -> JobRow \cup {NoJob}]
    /\ ver \in 0..MaxVersion
    /\ base \in [Plain -> Values] /\ saved \in Values
    /\ op \in OpRow /\ verifying \in OpRow
    /\ op.step = "synced" => op.node \in Nodes
    /\ fetch \in Requested
    /\ rival \in BOOLEAN /\ displaced \in BOOLEAN

\* A snapshot is of a version that exists, and of the newest one only with its
\* values.
Honest(s) == s.ver <= dbver /\ (s.ver = dbver => s.val = db)

\* Whoever holds a node's lock brings it a newer version; what is not to be
\* written any more has the value of that version.
JobsHonest ==
    \A n \in Nodes : job[n].owner # "free" =>
        /\ Honest(job[n])
        /\ cache[n].ver < job[n].ver
        /\ \A f \in Fields \ job[n].todo : cache[n].val[f] = job[n].val[f]

CopiesHonest ==
    /\ \A n \in Nodes : Honest(cache[n])
    /\ Honest(data)
    /\ fetch.step = "answered" => Honest(fetch.data)

\* The version a write carries was current no later than the write; the node
\* that received it has at least that version.
WritesHonest ==
    /\ ver <= dbver /\ op.expected <= dbver /\ op.next <= dbver
    /\ op.step = "synced" => op.expected <= cache[op.node].ver

CopyInv == JobsHonest /\ CopiesHonest /\ WritesHonest

\* A write that may still be accepted, of a page in step with its data, knows the
\* values it replaces.
SeenIsCurrent ==
    op.clean /\ ~(op.kind = "pancake" /\ op.rerun) /\ op.expected = dbver =>
        \A f \in DOMAIN op.seen : db[f] = op.seen[f]

\* The lock of a node is the page's only while the page's write is applied there.
PageHoldsOneLock ==
    \A n \in Nodes : job[n].owner = "page" => op.step = "applying" /\ op.node = n

\* One operation at most waits in the dialog, and unless the dialog was taken over
\* it is the one that was confirmed.
DialogIsOfOperation ==
    /\ ~(op.step = "dialog" /\ rival)
    /\ verifying # NoOp /\ ~displaced =>
         \/ op.step = "dialog" /\ verifying = op
         \/ rival /\ verifying = Rival

OperationInv == PageHoldsOneLock /\ DialogIsOfOperation

-----------------------------------------------------------------------------
(* Types                                                                   *)

\* The empty map, and the operation that is none.
LEMMA EmptyMap == <<>> \in Maps /\ DOMAIN <<>> = {}
<1>1. DOMAIN <<>> = {}
    OBVIOUS
<1>2. <<>> = [f \in {} |-> Empty]
    BY <1>1
<1>3. [f \in {} |-> Empty] \in [{} -> Values]
    OBVIOUS
<1>4. {} \in SUBSET Fields
    OBVIOUS
<1> QED BY <1>1, <1>2, <1>3, <1>4 DEF Maps

LEMMA NoOpType == NoOp \in OpRow /\ NoOp.step = "none" /\ NoOp.expected = 0 /\ NoOp.next = 0
                  /\ NoOp.clean = FALSE /\ NoOp.rerun = FALSE
BY EmptyMap, SettingsAssumption DEF NoOp, OpRow

\* So is the rival, and what a refresh makes of an operation.
LEMMA RivalType == Rival \in OpRow
BY NoOpType DEF Rival, OpRow

Refreshing == [NoOp EXCEPT !.step = "refreshing", !.rerun = op.rerun]

LEMMA RefreshingType ==
    ASSUME op \in OpRow
    PROVE  /\ Refreshing \in OpRow /\ Refreshing.step = "refreshing"
           /\ Refreshing.expected = 0 /\ Refreshing.next = 0
           /\ Refreshing.clean = FALSE /\ Refreshing.rerun = op.rerun
BY NoOpType DEF Refreshing, OpRow

\* A map from some of the fields.
LEMMA MapType ==
    ASSUME NEW S \in SUBSET Fields, NEW m \in [S -> Values]
    PROVE  m \in Maps
BY DEF Maps

\* What is known of a map.
LEMMA MapFacts ==
    ASSUME NEW m \in Maps
    PROVE  DOMAIN m \subseteq Fields /\ \A f \in DOMAIN m : m[f] \in Values
BY DEF Maps

\* The initial state is well typed.
LEMMA InitTypeInv == SettingsInit => TypeInv
<1> SUFFICES ASSUME SettingsInit PROVE TypeInv
    OBVIOUS
<1> USE SettingsAssumption
<1>1. db \in [Fields -> Values] /\ dbver \in 1..MaxVersion /\ ver \in 1..MaxVersion
    BY DEF SettingsInit
<1>2. cache \in [Nodes -> Snapshot] /\ data \in Snapshot
    BY <1>1 DEF SettingsInit, Snapshot
<1>3. base \in [Plain -> Values] /\ saved \in Values
    BY <1>1 DEF SettingsInit, OfForm, Fields
<1>4. job \in [Nodes -> JobRow \cup {NoJob}] /\ fetch \in Requested
    BY DEF SettingsInit, Requested, NoFetch
<1>5. op = NoOp /\ verifying = NoOp
    BY DEF SettingsInit
<1>6. rival \in BOOLEAN /\ displaced \in BOOLEAN
    BY DEF SettingsInit
<1>7. op \in OpRow /\ verifying \in OpRow /\ op.step # "synced"
    BY <1>5, NoOpType
<1> QED BY <1>1, <1>2, <1>3, <1>4, <1>6, <1>7 DEF TypeInv

\* What a commit does to the types.
LEMMA CommitType ==
    ASSUME TypeInv, NEW n \in Nodes, NEW vals \in Maps, NEW owner \in {"page", "other"},
           dbver < MaxVersion, Commit(n, vals, owner)
    PROVE  /\ db' \in [Fields -> Values] /\ dbver' \in 1..MaxVersion
           /\ job' \in [Nodes -> JobRow \cup {NoJob}]
<1>1. DOMAIN vals \subseteq Fields /\ \A f \in DOMAIN vals : vals[f] \in Values
    BY MapFacts
<1>2. db' \in [Fields -> Values]
    BY <1>1 DEF Commit, TypeInv
<1>3. dbver' \in 1..MaxVersion
    BY SettingsAssumption DEF Commit, TypeInv
<1>4. [todo |-> DOMAIN vals, val |-> db', ver |-> dbver', owner |-> owner] \in JobRow
    BY <1>1, <1>2, <1>3 DEF JobRow
<1> QED BY <1>2, <1>3, <1>4 DEF Commit, TypeInv

\* The cluster keeps the types.
LEMMA ClusterTypeInv ==
    ASSUME TypeInv, NEW n \in Nodes,
           ReloadOptions(n) \/ ApplyOption(n) \/ ApplyVersion(n) \/ ReceiveWrite(n)
             \/ ApplyFails(n) \/ OtherSession(n)
    PROVE  TypeInv'
<1> USE DEF dialog
<1>1. CASE ReloadOptions(n)
    <2>1. [todo |-> Fields, val |-> db, ver |-> dbver, owner |-> "reload"] \in JobRow
        BY DEF TypeInv, JobRow
    <2> QED BY <1>1, <2>1 DEF ReloadOptions, TypeInv, page
<1>2. CASE ApplyOption(n)
    <2>1. job[n] \in JobRow
        BY <1>2 DEF ApplyOption, TypeInv, NoJob
    <2>2. PICK f \in job[n].todo :
             /\ cache' = [cache EXCEPT ![n].val[f] = job[n].val[f]]
             /\ job' = [job EXCEPT ![n].todo = @ \ {f}]
        BY <1>2 DEF ApplyOption
    <2>3. cache' \in [Nodes -> Snapshot]
        BY <2>1, <2>2 DEF TypeInv, Snapshot, JobRow
    <2>4. job' \in [Nodes -> JobRow \cup {NoJob}]
        BY <2>1, <2>2 DEF TypeInv, JobRow
    <2> QED BY <1>2, <2>3, <2>4 DEF ApplyOption, TypeInv, page
<1>3. CASE ApplyVersion(n)
    <2>1. job[n] \in JobRow
        BY <1>3 DEF ApplyVersion, Free, TypeInv, NoJob
    <2>2. cache' \in [Nodes -> Snapshot]
        BY <1>3, <2>1 DEF ApplyVersion, TypeInv, Snapshot, JobRow
    <2>3. job' \in [Nodes -> JobRow \cup {NoJob}]
        BY <1>3 DEF ApplyVersion, TypeInv
    <2>4. op' = op \/ \E answer \in {"ok", "failed"} : op' = [op EXCEPT !.step = answer]
        BY <1>3 DEF ApplyVersion
    <2> QED BY <1>3, <2>2, <2>3, <2>4 DEF ApplyVersion, TypeInv, page, OpRow
<1>4. CASE ReceiveWrite(n)
    <2>1. op' = NoOp \/ op' = [op EXCEPT !.step = "methods"]
            \/ op' = [op EXCEPT !.step = "synced", !.node = n]
        BY <1>4 DEF ReceiveWrite, VerificationDemanded
    <2>2. op' \in OpRow /\ (op'.step = "synced" => op'.node \in Nodes)
        BY <2>1, NoOpType DEF TypeInv, OpRow
    <2> QED BY <1>4, <2>2 DEF ReceiveWrite, TypeInv, page, server
<1>5. CASE OtherSession(n)
    <2>1. PICK vals \in Maps : Commit(n, vals, "other")
        <3>1. PICK S \in {{}} \cup {{f} : f \in Fields} : \E vals \in [S -> Values] :
                 Commit(n, vals, "other")
            BY <1>5 DEF OtherSession
        <3>2. S \in SUBSET Fields
            OBVIOUS
        <3> QED BY <3>1, <3>2, MapType
    <2>2. /\ db' \in [Fields -> Values] /\ dbver' \in 1..MaxVersion
          /\ job' \in [Nodes -> JobRow \cup {NoJob}]
        BY <1>5, <2>1, CommitType DEF OtherSession
    <2> QED BY <1>5, <2>2 DEF OtherSession, TypeInv, page
<1>6. CASE ApplyFails(n)
    <2>1. job' \in [Nodes -> JobRow \cup {NoJob}]
        BY <1>6 DEF ApplyFails, TypeInv
    <2>2. op' = op \/ op' = [op EXCEPT !.step = "failed"]
        BY <1>6 DEF ApplyFails
    <2> QED BY <1>6, <2>1, <2>2 DEF ApplyFails, TypeInv, page, OpRow
<1> QED BY <1>1, <1>2, <1>3, <1>4, <1>5, <1>6

\* So do the write and its answers.
LEMMA WriteTypeInv ==
    ASSUME TypeInv, WriteSettings \/ AnswerOk \/ AnswerError \/ GiveUp
    PROVE  TypeInv'
<1> USE DEF dialog
<1>1. op.vals \in Maps /\ op.expected \in 0..MaxVersion
    BY DEF TypeInv, OpRow
<1>2. CASE WriteSettings
    <2>1. CASE Commit(op.node, op.vals, "page") /\ dbver < MaxVersion
                 /\ op' = [op EXCEPT !.step = "applying", !.next = dbver + 1] /\ UNCHANGED fetch
        <3>1. op.node \in Nodes
            BY <1>2 DEF WriteSettings, TypeInv
        <3>2. /\ db' \in [Fields -> Values] /\ dbver' \in 1..MaxVersion
              /\ job' \in [Nodes -> JobRow \cup {NoJob}]
            BY <1>1, <2>1, <3>1, CommitType
        <3>3. op' \in OpRow /\ op'.step = "applying"
            <4>1. dbver + 1 \in 0..MaxVersion
                BY <2>1, SettingsAssumption DEF TypeInv
            <4> QED BY <2>1, <4>1 DEF TypeInv, OpRow
        <3> QED BY <1>2, <2>1, <3>2, <3>3 DEF WriteSettings, TypeInv, page
    <2>2. CASE Refresh /\ UNCHANGED <<db, dbver, job>>
        <3>1. op' \in OpRow /\ op'.step = "refreshing" /\ fetch' \in Requested
            BY <2>2, RefreshingType DEF Refresh, Refreshing, Asked, Requested, TypeInv
        <3> QED BY <1>2, <2>2, <3>1 DEF WriteSettings, TypeInv, page
    <2>3. CASE op' = NoOp /\ UNCHANGED <<db, dbver, job, fetch>>
        BY <1>2, <2>3, NoOpType DEF WriteSettings, TypeInv, page
    <2> QED BY <1>2, <2>1, <2>2, <2>3 DEF WriteSettings
<1>3. CASE AnswerOk
    <2>1. op' \in OpRow /\ op'.step = "refreshing" /\ fetch' \in Requested
        BY <1>3, RefreshingType DEF AnswerOk, Refresh, Refreshing, Asked, Requested, TypeInv
    <2>2. ver' \in 0..MaxVersion
        BY <1>3 DEF AnswerOk, TypeInv, OpRow
    <2>3. base' \in [Plain -> Values] /\ saved' \in Values
        BY <1>1, <1>3, MapFacts DEF AnswerOk, TypeInv
    <2> QED BY <1>3, <2>1, <2>2, <2>3 DEF AnswerOk, TypeInv, server
<1>4. CASE AnswerError
    BY <1>4, NoOpType DEF AnswerError, TypeInv, server, page
<1>5. CASE GiveUp
    <2>1. job' \in [Nodes -> JobRow \cup {NoJob}]
        BY <1>5 DEF GiveUp, TypeInv, JobRow, NoJob
    <2> QED BY <1>5, <2>1, NoOpType DEF GiveUp, TypeInv, page
<1> QED BY <1>2, <1>3, <1>4, <1>5

\* So does the query.
LEMMA QueryTypeInv ==
    ASSUME TypeInv, Query \/ Refetch \/ ReloadPage
    PROVE  TypeInv'
<1> USE DEF dialog
<1> DEFINE Ends == op' \in {op, NoOp}
<1>1. Ends => op' \in OpRow /\ (op'.step = "synced" => op'.node \in Nodes)
    BY NoOpType DEF TypeInv
<1>2. ASSUME NEW n \in Nodes, SyncForRead(n) PROVE TypeInv'
    BY <1>2 DEF SyncForRead, TypeInv, Requested, server, page
<1>3. CASE ReadOptions
    <2>1. fetch.node \in Nodes
        BY <1>3 DEF ReadOptions, TypeInv, Requested
    <2>2. fetch' \in Requested
        BY <1>3, <2>1 DEF ReadOptions, TypeInv, Requested
    <2> QED BY <1>3, <2>2 DEF ReadOptions, TypeInv, server, page
<1>4. CASE FetchFails
    <2>1. Ends
        BY <1>4 DEF FetchFails, EndRefresh
    <2> QED BY <1>1, <1>4, <2>1 DEF FetchFails, TypeInv, NoFetch, Requested, server, page
<1>5. CASE FetchLands \/ ReloadPage
    <2>1. fetch.data \in Snapshot
        BY <1>5 DEF FetchLands, ReloadPage, TypeInv, Requested
    <2>2. OfForm(fetch.data.val) \in [Plain -> Values] /\ fetch.data.val[Binding] \in Values
            /\ fetch.data.ver \in 1..MaxVersion
        BY <2>1 DEF Snapshot, OfForm, Fields
    <2>3. Ends
        BY <1>5 DEF FetchLands, ReloadPage, EndRefresh
    <2>4. /\ data' \in Snapshot /\ ver' \in 0..MaxVersion
          /\ base' \in [Plain -> Values] /\ saved' \in Values
        BY <1>5, <2>1, <2>2 DEF FetchLands, ReloadPage, VersionEffect, DefaultsEffect,
             BindingEffect, TypeInv
    <2>5. fetch' \in Requested
        BY <1>5 DEF FetchLands, ReloadPage, NoFetch, Requested
    <2>6. verifying' \in OpRow /\ rival' \in BOOLEAN
            /\ displaced' \in BOOLEAN
        BY <1>5, NoOpType DEF FetchLands, ReloadPage, TypeInv
    <2> QED BY <1>1, <1>5, <2>3, <2>4, <2>5, <2>6 DEF FetchLands, ReloadPage, TypeInv, server
<1>6. CASE Refetch
    BY <1>6 DEF Refetch, Asked, TypeInv, Requested, server, page
<1> QED BY <1>2, <1>3, <1>4, <1>5, <1>6 DEF Query

\* So do the operations of the user and the dialog.
LEMMA UserTypeInv ==
    ASSUME TypeInv,
           \/ SaveSection \/ SavePancake \/ ChangeSecret
           \/ \E n \in Nodes : OpenPreview(n)
           \/ ConfirmPreview \/ ClosePreview \/ ConfirmDialog \/ CancelDialog
           \/ VerifySucceeds \/ VerifyFails
    PROVE  TypeInv'
<1> USE DEF dialog
<1>1. ASSUME NEW kind \in {"general", "pancake", "secret", "disable"},
             NEW vals \in Maps, NEW seen \in Maps, NEW expected \in 0..MaxVersion,
             NEW step \in {"sent", "preview"}, Start(kind, vals, seen, expected, step)
      PROVE  TypeInv'
    <2>1. InStep \in BOOLEAN
        BY DEF InStep
    <2>2. op' \in OpRow /\ op'.step # "synced"
        BY <1>1, <2>1, NoOpType DEF Start, OpRow
    <2> QED BY <1>1, <2>2 DEF Start, TypeInv, server, page
<1>2. CASE SaveSection
    <2>1. PICK S \in SUBSET Plain \ {{}} : \E vals \in [S -> Values] :
             Start("general", vals, [f \in S |-> base[f]], ver, "sent")
        BY <1>2 DEF SaveSection
    <2>2. S \in SUBSET Fields /\ [f \in S |-> base[f]] \in [S -> Values]
        BY DEF Fields, TypeInv
    <2>3. PICK vals \in [S -> Values] :
             Start("general", vals, [f \in S |-> base[f]], ver, "sent")
        BY <2>1
    <2>4. vals \in Maps /\ [f \in S |-> base[f]] \in Maps /\ ver \in 0..MaxVersion
        BY <2>2, <2>3, MapType DEF TypeInv
    <2> QED BY <1>1, <2>3, <2>4
<1>3. CASE SavePancake
    <2>1. PICK v \in Values :
             Start("pancake", [f \in {Binding} |-> v], [f \in {Binding} |-> saved], ver, "sent")
        BY <1>3 DEF SavePancake
    <2>2. {Binding} \in SUBSET Fields
        BY DEF Fields
    <2>3. [f \in {Binding} |-> v] \in [{Binding} -> Values]
            /\ [f \in {Binding} |-> saved] \in [{Binding} -> Values]
        BY DEF TypeInv
    <2>4. [f \in {Binding} |-> v] \in Maps /\ [f \in {Binding} |-> saved] \in Maps
            /\ ver \in 0..MaxVersion
        BY <2>2, <2>3, MapType DEF TypeInv
    <2> QED BY <1>1, <2>1, <2>4
<1>4. CASE ChangeSecret
    <2>1. ver \in 0..MaxVersion
        BY DEF TypeInv
    <2> QED BY <1>1, <1>4, <2>1, EmptyMap DEF ChangeSecret
<1>5. ASSUME NEW n \in Nodes, OpenPreview(n) PROVE TypeInv'
    <2>1. {Binding} \in SUBSET Fields /\ [f \in {Binding} |-> Empty] \in [{Binding} -> Values]
        BY SettingsAssumption DEF Fields
    <2>2. [f \in {Binding} |-> Empty] \in Maps
        BY <2>1, MapType
    <2>3. cache[n].ver \in 0..MaxVersion
        BY DEF TypeInv, Snapshot
    <2> QED BY <1>1, <1>5, <2>2, <2>3, EmptyMap DEF OpenPreview
<1>6. CASE ConfirmPreview
    BY <1>6 DEF ConfirmPreview, TypeInv, OpRow, server, page
<1>7. CASE ClosePreview \/ CancelDialog
    <2>1. op' \in {op, NoOp}
        BY <1>7 DEF ClosePreview, CancelDialog, CloseDialog
    <2> QED BY <1>7, <2>1, NoOpType DEF ClosePreview, CancelDialog, CloseDialog, TypeInv, server, page
<1>8. CASE ConfirmDialog
    BY <1>8, RivalType DEF ConfirmDialog, TypeInv, server, page
<1>9. CASE VerifySucceeds
    <2>1. op' = op \/ \E e \in {ver, op.expected} :
                        op' = [op EXCEPT !.step = "sent", !.rerun = TRUE, !.expected = e]
        BY <1>9 DEF VerifySucceeds, RunsPending
    <2>2. ver \in 0..MaxVersion /\ op.expected \in 0..MaxVersion
        BY DEF TypeInv, OpRow
    <2>3. ASSUME NEW e \in 0..MaxVersion,
                 op' = [op EXCEPT !.step = "sent", !.rerun = TRUE, !.expected = e]
          PROVE  op' \in OpRow /\ op'.step # "synced"
        BY <2>3 DEF TypeInv, OpRow
    <2>4. op' \in OpRow /\ (op'.step = "synced" => op'.node \in Nodes)
        BY <2>1, <2>2, <2>3 DEF TypeInv
    <2> QED BY <1>9, <2>4, NoOpType DEF VerifySucceeds, RunsPending, TypeInv, server, page
<1>10. CASE VerifyFails
    BY <1>10, NoOpType DEF VerifyFails, TypeInv, server, page
<1> QED BY <1>2, <1>3, <1>4, <1>5, <1>6, <1>7, <1>8, <1>9, <1>10

\* So do the methods that arrive, and the rival.
LEMMA RivalTypeInv ==
    ASSUME TypeInv, OpenDialog \/ RivalOpensDialog
    PROVE  TypeInv'
<1> USE DEF dialog
<1>1. op' \in {op, NoOp} \/ op' = [op EXCEPT !.step = "dialog"]
    BY DEF OpenDialog, RivalOpensDialog
<1>2. op' \in OpRow /\ (op'.step = "synced" => op'.node \in Nodes)
    BY <1>1, NoOpType DEF TypeInv, OpRow
<1>3. displaced' \in BOOLEAN /\ rival' \in BOOLEAN
    BY DEF OpenDialog, RivalOpensDialog, TypeInv
<1>4. UNCHANGED <<server, page, verifying, fetch>>
    BY DEF OpenDialog, RivalOpensDialog
<1> QED BY <1>2, <1>3, <1>4 DEF TypeInv, server, page

\* Every step keeps the types.
LEMMA StepTypeInv == TypeInv /\ [Next]_vars => TypeInv'
<1> SUFFICES ASSUME TypeInv, [Next]_vars PROVE TypeInv'
    OBVIOUS
<1>1. CASE UNCHANGED vars
    BY <1>1 DEF vars, server, page, dialog, TypeInv
<1>2. CASE Next
    BY <1>2, ClusterTypeInv, WriteTypeInv, QueryTypeInv, UserTypeInv, RivalTypeInv
       DEF Next, Cluster, Query, Answers, User
<1> QED BY <1>1, <1>2

-----------------------------------------------------------------------------
(* Copies                                                                  *)


\* What the proofs use of a job.
LEMMA JobFacts ==
    ASSUME TypeInv, NEW n \in Nodes, job[n].owner # "free"
    PROVE  job[n] \in JobRow /\ job[n].ver \in Nat /\ job[n].todo \subseteq Fields
<1>1. job[n] \in JobRow
    BY DEF TypeInv, NoJob
<1> QED BY <1>1 DEF JobRow

\* The numbers of versions.
LEMMA VersionFacts ==
    ASSUME TypeInv
    PROVE  /\ dbver \in Nat /\ ver \in Nat /\ op.expected \in Nat /\ op.next \in Nat
           /\ data.ver \in Nat
           /\ \A n \in Nodes : cache[n].ver \in Nat
           /\ fetch.step = "answered" => fetch.data.ver \in Nat
BY DEF TypeInv, OpRow, Snapshot, Requested

\* A commit at a node whose map is up to date; the lock is free, so the map is.
Committed(n) ==
    /\ cache[n].ver = dbver /\ job[n].owner = "free" /\ UNCHANGED cache
    /\ dbver' = dbver + 1
    /\ \E vals \in Maps, owner \in {"page", "other"} : Commit(n, vals, owner)

\* A step on the server that commits nothing.
Applied ==
    /\ UNCHANGED <<db, dbver>>
    /\ \/ UNCHANGED <<cache, job>>
       \/ \E n \in Nodes : \/ ReloadOptions(n) \/ ApplyOption(n) \/ ApplyVersion(n)
                           \/ ApplyFails(n)
       \/ GiveUp

\* What a commit writes is what its job brings, and it is newer than the map.
LEMMA CommittedJobs ==
    ASSUME TypeInv, CopyInv, NEW n \in Nodes, Committed(n)
    PROVE  JobsHonest'
<1>1. PICK vals \in Maps, owner \in {"page", "other"} : Commit(n, vals, owner)
    BY DEF Committed
<1>2. cache[n].val = db
    BY DEF Committed, CopyInv, CopiesHonest, Honest
<1>3. job' = [job EXCEPT ![n] = [todo |-> DOMAIN vals, val |-> db', ver |-> dbver',
                                 owner |-> owner]]
    BY <1>1 DEF Commit
<1>4. \A f \in Fields \ DOMAIN vals : db'[f] = db[f]
    BY <1>1 DEF Commit
<1>5. dbver \in Nat /\ dbver' = dbver + 1 /\ cache' = cache
    BY VersionFacts DEF Committed
<1> SUFFICES ASSUME NEW m \in Nodes, job'[m].owner # "free"
             PROVE  /\ job'[m].ver <= dbver' /\ (job'[m].ver = dbver' => job'[m].val = db')
                    /\ cache'[m].ver < job'[m].ver
                    /\ \A f \in Fields \ job'[m].todo : cache'[m].val[f] = job'[m].val[f]
    BY DEF JobsHonest, Honest
<1>6. CASE m = n
    <2>1. job'[m] = [todo |-> DOMAIN vals, val |-> db', ver |-> dbver', owner |-> owner]
        BY <1>3, <1>6 DEF TypeInv
    <2>2. job'[m].todo = DOMAIN vals /\ job'[m].val = db' /\ job'[m].ver = dbver'
        BY <2>1
    <2>3. cache'[m].ver = dbver /\ cache'[m].val = db
        BY <1>2, <1>5, <1>6 DEF Committed
    <2> QED BY <1>4, <1>5, <2>2, <2>3
<1>7. CASE m # n
    <2>1. job'[m] = job[m]
        BY <1>3, <1>7 DEF TypeInv
    <2>2. /\ job[m].ver <= dbver /\ cache[m].ver < job[m].ver /\ job[m].ver \in Nat
          /\ \A f \in Fields \ job[m].todo : cache[m].val[f] = job[m].val[f]
        BY <2>1, JobFacts DEF CopyInv, JobsHonest, Honest
    <2> QED BY <1>5, <2>1, <2>2
<1> QED BY <1>6, <1>7

\* While nothing is committed a job stays what it is, and every key it applies
\* is one less to come.
LEMMA AppliedJobs ==
    ASSUME TypeInv, CopyInv, Applied
    PROVE  JobsHonest'
<1> DEFINE Same(m) ==
                 /\ job'[m].ver <= dbver /\ (job'[m].ver = dbver => job'[m].val = db)
                 /\ cache'[m].ver < job'[m].ver
                 /\ \A f \in Fields \ job'[m].todo : cache'[m].val[f] = job'[m].val[f]
<1> SUFFICES ASSUME NEW m \in Nodes, job'[m].owner # "free" PROVE Same(m)
    BY DEF JobsHonest, Honest, Applied
<1>1. job[m].owner # "free" =>
        /\ job[m].ver <= dbver /\ (job[m].ver = dbver => job[m].val = db)
        /\ cache[m].ver < job[m].ver
        /\ \A f \in Fields \ job[m].todo : cache[m].val[f] = job[m].val[f]
    BY DEF CopyInv, JobsHonest, Honest
<1>2. CASE UNCHANGED <<cache, job>>
    BY <1>1, <1>2
<1>3. ASSUME NEW n \in Nodes, ReloadOptions(n) PROVE Same(m)
    <2>1. CASE m = n
        <3>1. job'[m] = [todo |-> Fields, val |-> db, ver |-> dbver, owner |-> "reload"]
            BY <1>3, <2>1 DEF ReloadOptions, TypeInv
        <3>2. cache'[m].ver < dbver
            BY <1>3, <2>1, VersionFacts DEF ReloadOptions, CopyInv, CopiesHonest, Honest
        <3> QED BY <3>1, <3>2, VersionFacts
    <2>2. CASE m # n
        <3>1. job'[m] = job[m] /\ cache'[m] = cache[m]
            BY <1>3, <2>2 DEF ReloadOptions, TypeInv
        <3> QED BY <1>1, <3>1
    <2> QED BY <2>1, <2>2
<1>4. ASSUME NEW n \in Nodes, ApplyOption(n) PROVE Same(m)
    <2>1. PICK f \in job[n].todo :
             /\ cache' = [cache EXCEPT ![n].val[f] = job[n].val[f]]
             /\ job' = [job EXCEPT ![n].todo = @ \ {f}]
        BY <1>4 DEF ApplyOption
    <2>2. job[n].owner # "free"
        BY <1>4 DEF ApplyOption, TypeInv, NoJob, JobRow
    <2>3. CASE m = n
        <3>1. job[n] \in JobRow /\ cache[n] \in Snapshot
            BY <2>2, JobFacts DEF TypeInv
        <3>2. job'[m] = [job[m] EXCEPT !.todo = @ \ {f}]
            BY <2>1, <2>3 DEF TypeInv
        <3>3. cache'[m] = [cache[m] EXCEPT !.val[f] = job[m].val[f]]
            BY <2>1, <2>3 DEF TypeInv
        <3>4. /\ job'[m].ver = job[m].ver /\ job'[m].val = job[m].val
              /\ job'[m].todo = job[m].todo \ {f}
            BY <2>3, <3>1, <3>2 DEF JobRow
        <3>5. /\ cache'[m].ver = cache[m].ver
              /\ \A g \in Fields : cache'[m].val[g] = IF g = f THEN job[m].val[f]
                                                               ELSE cache[m].val[g]
            BY <2>3, <3>1, <3>3 DEF Snapshot
        <3> QED BY <1>1, <2>2, <2>3, <3>4, <3>5
    <2>4. CASE m # n
        <3>1. job'[m] = job[m] /\ cache'[m] = cache[m]
            BY <2>1, <2>4 DEF TypeInv
        <3> QED BY <1>1, <3>1
    <2> QED BY <2>3, <2>4
<1>5. ASSUME NEW n \in Nodes, ApplyVersion(n) \/ ApplyFails(n) PROVE Same(m)
    <2>1. m # n
        BY <1>5 DEF ApplyVersion, ApplyFails, TypeInv, NoJob
    <2>2. job'[m] = job[m] /\ cache'[m] = cache[m]
        BY <1>5, <2>1 DEF ApplyVersion, ApplyFails, TypeInv
    <2> QED BY <1>1, <2>2
<1>6. CASE GiveUp
    <2>1. job'[m] = IF job[m].owner = "page" THEN [job[m] EXCEPT !.owner = "other"] ELSE job[m]
        BY <1>6 DEF GiveUp
    <2>2. job[m].owner # "free" /\ job[m] \in JobRow
        BY <2>1, JobFacts
    <2>3. job'[m].ver = job[m].ver /\ job'[m].val = job[m].val /\ job'[m].todo = job[m].todo
        BY <2>1, <2>2 DEF JobRow
    <2> QED BY <1>1, <1>6, <2>2, <2>3 DEF GiveUp
<1> QED BY <1>2, <1>3, <1>4, <1>5, <1>6 DEF Applied

\* A snapshot that is honest stays so, whatever is committed.
LEMMA HonestStays ==
    ASSUME NEW s, s.ver \in Nat, dbver \in Nat, Honest(s),
           UNCHANGED <<db, dbver>> \/ dbver' = dbver + 1
    PROVE  s.ver <= dbver' /\ (s.ver = dbver' => s.val = db')
BY DEF Honest

\* The maps of the nodes are honest after every step on the server, and never
\* fall back to an older version.
LEMMA MapsStayHonest ==
    ASSUME TypeInv, CopyInv, Applied \/ \E n \in Nodes : Committed(n)
    PROVE  \A n \in Nodes : Honest(cache[n])' /\ cache'[n].ver >= cache[n].ver
<1> SUFFICES ASSUME NEW m \in Nodes
             PROVE  /\ cache'[m].ver <= dbver'
                    /\ cache'[m].ver = dbver' => cache'[m].val = db'
                    /\ cache'[m].ver >= cache[m].ver
    BY DEF Honest
<1>1. cache[m].ver \in Nat /\ dbver \in Nat /\ Honest(cache[m])
    BY VersionFacts DEF CopyInv, CopiesHonest
<1>2. UNCHANGED <<db, dbver>> \/ dbver' = dbver + 1
    BY DEF Applied, Committed
<1>3. CASE cache'[m] = cache[m]
    BY <1>1, <1>2, <1>3, HonestStays
<1>4. CASE cache'[m] # cache[m]
    <2>1. PICK n \in Nodes : ApplyOption(n) \/ ApplyVersion(n)
        BY <1>4 DEF Applied, Committed, ReloadOptions, ApplyFails, GiveUp
    <2>2. n = m
        BY <1>4, <2>1 DEF ApplyOption, ApplyVersion, TypeInv
    <2>3. job[m].owner # "free"
        BY <2>1, <2>2 DEF ApplyOption, ApplyVersion, Free, TypeInv, NoJob, JobRow
    <2>4. /\ job[m] \in JobRow /\ job[m].ver \in Nat
          /\ job[m].ver <= dbver /\ (job[m].ver = dbver => job[m].val = db)
          /\ cache[m].ver < job[m].ver
          /\ \A f \in Fields \ job[m].todo : cache[m].val[f] = job[m].val[f]
        BY <2>3, JobFacts DEF CopyInv, JobsHonest, Honest
    <2>5. CASE ApplyOption(m)
        <3>1. cache'[m].ver = cache[m].ver /\ UNCHANGED <<db, dbver>>
            BY <2>5 DEF ApplyOption, TypeInv, Snapshot
        <3> QED BY <1>1, <2>4, <3>1
    <2>6. CASE ApplyVersion(m)
        <3>1. /\ cache'[m].ver = job[m].ver /\ cache'[m].val = cache[m].val
              /\ job[m].todo = {} /\ UNCHANGED <<db, dbver>>
            BY <2>6 DEF ApplyVersion, TypeInv, Snapshot
        <3>2. cache[m].val = job[m].val
            <4>1. \A f \in Fields : cache[m].val[f] = job[m].val[f]
                BY <2>4, <3>1
            <4>2. cache[m].val \in [Fields -> Values] /\ job[m].val \in [Fields -> Values]
                BY <2>4 DEF TypeInv, Snapshot, JobRow
            <4> QED BY <4>1, <4>2
        <3> QED BY <1>1, <2>4, <3>1, <3>2
    <2> QED BY <2>1, <2>2, <2>5, <2>6
<1> QED BY <1>3, <1>4

\* The write of the page finds the map of its node up to date: the version it
\* carries was not newer than the map when the map was synchronized.
LEMMA WriteIsCommitted ==
    ASSUME TypeInv, CopyInv, WriteSettings, dbver' # dbver
    PROVE  Committed(op.node) /\ op.node \in Nodes /\ op.expected = dbver
             /\ op' = [op EXCEPT !.step = "applying", !.next = dbver + 1] /\ UNCHANGED fetch
<1>1. /\ op.step = "synced" /\ job[op.node].owner = "free" /\ op.expected = dbver
      /\ Commit(op.node, op.vals, "page") /\ UNCHANGED <<cache, fetch>>
      /\ op' = [op EXCEPT !.step = "applying", !.next = dbver + 1]
    BY DEF WriteSettings, Free
<1>2. op.node \in Nodes /\ op.vals \in Maps
    BY <1>1 DEF TypeInv, OpRow
<1>3. cache[op.node].ver = dbver
    BY <1>1, <1>2, VersionFacts DEF CopyInv, CopiesHonest, WritesHonest, Honest
<1>4. dbver' = dbver + 1
    BY <1>1 DEF Commit
<1> QED BY <1>1, <1>2, <1>3, <1>4 DEF Committed

\* Every step either commits at a node that is up to date or commits nothing.
LEMMA ServerSteps ==
    ASSUME TypeInv, CopyInv, Next
    PROVE  Applied \/ \E n \in Nodes : Committed(n)
<1>1. CASE UNCHANGED server
    BY <1>1 DEF Applied, server
<1>2. ASSUME NEW n \in Nodes, OtherSession(n) PROVE Committed(n)
    <2>1. PICK S \in {{}} \cup {{f} : f \in Fields} : \E vals \in [S -> Values] :
             Commit(n, vals, "other")
        BY <1>2 DEF OtherSession
    <2>2. S \in SUBSET Fields
        OBVIOUS
    <2>3. PICK vals \in Maps : Commit(n, vals, "other")
        BY <2>1, <2>2, MapType
    <2>4. dbver' = dbver + 1
        BY <2>3 DEF Commit
    <2> QED BY <1>2, <2>3, <2>4 DEF OtherSession, Committed, Free
<1>3. CASE WriteSettings
    <2>1. CASE dbver' # dbver
        BY <1>3, <2>1, WriteIsCommitted
    <2>2. CASE dbver' = dbver
        <3>1. dbver \in Nat
            BY VersionFacts
        <3>2. UNCHANGED <<db, dbver, job, cache>>
            BY <1>3, <2>2, <3>1 DEF WriteSettings, Commit
        <3> QED BY <3>2 DEF Applied
    <2> QED BY <2>1, <2>2
<1>4. ASSUME NEW n \in Nodes,
             ReloadOptions(n) \/ ApplyOption(n) \/ ApplyVersion(n) \/ ApplyFails(n)
      PROVE  Applied
    BY <1>4 DEF Applied, ReloadOptions, ApplyOption, ApplyVersion, ApplyFails
<1>5. CASE GiveUp
    BY <1>5 DEF Applied, GiveUp
<1>6. CASE VerifySucceeds
    BY <1>1, <1>6 DEF VerifySucceeds, RunsPending
<1>7. CASE \/ \E n \in Nodes : ReceiveWrite(n) \/ SyncForRead(n) \/ OpenPreview(n)
           \/ ReadOptions \/ FetchFails \/ FetchLands \/ Answers \/ Refetch \/ VerifyFails
           \/ SaveSection \/ SavePancake \/ ChangeSecret
           \/ ConfirmPreview \/ ClosePreview \/ ConfirmDialog \/ CancelDialog \/ ReloadPage
           \/ OpenDialog \/ RivalOpensDialog
    <2>1. UNCHANGED server
        BY <1>7 DEF OpenDialog, RivalOpensDialog, CloseDialog, ReceiveWrite, SyncForRead, OpenPreview, ReadOptions, FetchFails, FetchLands,
             Answers, AnswerOk, AnswerError, Refetch, VerifyFails, SaveSection, SavePancake,
             ChangeSecret, Start, ConfirmPreview, ClosePreview, ConfirmDialog, CancelDialog,
             ReloadPage
    <2> QED BY <1>1, <2>1
<1> QED BY <1>2, <1>3, <1>4, <1>5, <1>6, <1>7 DEF Next, Cluster, Query, User

\* What a step may make of the request for the options: a copy of a map.
LEMMA FetchSteps ==
    ASSUME TypeInv, Next
    PROVE  /\ \/ fetch' = fetch \/ fetch'.step # "answered"
              \/ \E n \in Nodes : fetch'.data = cache[n] /\ UNCHANGED server
           /\ data' = data \/ (fetch.step = "answered" /\ data' = fetch.data /\ UNCHANGED server)
<1>1. CASE ReadOptions
    <2>1. fetch.node \in Nodes
        BY <1>1 DEF ReadOptions, TypeInv, Requested
    <2> QED BY <1>1, <2>1 DEF ReadOptions, page
<1>2. CASE \/ FetchLands \/ ReloadPage
    BY <1>2 DEF FetchLands, ReloadPage, NoFetch
<1>3. CASE FetchFails \/ Refetch \/ \E n \in Nodes : SyncForRead(n)
    BY <1>3 DEF FetchFails, Refetch, SyncForRead, NoFetch, Asked, page
<1>4. CASE WriteSettings \/ AnswerOk
    BY <1>4 DEF WriteSettings, AnswerOk, Refresh, Asked, page
<1>5. CASE \/ \E n \in Nodes : \/ ReloadOptions(n) \/ ApplyOption(n) \/ ApplyVersion(n)
                               \/ ApplyFails(n)
                               \/ ReceiveWrite(n) \/ OtherSession(n) \/ OpenPreview(n)
           \/ OpenDialog \/ RivalOpensDialog
           \/ AnswerError \/ VerifyFails \/ GiveUp \/ VerifySucceeds
           \/ SaveSection \/ SavePancake \/ ChangeSecret
           \/ ConfirmPreview \/ ClosePreview \/ ConfirmDialog \/ CancelDialog
    <2>1. UNCHANGED <<page, fetch>>
        BY <1>5 DEF ReloadOptions, ApplyOption, ApplyVersion, ApplyFails, ReceiveWrite,
             OtherSession, OpenDialog, RivalOpensDialog, CloseDialog,
             RunsPending,
             OpenPreview, AnswerError, VerifyFails, GiveUp, VerifySucceeds, SaveSection,
             SavePancake, ChangeSecret, Start, ConfirmPreview, ClosePreview, ConfirmDialog,
             CancelDialog
    <2> QED BY <2>1 DEF page
<1> QED BY <1>1, <1>2, <1>3, <1>4, <1>5 DEF Next, Cluster, Query, Answers, User

\* The copies under way and on the page stay honest.
LEMMA CopiesStayHonest ==
    ASSUME TypeInv, CopyInv, Next
    PROVE  CopiesHonest'
<1>1. Applied \/ \E n \in Nodes : Committed(n)
    BY ServerSteps
<1>2. UNCHANGED <<db, dbver>> \/ dbver' = dbver + 1
    BY <1>1 DEF Applied, Committed
<1>3. \A n \in Nodes : Honest(cache[n])'
    BY <1>1, MapsStayHonest
<1>4. Honest(data)'
    <2>1. CASE data' = data
        <3>1. data.ver \in Nat /\ dbver \in Nat /\ Honest(data)
            BY VersionFacts DEF CopyInv, CopiesHonest
        <3>2. data.ver <= dbver' /\ (data.ver = dbver' => data.val = db')
            BY <1>2, <3>1, HonestStays
        <3> QED BY <2>1, <3>2 DEF Honest
    <2>2. CASE fetch.step = "answered" /\ data' = fetch.data /\ UNCHANGED server
        BY <2>2 DEF CopyInv, CopiesHonest, Honest, server
    <2> QED BY <2>1, <2>2, FetchSteps
<1>5. fetch'.step = "answered" => Honest(fetch.data)'
    <2>1. CASE fetch' = fetch
        <3> SUFFICES ASSUME fetch.step = "answered" PROVE Honest(fetch.data)'
            BY <2>1
        <3>1. fetch.data.ver \in Nat /\ dbver \in Nat /\ Honest(fetch.data)
            BY VersionFacts DEF CopyInv, CopiesHonest
        <3>2. fetch.data.ver <= dbver' /\ (fetch.data.ver = dbver' => fetch.data.val = db')
            BY <1>2, <3>1, HonestStays
        <3> QED BY <2>1, <3>2 DEF Honest
    <2>2. ASSUME NEW n \in Nodes, fetch'.data = cache[n], UNCHANGED server
          PROVE  Honest(fetch.data)'
        BY <2>2 DEF CopyInv, CopiesHonest, Honest, server
    <2> QED BY <2>1, <2>2, FetchSteps
<1> QED BY <1>3, <1>4, <1>5 DEF CopiesHonest

-----------------------------------------------------------------------------
(* Operations                                                              *)

\* The operation begins, with what the page holds then.
Begins ==
    \E kind, vals, seen, expected, step :
        /\ Start(kind, vals, seen, expected, step) /\ step \in {"sent", "preview"}
        /\ \/ expected = ver
           \/ \E n \in Nodes : expected = cache[n].ver /\ DOMAIN seen = {}
        /\ InStep /\ expected = ver => \A f \in DOMAIN seen :
                IF f \in Plain THEN seen[f] = data.val[f]
                               ELSE f = Binding /\ seen[f] = data.val[Binding]

\* The operation ends or goes on without a new version: at most its step changes.
GoesOn ==
    \/ op' = op
    \/ op' = NoOp
    \/ op' = Refreshing
    \/ \E step \in {"sent", "methods", "dialog", "ok", "failed"} : op' = [op EXCEPT !.step = step]

\* The beginnings of an operation.
LEMMA OperationBegins ==
    ASSUME TypeInv,
           SaveSection \/ SavePancake \/ ChangeSecret \/ \E n \in Nodes : OpenPreview(n)
    PROVE  Begins
<1>1. CASE SaveSection
    <2>1. PICK S \in SUBSET Plain : \E vals \in [S -> Values] :
             Start("general", vals, [f \in S |-> base[f]], ver, "sent")
        BY <1>1 DEF SaveSection
    <2>2. InStep => \A f \in S : base[f] = data.val[f]
        BY DEF InStep, OfForm
    <2>3. DOMAIN [f \in S |-> base[f]] = S /\ \A f \in S : [g \in S |-> base[g]][f] = base[f]
        OBVIOUS
    <2> QED BY <2>1, <2>2, <2>3 DEF Begins
<1>2. CASE SavePancake
    <2>1. PICK v \in Values :
             Start("pancake", [f \in {Binding} |-> v], [f \in {Binding} |-> saved], ver, "sent")
        BY <1>2 DEF SavePancake
    <2>2. InStep => saved = data.val[Binding]
        BY DEF InStep
    <2>3. DOMAIN [f \in {Binding} |-> saved] = {Binding}
            /\ [f \in {Binding} |-> saved][Binding] = saved
        OBVIOUS
    <2> QED BY <2>1, <2>2, <2>3, SettingsAssumption DEF Begins
<1>3. CASE ChangeSecret
    BY <1>3, EmptyMap DEF ChangeSecret, Begins
<1>4. ASSUME NEW n \in Nodes, OpenPreview(n) PROVE Begins
    BY <1>4, EmptyMap DEF OpenPreview, Begins
<1> QED BY <1>1, <1>2, <1>3, <1>4

\* What a step may do to the operation.
LEMMA OperationSteps ==
    ASSUME TypeInv, Next
    PROVE  \/ Begins
           \/ \E n \in Nodes : /\ op' = [op EXCEPT !.step = "synced", !.node = n]
                               /\ op.step = "sent" /\ cache[n].ver = dbver
                               /\ UNCHANGED <<server, page, dialog>>
           \/ WriteSettings
           \/ VerifySucceeds
           \/ GoesOn
<1>1. CASE SaveSection \/ SavePancake \/ ChangeSecret \/ \E n \in Nodes : OpenPreview(n)
    BY <1>1, OperationBegins
<1>2. ASSUME NEW n \in Nodes, ReceiveWrite(n)
      PROVE  \/ GoesOn
             \/ /\ op' = [op EXCEPT !.step = "synced", !.node = n]
                /\ op.step = "sent" /\ cache[n].ver = dbver
                /\ UNCHANGED <<server, page, dialog>>
    BY <1>2 DEF ReceiveWrite, VerificationDemanded, GoesOn
<1>3. CASE \/ AnswerOk \/ AnswerError \/ GiveUp \/ FetchFails \/ FetchLands
           \/ ConfirmPreview \/ ClosePreview \/ CancelDialog
           \/ OpenDialog \/ RivalOpensDialog
           \/ \E n \in Nodes : ApplyVersion(n) \/ ApplyFails(n)
    BY <1>3 DEF OpenDialog, RivalOpensDialog, CloseDialog, ApplyFails,
         Refreshing, AnswerOk, AnswerError, Refresh, GiveUp, FetchFails, FetchLands, EndRefresh,
         ConfirmPreview, ClosePreview, CancelDialog, ApplyVersion, GoesOn
<1>4. CASE \/ \E n \in Nodes : \/ ReloadOptions(n) \/ ApplyOption(n)
                               \/ OtherSession(n) \/ SyncForRead(n)
           \/ ReadOptions \/ Refetch \/ ReloadPage \/ ConfirmDialog \/ VerifyFails
    BY <1>4 DEF ReloadOptions, ApplyOption, OtherSession, SyncForRead, ReadOptions, Refetch,
         ReloadPage, ConfirmDialog, VerifyFails, GoesOn
<1> QED BY <1>1, <1>2, <1>3, <1>4 DEF Next, Cluster, Query, Answers, User

\* What a step may do to the version the page holds.
LEMMA VersionSteps ==
    ASSUME TypeInv, Next
    PROVE  \/ ver' = ver
           \/ fetch.step = "answered" /\ ver' = fetch.data.ver
           \/ op.step = "ok" /\ ver' = op.next
<1>1. CASE FetchLands \/ ReloadPage \/ AnswerOk
    BY <1>1 DEF FetchLands, VersionEffect, ReloadPage, AnswerOk
<1>2. CASE \/ \E n \in Nodes : \/ ReloadOptions(n) \/ ApplyOption(n) \/ ApplyVersion(n)
                               \/ ApplyFails(n) \/ ReceiveWrite(n) \/ OtherSession(n) \/ OpenPreview(n)
                               \/ SyncForRead(n)
           \/ WriteSettings \/ ReadOptions \/ Refetch \/ FetchFails
           \/ OpenDialog \/ RivalOpensDialog
           \/ AnswerError \/ VerifyFails \/ GiveUp \/ VerifySucceeds
           \/ SaveSection \/ SavePancake \/ ChangeSecret
           \/ ConfirmPreview \/ ClosePreview \/ ConfirmDialog \/ CancelDialog
    <2>1. UNCHANGED page
        BY <1>2 DEF ReloadOptions, ApplyOption, ApplyVersion, ApplyFails, ReceiveWrite,
             OtherSession, OpenDialog, RivalOpensDialog, CloseDialog,
             RunsPending,
             OpenPreview, SyncForRead, WriteSettings, ReadOptions, Refetch, FetchFails,
             AnswerError, VerifyFails, GiveUp, VerifySucceeds, SaveSection,
             SavePancake, ChangeSecret, Start, ConfirmPreview, ClosePreview, ConfirmDialog,
             CancelDialog
    <2> QED BY <2>1 DEF page
<1> QED BY <1>1, <1>2 DEF Next, Cluster, Query, Answers, User

\* The versions of the page and its writes are never ahead.
LEMMA WritesStayHonest ==
    ASSUME TypeInv, CopyInv, Next
    PROVE  WritesHonest'
<1>1. Applied \/ \E n \in Nodes : Committed(n)
    BY ServerSteps
<1>2. dbver \in Nat /\ (dbver' = dbver \/ dbver' = dbver + 1) /\ dbver' >= dbver
    BY <1>1, VersionFacts DEF Applied, Committed
<1>3. \A n \in Nodes : cache'[n].ver >= cache[n].ver
    BY <1>1, MapsStayHonest
<1>4. /\ ver \in Nat /\ op.expected \in Nat /\ op.next \in Nat
      /\ \A n \in Nodes : cache[n].ver \in Nat /\ cache[n].ver <= dbver
      /\ ver <= dbver /\ op.expected <= dbver /\ op.next <= dbver
      /\ op.step = "synced" => op.expected <= cache[op.node].ver /\ op.node \in Nodes
      /\ fetch.step = "answered" => fetch.data.ver \in Nat /\ fetch.data.ver <= dbver
    BY VersionFacts DEF CopyInv, CopiesHonest, WritesHonest, Honest, TypeInv
<1>5. ver' <= dbver'
    BY <1>2, <1>4, VersionSteps
<1>6. /\ op'.expected <= dbver' /\ op'.next <= dbver'
      /\ op'.step = "synced" => op'.expected <= cache'[op'.node].ver
    <2> DEFINE Fine == /\ op'.expected <= dbver' /\ op'.next <= dbver'
                       /\ op'.step = "synced" => op'.expected <= cache'[op'.node].ver
    <2>1. CASE Begins
        <3>1. PICK kind, vals, seen, expected, step :
                 /\ Start(kind, vals, seen, expected, step) /\ step \in {"sent", "preview"}
                 /\ expected = ver \/ \E n \in Nodes : expected = cache[n].ver
            BY <2>1 DEF Begins
        <3>2. op'.expected = expected /\ op'.next = 0 /\ op'.step = step
            BY <3>1, NoOpType DEF Start, OpRow
        <3> QED BY <1>2, <1>4, <3>1, <3>2
    <2>2. ASSUME NEW n \in Nodes, op' = [op EXCEPT !.step = "synced", !.node = n],
                 cache[n].ver = dbver, UNCHANGED <<server, page, dialog>>
          PROVE  Fine
        <3>1. op'.expected = op.expected /\ op'.next = op.next /\ op'.node = n
            BY <2>2 DEF TypeInv, OpRow
        <3> QED BY <1>2, <1>4, <2>2, <3>1 DEF server
    <2>3. CASE WriteSettings
        <3>1. CASE dbver' # dbver
            <4>1. op' = [op EXCEPT !.step = "applying", !.next = dbver + 1]
                BY <2>3, <3>1, WriteIsCommitted
            <4>2. op'.expected = op.expected /\ op'.next = dbver + 1 /\ op'.step = "applying"
                BY <4>1 DEF TypeInv, OpRow
            <4> QED BY <1>2, <1>4, <3>1, <4>2
        <3>2. CASE dbver' = dbver
            <4>1. op' = NoOp \/ op' = Refreshing
                BY <1>2, <2>3, <3>2 DEF WriteSettings, Commit, Refresh, Refreshing
            <4>2. op'.expected = 0 /\ op'.next = 0 /\ op'.step # "synced"
                BY <4>1, NoOpType, RefreshingType DEF TypeInv
            <4> QED BY <1>2, <4>2
        <3> QED BY <3>1, <3>2
    <2>4. CASE VerifySucceeds
        <3>1. op' = op \/ \E e \in {ver, op.expected} :
                            op' = [op EXCEPT !.step = "sent", !.rerun = TRUE, !.expected = e]
            BY <2>4 DEF VerifySucceeds, RunsPending
        <3>2. UNCHANGED <<dbver, cache>>
            BY <2>4 DEF VerifySucceeds, RunsPending, server
        <3>3. CASE op' = op
            BY <1>2, <1>3, <1>4, <3>2, <3>3
        <3>4. ASSUME NEW e \in {ver, op.expected},
                     op' = [op EXCEPT !.step = "sent", !.rerun = TRUE, !.expected = e]
              PROVE  Fine
            <4>1. op'.expected = e /\ op'.next = op.next /\ op'.step = "sent"
                BY <3>4 DEF TypeInv, OpRow
            <4> QED BY <1>2, <1>4, <4>1
        <3> QED BY <3>1, <3>3, <3>4
    <2>5. CASE GoesOn
        <3>1. CASE op' = op
            <4>1. op.step = "synced" => cache'[op.node].ver >= cache[op.node].ver
                BY <1>3, <1>4
            <4>2. op.step = "synced" => cache'[op.node].ver \in Nat
                BY <1>4, StepTypeInv DEF TypeInv, Snapshot
            <4> QED BY <1>2, <1>4, <3>1, <4>1, <4>2
        <3>2. CASE op' = NoOp \/ op' = Refreshing
            <4>1. op'.expected = 0 /\ op'.next = 0 /\ op'.step # "synced"
                BY <3>2, NoOpType, RefreshingType DEF TypeInv
            <4> QED BY <1>2, <4>1
        <3>3. ASSUME NEW step \in {"sent", "methods", "dialog", "ok", "failed"},
                     op' = [op EXCEPT !.step = step]
              PROVE  Fine
            <4>1. op'.expected = op.expected /\ op'.next = op.next /\ op'.step = step
                BY <3>3 DEF TypeInv, OpRow
            <4> QED BY <1>2, <1>4, <4>1
        <3> QED BY <2>5, <3>1, <3>2, <3>3 DEF GoesOn
    <2> QED BY <2>1, <2>2, <2>3, <2>4, <2>5, OperationSteps
<1> QED BY <1>5, <1>6 DEF WritesHonest

\* A write that can still be accepted keeps its knowledge of the values.
LEMMA SeenStaysCurrent ==
    ASSUME TypeInv, CopyInv, SeenIsCurrent, Next
    PROVE  SeenIsCurrent'
<1> DEFINE Bound(o) == o.clean /\ ~(o.kind = "pancake" /\ o.rerun)
<1> SUFFICES ASSUME Bound(op'), op'.expected = dbver', NEW f \in DOMAIN op'.seen
             PROVE  db'[f] = op'.seen[f]
    BY DEF SeenIsCurrent
<1>1. Applied \/ \E n \in Nodes : Committed(n)
    BY ServerSteps
<1>2. dbver \in Nat /\ op.expected \in Nat /\ ver \in Nat /\ data.ver \in Nat
        /\ op.expected <= dbver /\ ver <= dbver /\ (data.ver = dbver => data.val = db)
        /\ \A n \in Nodes : cache[n].ver \in Nat /\ cache[n].ver <= dbver
    BY VersionFacts DEF CopyInv, WritesHonest, CopiesHonest, Honest
<1>3. UNCHANGED <<db, dbver>> \/ dbver' = dbver + 1
    BY <1>1 DEF Applied, Committed
<1>4. ASSUME op'.expected <= dbver PROVE UNCHANGED <<db, dbver>>
    BY <1>2, <1>3, <1>4
<1>5. ASSUME op'.seen = op.seen, op'.expected = op.expected, Bound(op)
      PROVE  db'[f] = op'.seen[f]
    <2>1. UNCHANGED <<db, dbver>>
        BY <1>2, <1>4, <1>5
    <2> QED BY <1>5, <2>1 DEF SeenIsCurrent
<1>6. CASE Begins
    <2>1. PICK kind, vals, seen, expected, step :
             /\ Start(kind, vals, seen, expected, step) /\ step \in {"sent", "preview"}
             /\ \/ expected = ver
                \/ \E n \in Nodes : expected = cache[n].ver /\ DOMAIN seen = {}
             /\ InStep /\ expected = ver => \A g \in DOMAIN seen :
                     IF g \in Plain THEN seen[g] = data.val[g]
                                    ELSE g = Binding /\ seen[g] = data.val[Binding]
        BY <1>6 DEF Begins
    <2>2. op'.expected = expected /\ op'.seen = seen /\ op'.clean = InStep
        BY <2>1, NoOpType DEF Start, OpRow
    <2>3. expected = ver /\ InStep
        BY <2>1, <2>2
    <2>4. data.ver = ver
        BY <2>3 DEF InStep
    <2>5. UNCHANGED <<db, dbver>>
        BY <2>1 DEF Start, server
    <2>6. data.val = db
        BY <1>2, <2>2, <2>3, <2>4, <2>5
    <2> QED BY <2>1, <2>2, <2>3, <2>5, <2>6
<1>7. ASSUME NEW n \in Nodes, op' = [op EXCEPT !.step = "synced", !.node = n]
      PROVE  db'[f] = op'.seen[f]
    <2>1. /\ op'.seen = op.seen /\ op'.expected = op.expected /\ op'.clean = op.clean
          /\ op'.kind = op.kind /\ op'.rerun = op.rerun
        BY <1>7 DEF TypeInv, OpRow
    <2> QED BY <1>5, <2>1
<1>8. CASE WriteSettings
    <2>1. CASE dbver' # dbver
        <3>1. op' = [op EXCEPT !.step = "applying", !.next = dbver + 1]
            BY <1>8, <2>1, WriteIsCommitted
        <3>2. op'.expected = op.expected
            BY <3>1 DEF TypeInv, OpRow
        <3> QED BY <1>2, <1>4, <2>1, <3>2
    <2>2. CASE dbver' = dbver
        <3>1. op' = NoOp \/ op' = Refreshing
            BY <1>2, <1>8, <2>2 DEF WriteSettings, Commit, Refresh, Refreshing
        <3> QED BY <3>1, NoOpType, RefreshingType DEF TypeInv
    <2> QED BY <2>1, <2>2
<1>9. CASE VerifySucceeds
    <2>1. CASE op' = op
        BY <1>5, <2>1
    <2>2. CASE op' # op
        <3>1. op' = [op EXCEPT !.step = "sent", !.rerun = TRUE,
                               !.expected = IF op.kind = "pancake" THEN ver ELSE op.expected]
            BY <1>9, <2>2 DEF VerifySucceeds, RunsPending
        <3>2. op'.kind = op.kind /\ op'.rerun = TRUE /\ op'.clean = op.clean
                /\ op'.seen = op.seen
                /\ op'.expected = IF op.kind = "pancake" THEN ver ELSE op.expected
            BY <3>1 DEF TypeInv, OpRow
        <3> QED BY <1>5, <3>2
    <2> QED BY <2>1, <2>2
<1>10. CASE GoesOn
    <2>1. CASE op' = op
        BY <1>5, <2>1
    <2>2. CASE op' = NoOp \/ op' = Refreshing
        BY <2>2, NoOpType, RefreshingType DEF TypeInv
    <2>3. ASSUME NEW step \in {"sent", "methods", "dialog", "ok", "failed"},
                 op' = [op EXCEPT !.step = step]
          PROVE  db'[f] = op'.seen[f]
        <3>1. /\ op'.seen = op.seen /\ op'.expected = op.expected /\ op'.clean = op.clean
              /\ op'.kind = op.kind /\ op'.rerun = op.rerun
            BY <2>3 DEF TypeInv, OpRow
        <3> QED BY <1>5, <3>1
    <2> QED BY <1>10, <2>1, <2>2, <2>3 DEF GoesOn
<1> QED BY <1>6, <1>7, <1>8, <1>9, <1>10, OperationSteps

\* All of it holds of a page that was just opened.
LEMMA InitInv == SettingsInit => CopyInv /\ SeenIsCurrent /\ OperationInv
<1> SUFFICES ASSUME SettingsInit PROVE CopyInv /\ SeenIsCurrent /\ OperationInv
    OBVIOUS
<1>1. op = NoOp /\ verifying = NoOp /\ ~rival /\ dbver = 1 /\ ver = 1 /\ fetch.step = "none"
    BY DEF SettingsInit, NoFetch
<1>2. \A n \in Nodes : job[n].owner = "free"
    BY DEF SettingsInit, NoJob
<1>3. CopyInv
    BY <1>1, <1>2, NoOpType DEF SettingsInit, CopyInv, JobsHonest, CopiesHonest, WritesHonest,
         Honest
<1>4. SeenIsCurrent
    BY <1>1, NoOpType DEF SeenIsCurrent
<1>5. OperationInv
    BY <1>1, <1>2, NoOpType DEF OperationInv, PageHoldsOneLock, DialogIsOfOperation
<1> QED BY <1>3, <1>4, <1>5

SettingsInv == TypeInv /\ CopyInv /\ SeenIsCurrent

\* Every step keeps the copies, the writes and what they have seen honest.
LEMMA StepSettingsInv == SettingsInv /\ [Next]_vars => SettingsInv'
<1> SUFFICES ASSUME SettingsInv, [Next]_vars PROVE SettingsInv'
    OBVIOUS
<1> USE DEF SettingsInv
<1>1. TypeInv'
    BY StepTypeInv
<1>2. CASE UNCHANGED vars
    <2>1. CopyInv' /\ SeenIsCurrent'
        BY <1>2 DEF vars, server, page, CopyInv, JobsHonest, CopiesHonest, WritesHonest,
             Honest, SeenIsCurrent
    <2> QED BY <1>1, <2>1
<1>3. CASE Next
    <2>1. JobsHonest'
        BY <1>3, ServerSteps, AppliedJobs, CommittedJobs
    <2>2. CopiesHonest' /\ WritesHonest' /\ SeenIsCurrent'
        BY <1>3, CopiesStayHonest, WritesStayHonest, SeenStaysCurrent
    <2> QED BY <1>1, <2>1, <2>2 DEF CopyInv
<1> QED BY <1>2, <1>3

\* For any number of nodes, options and versions, no map of a node, answer under
\* way or page that carries the current version lacks the current values, although
\* maps are filled key by key and read in between (updateOptionMap with the version
\* last, SyncPaymentConfigurationIfStale before the compare-and-set).
THEOREM CopiesAreHonest == SettingsSpec => []NoCopyIsAhead
<1>1. SettingsInv => NoCopyIsAhead
    BY DEF SettingsInv, CopyInv, CopiesHonest, Honest, NoCopyIsAhead, Answered
<1>2. SettingsInit => SettingsInv
    BY InitTypeInv, InitInv DEF SettingsInv
<1> QED BY <1>1, <1>2, StepSettingsInv, PTL DEF SettingsSpec

\* A save of a page in step with its data overwrites no value that the page had
\* not loaded when the save was submitted, for any number of other sessions and
\* nodes (updatePaymentOptionsWithVersionLockHeld, configVersionRef, initialRef).
THEOREM SavesAreNotBlind == SettingsSpec => SaveIsNotBlind
<1> DEFINE Sighted == Accepted /\ op.clean /\ ~(op.kind = "pancake" /\ op.rerun) => ~Blind
<1>1. SettingsInv /\ [Next]_vars => [Sighted]_vars
    <2> SUFFICES ASSUME SettingsInv, Next, Accepted, op.clean,
                        ~(op.kind = "pancake" /\ op.rerun)
                 PROVE  ~Blind
        OBVIOUS
    <2>1. TypeInv /\ CopyInv /\ SeenIsCurrent /\ op.step = "synced" /\ op'.step = "applying"
        BY DEF SettingsInv, Accepted
    <2>2. CASE WriteSettings
        <3>1. op.expected = dbver
            <4>1. CASE dbver' # dbver
                BY <2>1, <2>2, <4>1, WriteIsCommitted
            <4>2. CASE dbver' = dbver
                <5>1. op' = NoOp \/ op' = Refreshing
                    BY <2>1, <2>2, <4>2, VersionFacts DEF WriteSettings, Commit, Refresh, Refreshing
                <5> QED BY <2>1, <5>1, NoOpType, RefreshingType DEF TypeInv
            <4> QED BY <4>1, <4>2
        <3> QED BY <2>1, <3>1 DEF SeenIsCurrent, Blind
    <2>3. ~Begins
        BY <2>1, NoOpType DEF Begins, Start
    <2>4. ~VerifySucceeds
        BY <2>1 DEF VerifySucceeds, RunsPending
    <2>5. ~GoesOn
        BY <2>1, NoOpType, RefreshingType DEF GoesOn, TypeInv, OpRow
    <2> QED BY <2>1, <2>2, <2>3, <2>4, <2>5, OperationSteps
<1>2. SettingsInit => SettingsInv
    BY InitTypeInv, InitInv DEF SettingsInv
<1>3. SettingsSpec => [][Sighted]_vars
    <2> HIDE DEF Sighted
    <2> QED BY <1>1, <1>2, StepSettingsInv, PTL DEF SettingsSpec
<1> QED BY <1>3 DEF SaveIsNotBlind

-----------------------------------------------------------------------------
(* The verification dialog                                                 *)

\* The page's lock follows the page's write.
LEMMA LockStaysOne ==
    ASSUME TypeInv, PageHoldsOneLock, Next
    PROVE  PageHoldsOneLock'
<1> SUFFICES ASSUME NEW m \in Nodes, job'[m].owner = "page"
             PROVE  op'.step = "applying" /\ op'.node = m
    BY DEF PageHoldsOneLock
<1>1. job[m].owner = "page" => op.step = "applying" /\ op.node = m
    BY DEF PageHoldsOneLock
<1>2. CASE GiveUp
    BY <1>2 DEF GiveUp, TypeInv, JobRow, NoJob
<1>3. ASSUME NEW n \in Nodes, ApplyVersion(n) \/ ApplyFails(n)
      PROVE  op'.step = "applying" /\ op'.node = m
    <2>1. m # n
        BY <1>3 DEF ApplyVersion, ApplyFails, TypeInv, NoJob
    <2>2. job'[m] = job[m]
        BY <1>3, <2>1 DEF ApplyVersion, ApplyFails, TypeInv
    <2>3. job[n].owner # "page"
        BY <1>1, <2>1, <2>2 DEF PageHoldsOneLock
    <2> QED BY <1>1, <1>3, <2>2, <2>3 DEF ApplyVersion, ApplyFails
<1>4. ASSUME NEW n \in Nodes, ReloadOptions(n) \/ ApplyOption(n) \/ OtherSession(n)
      PROVE op'.step = "applying" /\ op'.node = m
    <2>1. CASE ReloadOptions(n)
        BY <1>1, <2>1 DEF ReloadOptions, TypeInv
    <2>2. CASE ApplyOption(n)
        <3>1. job[n] \in JobRow
            BY <2>2 DEF ApplyOption, TypeInv, NoJob
        <3>2. PICK f : job' = [job EXCEPT ![n].todo = @ \ {f}]
            BY <2>2 DEF ApplyOption
        <3>3. job'[m].owner = job[m].owner
            BY <3>1, <3>2 DEF TypeInv, JobRow
        <3> QED BY <1>1, <2>2, <3>3 DEF ApplyOption
    <2>3. CASE OtherSession(n)
        <3>1. PICK vals : Commit(n, vals, "other")
            BY <2>3 DEF OtherSession
        <3>2. m # n /\ job'[m] = job[m]
            BY <3>1 DEF Commit, TypeInv
        <3> QED BY <1>1, <2>3, <3>2 DEF OtherSession
    <2> QED BY <1>4, <2>1, <2>2, <2>3
<1>5. CASE WriteSettings
    <2>1. op.step = "synced"
        BY <1>5 DEF WriteSettings
    <2>2. job[m].owner # "page"
        BY <1>1, <2>1
    <2>3. job'[m] # job[m]
        BY <2>2
    <2>4. Commit(op.node, op.vals, "page")
            /\ op' = [op EXCEPT !.step = "applying", !.next = dbver + 1]
        BY <1>5, <2>3 DEF WriteSettings
    <2>5. m = op.node
        BY <2>3, <2>4 DEF Commit, TypeInv
    <2> QED BY <2>4, <2>5 DEF TypeInv, OpRow
<1>6. CASE \/ \E n \in Nodes : ReceiveWrite(n) \/ SyncForRead(n) \/ OpenPreview(n)
           \/ ReadOptions \/ FetchFails \/ FetchLands \/ Answers \/ Refetch \/ VerifyFails
           \/ SaveSection \/ SavePancake \/ ChangeSecret \/ VerifySucceeds
           \/ OpenDialog \/ RivalOpensDialog
           \/ ConfirmPreview \/ ClosePreview \/ ConfirmDialog \/ CancelDialog \/ ReloadPage
    <2>1. job' = job
        BY <1>6 DEF OpenDialog, RivalOpensDialog, CloseDialog, RunsPending,
             ReceiveWrite, SyncForRead, OpenPreview, ReadOptions, FetchFails, FetchLands,
             Answers, AnswerOk, AnswerError, Refetch, VerifyFails, SaveSection, SavePancake,
             ChangeSecret, Start, ConfirmPreview, ClosePreview, ConfirmDialog, CancelDialog,
             ReloadPage, VerifySucceeds, server
    <2>2. op.step = "applying" => op' = op
        BY <1>6, NoOpType DEF OpenDialog, RivalOpensDialog, CloseDialog,
             RunsPending, ReceiveWrite, SyncForRead, OpenPreview, ReadOptions, FetchFails,
             FetchLands, EndRefresh,
             Answers, AnswerOk, AnswerError, Refetch, VerifyFails, SaveSection, SavePancake,
             ChangeSecret, Start, ConfirmPreview, ClosePreview, ConfirmDialog, CancelDialog,
             ReloadPage, VerifySucceeds
    <2> QED BY <1>1, <2>1, <2>2
<1> QED BY <1>2, <1>3, <1>4, <1>5, <1>6 DEF Next, Cluster, Query, User

Confirmed == op'.rerun /\ ~op.rerun => verifying = op \/ displaced

\* The rival is run only if it was confirmed, or has taken the dialog over.
LEMMA RivalConfirmed ==
    ASSUME DialogIsOfOperation, VerifySucceeds, rival
    PROVE  verifying = Rival \/ displaced
<1>1. verifying # NoOp
    BY DEF VerifySucceeds, RunsPending
<1> QED BY <1>1 DEF DialogIsOfOperation

\* A step outside the dialog runs nothing and leaves it to whom it belongs.
LEMMA OutsideDialog ==
    ASSUME DialogIsOfOperation, UNCHANGED dialog, op'.rerun \in {FALSE, op.rerun},
           op' = op \/ (op.step # "dialog" /\ op'.step # "dialog")
    PROVE  DialogIsOfOperation' /\ Confirmed
BY DEF DialogIsOfOperation, dialog, Confirmed

\* The dialog serves one operation after the other: it opens, is taken over, is
\* confirmed, answers or is closed.
LEMMA DialogSteps ==
    ASSUME TypeInv, DialogIsOfOperation,
           \/ OpenDialog \/ RivalOpensDialog
           \/ ConfirmDialog \/ VerifySucceeds \/ VerifyFails \/ CancelDialog
    PROVE  DialogIsOfOperation' /\ Confirmed
<1> USE DEF DialogIsOfOperation, Confirmed
<1>0. NoOp.step = "none" /\ NoOp.rerun = FALSE
    BY NoOpType
<1>1. CASE OpenDialog
    <2>1. op.step = "methods" /\ verifying' = verifying
        BY <1>1 DEF OpenDialog, dialog
    <2>2. CASE op' = NoOp /\ UNCHANGED dialog
        BY <1>0, <2>1, <2>2 DEF dialog
    <2>3. CASE /\ op' = [op EXCEPT !.step = "dialog"]
               /\ rival' = FALSE
               /\ displaced' = (displaced \/ (verifying # NoOp /\ rival))
        <3>1. op'.step = "dialog" /\ op'.rerun = op.rerun
            BY <2>3 DEF TypeInv, OpRow
        <3>2. ~rival'
            BY <2>3
        <3>3. verifying # NoOp => displaced'
            BY <2>1, <2>3
        <3> QED BY <2>1, <3>1, <3>2, <3>3
    <2> QED BY <1>1, <2>2, <2>3 DEF OpenDialog
<1>3. CASE RivalOpensDialog
    <2>1. /\ ~rival /\ rival' = TRUE /\ verifying' = verifying
          /\ op' = IF op.step = "dialog" THEN NoOp ELSE op
          /\ displaced' = (displaced \/ (verifying # NoOp /\ op.step = "dialog"))
        BY <1>3 DEF RivalOpensDialog
    <2>2. op'.step # "dialog" /\ op'.rerun \in {FALSE, op.rerun}
        BY <1>0, <2>1
    <2>3. verifying # NoOp => displaced'
        BY <2>1
    <2> QED BY <2>1, <2>2, <2>3
<1>4. CASE ConfirmDialog
    BY <1>4 DEF ConfirmDialog
<1>5. CASE VerifySucceeds
    <2>1. /\ verifying # NoOp /\ verifying' = NoOp
          /\ rival' = FALSE
          /\ op.step # "dialog" => op' = op
        BY <1>5 DEF VerifySucceeds, RunsPending
    <2>2. op.step = "dialog" => op'.step = "sent"
        <3>1. ASSUME NEW e, op' = [op EXCEPT !.step = "sent", !.rerun = TRUE, !.expected = e]
              PROVE  op'.step = "sent"
            BY <3>1 DEF TypeInv, OpRow
        <3> QED BY <1>5, <3>1 DEF VerifySucceeds, RunsPending
    <2> QED BY <2>1, <2>2
<1>6. CASE VerifyFails
    BY <1>6 DEF VerifyFails
<1>7. CASE CancelDialog
    BY <1>0, <1>7 DEF CancelDialog, CloseDialog
<1> QED BY <1>1, <1>3, <1>4, <1>5, <1>6, <1>7

\* Nothing else opens the dialog, takes it over or runs what waits in it.
LEMMA DialogStays ==
    ASSUME TypeInv, PageHoldsOneLock, DialogIsOfOperation, Next
    PROVE  DialogIsOfOperation' /\ Confirmed
<1> DEFINE Fine == DialogIsOfOperation' /\ Confirmed
<1>1. CASE \/ OpenDialog \/ RivalOpensDialog
           \/ ConfirmDialog \/ VerifySucceeds \/ VerifyFails \/ CancelDialog
    BY <1>1, DialogSteps
<1>2. ASSUME NEW n \in Nodes, ReceiveWrite(n) PROVE Fine
    <2>1. op.step = "sent" /\ UNCHANGED dialog
        BY <1>2 DEF ReceiveWrite
    <2>2. \/ op' = NoOp
          \/ op' = [op EXCEPT !.step = "methods"]
          \/ op' = [op EXCEPT !.step = "synced", !.node = n]
        BY <1>2 DEF ReceiveWrite, VerificationDemanded
    <2>3. op'.rerun \in {FALSE, op.rerun} /\ op'.step # "dialog"
        BY <2>2, NoOpType DEF TypeInv, OpRow
    <2> QED BY <2>1, <2>3, OutsideDialog
<1>3. ASSUME NEW n \in Nodes, ApplyVersion(n) \/ ApplyFails(n) PROVE Fine
    <2>1. UNCHANGED dialog
        BY <1>3 DEF ApplyVersion, ApplyFails
    <2>2. CASE job[n].owner = "page"
        <3>1. op.step = "applying"
            BY <2>2 DEF PageHoldsOneLock
        <3>2. op'.step \in {"ok", "failed"} /\ op'.rerun = op.rerun
            BY <1>3, <2>2 DEF ApplyVersion, ApplyFails, TypeInv, OpRow
        <3> QED BY <2>1, <3>1, <3>2, OutsideDialog
    <2>3. CASE job[n].owner # "page"
        <3>1. op' = op
            BY <1>3, <2>3 DEF ApplyVersion, ApplyFails
        <3> QED BY <2>1, <3>1, OutsideDialog
    <2> QED BY <2>2, <2>3
<1>4. CASE SaveSection \/ SavePancake \/ ChangeSecret \/ \E n \in Nodes : OpenPreview(n)
    <2>1. PICK kind, vals, seen, expected, step :
             Start(kind, vals, seen, expected, step) /\ step \in {"sent", "preview"}
        BY <1>4, OperationBegins DEF Begins
    <2>2. op'.step = step /\ op'.rerun = FALSE
        BY <2>1, NoOpType DEF Start, OpRow
    <2>3. op.step = "none" /\ UNCHANGED dialog
        BY <2>1, NoOpType DEF Start
    <2> QED BY <2>1, <2>2, <2>3, OutsideDialog
<1>5. CASE \/ WriteSettings \/ AnswerOk \/ AnswerError \/ GiveUp
           \/ ConfirmPreview \/ ClosePreview
    <2>1. op.step # "dialog" /\ UNCHANGED dialog
        BY <1>5 DEF WriteSettings, AnswerOk, AnswerError, GiveUp, ConfirmPreview, ClosePreview
    <2>2. \/ op' = NoOp \/ op' = Refreshing
          \/ op' = [op EXCEPT !.step = "sent"]
          \/ op' = [op EXCEPT !.step = "applying", !.next = dbver + 1]
        BY <1>5 DEF WriteSettings, AnswerOk, AnswerError, GiveUp, Refresh, Refreshing,
             ConfirmPreview, ClosePreview
    <2>3. op'.step # "dialog" /\ op'.rerun \in {FALSE, op.rerun}
        BY <2>2, NoOpType, RefreshingType DEF TypeInv, OpRow
    <2> QED BY <2>1, <2>3, OutsideDialog
<1>6. CASE FetchFails \/ FetchLands
    <2>1. UNCHANGED dialog /\ op' = IF op.step = "refreshing" THEN NoOp ELSE op
        BY <1>6 DEF FetchFails, FetchLands, EndRefresh
    <2> QED BY <2>1, NoOpType, OutsideDialog
<1>7. CASE ReloadPage
    BY <1>7, NoOpType DEF ReloadPage, DialogIsOfOperation, Confirmed
<1>8. CASE \/ \E n \in Nodes : \/ ReloadOptions(n) \/ ApplyOption(n)
                               \/ OtherSession(n) \/ SyncForRead(n)
           \/ ReadOptions \/ Refetch
    <2>1. op' = op /\ UNCHANGED dialog
        BY <1>8 DEF ReloadOptions, ApplyOption, OtherSession, SyncForRead, ReadOptions,
             Refetch
    <2> QED BY <2>1, OutsideDialog
<1> QED BY <1>1, <1>2, <1>3, <1>4, <1>5, <1>6, <1>7, <1>8
        DEF Next, Cluster, Query, Answers, User

DialogInv == TypeInv /\ OperationInv

\* Whatever answers, refetches and other sessions come in between, and however two
\* operations ask for the dialog in turn, what runs after a verification is what was
\* confirmed, or what replaced it in the open dialog before verify() answered
\* (useSecureVerification: startVerification, executeVerification, cancel).
THEOREM ConfirmedIsRun == SettingsSpec => ConfirmedOperationRuns
<1>1. SettingsInit => DialogInv
    BY InitTypeInv, InitInv DEF DialogInv
<1>2. DialogInv /\ [Next]_vars => DialogInv'
    <2> SUFFICES ASSUME DialogInv, [Next]_vars PROVE DialogInv'
        OBVIOUS
    <2> USE DEF DialogInv, OperationInv
    <2>1. TypeInv'
        BY StepTypeInv
    <2>2. CASE UNCHANGED vars
        BY <2>1, <2>2 DEF vars, server, dialog, PageHoldsOneLock, DialogIsOfOperation
    <2>3. CASE Next
        BY <2>1, <2>3, LockStaysOne, DialogStays
    <2> QED BY <2>2, <2>3
<1> DEFINE RivalIsConfirmed == VerifySucceeds /\ rival => verifying = Rival \/ displaced
<1>3. DialogInv /\ [Next]_vars => [Confirmed /\ RivalIsConfirmed]_vars
    <2> SUFFICES ASSUME DialogInv, Next PROVE Confirmed /\ RivalIsConfirmed
        OBVIOUS
    <2>1. Confirmed
        BY DialogStays DEF DialogInv, OperationInv
    <2>2. RivalIsConfirmed
        BY RivalConfirmed DEF DialogInv, OperationInv
    <2> QED BY <2>1, <2>2
<1>4. SettingsSpec => [][Confirmed /\ RivalIsConfirmed]_vars
    BY <1>1, <1>2, <1>3, PTL DEF SettingsSpec
<1>5. [Confirmed /\ RivalIsConfirmed]_vars
        => [ /\ op'.rerun /\ ~op.rerun => verifying = op \/ displaced
             /\ VerifySucceeds /\ rival => verifying = Rival \/ displaced ]_vars
    BY DEF Confirmed
<1> QED BY <1>4, <1>5, PTL DEF ConfirmedOperationRuns
=============================================================================
