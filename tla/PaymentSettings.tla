-------------------------- MODULE PaymentSettings --------------------------
(***************************************************************************)
(* The payment settings page of an administrator and the cluster behind    *)
(* it: payment-settings-section.tsx (form, initialRef, configVersionRef),   *)
(* use-secure-verification.ts (the step-up dialog), the option tables and   *)
(* the per-process OptionMap of model/option.go.                            *)
(*                                                                         *)
(* The dialog serves every protected operation of the page.  One operation   *)
(* that writes settings is followed in detail; another that the page lets   *)
(* run beside it (the creation of a Pancake store, its catalogue, the       *)
(* compliance confirmation) is the rival, of which only its use of the      *)
(* dialog is kept: what it writes is a session's like any other.            *)
(*                                                                         *)
(* One page is modelled in detail.  Every other session that writes payment *)
(* options is OtherSession: it goes through the same compare-and-set.       *)
(* Options whose value a page can read are Plain (saved through             *)
(* /option/payment) and Binding, which stands for the Pancake section       *)
(* (saved as a whole through an endpoint of its own).  Secrets are          *)
(* write-only: a change of a secret moves only the version.                 *)
(***************************************************************************)
EXTENDS Naturals, FiniteSets

CONSTANTS
  Nodes,       \* application processes, each with its own OptionMap
  Plain,       \* readable options of the sections general, epay, stripe, ...
  Binding,     \* the Pancake store and product, a selection beside the form
  Values,      \* option values; Empty is one of them
  Empty,
  InitValue,   \* the value of every option when the page is opened
  MaxVersion   \* bound on the configuration version

Fields == Plain \cup {Binding}

ASSUME SettingsAssumption ==
  /\ {Empty, InitValue} \subseteq Values
  /\ MaxVersion \in Nat \ {0}
  /\ Binding \notin Plain
  /\ IsFiniteSet(Fields)

VARIABLES
  db, dbver,   \* the options table: values and PaymentConfigurationVersion
  cache,       \* node -> [val, ver], its OptionMap
  job,         \* node -> the holder of its payment configuration lock
  data,        \* [val, ver] of the query 'system-options', the page's props
  ver,         \* configVersionRef
  base,        \* initialRef, the values a save is compared with
  saved,       \* waffoPancakeSavedBindingRef
  op,          \* the operation the page has under way
  verifying,   \* the operation whose dialog was confirmed, while verify() runs
  rival,       \* the other protected operation has the dialog
  displaced,   \* since the confirmation another operation took the dialog over
  fetch        \* the request for the options under way

server == <<db, dbver, cache, job>>
page == <<data, ver, base, saved>>
dialog == <<verifying, rival, displaced>>
vars == <<server, page, op, dialog, fetch>>

Snapshot == [val: [Fields -> Values], ver: 1..MaxVersion]
NoJob == [todo |-> {}, val |-> <<>>, ver |-> 0, owner |-> "free"]
NoFetch == [step |-> "none"]
NoOp == [kind |-> "none", step |-> "none", vals |-> <<>>, seen |-> <<>>,
         expected |-> 0, node |-> "none", next |-> 0, clean |-> FALSE,
         rerun |-> FALSE]
Rival == [NoOp EXCEPT !.kind = "rival", !.step = "dialog"]

OfForm(val) == [f \in Plain |-> val[f]]

SettingsInit ==
  /\ db = [f \in Fields |-> InitValue] /\ dbver = 1
  /\ cache = [n \in Nodes |-> [val |-> db, ver |-> 1]]
  /\ job = [n \in Nodes |-> NoJob]
  /\ data = [val |-> db, ver |-> 1]
  /\ ver = 1
  /\ base = OfForm(db) /\ saved = db[Binding]
  /\ op = NoOp /\ verifying = NoOp /\ fetch = NoFetch
  /\ rival = FALSE /\ displaced = FALSE

----------------------------------------------------------------------------
(* The cluster: one compare-and-set on the table, then the OptionMap of the *)
(* node that committed, key by key and the version last.                    *)

Free(n) == job[n].owner = "free"

\* loadOptionsFromDatabase: one SELECT of all options, under the lock.
ReloadOptions(n) ==
  /\ Free(n) /\ cache[n].ver # dbver
  /\ job' = [job EXCEPT ![n] = [todo |-> Fields, val |-> db, ver |-> dbver,
                                owner |-> "reload"]]
  /\ UNCHANGED <<db, dbver, cache, page, op, dialog, fetch>>

\* updateOptionMap of one key; the keys come in a fixed order.
ApplyOption(n) ==
  LET f == CHOOSE x \in job[n].todo : TRUE IN
  /\ job[n].todo # {}
  /\ cache' = [cache EXCEPT ![n].val[f] = job[n].val[f]]
  /\ job' = [job EXCEPT ![n].todo = @ \ {f}]
  /\ UNCHANGED <<db, dbver, page, op, dialog, fetch>>

\* The version comes last.  An error after the commit (a key that does not
\* apply and is reloaded, the readiness of secret storage) answers 500.
ApplyVersion(n) ==
  /\ ~Free(n) /\ job[n].todo = {}
  /\ cache' = [cache EXCEPT ![n].ver = job[n].ver]
  /\ job' = [job EXCEPT ![n] = NoJob]
  /\ IF job[n].owner = "page"
     THEN \E answer \in {"ok", "failed"} : op' = [op EXCEPT !.step = answer]
     ELSE UNCHANGED op
  /\ UNCHANGED <<db, dbver, page, dialog, fetch>>

\* A key does not apply, and neither does the reload that is tried then: the map
\* is left half written, with the version it had.
ApplyFails(n) ==
  /\ ~Free(n)
  /\ job' = [job EXCEPT ![n] = NoJob]
  /\ op' = IF job[n].owner = "page" THEN [op EXCEPT !.step = "failed"] ELSE op
  /\ UNCHANGED <<db, dbver, cache, page, dialog, fetch>>

\* updatePaymentOptionsWithVersionLockHeld with a matching expected version.
Commit(n, vals, owner) ==
  /\ db' = [f \in Fields |-> IF f \in DOMAIN vals THEN vals[f] ELSE db[f]]
  /\ dbver' = dbver + 1
  /\ job' = [job EXCEPT ![n] = [todo |-> DOMAIN vals, val |-> db', ver |-> dbver',
                                owner |-> owner]]

\* Another session: its page, the compliance confirmation, ServerAddress.
\* Each synchronizes its node first, so what it commits is up to date there.
OtherSession(n) ==
  /\ Free(n) /\ cache[n].ver = dbver /\ dbver < MaxVersion
  /\ \E S \in {{}} \cup {{f} : f \in Fields} : \E vals \in [S -> Values] :
       (\A f \in S : vals[f] # db[f]) /\ Commit(n, vals, "other")
  /\ UNCHANGED <<cache, page, op, dialog, fetch>>

\* The server demands verification.  withVerification: startVerification asks for
\* the methods of the account first.  A second demand after a verification ends
\* the operation.
VerificationDemanded == op' = IF op.rerun THEN NoOp ELSE [op EXCEPT !.step = "methods"]

\* invalidateQueries drops a request under way and asks again.
Asked == [step |-> "asked"]
Refresh == /\ op' = [NoOp EXCEPT !.step = "refreshing", !.rerun = op.rerun]
           /\ fetch' = Asked

\* Mutant: the node is not synchronized before a write.
ReceiveWriteUnsynced(n) ==
  /\ op.step = "sent"
  /\ VerificationDemanded \/ op' = [op EXCEPT !.step = "synced", !.node = n]
  /\ UNCHANGED <<server, page, dialog, fetch>>

\* SecureVerificationRequired (the session was verified in the last five minutes
\* or it was not), then SyncPaymentConfigurationIfStale.
ReceiveWrite(n) ==
  /\ op.step = "sent"
  /\ \/ VerificationDemanded
     \/ cache[n].ver = dbver
        /\ op' = [op EXCEPT !.step = "synced", !.node = n]
  /\ UNCHANGED <<server, page, dialog, fetch>>

\* UpdatePaymentSettings and SaveWaffoPancake under the node's lock: refused
\* by a version that has moved or a precondition (409), by validation or by a
\* database error (the page only reports it), or committed.
WriteSettings ==
  LET n == op.node IN
  /\ op.step = "synced" /\ Free(n)
  /\ \/ op.expected = dbver /\ dbver < MaxVersion
        /\ Commit(n, op.vals, "page")
        /\ op' = [op EXCEPT !.step = "applying", !.next = dbver + 1]
        /\ UNCHANGED fetch
     \/ Refresh /\ UNCHANGED <<db, dbver, job>>
     \/ op' = NoOp /\ UNCHANGED <<db, dbver, job, fetch>>
  /\ UNCHANGED <<cache, page, dialog>>

----------------------------------------------------------------------------
(* The query 'system-options'.                                             *)

\* A refetch nobody on the page asked for: the network is back, the data stale.
Refetch ==
  /\ fetch = NoFetch
  /\ fetch' = Asked
  /\ UNCHANGED <<server, page, op, dialog>>

\* GetOptions: SyncPaymentConfigurationIfStale finds the node up to date ...
SyncForRead(n) ==
  /\ fetch.step = "asked" /\ cache[n].ver = dbver
  /\ fetch' = [step |-> "synced", node |-> n]
  /\ UNCHANGED <<server, page, op, dialog>>

\* ... and a moment later the map is read, in one hold of its own lock only.
ReadOptions ==
  /\ fetch.step = "synced"
  /\ fetch' = [step |-> "answered", data |-> cache[fetch.node]]
  /\ UNCHANGED <<server, page, op, dialog>>

\* An operation that waits for refreshSystemOptions ends with it.
EndRefresh == op' = IF op.step = "refreshing" THEN NoOp ELSE op

FetchFails ==
  /\ fetch # NoFetch
  /\ fetch' = NoFetch
  /\ EndRefresh
  /\ UNCHANGED <<server, page, dialog>>

\* The effects run when a prop differs from the one rendered before, whatever
\* the refs hold by then.
VersionEffect(d) == ver' = IF d.ver # data.ver THEN d.ver ELSE ver

\* initialRef follows the values only when their signature changes (form.reset,
\* which keeps what was typed, goes with it).
DefaultsEffect(d) ==
  base' = IF OfForm(d.val) # OfForm(data.val) THEN OfForm(d.val) ELSE base

BindingEffect(d) ==
  saved' = IF d.val[Binding] # data.val[Binding] THEN d.val[Binding] ELSE saved

FetchLands ==
  /\ fetch.step = "answered"
  /\ VersionEffect(fetch.data) /\ DefaultsEffect(fetch.data) /\ BindingEffect(fetch.data)
  /\ data' = fetch.data
  /\ fetch' = NoFetch
  /\ EndRefresh
  /\ UNCHANGED <<server, dialog>>

\* The browser reloads the page: everything starts from a fresh answer.
ReloadPage ==
  /\ fetch.step = "answered" /\ op = NoOp
  /\ data' = fetch.data /\ ver' = fetch.data.ver
  /\ base' = OfForm(fetch.data.val) /\ saved' = fetch.data.val[Binding]
  /\ fetch' = NoFetch
  /\ verifying' = NoOp /\ rival' = FALSE /\ displaced' = FALSE
  /\ UNCHANGED <<server, op>>

----------------------------------------------------------------------------
(* The operations of the page.  What the form holds is the user's: a save  *)
(* may find any value in it.                                               *)

\* The refs say exactly what the page last loaded.
InStep == ver = data.ver /\ base = OfForm(data.val) /\ saved = data.val[Binding]

\* The dialog lies over the page, from its opening to the end of what it ran.
DialogOpen == op.step = "dialog" \/ op.rerun \/ rival

\* The flags of the page let no second one of these operations in.
Start(kind, vals, seen, expected, step) ==
  /\ op = NoOp /\ ~DialogOpen
  /\ op' = [NoOp EXCEPT !.kind = kind, !.step = step, !.vals = vals,
                        !.seen = seen, !.expected = expected, !.clean = InStep]
  /\ UNCHANGED <<server, page, dialog, fetch>>

\* submitPaymentSettings of any section but Pancake: what differs from initial.
SaveSection ==
  \E S \in SUBSET Plain \ {{}} : \E vals \in [S -> Values] :
    /\ \A f \in S : vals[f] # base[f]
    /\ Start("general", vals, [f \in S |-> base[f]], ver, "sent")

\* The Pancake section, once store and product are picked.
SavePancake ==
  \E v \in Values \ {saved, Empty} :
    Start("pancake", [f \in {Binding} |-> v], [f \in {Binding} |-> saved], ver, "sent")

\* clearPaymentSecret and revokePreviousPaymentCredential.
ChangeSecret == Start("secret", <<>>, <<>>, ver, "sent")

\* The emergency control of a provider with a retained credential: a preview
\* with a version of its own, and the operation bound to that version.
OpenPreview(n) ==
  /\ cache[n].ver = dbver
  /\ Start("disable", [f \in {Binding} |-> Empty], <<>>, cache[n].ver, "preview")

ConfirmPreview ==
  /\ op.step = "preview"
  /\ op' = [op EXCEPT !.step = "sent"]
  /\ UNCHANGED <<server, page, dialog, fetch>>

ClosePreview ==
  /\ op.step = "preview"
  /\ op' = NoOp
  /\ UNCHANGED <<server, page, dialog, fetch>>

\* mutatePaymentSettings and the callbacks of its callers.
AnswerOk ==
  /\ op.step = "ok"
  /\ Refresh
  /\ ver' = IF op.kind = "disable" /\ op.next <= ver THEN ver ELSE op.next
  /\ base' = [f \in Plain |-> IF f \in DOMAIN op.vals THEN op.vals[f] ELSE base[f]]
  /\ saved' = IF Binding \in DOMAIN op.vals THEN op.vals[Binding] ELSE saved
  /\ UNCHANGED <<server, data, dialog>>

\* Any other error is reported, and the operation is over.
AnswerError ==
  /\ op.step = "failed"
  /\ op' = NoOp
  /\ UNCHANGED <<server, page, dialog, fetch>>

\* The connection breaks: the write was lost, or its answer is.
GiveUp ==
  /\ op.step \in {"sent", "applying", "ok", "failed"}
  /\ op' = NoOp
  /\ job' = [n \in Nodes |-> IF job[n].owner = "page" THEN [job[n] EXCEPT !.owner = "other"]
                             ELSE job[n]]
  /\ UNCHANGED <<db, dbver, cache, page, dialog, fetch>>

----------------------------------------------------------------------------
(* useSecureVerification.                                                  *)

\* startVerification has the methods: the operation becomes the pending call,
\* whoever's that was before.  Without a method there is no dialog, and one that
\* opens while the rival is being run is closed with the rival's end, unconfirmed.
OpenDialog ==
  /\ op.step = "methods"
  /\ \/ op' = NoOp /\ UNCHANGED dialog
     \/ /\ op' = [op EXCEPT !.step = "dialog"]
        /\ rival' = FALSE
        /\ displaced' = (displaced \/ (verifying # NoOp /\ rival))
        /\ UNCHANGED verifying
  /\ UNCHANGED <<server, page, fetch>>

\* The same for the rival, which asked for its methods at some earlier time.
RivalOpensDialog ==
  /\ ~rival /\ ~op.rerun
  /\ rival' = TRUE
  /\ op' = IF op.step = "dialog" THEN NoOp ELSE op
  /\ displaced' = (displaced \/ (verifying # NoOp /\ op.step = "dialog"))
  /\ UNCHANGED <<server, page, verifying, fetch>>

\* executeVerification, up to its await of verify().
ConfirmDialog ==
  /\ verifying = NoOp /\ ~op.rerun
  /\ \/ op.step = "dialog" /\ verifying' = op
     \/ rival /\ verifying' = Rival
  /\ UNCHANGED <<server, page, op, rival, displaced, fetch>>

\* verify() succeeded: the call that is pending now is claimed and run, whoever's
\* it is; without one nothing is.  The rival is run at once: until it ends, the
\* dialog lies over the page, and nothing of the page can be started.
RunsPending(expected) ==
  /\ verifying # NoOp
  /\ verifying' = NoOp
  /\ op' = IF op.step # "dialog" THEN op
           ELSE [op EXCEPT !.step = "sent", !.rerun = TRUE, !.expected = expected]
  /\ rival' = FALSE
  /\ displaced' = FALSE
  /\ UNCHANGED <<server, page, fetch>>

\* Mutant: every operation reads configVersionRef when it runs.
VerifySucceedsRereads == RunsPending(ver)

\* The Pancake save reads configVersionRef again when it runs.
VerifySucceeds == RunsPending(IF op.kind = "pancake" THEN ver ELSE op.expected)

VerifyFails ==
  /\ verifying # NoOp
  /\ verifying' = NoOp /\ displaced' = FALSE
  /\ UNCHANGED <<server, page, op, rival, fetch>>

CloseDialog ==
  /\ op.step = "dialog" \/ rival
  /\ op' = IF op.step = "dialog" THEN NoOp ELSE op
  /\ rival' = FALSE
  /\ UNCHANGED <<server, page, verifying, displaced, fetch>>

\* Mutant: the dialog can be closed while verify() runs.
CancelDialogAnytime == CloseDialog

\* The dialog can be closed only while nothing is being verified.
CancelDialog == verifying = NoOp /\ CloseDialog

----------------------------------------------------------------------------
Cluster == \E n \in Nodes : \/ ReloadOptions(n) \/ ApplyOption(n) \/ ApplyVersion(n)
                            \/ ApplyFails(n)
                            \/ ReceiveWrite(n)

Query == (\E n \in Nodes : SyncForRead(n)) \/ ReadOptions \/ FetchFails \/ FetchLands

Answers == AnswerOk \/ AnswerError

User ==
  \/ SaveSection \/ SavePancake \/ ChangeSecret
  \/ \E n \in Nodes : OpenPreview(n)
  \/ ConfirmPreview \/ ClosePreview \/ ConfirmDialog \/ CancelDialog \/ ReloadPage

Next ==
  \/ Cluster \/ WriteSettings \/ Query \/ Answers \/ User
  \/ \E n \in Nodes : OtherSession(n)
  \/ Refetch \/ GiveUp \/ OpenDialog \/ VerifySucceeds \/ VerifyFails
  \/ RivalOpensDialog

SettingsSpec == SettingsInit /\ [][Next]_vars

----------------------------------------------------------------------------
(* Properties.                                                             *)

\* Every variable keeps the shape the code gives it.
SettingsTypeOK ==
  /\ db \in [Fields -> Values] /\ dbver \in 1..MaxVersion
  /\ cache \in [Nodes -> Snapshot] /\ data \in Snapshot
  /\ \A n \in Nodes : job[n].todo \subseteq Fields
  /\ ver \in 1..MaxVersion
  /\ base \in [Plain -> Values] /\ saved \in Values
  /\ op.expected \in 0..MaxVersion /\ op.next \in 0..MaxVersion
  /\ DOMAIN op.vals \subseteq Fields
  /\ {rival, displaced} \subseteq BOOLEAN

\* No copy of the settings claims a version it does not hold: an OptionMap, an
\* answer under way or the data of a page that carries the current version has
\* the current values, although maps are filled key by key, by two writers, and
\* read in between (version last; synchronize before compare-and-set).
Answered == IF fetch.step = "answered" THEN {fetch.data} ELSE {}
NoCopyIsAhead ==
  \A s \in {cache[n] : n \in Nodes} \cup Answered \cup {data} :
    s.ver = dbver => s.val = db

\* The step in which a write of the page is accepted, and whether it overwrites
\* a value the page did not know of when the write was submitted.
Accepted == op.step = "synced" /\ op'.step = "applying"
Blind == \E f \in DOMAIN op.seen : db[f] # op.seen[f]

\* A save of a page whose refs agree with what it last loaded never overwrites a
\* value the page had not loaded when the save was submitted, also after a
\* verification dialog during which newer settings arrived.  (The Pancake save
\* is bound to its submission only when no dialog came in between: VerifySucceeds.)
SaveIsNotBlind ==
  [][ Accepted /\ op.clean /\ ~(op.kind = "pancake" /\ op.rerun) => ~Blind ]_vars

\* What runs after a verification is what the administrator confirmed, or else what
\* took the open dialog over while the code was being verified: a dialog that was
\* cancelled, an operation that ended or one that is not yet, or no longer, in the
\* dialog is never run by it (pendingApiCallRef, read after verify()).
ConfirmedOperationRuns ==
  [][ /\ op'.rerun /\ ~op.rerun => verifying = op \/ displaced
      /\ VerifySucceeds /\ rival => verifying = Rival \/ displaced ]_vars
=============================================================================
